--------------------------- MODULE MCEmailInbound ---------------------------
(* Instances of EmailInbound for TLC.                                      *)
EXTENDS EmailInbound, TLC

(* Mails, deliveries and customers are interchangeable.                    *)
Symmetry ==
    Permutations(Mails) \cup Permutations(Deliveries) \cup Permutations(Customers)
=============================================================================
