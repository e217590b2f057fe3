--------------------------- MODULE MCConversation ---------------------------
(* Instances of Conversation for TLC.                                      *)
EXTENDS Conversation, TLC

CONSTANTS k1, t1, t2

(* The customers belong to the first tenant; a second one has only staff.  *)
OneTenant == [k \in Customers |-> t1]
StaffTwo == [t \in Tenants |-> {1, 2}]
StaffOne == [t \in Tenants |-> {1}]

(* Nothing in the specification tells one conversation id from another, or *)
(* one request from another.                                               *)
Symmetry == Permutations(Conv) \cup Permutations(Reqs)
=============================================================================
