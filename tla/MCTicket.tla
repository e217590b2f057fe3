------------------------------ MODULE MCTicket ------------------------------
(* Instances of Ticket for TLC.                                            *)
EXTENDS Ticket
=============================================================================
