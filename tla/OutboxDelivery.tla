--------------------------- MODULE OutboxDelivery ---------------------------
(***************************************************************************)
(* What the outbox promises, with one dispatcher: an event is pending      *)
(* until it is done or failed, and stays that way; its handler is called   *)
(* only while it is pending; it is done only after a call that succeeded.  *)
(***************************************************************************)
CONSTANT Events

VARIABLES state, succeeded

Init ==
    /\ state = [e \in Events |-> "absent"]
    /\ succeeded = [e \in Events |-> FALSE]

Emit(e) ==
    /\ state[e] = "absent"
    /\ state' = [state EXCEPT ![e] = "pending"]
    /\ UNCHANGED succeeded

Succeed(e) ==
    /\ state[e] = "pending"
    /\ succeeded' = [succeeded EXCEPT ![e] = TRUE]
    /\ UNCHANGED state

Finish(e) ==
    /\ state[e] = "pending"
    /\ succeeded[e]
    /\ state' = [state EXCEPT ![e] = "done"]
    /\ UNCHANGED succeeded

GiveUp(e) ==
    /\ state[e] = "pending"
    /\ state' = [state EXCEPT ![e] = "failed"]
    /\ UNCHANGED succeeded

Next == \E e \in Events : Emit(e) \/ Succeed(e) \/ Finish(e) \/ GiveUp(e)

Spec == Init /\ [][Next]_<<state, succeeded>>
=============================================================================
