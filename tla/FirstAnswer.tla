---------------------------- MODULE FirstAnswer -----------------------------
(***************************************************************************)
(* What a chain of providers promises each request: the candidates are     *)
(* asked one after the other, the first answer is the result, the request  *)
(* is given up only when all have failed, and it may be refused on the     *)
(* way; once there is a result nobody is asked any more.                   *)
(***************************************************************************)
EXTENDS Naturals

CONSTANTS Requests, Pending, Exhausted, Refused

VARIABLES
    candidates, \* how many candidates each request has
    failed,     \* how many of them have failed
    result      \* the candidate that answered, or how the request ended

vars == <<candidates, failed, result>>

Init ==
    /\ candidates \in [Requests -> Nat]
    /\ failed = [r \in Requests |-> 0]
    /\ result = [r \in Requests |-> Pending]

Fail(r) ==
    /\ result[r] = Pending /\ failed[r] + 1 < candidates[r]
    /\ failed' = [failed EXCEPT ![r] = @ + 1]
    /\ UNCHANGED <<candidates, result>>

Answer(r) ==
    /\ result[r] = Pending /\ failed[r] < candidates[r]
    /\ result' = [result EXCEPT ![r] = failed[r] + 1]
    /\ UNCHANGED <<candidates, failed>>

(* The last candidate fails.                                               *)
GiveUp(r) ==
    /\ result[r] = Pending /\ failed[r] + 1 = candidates[r]
    /\ failed' = [failed EXCEPT ![r] = @ + 1]
    /\ result' = [result EXCEPT ![r] = Exhausted]
    /\ UNCHANGED candidates

(* A candidate finds the request itself at fault.                          *)
Refuse(r) ==
    /\ result[r] = Pending
    /\ result' = [result EXCEPT ![r] = Refused]
    /\ UNCHANGED <<candidates, failed>>

Next == \E r \in Requests : Fail(r) \/ Answer(r) \/ GiveUp(r) \/ Refuse(r)

Spec == Init /\ [][Next]_vars
=============================================================================
