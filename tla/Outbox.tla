------------------------------- MODULE Outbox -------------------------------
(***************************************************************************)
(* The transactional outbox and its dispatcher.                            *)
(*                                                                         *)
(* Every worker runs dispatch_batch again and again: it selects the first  *)
(* Limit pending events that are due and calls dispatch_one for each.      *)
(* dispatch_one reads the row without a lock, awaits the handler and       *)
(* writes the row back from what it read.  Events are numbered in the      *)
(* order of created_at; next_attempt_at is abstracted to whether it has    *)
(* passed.                                                                 *)
(***************************************************************************)
EXTENDS Naturals, FiniteSets

CONSTANTS
    N,             \* events
    Workers,       \* processes that run the periodic task
    MaxAttempts,   \* max_attempts
    Limit,         \* dispatch_batch limit
    Unregistered,  \* events whose type has no handler
    Faults,        \* whether a worker may stop in the middle of a batch
    None

ASSUME OutboxAssumption ==
    /\ N \in Nat
    /\ MaxAttempts \in Nat \ {0}
    /\ Limit \in Nat \ {0}
    /\ Unregistered \subseteq 1..N
    /\ Faults \in BOOLEAN
    /\ None \notin Nat

Events == 1..N

VARIABLES
    status,      \* outbox_events.status, "absent" before the INSERT
    attempts,    \* outbox_events.attempts
    due,         \* next_attempt_at is NULL or has passed
    w,           \* the local state of each worker
    succeeded,   \* ghost: a call of the handler has returned
    failures     \* ghost: calls that raised, counted up to MaxAttempts

outboxVars == <<status, attempts, due, w, succeeded, failures>>

Worker ==
    [pc    : {"idle", "loop", "call", "settle"},
     batch : SUBSET Events,           \* the ids still to dispatch
     event : Events \cup {None},
     seen  : 0..MaxAttempts,          \* attempts of the row that was read
     ok    : BOOLEAN]                 \* the handler returned
Resting == [pc |-> "idle", batch |-> {}, event |-> None, seen |-> 0, ok |-> FALSE]

OutboxInit ==
    /\ status = [e \in Events |-> "absent"]
    /\ attempts = [e \in Events |-> 0]
    /\ due = [e \in Events |-> TRUE]
    /\ w = [k \in Workers |-> Resting]
    /\ succeeded = [e \in Events |-> FALSE]
    /\ failures = [e \in Events |-> 0]

-----------------------------------------------------------------------------
(* A domain transaction inserts an event.                                  *)
Emit(e) ==
    /\ status[e] = "absent"
    /\ \A f \in Events : f < e => status[f] # "absent"
    /\ status' = [status EXCEPT ![e] = "pending"]
    /\ UNCHANGED <<attempts, due, w, succeeded, failures>>

(* next_attempt_at passes.                                                 *)
BecomeDue(e) ==
    /\ ~due[e]
    /\ due' = [due EXCEPT ![e] = TRUE]
    /\ UNCHANGED <<status, attempts, w, succeeded, failures>>

Due == {e \in Events : status[e] = "pending" /\ due[e]}

(* ORDER BY created_at LIMIT n.                                            *)
First(S, n) == {e \in S : Cardinality({f \in S : f < e}) < n}

(* dispatch_batch: the SELECT.                                             *)
Select(k) ==
    /\ w[k].pc = "idle"
    /\ Due # {}
    /\ w' = [w EXCEPT ![k].pc = "loop", ![k].batch = First(Due, Limit)]
    /\ UNCHANGED <<status, attempts, due, succeeded, failures>>

(* The batch is empty: the task returns.                                   *)
Return(k) ==
    /\ w[k].pc = "loop"
    /\ w[k].batch = {}
    /\ w' = [w EXCEPT ![k] = Resting]
    /\ UNCHANGED <<status, attempts, due, succeeded, failures>>

(* Mutant: dispatch_one trusts the SELECT of the batch.                    *)
Runnable_Unchecked(e) == e \notin Unregistered

(* The early returns of dispatch_one.                                      *)
Runnable(e) == status[e] = "pending" /\ due[e] /\ e \notin Unregistered

(* dispatch_one up to the handler.                                         *)
Load(k) ==
    /\ w[k].pc = "loop"
    /\ \E e \in w[k].batch :
          /\ \A f \in w[k].batch : e <= f
          /\ \/ /\ Runnable(e)
                /\ w' = [w EXCEPT ![k].pc = "call", ![k].batch = @ \ {e},
                                  ![k].event = e, ![k].seen = attempts[e]]
             \/ /\ ~Runnable(e)
                /\ w' = [w EXCEPT ![k].batch = @ \ {e}]
    /\ UNCHANGED <<status, attempts, due, succeeded, failures>>

(* The handler of a registered type: external.                             *)
Call(k) ==
    LET e == w[k].event IN
    /\ w[k].pc = "call"
    /\ \/ /\ w' = [w EXCEPT ![k].pc = "settle", ![k].ok = TRUE]
          /\ succeeded' = [succeeded EXCEPT ![e] = TRUE]
          /\ UNCHANGED failures
       \/ /\ w' = [w EXCEPT ![k].pc = "settle", ![k].ok = FALSE]
          /\ failures' = [failures EXCEPT
                            ![e] = IF @ < MaxAttempts THEN @ + 1 ELSE @]
          /\ UNCHANGED succeeded
    /\ UNCHANGED <<status, attempts, due>>

(* event.attempts >= self.max_attempts.                                    *)
Exhausted(n) == n >= MaxAttempts

(* Mutant: failed attempts are not counted.                                *)
Counted_Not(n) == n

(* event.attempts += 1.                                                    *)
Counted(n) == n + 1

(* Mutant: the error of an exhausted event is swallowed: it is done.       *)
Verdict_Swallows(k) ==
    IF w[k].ok \/ Exhausted(Counted(w[k].seen)) THEN "done" ELSE "pending"

(* The status written back: "pending" leaves the column as it is.          *)
Verdict(k) ==
    IF w[k].ok THEN "done"
    ELSE IF Exhausted(Counted(w[k].seen)) THEN "failed" ELSE "pending"

(* The row is written from what was read, and committed.                   *)
Settle(k) ==
    LET e == w[k].event
        v == Verdict(k)
    IN
    /\ w[k].pc = "settle"
    /\ status' = [status EXCEPT ![e] = IF v = "pending" THEN @ ELSE v]
    /\ attempts' = [attempts EXCEPT ![e] = Counted(w[k].seen)]
    /\ due' = [due EXCEPT ![e] = IF v = "pending" THEN FALSE ELSE @]
    /\ w' = [w EXCEPT ![k].pc = "loop", ![k].event = None, ![k].seen = 0,
                      ![k].ok = FALSE]
    /\ UNCHANGED <<succeeded, failures>>

(* The process stops; the row is as it was.  (At the end of a batch this   *)
(* is Return.)                                                             *)
Stop(k) ==
    /\ Faults
    /\ w[k].pc \in {"call", "settle"} \/ w[k].batch # {}
    /\ w' = [w EXCEPT ![k] = Resting]
    /\ UNCHANGED <<status, attempts, due, succeeded, failures>>

-----------------------------------------------------------------------------
Step(k) == Select(k) \/ Return(k) \/ Load(k) \/ Call(k) \/ Settle(k)

OutboxNext ==
    \/ \E e \in Events : Emit(e) \/ BecomeDue(e)
    \/ \E k \in Workers : Step(k) \/ Stop(k)

OutboxSpec == OutboxInit /\ [][OutboxNext]_outboxVars

(* Time passes, the periodic task is called again and again and a handler  *)
(* that was called comes back.                                             *)
FairSpec ==
    /\ OutboxSpec
    /\ \A e \in Events : WF_outboxVars(BecomeDue(e))
    /\ \A k \in Workers : WF_outboxVars(Step(k))

-----------------------------------------------------------------------------
(* Type correctness; the attempts column never passes max_attempts.        *)
OutboxTypeOK ==
    /\ status \in [Events -> {"absent", "pending", "done", "failed"}]
    /\ attempts \in [Events -> 0..MaxAttempts]
    /\ due \in [Events -> BOOLEAN]
    /\ w \in [Workers -> Worker]
    /\ succeeded \in [Events -> BOOLEAN]
    /\ failures \in [Events -> 0..MaxAttempts]

(* No event is lost: one that is marked done was handled, however the      *)
(* workers overlap and wherever they stop.                                 *)
DoneMeansHandled == \A e \in Events : status[e] = "done" => succeeded[e]

(* No event is given up early: a failed one has failed max_attempts times, *)
(* although concurrent workers overwrite each other's attempts.            *)
FailedMeansExhausted ==
    \A e \in Events : status[e] = "failed" => failures[e] >= MaxAttempts

(* With one worker the dispatcher implements OutboxDelivery.               *)
Delivery == INSTANCE OutboxDelivery WITH state <- status
DeliverySpec == Delivery!Spec

(* Every event that has a handler ends up done or failed once the          *)
(* processes stop crashing: neither backoff, overlapping workers, earlier  *)
(* crashes nor lost updates of attempts retry it for ever.                 *)
CrashesEnd == <>[][\A k \in Workers : ~Stop(k)]_outboxVars
EveryEventSettles ==
    CrashesEnd => \A e \in Events \ Unregistered :
        status[e] = "pending" ~> status[e] \in {"done", "failed"}
=============================================================================
