------------------------------- MODULE Budget -------------------------------
(***************************************************************************)
(* The monthly token budget of one tenant in one period.                   *)
(*                                                                         *)
(* BudgetResolver checks the recorded usage before a call (_pre_check,     *)
(* through the PrecheckCache of the process), lets the provider answer and *)
(* writes the new total after it (_post_record).  One action per database  *)
(* statement and per slice of the event loop between two awaits.           *)
(*                                                                         *)
(* Defaults of the deployment: tenant_budget_pre_check_use_db is on, and   *)
(* the factory passes a PrecheckCache but neither a credit service nor a   *)
(* per-model cache.                                                        *)
(***************************************************************************)
EXTENDS Naturals

CONSTANTS
    Calls,         \* LLM calls of the tenant
    Cap,           \* hard_cap_tokens
    SoftWarn,      \* soft_warn_tokens
    MaxCost,       \* the most tokens a call consumes (a bound)
    Admin,         \* whether the admin API reads the usage
    Faults,        \* whether a call may be cancelled at an await
    NULL

ASSUME BudgetAssumption ==
    /\ Cap \in Nat \ {0} /\ SoftWarn \in Nat /\ MaxCost \in Nat \ {0}
    /\ Admin \in BOOLEAN /\ Faults \in BOOLEAN
    /\ NULL \notin Nat /\ NULL \notin [used : Nat, warned : BOOLEAN]

VARIABLES
    snap,      \* the tenant_budget_snapshots row, or NULL
    cache,     \* the PrecheckCache entry: the usage it was decided on
    call,      \* the local state of each call
    spent,     \* ghost: the tokens the provider has really consumed
    raced,     \* ghost: a total was written over a newer one, or not at all
    overlap,   \* ghost: two calls were under way together
    warns      \* how often the soft warning has fired

vars == <<snap, cache, call, spent, raced, overlap, warns>>

CallType ==
    [pc   : {"idle", "check", "load", "refresh", "store", "invoke", "read",
             "rebuild", "write", "drop", "done"},
     seen : Nat \cup {NULL},    \* tokens_used of the row that was read
     warned : BOOLEAN,          \* soft_warn_fired_at of that row
     hard : BOOLEAN,            \* the budget it was built with has a hard cap
     cost : Nat,
     res  : {"ok", "refused", "failed", NULL}]
NewCall == [pc |-> "idle", seen |-> NULL, warned |-> FALSE, hard |-> TRUE,
            cost |-> 0, res |-> NULL]

Init ==
    /\ snap = NULL
    /\ cache = NULL
    /\ call = [c \in Calls |-> NewCall]
    /\ spent = 0
    /\ raced = FALSE
    /\ overlap = FALSE
    /\ warns = 0

Goto(c, l) == call' = [call EXCEPT ![c].pc = l]
End(c, s) == call' = [call EXCEPT ![c].pc = "done", ![c].res = s]
Active == {c \in Calls : call[c].pc \notin {"idle", "done"}}

(* SUM(llm_usage): calls that go through ainvoke enqueue no usage row, and *)
(* the rows a stream enqueues are never flushed.                           *)
SumUsage == 0

(* _compute_effective_cap without a credit service.                        *)
EffectiveCap == Cap

-----------------------------------------------------------------------------
(* ainvoke or ainvoke_stream is called, with the budget row as it was when *)
(* the resolver was built; without hard_cap_tokens nothing is checked.     *)
Begin(c) ==
    /\ call[c].pc = "idle"
    /\ overlap' = (overlap \/ Active # {})
    /\ \/ Goto(c, "check")
       \/ call' = [call EXCEPT ![c].pc = "invoke", ![c].hard = FALSE]
    /\ UNCHANGED <<snap, cache, spent, raced, warns>>

(* snap.tokens_used >= effective_cap.                                      *)
Decision(used) == IF used >= EffectiveCap THEN "refused" ELSE "admitted"

Decide(c, used) ==
    IF Decision(used) = "refused" THEN End(c, "refused") ELSE Goto(c, "invoke")

(* PrecheckCache.get_or_load: a hit, or the loader is awaited.             *)
Check(c) ==
    /\ call[c].pc = "check"
    /\ IF cache # NULL THEN Decide(c, cache) ELSE Goto(c, "load")
    /\ UNCHANGED <<snap, cache, spent, raced, overlap, warns>>

(* The entry's time to live passes.                                        *)
Expire ==
    /\ cache # NULL
    /\ cache' = NULL
    /\ UNCHANGED <<snap, call, spent, raced, overlap, warns>>

(* get_for_tenant_period, and where to go on: next with a row, and missing *)
(* without one.                                                            *)
ReadRow(c, next, missing) ==
    call' = IF snap = NULL THEN [call EXCEPT ![c].pc = missing]
            ELSE [call EXCEPT ![c].pc = next, ![c].seen = snap.used,
                              ![c].warned = snap.warned]

(* The row refresh leaves behind: the sum, and the old soft_warn_fired_at. *)
Refreshed ==
    [used |-> SumUsage, warned |-> IF snap = NULL THEN FALSE ELSE snap.warned]

(* Ghost: writing the row replaces a total other than n.                   *)
Overwrites(n) == snap # NULL /\ snap.used # n

(* repo.refresh, serialised by the advisory lock.                          *)
RefreshRow(c, next) ==
    /\ snap' = Refreshed
    /\ call' = [call EXCEPT ![c].pc = next, ![c].seen = Refreshed.used,
                            ![c].warned = Refreshed.warned]
    /\ raced' = (raced \/ Overwrites(SumUsage))

Load(c) ==
    /\ call[c].pc = "load"
    /\ ReadRow(c, "store", "refresh")
    /\ UNCHANGED <<snap, cache, spent, raced, overlap, warns>>

RefreshOnCheck(c) ==
    /\ call[c].pc = "refresh"
    /\ RefreshRow(c, "store")
    /\ UNCHANGED <<cache, spent, overlap, warns>>

(* The loader returns: the value is cached, then decided on.               *)
Store(c) ==
    /\ call[c].pc = "store"
    /\ cache' = call[c].seen
    /\ Decide(c, call[c].seen)
    /\ UNCHANGED <<snap, spent, raced, overlap, warns>>

(* The provider answers, with or without a token count, or the call fails  *)
(* (the 429 gate included).  A stream without a hard cap records nothing.  *)
Invoke(c) ==
    /\ call[c].pc = "invoke"
    /\ \/ \E n \in 1..MaxCost :
             /\ spent' = spent + n
             /\ call' = [call EXCEPT ![c].pc = "read", ![c].cost = n]
             /\ UNCHANGED raced
       \/ \E n \in 1..MaxCost :
             /\ ~call[c].hard
             /\ spent' = spent + n
             /\ End(c, "ok")
             /\ raced' = TRUE
       \/ /\ \E s \in {"ok", "failed"} : End(c, s)
          /\ UNCHANGED <<spent, raced>>
    /\ UNCHANGED <<snap, cache, overlap, warns>>

(* _post_record reads the row again.                                       *)
Read(c) ==
    /\ call[c].pc = "read"
    /\ ReadRow(c, "write", "rebuild")
    /\ UNCHANGED <<snap, cache, spent, raced, overlap, warns>>

RefreshOnRecord(c) ==
    /\ call[c].pc = "rebuild"
    /\ RefreshRow(c, "write")
    /\ UNCHANGED <<cache, spent, overlap, warns>>

(* Mutant: the cost is added twice.                                        *)
NewUsed_Twice(c) == call[c].seen + 2 * call[c].cost

(* Mutant: the cost replaces the total.                                    *)
NewUsed_Replaces(c) == call[c].cost

NewUsed(c) == call[c].seen + call[c].cost

(* The threshold is crossed and the warning has not fired in this period.  *)
FiresWarn(c) ==
    /\ ~call[c].warned
    /\ call[c].seen < SoftWarn /\ SoftWarn <= NewUsed(c)

(* set_tokens_used: an UPSERT of the total computed from the read.         *)
Write(c) ==
    /\ call[c].pc = "write"
    /\ snap' = [used |-> NewUsed(c),
                warned |-> FiresWarn(c) \/ call[c].warned
                           \/ (snap # NULL /\ snap.warned)]
    /\ raced' = (raced \/ Overwrites(call[c].seen))
    /\ warns' = IF FiresWarn(c) THEN warns + 1 ELSE warns
    /\ Goto(c, "drop")
    /\ UNCHANGED <<cache, spent, overlap>>

(* Mutant: the cache entry survives the write.                             *)
Invalidate_Not(c) ==
    /\ call[c].pc = "drop"
    /\ End(c, "ok")
    /\ UNCHANGED <<snap, cache, spent, raced, overlap, warns>>

(* The UPSERT has returned: the entry is dropped.                          *)
Invalidate(c) ==
    /\ call[c].pc = "drop"
    /\ cache' = NULL
    /\ End(c, "ok")
    /\ UNCHANGED <<snap, spent, raced, overlap, warns>>

(* The caller goes away, a timeout cancels the call, or a statement fails; *)
(* a stream outlives a record that fails.                                  *)
Recording == {"read", "rebuild", "write", "drop"}
Cancel(c) ==
    /\ Faults
    /\ c \in Active
    /\ \/ End(c, "failed")
       \/ call[c].pc \in Recording /\ End(c, "ok")
    /\ raced' = (raced \/ call[c].pc \in Recording)
    /\ UNCHANGED <<snap, cache, spent, overlap, warns>>

(* GET budget/usage refreshes the row.                                     *)
AdminRead ==
    /\ Admin
    /\ snap' = Refreshed
    /\ raced' = (raced \/ Overwrites(SumUsage))
    /\ UNCHANGED <<cache, call, spent, overlap, warns>>

-----------------------------------------------------------------------------
Step(c) ==
    \/ Check(c) \/ Load(c) \/ RefreshOnCheck(c) \/ Store(c) \/ Invoke(c)
    \/ Read(c) \/ RefreshOnRecord(c) \/ Write(c) \/ Invalidate(c)

Next ==
    \/ \E c \in Calls : Begin(c) \/ Step(c) \/ Cancel(c)
    \/ Expire \/ AdminRead

Spec == Init /\ [][Next]_vars

-----------------------------------------------------------------------------
(* Type correctness.                                                       *)
TypeOK ==
    /\ snap \in [used : Nat, warned : BOOLEAN] \cup {NULL}
    /\ cache \in Nat \cup {NULL}
    /\ call \in [Calls -> CallType]
    /\ spent \in Nat
    /\ raced \in BOOLEAN
    /\ overlap \in BOOLEAN
    /\ warns \in Nat

(* A tenant is never charged for tokens that were not consumed: the races  *)
(* of overlapping calls only lose updates.                                 *)
NeverOvercharged == snap # NULL => snap.used <= spent

(* A call is refused only when the tenant has really used up the cap,      *)
(* however stale the cached decision is.                                   *)
RefusedOnlyAtCap ==
    [][\A c \in Calls :
          call'[c].res = "refused" /\ call[c].res # "refused" => spent >= Cap]_vars

(* The recorded usage is exact as long as no total was written over a      *)
(* newer one and no record was lost.                                       *)
ExactUnlessRaced ==
    ~raced /\ (\A c \in Calls : call[c].pc \notin {"read", "rebuild", "write"})
        => IF snap = NULL THEN spent = 0 ELSE snap.used = spent

(* As long as all calls have the cap, do not overlap and lose no record,   *)
(* the cap is overshot by at most the last call: neither the cached        *)
(* decision nor the first call of the period lets a second one past it.    *)
CapRespected ==
    ~raced /\ ~overlap /\ (\A c \in Calls : call[c].hard) => spent < Cap + MaxCost

(* The soft warning fires at most once per period as long as calls do not  *)
(* overlap, also when a refresh takes the total back below the threshold.  *)
WarnedOnce == ~overlap => warns <= 1
=============================================================================
