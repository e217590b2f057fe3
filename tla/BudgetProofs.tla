---------------------------- MODULE BudgetProofs ----------------------------
(***************************************************************************)
(* What the token budget guarantees for any number of calls: the races     *)
(* only lose usage, nobody is refused below the cap, and calls that do not *)
(* overlap keep to the cap and fire the warning once.                      *)
(***************************************************************************)
EXTENDS Budget, FiniteSets, FiniteSetTheorems, TLAPS

(* Type correctness.                                                       *)
LEMMA InitType == Init => TypeOK
<1>1. NewCall \in CallType
  BY DEF NewCall, CallType
<1> SUFFICES ASSUME Init PROVE TypeOK
  OBVIOUS
<1>2. call \in [Calls -> CallType]
  BY <1>1 DEF Init
<1>3. snap = NULL /\ cache = NULL /\ spent = 0 /\ warns = 0
  BY DEF Init
<1>4. raced \in BOOLEAN /\ overlap \in BOOLEAN
  BY DEF Init
<1> QED
  BY <1>2, <1>3, <1>4 DEF TypeOK

(* What a row that is there holds, and what refresh makes of it.           *)
LEMMA SnapType ==
    ASSUME TypeOK
    PROVE  /\ snap # NULL => snap.used \in Nat /\ snap.warned \in BOOLEAN
           /\ Refreshed \in [used : Nat, warned : BOOLEAN]
           /\ Refreshed.used = 0 /\ Refreshed.warned \in BOOLEAN
<1>1. snap # NULL => snap.used \in Nat /\ snap.warned \in BOOLEAN
  BY DEF TypeOK
<1> QED
  BY <1>1 DEF Refreshed, SumUsage

(* A call that has read a row.                                             *)
LEMMA WithRow ==
    ASSUME NEW x \in CallType, NEW n \in Nat, NEW b \in BOOLEAN,
           NEW p \in {"store", "write"}
    PROVE  [x EXCEPT !.pc = p, !.seen = n, !.warned = b] \in CallType
BY DEF CallType

LEMMA SetCall ==
    ASSUME TypeOK, NEW c \in Calls, NEW x \in CallType
    PROVE  [call EXCEPT ![c] = x] \in [Calls -> CallType]
BY DEF TypeOK

LEMMA ReadRowType ==
    ASSUME TypeOK, NEW c \in Calls, NEW next \in {"store", "write"},
           NEW missing \in {"refresh", "rebuild"}, ReadRow(c, next, missing)
    PROVE  call' \in [Calls -> CallType]
<1>1. CASE snap = NULL
  BY <1>1 DEF ReadRow, TypeOK, CallType
<1>2. CASE snap # NULL
  <2>1. call' = [call EXCEPT ![c] = [call[c] EXCEPT !.pc = next, !.seen = snap.used,
                                                   !.warned = snap.warned]]
    BY <1>2 DEF ReadRow, TypeOK
  <2>2. [call[c] EXCEPT !.pc = next, !.seen = snap.used, !.warned = snap.warned]
            \in CallType
    BY <1>2, SnapType, WithRow DEF TypeOK
  <2> QED
    BY <2>1, <2>2, SetCall
<1> QED
  BY <1>1, <1>2

LEMMA RefreshRowType ==
    ASSUME TypeOK, NEW c \in Calls, NEW next \in {"store", "write"}, RefreshRow(c, next)
    PROVE  /\ call' \in [Calls -> CallType]
           /\ snap' \in [used : Nat, warned : BOOLEAN] /\ raced' \in BOOLEAN
<1>1. call' = [call EXCEPT ![c] = [call[c] EXCEPT !.pc = next, !.seen = Refreshed.used,
                                                 !.warned = Refreshed.warned]]
  BY DEF RefreshRow, TypeOK
<1>2. [call[c] EXCEPT !.pc = next, !.seen = Refreshed.used,
                      !.warned = Refreshed.warned] \in CallType
  BY SnapType, WithRow DEF TypeOK
<1>3. call' \in [Calls -> CallType]
  BY <1>1, <1>2, SetCall
<1> QED
  BY <1>3, SnapType DEF RefreshRow

(* A call that goes on with what it read has read a number.                *)
Reads == \A c \in Calls : call[c].pc \in {"store", "write"} => call[c].seen \in Nat

LEMMA NextType == TypeOK /\ Reads /\ [Next]_vars => TypeOK'
<1> SUFFICES ASSUME TypeOK, Reads, [Next]_vars PROVE TypeOK'
  OBVIOUS
<1> USE BudgetAssumption DEF TypeOK, CallType, Goto, End
<1>1. CASE UNCHANGED vars
  BY <1>1 DEF vars
<1>2. ASSUME NEW c \in Calls, Begin(c) PROVE TypeOK'
  BY <1>2 DEF Begin
<1>3. ASSUME NEW c \in Calls, Check(c) PROVE TypeOK'
  BY <1>3 DEF Check, Decide
<1>4. ASSUME NEW c \in Calls, Load(c) PROVE TypeOK'
  <2>1. call' \in [Calls -> CallType]
    BY <1>4, ReadRowType DEF Load
  <2> QED
    BY <1>4, <2>1 DEF Load
<1>5. ASSUME NEW c \in Calls, RefreshOnCheck(c) PROVE TypeOK'
  BY <1>5, RefreshRowType DEF RefreshOnCheck
<1>6. ASSUME NEW c \in Calls, Store(c) PROVE TypeOK'
  <2>1. call' \in [Calls -> CallType]
    BY <1>6 DEF Store, Decide
  <2>2. cache' \in Nat \cup {NULL}
    BY <1>6 DEF Store
  <2> QED
    BY <1>6, <2>1, <2>2 DEF Store
<1>7. ASSUME NEW c \in Calls, Invoke(c) PROVE TypeOK'
  <2>1. call' \in [Calls -> CallType]
    BY <1>7 DEF Invoke
  <2>2. spent' \in Nat
    BY <1>7 DEF Invoke
  <2>3. raced' \in BOOLEAN
    BY <1>7 DEF Invoke
  <2> QED
    BY <1>7, <2>1, <2>2, <2>3 DEF Invoke
<1>8. ASSUME NEW c \in Calls, Read(c) PROVE TypeOK'
  <2>1. call' \in [Calls -> CallType]
    BY <1>8, ReadRowType DEF Read
  <2> QED
    BY <1>8, <2>1 DEF Read
<1>9. ASSUME NEW c \in Calls, RefreshOnRecord(c) PROVE TypeOK'
  BY <1>9, RefreshRowType DEF RefreshOnRecord
<1>10. ASSUME NEW c \in Calls, Write(c) PROVE TypeOK'
  <2>1. call' \in [Calls -> CallType]
    BY <1>10 DEF Write
  <2>2. snap' \in [used : Nat, warned : BOOLEAN]
    BY <1>10 DEF Write, NewUsed, Reads
  <2> QED
    BY <1>10, <2>1, <2>2 DEF Write
<1>11. ASSUME NEW c \in Calls, Invalidate(c) PROVE TypeOK'
  <2> DEFINE x == [call[c] EXCEPT !.pc = "done", !.res = "ok"]
  <2>3. call[c] \in CallType /\ call' = [call EXCEPT ![c] = x]
    BY <1>11 DEF Invalidate
  <2>4. x \in CallType
    BY <2>3
  <2>1. call' \in [Calls -> CallType]
    BY <2>3, <2>4, SetCall
  <2>2. cache' = NULL
    BY <1>11 DEF Invalidate
  <2> QED
    BY <1>11, <2>1, <2>2 DEF Invalidate
<1>12. ASSUME NEW c \in Calls, Cancel(c) PROVE TypeOK'
  BY <1>12 DEF Cancel
<1>13. CASE Expire
  BY <1>13 DEF Expire
<1>14. CASE AdminRead
  BY <1>14 DEF AdminRead, Refreshed, SumUsage
<1> QED
  BY <1>1, <1>2, <1>3, <1>4, <1>5, <1>6, <1>7, <1>8, <1>9, <1>10, <1>11, <1>12,
     <1>13, <1>14 DEF Next, Step

LEMMA NextReads == TypeOK /\ Reads /\ [Next]_vars => Reads'
<1> SUFFICES ASSUME TypeOK, Reads, [Next]_vars, NEW d \in Calls,
                    call'[d].pc \in {"store", "write"}
             PROVE  call'[d].seen \in Nat
  BY DEF Reads
<1>1. CASE call'[d] = call[d]
  BY <1>1 DEF Reads
<1>2. CASE call'[d] # call[d]
  <2>1. ~Expire /\ ~AdminRead /\ ~UNCHANGED vars
    BY <1>2 DEF Expire, AdminRead, vars
  <2>2. PICK c \in Calls : Begin(c) \/ Step(c) \/ Cancel(c)
    BY <2>1 DEF Next
  <2>3. ~(Begin(c) \/ Check(c) \/ Store(c) \/ Invoke(c) \/ Write(c) \/ Invalidate(c)
          \/ Cancel(c))
    BY <1>2 DEF Begin, Check, Store, Decide, Invoke, Write, Invalidate, Cancel, Goto, End,
                TypeOK, CallType
  <2>4. CASE Load(c) \/ Read(c)
    BY <2>4, <1>2, SnapType DEF Load, Read, ReadRow, TypeOK, CallType
  <2>5. CASE RefreshOnCheck(c) \/ RefreshOnRecord(c)
    BY <2>5, <1>2, SnapType DEF RefreshOnCheck, RefreshOnRecord, RefreshRow, TypeOK, CallType
  <2> QED
    BY <2>2, <2>3, <2>4, <2>5 DEF Step
<1> QED
  BY <1>1, <1>2

LEMMA InitReads == Init => Reads
BY DEF Init, Reads, NewCall

-----------------------------------------------------------------------------
(* The ledger.  Number the tokens the provider has consumed.  T are the    *)
(* ones the row accounts for, I[c] the ones call c still has to record and *)
(* S[c] the ones the row accounted for when c read it.  No token is owed   *)
(* twice or owed and recorded, whatever the row was when it was read, so   *)
(* a write never records a token twice; as long as nothing raced, every    *)
(* token is recorded or owed.                                              *)
Tokens == 0..(spent - 1)
Owes == {c \in Calls : call[c].pc \in {"read", "rebuild", "write"}}
Used == IF snap = NULL THEN 0 ELSE snap.used

Ledger(T, I, S) ==
    /\ T \subseteq Tokens /\ Cardinality(T) = Used
    /\ \A c \in Calls : I[c] \subseteq Tokens /\ S[c] \subseteq Tokens
    /\ \A c \in Owes : Cardinality(I[c]) = call[c].cost /\ I[c] \cap T = {}
    /\ \A c, d \in Owes : c # d => I[c] \cap I[d] = {}
    /\ \A c \in Owes : call[c].pc = "write" =>
          /\ snap # NULL /\ Cardinality(S[c]) = call[c].seen
          /\ \A d \in Owes : S[c] \cap I[d] = {}
    /\ ~raced => \A t \in Tokens : t \in T \/ \E c \in Owes : t \in I[c]

Charged == \E T, I, S : Ledger(T, I, S)

LEMMA Prefix ==
    ASSUME NEW m \in Nat, NEW n \in Nat, m <= n
    PROVE  0..(m - 1) \subseteq 0..(n - 1)
OBVIOUS

LEMMA FiniteTokens ==
    ASSUME TypeOK, NEW A \in SUBSET Tokens
    PROVE  /\ IsFiniteSet(A) /\ Cardinality(A) \in Nat
           /\ Cardinality(A) <= spent
           /\ A = Tokens => Cardinality(A) = spent
<1>1. spent \in Nat
  BY DEF TypeOK
<1>2. IsFiniteSet(Tokens) /\ Cardinality(Tokens) = spent
  BY <1>1, FS_Interval DEF Tokens
<1> QED
  BY <1>2, FS_Subset, FS_CardinalityType

(* What follows from a ledger.                                             *)
LEMMA ChargedImplies == TypeOK /\ Charged => NeverOvercharged /\ ExactUnlessRaced
<1> SUFFICES ASSUME TypeOK, NEW T, NEW I, NEW S, Ledger(T, I, S)
             PROVE  NeverOvercharged /\ ExactUnlessRaced
  BY DEF Charged
<1>1. T \in SUBSET Tokens /\ Cardinality(T) = Used
  BY DEF Ledger
<1>2. NeverOvercharged
  BY <1>1, FiniteTokens DEF NeverOvercharged, Used
<1>3. ASSUME ~raced, Owes = {} PROVE Used = spent
  <2>1. T = Tokens
    BY <1>1, <1>3 DEF Ledger
  <2> QED
    BY <1>1, <2>1, FiniteTokens
<1>4. ExactUnlessRaced
  BY <1>3 DEF ExactUnlessRaced, Used, Owes
<1> QED
  BY <1>2, <1>4

LEMMA InitCharged == Init => Charged
<1> SUFFICES ASSUME Init PROVE Charged
  OBVIOUS
<1> DEFINE E == [c \in Calls |-> {}]
<1>1. Owes = {} /\ Used = 0 /\ Tokens = {}
  BY DEF Init, Owes, NewCall, Used, Tokens
<1>2. Ledger({}, E, E)
  BY <1>1, FS_EmptySet DEF Ledger
<1> QED
  BY <1>2 DEF Charged

(* A step that leaves the row alone and lets no call owe more: either      *)
(* nothing is lost, or it is counted as a race.                            *)
LEMMA LedgerKept ==
    ASSUME TypeOK, TypeOK', Charged, snap' = snap, Owes' \subseteq Owes, spent <= spent',
           raced' \/ (Owes' = Owes /\ spent' = spent /\ raced' = raced),
           \A c \in Owes' :
               /\ call'[c].cost = call[c].cost
               /\ call'[c].pc = "write" => call[c].pc = "write" /\ call'[c].seen = call[c].seen
    PROVE  Charged'
<1>1. PICK T, I, S : Ledger(T, I, S)
  BY DEF Charged
<1>2. Tokens \subseteq Tokens'
  <2>1. spent \in Nat /\ spent' \in Nat
    BY DEF TypeOK
  <2> QED
    BY <2>1, Prefix DEF Tokens
<1>3. Ledger(T, I, S)'
  <2>1. Used' = Used
    BY DEF Used
  <2>2. ~raced' => ~raced /\ Tokens' = Tokens /\ Owes' = Owes
    BY DEF Tokens
  <2>3. (T \subseteq Tokens /\ Cardinality(T) = Used)'
    BY <1>1, <1>2, <2>1 DEF Ledger
  <2>4. \A c \in Calls : I[c] \subseteq Tokens' /\ S[c] \subseteq Tokens'
    BY <1>1, <1>2 DEF Ledger
  <2>5. \A c \in Owes' : Cardinality(I[c]) = call'[c].cost /\ I[c] \cap T = {}
    BY <1>1 DEF Ledger
  <2>6. \A c, d \in Owes' : c # d => I[c] \cap I[d] = {}
    BY <1>1 DEF Ledger
  <2>7. \A c \in Owes' : call'[c].pc = "write" =>
          /\ snap' # NULL /\ Cardinality(S[c]) = call'[c].seen
          /\ \A d \in Owes' : S[c] \cap I[d] = {}
    BY <1>1 DEF Ledger
  <2>8. ~raced' => \A t \in Tokens' : t \in T \/ \E c \in Owes' : t \in I[c]
    BY <1>1, <2>2 DEF Ledger
  <2> QED
    BY <2>3, <2>4, <2>5, <2>6, <2>7, <2>8 DEF Ledger
<1> QED
  BY <1>3 DEF Charged

(* What the steps that record nothing do to the call they are about.       *)
LEMMA Steps ==
    ASSUME TypeOK, NEW c \in Calls,
           Begin(c) \/ Check(c) \/ Load(c) \/ Store(c) \/ Invalidate(c)
    PROVE  /\ snap' = snap /\ spent' = spent /\ raced' = raced
           /\ c \notin Owes /\ call'[c].pc \notin {"read", "rebuild", "write"}
           /\ \A d \in Calls \ {c} : call'[d] = call[d]
<1> USE DEF TypeOK, CallType, Owes, Goto, End
<1>1. CASE Begin(c)
  BY <1>1 DEF Begin
<1>2. CASE Check(c)
  BY <1>2 DEF Check, Decide
<1>3. CASE Load(c)
  BY <1>3 DEF Load, ReadRow
<1>4. CASE Store(c)
  BY <1>4 DEF Store, Decide
<1>5. CASE Invalidate(c)
  BY <1>5 DEF Invalidate
<1> QED
  BY <1>1, <1>2, <1>3, <1>4, <1>5

LEMMA StepsCharged ==
    ASSUME TypeOK, TypeOK', Charged, NEW c \in Calls,
           Begin(c) \/ Check(c) \/ Load(c) \/ Store(c) \/ Invalidate(c)
    PROVE  Charged'
<1>1. spent \in Nat
  BY DEF TypeOK
<1>2. Owes' = Owes
  BY Steps DEF Owes
<1>3. \A d \in Owes : d # c /\ d \in Calls
  BY Steps DEF Owes
<1> QED
  BY <1>1, <1>2, <1>3, Steps, LedgerKept

LEMMA CancelCharged ==
    ASSUME TypeOK, TypeOK', Charged, NEW c \in Calls, Cancel(c)
    PROVE  Charged'
<1>1. spent \in Nat /\ snap' = snap /\ spent' = spent
  BY DEF TypeOK, Cancel
<1>2. /\ call'[c].pc = "done"
      /\ \A d \in Calls \ {c} : call'[d] = call[d]
  BY DEF Cancel, End, TypeOK, CallType
<1>3. Owes' = Owes \ {c}
  BY <1>2 DEF Owes
<1>4. raced' \/ (Owes' = Owes /\ raced' = raced)
  <2>1. CASE call[c].pc \in Recording
    BY <2>1 DEF Cancel
  <2>2. CASE call[c].pc \notin Recording
    <3>1. c \notin Owes
      BY <2>2 DEF Owes, Recording
    <3>2. raced' = raced
      BY <2>2 DEF Cancel, TypeOK
    <3> QED
      BY <1>3, <3>1, <3>2
  <2> QED
    BY <2>1, <2>2
<1>5. Owes' \subseteq Owes /\ \A d \in Owes' : call'[d] = call[d]
  BY <1>2, <1>3 DEF Owes
<1> QED
  BY <1>1, <1>4, <1>5, LedgerKept

(* The row is rebuilt from the usage table, which holds nothing: what was  *)
(* recorded is lost, and counts as a race if there was something.          *)
LEMMA RefreshedCharged ==
    ASSUME TypeOK, TypeOK', Charged, snap' = Refreshed, spent' = spent, Owes' = Owes,
           raced' = (raced \/ Overwrites(SumUsage)),
           \A c \in Owes :
               /\ call'[c].cost = call[c].cost
               /\ call'[c].pc = "write" =>
                     call'[c].seen = 0 \/ (call[c].pc = "write" /\ call'[c].seen = call[c].seen)
    PROVE  Charged'
<1>1. PICK T, I, S : Ledger(T, I, S)
  BY DEF Charged
<1>6. PICK R : R = [c \in Calls |-> IF call'[c].seen = 0 THEN {} ELSE S[c]]
  OBVIOUS
<1>2. Refreshed \in [used : Nat, warned : BOOLEAN] /\ Refreshed.used = 0
  BY SnapType
<1>3. snap' # NULL /\ Used' = 0
  <2>1. snap' # NULL
    BY <1>2, BudgetAssumption
  <2> QED
    BY <1>2, <2>1 DEF Used
<1>4. Tokens' = Tokens /\ Cardinality({}) = 0
  BY FS_EmptySet DEF Tokens
<1>5. Ledger({}, I, R)'
  <2>1. \A c \in Calls : I[c] \subseteq Tokens' /\ R[c] \subseteq Tokens'
    BY <1>1, <1>4, <1>6 DEF Ledger
  <2>2. \A c \in Owes' : Cardinality(I[c]) = call'[c].cost /\ I[c] \cap {} = {}
    BY <1>1 DEF Ledger
  <2>3. \A c, d \in Owes' : c # d => I[c] \cap I[d] = {}
    BY <1>1 DEF Ledger
  <2>4. \A c \in Owes' : call'[c].pc = "write" =>
          /\ Cardinality(R[c]) = call'[c].seen
          /\ \A d \in Owes' : R[c] \cap I[d] = {}
    BY <1>1, <1>4, <1>6 DEF Ledger, Owes
  <2>5. ASSUME ~raced' PROVE T = {} /\ ~raced
    <3>1. ~raced /\ ~Overwrites(SumUsage)
      BY <2>5
    <3>2. Used = 0
      BY <3>1 DEF Used, Overwrites, SumUsage
    <3>3. T \in SUBSET Tokens /\ Cardinality(T) = 0
      BY <1>1, <3>2 DEF Ledger
    <3> QED
      BY <3>1, <3>3, FiniteTokens, FS_EmptySet
  <2>6. ~raced' => \A t \in Tokens' : \E c \in Owes' : t \in I[c]
    BY <1>1, <1>4, <2>5 DEF Ledger
  <2> QED
    BY <1>3, <1>4, <2>1, <2>2, <2>3, <2>4, <2>6 DEF Ledger
<1> QED
  BY <1>5 DEF Charged

LEMMA RefreshCharged ==
    ASSUME TypeOK, TypeOK', Charged, NEW c \in Calls,
           RefreshOnCheck(c) \/ RefreshOnRecord(c)
    PROVE  Charged'
<1>1. call[c] \in CallType /\ spent' = spent
  BY DEF TypeOK, RefreshOnCheck, RefreshOnRecord
<1>2. PICK next \in {"store", "write"} :
        /\ RefreshRow(c, next)
        /\ next = "write" <=> call[c].pc = "rebuild"
        /\ call[c].pc \in {"refresh", "rebuild"}
  BY DEF RefreshOnCheck, RefreshOnRecord
<1>3. /\ call'[c].pc = next /\ call'[c].seen = 0 /\ call'[c].cost = call[c].cost
      /\ \A d \in Calls \ {c} : call'[d] = call[d]
  BY <1>1, <1>2, SnapType DEF RefreshRow, TypeOK, CallType
<1>4. Owes' = Owes
  BY <1>2, <1>3 DEF Owes
<1>5. \A d \in Owes :
        /\ call'[d].cost = call[d].cost
        /\ call'[d].pc = "write" =>
              call'[d].seen = 0 \/ (call[d].pc = "write" /\ call'[d].seen = call[d].seen)
  BY <1>3 DEF Owes
<1>6. snap' = Refreshed /\ raced' = (raced \/ Overwrites(SumUsage))
  BY <1>2 DEF RefreshRow
<1> QED
  BY <1>1, <1>4, <1>5, <1>6, RefreshedCharged

LEMMA AdminCharged ==
    ASSUME TypeOK, TypeOK', Charged, AdminRead
    PROVE  Charged'
<1>1. Owes' = Owes /\ call' = call /\ spent' = spent /\ snap' = Refreshed
      /\ raced' = (raced \/ Overwrites(SumUsage))
  BY DEF AdminRead, Owes
<1> QED
  BY <1>1, RefreshedCharged

(* _post_record reads the row: what it accounts for now is S[c].           *)
LEMMA ReadCharged ==
    ASSUME TypeOK, TypeOK', Charged, NEW c \in Calls, Read(c)
    PROVE  Charged'
<1>1. /\ snap' = snap /\ spent' = spent /\ raced' = raced /\ call[c].pc = "read"
      /\ spent \in Nat
  BY DEF Read, TypeOK
<1>2. \A d \in Calls \ {c} : call'[d] = call[d]
  BY DEF Read, ReadRow, TypeOK
<1>3. CASE snap = NULL
  <2>1. call'[c].pc = "rebuild" /\ call'[c].cost = call[c].cost
    BY <1>3 DEF Read, ReadRow, TypeOK, CallType
  <2>2. Owes' = Owes
    BY <1>1, <1>2, <2>1 DEF Owes
  <2>3. \A d \in Owes :
          /\ call'[d].cost = call[d].cost
          /\ call'[d].pc = "write" => call[d].pc = "write" /\ call'[d].seen = call[d].seen
    BY <1>2, <2>1 DEF Owes
  <2> QED
    BY <1>1, <2>2, <2>3, LedgerKept
<1>4. CASE snap # NULL
  <2>1. /\ call'[c].pc = "write" /\ call'[c].cost = call[c].cost
        /\ call'[c].seen = snap.used
    BY <1>4 DEF Read, ReadRow, TypeOK, CallType
  <2>2. Owes' = Owes /\ Used' = Used /\ Tokens' = Tokens
    BY <1>1, <1>2, <2>1 DEF Owes, Used, Tokens
  <2>3. PICK T, I, S : Ledger(T, I, S)
    BY DEF Charged
  <2>4. PICK R : R = [d \in Calls |-> IF d = c THEN T ELSE S[d]]
    OBVIOUS
  <2>5. Ledger(T, I, R)'
    <3>1. (T \subseteq Tokens /\ Cardinality(T) = Used)'
      BY <2>2, <2>3 DEF Ledger
    <3>2. \A d \in Calls : I[d] \subseteq Tokens' /\ R[d] \subseteq Tokens'
      BY <2>2, <2>3, <2>4 DEF Ledger
    <3>3. \A d \in Owes' : Cardinality(I[d]) = call'[d].cost /\ I[d] \cap T = {}
      BY <1>2, <2>1, <2>2, <2>3 DEF Ledger, Owes
    <3>4. \A d, e \in Owes' : d # e => I[d] \cap I[e] = {}
      BY <2>2, <2>3 DEF Ledger
    <3>5. ASSUME NEW d \in Owes', call'[d].pc = "write"
          PROVE  /\ Cardinality(R[d]) = call'[d].seen
                 /\ \A e \in Owes' : R[d] \cap I[e] = {}
      <4>1. CASE d = c
        BY <4>1, <1>4, <2>1, <2>2, <2>3, <2>4 DEF Ledger, Used
      <4>2. CASE d # c
        BY <3>5, <4>2, <1>2, <2>2, <2>3, <2>4 DEF Ledger, Owes
      <4> QED
        BY <4>1, <4>2
    <3>6. ~raced' => \A t \in Tokens' : t \in T \/ \E d \in Owes' : t \in I[d]
      BY <1>1, <2>2, <2>3 DEF Ledger
    <3> QED
      BY <1>1, <1>4, <3>1, <3>2, <3>3, <3>4, <3>5, <3>6 DEF Ledger
  <2> QED
    BY <2>5 DEF Charged
<1> QED
  BY <1>3, <1>4

(* set_tokens_used: the tokens the call owed join the ones it had seen,    *)
(* which are the row's own unless somebody has written in between.         *)
LEMMA WriteCharged ==
    ASSUME TypeOK, TypeOK', Reads, Charged, NEW c \in Calls, Write(c)
    PROVE  Charged'
<1>1. PICK T, I, S : Ledger(T, I, S)
  BY DEF Charged
<1>2. /\ call[c].pc = "write" /\ spent' = spent /\ Tokens' = Tokens
      /\ snap' \in [used : Nat, warned : BOOLEAN] /\ snap'.used = NewUsed(c)
      /\ raced' = (raced \/ Overwrites(call[c].seen))
  <2>1. NewUsed(c) \in Nat /\ FiresWarn(c) \in BOOLEAN /\ call[c].warned \in BOOLEAN
    BY DEF Write, NewUsed, FiresWarn, Reads, TypeOK, CallType
  <2> QED
    BY <2>1 DEF Write, Tokens
<1>3. snap' # NULL /\ Used' = call[c].seen + call[c].cost
  <2>1. snap' # NULL
    BY <1>2, BudgetAssumption
  <2> QED
    BY <1>2, <2>1 DEF Used, NewUsed
<1>4. /\ call'[c].pc = "drop"
      /\ \A d \in Calls \ {c} : call'[d] = call[d]
  BY DEF Write, Goto, TypeOK, CallType
<1>5. Owes' = Owes \ {c} /\ c \in Owes
  BY <1>2, <1>4 DEF Owes
<1>6. PICK B : B = IF snap.used = call[c].seen THEN T ELSE S[c]
  OBVIOUS
<1>7. /\ B \in SUBSET Tokens /\ I[c] \in SUBSET Tokens
      /\ Cardinality(B) = call[c].seen /\ Cardinality(I[c]) = call[c].cost
      /\ \A d \in Owes : B \cap I[d] = {}
  BY <1>1, <1>2, <1>5, <1>6 DEF Ledger, Used
<1>8. PICK N : N = B \cup I[c]
  OBVIOUS
<1>9. Cardinality(N) = call[c].seen + call[c].cost
  <2>1. /\ IsFiniteSet(B) /\ IsFiniteSet(I[c])
        /\ Cardinality(B) \in Nat /\ Cardinality(I[c]) \in Nat
    BY <1>7, FiniteTokens
  <2>2. Cardinality(B \cup I[c])
          = Cardinality(B) + Cardinality(I[c]) - Cardinality(B \cap I[c])
    BY <2>1, FS_Union
  <2>3. Cardinality(B \cap I[c]) = 0
    BY <1>5, <1>7, FS_EmptySet
  <2> QED
    BY <1>7, <1>8, <2>1, <2>2, <2>3
<1>10. Ledger(N, I, S)'
  <2>1. (N \subseteq Tokens /\ Cardinality(N) = Used)'
    BY <1>2, <1>3, <1>7, <1>8, <1>9
  <2>2. \A d \in Calls : I[d] \subseteq Tokens' /\ S[d] \subseteq Tokens'
    BY <1>1, <1>2 DEF Ledger
  <2>3. \A d \in Owes' : Cardinality(I[d]) = call'[d].cost /\ I[d] \cap N = {}
    <3> SUFFICES ASSUME NEW d \in Owes'
                 PROVE  Cardinality(I[d]) = call'[d].cost /\ I[d] \cap N = {}
      OBVIOUS
    <3>1. d \in Owes /\ d # c /\ call'[d] = call[d]
      BY <1>4, <1>5 DEF Owes
    <3>2. I[d] \cap I[c] = {} /\ B \cap I[d] = {}
      BY <3>1, <1>1, <1>5, <1>7 DEF Ledger
    <3> QED
      BY <3>1, <3>2, <1>1, <1>8 DEF Ledger
  <2>4. \A d, e \in Owes' : d # e => I[d] \cap I[e] = {}
    BY <1>1, <1>5 DEF Ledger
  <2>5. \A d \in Owes' : call'[d].pc = "write" =>
          /\ Cardinality(S[d]) = call'[d].seen
          /\ \A e \in Owes' : S[d] \cap I[e] = {}
    BY <1>1, <1>4, <1>5 DEF Ledger, Owes
  <2>6. ASSUME ~raced' PROVE \A t \in Tokens' : t \in N \/ \E d \in Owes' : t \in I[d]
    <3>1. ~raced /\ ~Overwrites(call[c].seen)
      BY <2>6, <1>2
    <3>2. snap.used = call[c].seen
      BY <3>1, <1>1, <1>2, <1>5 DEF Ledger, Overwrites
    <3> QED
      BY <3>1, <3>2, <1>1, <1>2, <1>5, <1>6, <1>8 DEF Ledger
  <2> QED
    BY <1>3, <2>1, <2>2, <2>3, <2>4, <2>5, <2>6 DEF Ledger
<1> QED
  BY <1>10 DEF Charged

(* The provider answers: the tokens are new, and the call owes them,       *)
(* unless it is a stream that records nothing.                             *)
LEMMA InvokeCharged ==
    ASSUME TypeOK, TypeOK', Charged, NEW c \in Calls, Invoke(c)
    PROVE  Charged'
<1> USE BudgetAssumption
<1>1. /\ snap' = snap /\ call[c].pc = "invoke" /\ spent \in Nat /\ c \notin Owes
      /\ Used' = Used
  BY DEF Invoke, TypeOK, Owes, Used
<1>2. \A d \in Calls \ {c} : call'[d] = call[d]
  BY DEF Invoke, End, TypeOK
<1>3. CASE call'[c].pc # "read"
  <2>1. call'[c].pc = "done"
    BY <1>3 DEF Invoke, End, TypeOK, CallType
  <2>2. Owes' = Owes
    BY <1>1, <1>2, <2>1 DEF Owes
  <2>3. \A d \in Owes : call'[d] = call[d]
    BY <1>1, <1>2 DEF Owes
  <2>4. spent <= spent' /\ (raced' \/ (spent' = spent /\ raced' = raced))
    BY <1>1, <1>3 DEF Invoke, TypeOK, CallType
  <2> QED
    BY <1>1, <2>2, <2>3, <2>4, LedgerKept
<1>4. CASE call'[c].pc = "read"
  <2>1. PICK n \in 1..MaxCost :
          /\ spent' = spent + n /\ raced' = raced
          /\ call' = [call EXCEPT ![c].pc = "read", ![c].cost = n]
    BY <1>4 DEF Invoke, End, TypeOK, CallType
  <2>2. call'[c].cost = n /\ Owes' = Owes \cup {c}
    <3>1. call'[c].cost = n
      BY <2>1 DEF TypeOK, CallType
    <3>2. Owes' = Owes \cup {c}
      BY <1>2, <1>4 DEF Owes
    <3> QED
      BY <3>1, <3>2
  <2>3. PICK T, I, S : Ledger(T, I, S)
    BY DEF Charged
  <2>4. PICK N : N = spent..(spent + n - 1)
    OBVIOUS
  <2>5. Tokens' = Tokens \cup N /\ Tokens \cap N = {} /\ Cardinality(N) = n
    <3>1. n \in Nat /\ n >= 1
      OBVIOUS
    <3>2. Tokens' = Tokens \cup N
      BY <1>1, <2>1, <2>4, <3>1 DEF Tokens
    <3>3. Tokens \cap N = {}
      BY <1>1, <2>4, <3>1 DEF Tokens
    <3>4. Cardinality(N) = n
      BY <1>1, <2>4, <3>1, FS_Interval
    <3> QED
      BY <3>2, <3>3, <3>4
  <2>6. PICK J : J = [d \in Calls |-> IF d = c THEN N ELSE I[d]]
    OBVIOUS
  <2>7. Ledger(T, J, S)'
    <3>1. (T \subseteq Tokens /\ Cardinality(T) = Used)'
      BY <1>1, <2>3, <2>5 DEF Ledger
    <3>2. \A d \in Calls : J[d] \subseteq Tokens' /\ S[d] \subseteq Tokens'
      BY <2>3, <2>5, <2>6 DEF Ledger
    <3>3. \A d \in Owes :
            d \in Calls /\ d # c /\ J[d] = I[d] /\ call'[d] = call[d] /\ J[d] \cap N = {}
      BY <1>1, <1>2, <2>3, <2>5, <2>6 DEF Ledger, Owes
    <3>4. J[c] = N /\ N \cap T = {} /\ \A d \in Calls : N \cap S[d] = {}
      BY <2>3, <2>5, <2>6 DEF Ledger
    <3>5. \A d \in Owes' : Cardinality(J[d]) = call'[d].cost /\ J[d] \cap T = {}
      BY <2>2, <2>3, <2>5, <3>3, <3>4 DEF Ledger
    <3>6. \A d, e \in Owes' : d # e => J[d] \cap J[e] = {}
      BY <2>2, <2>3, <3>3, <3>4 DEF Ledger
    <3>7. \A d \in Owes' : call'[d].pc = "write" =>
            /\ snap' # NULL /\ Cardinality(S[d]) = call'[d].seen
            /\ \A e \in Owes' : S[d] \cap J[e] = {}
      BY <1>1, <1>4, <2>2, <2>3, <3>3, <3>4 DEF Ledger
    <3>8. ~raced' => \A t \in Tokens' : t \in T \/ \E d \in Owes' : t \in J[d]
      BY <2>1, <2>2, <2>3, <2>5, <3>3, <3>4 DEF Ledger
    <3> QED
      BY <3>1, <3>2, <3>5, <3>6, <3>7, <3>8 DEF Ledger
  <2> QED
    BY <2>7 DEF Charged
<1> QED
  BY <1>3, <1>4

LEMMA NextCharged == TypeOK /\ TypeOK' /\ Reads /\ Charged /\ [Next]_vars => Charged'
<1> SUFFICES ASSUME TypeOK, TypeOK', Reads, Charged, [Next]_vars PROVE Charged'
  OBVIOUS
<1>1. CASE UNCHANGED vars \/ Expire
  <2>1. snap' = snap /\ call' = call /\ spent' = spent /\ raced' = raced /\ spent \in Nat
    BY <1>1 DEF vars, Expire, TypeOK
  <2>2. Owes' = Owes
    BY <2>1 DEF Owes
  <2> QED
    BY <2>1, <2>2, LedgerKept
<1>2. CASE AdminRead
  BY <1>2, AdminCharged
<1>3. ASSUME NEW c \in Calls, Begin(c) \/ Step(c) \/ Cancel(c) PROVE Charged'
  BY <1>3, StepsCharged, CancelCharged, RefreshCharged, ReadCharged, WriteCharged,
     InvokeCharged DEF Step
<1> QED
  BY <1>1, <1>2, <1>3 DEF Next

Sound == TypeOK /\ Reads /\ Charged

LEMMA AlwaysSound == Spec => []Sound
<1>1. Init => Sound
  BY InitType, InitReads, InitCharged DEF Sound
<1>2. Sound /\ [Next]_vars => Sound'
  BY NextType, NextReads, NextCharged DEF Sound
<1> QED
  BY <1>1, <1>2, PTL DEF Spec

(* Every reachable state of the budget is type correct.                    *)
THEOREM BudgetTypeCorrect == Spec => []TypeOK
BY AlwaysSound, PTL DEF Sound

(* However the calls, the refreshes and the cancellations interleave, the  *)
(* tenant is never charged for a token no call consumed.                   *)
THEOREM BudgetNeverOvercharged == Spec => []NeverOvercharged
<1>1. Sound => NeverOvercharged
  BY ChargedImplies DEF Sound
<1> QED
  BY <1>1, AlwaysSound, PTL

(* Without an overwritten or a lost record, the row of a tenant with no    *)
(* record under way holds exactly what was consumed.                       *)
THEOREM BudgetExact == Spec => []ExactUnlessRaced
<1>1. Sound => ExactUnlessRaced
  BY ChargedImplies DEF Sound
<1> QED
  BY <1>1, AlwaysSound, PTL

-----------------------------------------------------------------------------
(* What a call may be decided on is never more than what was consumed.     *)
Behind ==
    /\ cache # NULL => cache <= spent
    /\ \A c \in Calls : call[c].pc = "store" => call[c].seen <= spent

(* A step of call c leaves the other calls alone, and is taken by a call   *)
(* under way unless it begins one.                                         *)
LEMMA Others ==
    ASSUME TypeOK, NEW c \in Calls, Begin(c) \/ Step(c) \/ Cancel(c)
    PROVE  \A d \in Calls \ {c} : call'[d] = call[d]
<1> USE DEF Goto, End, TypeOK
<1>1. CASE Begin(c) \/ Check(c) \/ Store(c) \/ Invoke(c) \/ Write(c) \/ Invalidate(c)
           \/ Cancel(c)
  BY <1>1 DEF Begin, Check, Store, Decide, Invoke, Write, Invalidate, Cancel
<1>2. CASE Load(c) \/ Read(c)
  BY <1>2 DEF Load, Read, ReadRow
<1>3. CASE RefreshOnCheck(c) \/ RefreshOnRecord(c)
  BY <1>3 DEF RefreshOnCheck, RefreshOnRecord, RefreshRow
<1> QED
  BY <1>1, <1>2, <1>3 DEF Step

(* The consumption never goes back.                                        *)
LEMMA SpentGrows == TypeOK /\ [Next]_vars => spent \in Nat /\ spent' \in Nat /\ spent <= spent'
<1> SUFFICES ASSUME TypeOK, [Next]_vars
             PROVE  spent \in Nat /\ spent' \in Nat /\ spent <= spent'
  OBVIOUS
<1>1. spent \in Nat
  BY DEF TypeOK
<1>2. CASE UNCHANGED vars \/ Expire \/ AdminRead
  BY <1>1, <1>2 DEF vars, Expire, AdminRead
<1>3. ASSUME NEW c \in Calls, Invoke(c) PROVE spent' \in Nat /\ spent <= spent'
  BY <1>1, <1>3, BudgetAssumption DEF Invoke
<1>4. ASSUME NEW c \in Calls, Begin(c) \/ Step(c) \/ Cancel(c), ~Invoke(c)
      PROVE  spent' \in Nat /\ spent <= spent'
  BY <1>1, <1>4 DEF Begin, Step, Cancel, Check, Load, RefreshOnCheck, Store, Read,
                    RefreshOnRecord, Write, Invalidate
<1> QED
  BY <1>1, <1>2, <1>3, <1>4 DEF Next

LEMMA NextBehind == Sound /\ Behind /\ [Next]_vars => Behind'
<1> SUFFICES ASSUME Sound, Behind, [Next]_vars PROVE Behind'
  OBVIOUS
<1> USE DEF Sound
<1>1. TypeOK' /\ Reads' /\ spent \in Nat /\ spent' \in Nat /\ spent <= spent'
  BY NextType, NextReads, SpentGrows
<1>2. cache \in Nat \cup {NULL} /\ \A d \in Calls : call[d] \in CallType
  BY DEF TypeOK
<1>3. ASSUME cache' # NULL PROVE cache' <= spent'
  <2>1. CASE cache' = cache
    BY <1>1, <1>2, <1>3, <2>1 DEF Behind
  <2>2. CASE cache' # cache
    <3>1. PICK c \in Calls : Store(c)
      BY <1>3, <2>2 DEF Next, vars, Expire, AdminRead, Begin, Step, Cancel, Check, Load,
           RefreshOnCheck, Invoke, Read, RefreshOnRecord, Write, Invalidate
    <3> QED
      BY <1>1, <3>1 DEF Store, Behind, Reads
  <2> QED
    BY <2>1, <2>2
<1>4. ASSUME NEW d \in Calls, call'[d].pc = "store" PROVE call'[d].seen <= spent'
  <2>1. CASE call'[d] = call[d]
    <3>1. call[d].seen \in Nat /\ call[d].seen <= spent
      BY <1>4, <2>1 DEF Behind, Reads
    <3> QED
      BY <1>1, <2>1, <3>1
  <2>2. CASE call'[d] # call[d]
    <3>1. ~Expire /\ ~AdminRead /\ ~UNCHANGED vars
      BY <2>2 DEF Expire, AdminRead, vars
    <3>2. PICK c \in Calls : Begin(c) \/ Step(c) \/ Cancel(c)
      BY <3>1 DEF Next
    <3>3. d = c
      BY <2>2, <3>2, Others
    <3>4. ~(Begin(c) \/ Check(c) \/ Store(c) \/ Invoke(c) \/ Write(c) \/ Invalidate(c)
            \/ Cancel(c))
      BY <1>2, <1>4, <3>3 DEF Begin, Check, Store, Decide, Invoke, Write, Invalidate, Cancel,
                         Goto, End, TypeOK, CallType
    <3>5. CASE Load(c) \/ Read(c)
      <4>1. snap # NULL /\ call'[d].seen = snap.used
        BY <1>2, <1>4, <3>3, <3>5 DEF Load, Read, ReadRow, TypeOK, CallType
      <4>2. snap.used \in Nat /\ snap.used <= spent
        BY <4>1, SnapType, ChargedImplies DEF NeverOvercharged
      <4> QED
        BY <1>1, <4>1, <4>2
    <3>6. CASE RefreshOnCheck(c) \/ RefreshOnRecord(c)
      <4>1. call'[d].seen = 0
        BY <1>2, <3>3, <3>6, SnapType
           DEF RefreshOnCheck, RefreshOnRecord, RefreshRow, TypeOK, CallType
      <4> QED
        BY <1>1, <4>1
    <3> QED
      BY <3>2, <3>4, <3>5, <3>6 DEF Step
  <2> QED
    BY <2>1, <2>2
<1> QED
  BY <1>3, <1>4 DEF Behind

LEMMA AlwaysBehind == Spec => [](Sound /\ Behind)
<1>1. Init => Behind
  BY DEF Init, Behind, NewCall
<1> QED
  BY <1>1, NextBehind, AlwaysSound, PTL DEF Spec

(* A call is refused only when the tenant has used up the cap, however old *)
(* the cached decision is and whatever happened to the row since.          *)
THEOREM BudgetRefusedOnlyAtCap == Spec => RefusedOnlyAtCap
<1>1. ASSUME Sound, Behind, [Next]_vars, NEW d \in Calls,
             call'[d].res = "refused", call[d].res # "refused"
      PROVE  spent >= Cap
  <2> USE BudgetAssumption DEF Sound
  <2>1. spent \in Nat /\ cache \in Nat \cup {NULL} /\ \A e \in Calls : call[e] \in CallType
    BY <1>1 DEF TypeOK
  <2>2. PICK c \in Calls : Begin(c) \/ Step(c) \/ Cancel(c)
    BY <1>1 DEF Next, Expire, AdminRead, vars
  <2>3. d = c
    BY <1>1, <2>2, Others
  <2>4. ~(Begin(c) \/ Load(c) \/ Read(c) \/ RefreshOnCheck(c) \/ RefreshOnRecord(c)
          \/ Invoke(c) \/ Write(c) \/ Invalidate(c) \/ Cancel(c))
    <3>1. ~(Begin(c) \/ Invoke(c) \/ Write(c) \/ Invalidate(c) \/ Cancel(c))
      BY <1>1, <2>1, <2>3 DEF Begin, Invoke, Write, Invalidate, Cancel, Goto, End, TypeOK, CallType
    <3>2. ~(Load(c) \/ Read(c))
      BY <1>1, <2>1, <2>3 DEF Load, Read, ReadRow, TypeOK, CallType
    <3>3. ~(RefreshOnCheck(c) \/ RefreshOnRecord(c))
      BY <1>1, <2>1, <2>3 DEF RefreshOnCheck, RefreshOnRecord, RefreshRow, TypeOK, CallType
    <3> QED
      BY <3>1, <3>2, <3>3
  <2>5. CASE Check(c)
    <3>1. cache # NULL /\ cache >= Cap
      BY <1>1, <2>1, <2>3, <2>5
         DEF Check, Decide, Decision, EffectiveCap, Goto, End, TypeOK, CallType
    <3> QED
      BY <1>1, <2>1, <3>1 DEF Behind
  <2>6. CASE Store(c)
    <3>1. call[c].seen >= Cap /\ call[c].pc = "store"
      BY <1>1, <2>1, <2>3, <2>6
         DEF Store, Decide, Decision, EffectiveCap, Goto, End, TypeOK, CallType
    <3> QED
      BY <1>1, <2>1, <3>1 DEF Behind, Reads
  <2> QED
    BY <2>2, <2>4, <2>5, <2>6 DEF Step
<1>2. Sound /\ Behind /\ [Next]_vars
      => [\A c \in Calls :
            call'[c].res = "refused" /\ call[c].res # "refused" => spent >= Cap]_vars
  BY <1>1
<1> QED
  BY <1>2, AlwaysBehind, PTL DEF Spec, RefusedOnlyAtCap

-----------------------------------------------------------------------------
(* Calls that do not overlap.                                              *)
Alone == ~overlap => \A c, d \in Active : c = d

(* A call that takes a step is under way; only Begin puts one under way.   *)
LEMMA Moves ==
    ASSUME TypeOK, NEW c \in Calls, Step(c) \/ Cancel(c)
    PROVE  c \in Active /\ overlap' = overlap /\ Active' \subseteq Active
<1>1. c \in Active /\ overlap' = overlap
  BY DEF Step, Cancel, Active, Check, Load, RefreshOnCheck, Store, Invoke, Read,
         RefreshOnRecord, Write, Invalidate
<1> QED
  BY <1>1, Others DEF Active

LEMMA NextAlone == TypeOK /\ Alone /\ [Next]_vars => Alone'
<1> SUFFICES ASSUME TypeOK, Alone, [Next]_vars PROVE Alone'
  OBVIOUS
<1>1. CASE UNCHANGED vars \/ Expire \/ AdminRead
  BY <1>1 DEF vars, Expire, AdminRead, Alone, Active
<1>2. ASSUME NEW c \in Calls, Step(c) \/ Cancel(c) PROVE Alone'
  BY <1>2, Moves DEF Alone
<1>3. ASSUME NEW c \in Calls, Begin(c) PROVE Alone'
  <2>1. overlap' = (overlap \/ Active # {})
    BY <1>3 DEF Begin
  <2>2. Active' \subseteq Active \cup {c}
    BY <1>3, Others DEF Active
  <2> QED
    BY <2>1, <2>2 DEF Alone
<1> QED
  BY <1>1, <1>2, <1>3 DEF Next

LEMMA AlwaysAlone == Spec => [](Sound /\ Alone)
<1>1. Init => Alone
  BY DEF Init, Alone, Active, NewCall
<1>2. Sound /\ Alone /\ [Next]_vars => Alone'
  BY NextAlone DEF Sound
<1> QED
  BY <1>1, <1>2, AlwaysSound, PTL DEF Spec

(* While a call steps and nothing overlaps, the others rest.               *)
LEMMA Rest ==
    ASSUME TypeOK, Alone, NEW c \in Calls, Begin(c) \/ Step(c) \/ Cancel(c), ~overlap'
    PROVE  /\ ~overlap
           /\ \A d \in Calls \ {c} : call'[d] = call[d] /\ call[d].pc \in {"idle", "done"}
<1>1. CASE Begin(c)
  <2>1. overlap' = (overlap \/ Active # {})
    BY <1>1 DEF Begin
  <2>2. ~overlap /\ Active = {}
    BY <2>1
  <2> QED
    BY <2>2, Others DEF Active
<1>2. CASE Step(c) \/ Cancel(c)
  <2>1. ~overlap /\ c \in Active
    BY <1>2, Moves
  <2>2. \A d \in Calls \ {c} : d \notin Active
    BY <2>1 DEF Alone
  <2> QED
    BY <2>1, <2>2, Others DEF Active
<1> QED
  BY <1>1, <1>2

(* With calls that have the cap, do not overlap and lose no record, a      *)
(* decision is taken on the exact total: the cached one is right unless    *)
(* the call that made it stale is still recording.                         *)
Quiet == ~raced /\ ~overlap /\ \A c \in Calls : call[c].hard
Exactly ==
    /\ cache # NULL => cache = spent \/ \E c \in Calls : call[c].pc \in Recording
    /\ \A c \in Calls : /\ call[c].pc = "store" => call[c].seen = spent
                        /\ call[c].pc = "invoke" => spent < Cap
    /\ spent < Cap + MaxCost
Calm == Quiet => Exactly

LEMMA QuietBefore ==
    ASSUME TypeOK, Alone, [Next]_vars, Quiet'
    PROVE  Quiet
<1>1. CASE UNCHANGED vars \/ Expire \/ AdminRead
  BY <1>1 DEF vars, Expire, AdminRead, Quiet, TypeOK
<1>2. ASSUME NEW c \in Calls, Begin(c) \/ Step(c) \/ Cancel(c) PROVE Quiet
  <2>1. ~overlap /\ \A d \in Calls \ {c} : call'[d] = call[d]
    BY <1>2, Rest DEF Quiet
  <2>2. ~raced
    BY <1>2 DEF Quiet, TypeOK, Begin, Step, Cancel, Check, Load, RefreshOnCheck, RefreshRow,
                Store, Invoke, Read, RefreshOnRecord, Write, Invalidate
  <2>3. call'[c].hard => call[c].hard
    <3> USE DEF Goto, End, TypeOK, CallType
    <3>1. CASE Begin(c) \/ Check(c) \/ Store(c) \/ Invoke(c) \/ Write(c) \/ Invalidate(c)
               \/ Cancel(c)
      BY <3>1 DEF Begin, Check, Store, Decide, Invoke, Write, Invalidate, Cancel
    <3>2. CASE Load(c) \/ Read(c)
      BY <3>2 DEF Load, Read, ReadRow
    <3>3. CASE RefreshOnCheck(c) \/ RefreshOnRecord(c)
      BY <3>3 DEF RefreshOnCheck, RefreshOnRecord, RefreshRow
    <3> QED
      BY <1>2, <3>1, <3>2, <3>3 DEF Step
  <2> QED
    BY <2>1, <2>2, <2>3 DEF Quiet
<1> QED
  BY <1>1, <1>2 DEF Next

(* Only the call that steps has to be looked at.                           *)
LEMMA ExactlyOne ==
    ASSUME NEW c \in Calls,
           \A d \in Calls \ {c} : call'[d] = call[d] /\ call[d].pc \in {"idle", "done"},
           cache' # NULL => cache' = spent' \/ call'[c].pc \in Recording,
           call'[c].pc = "store" => call'[c].seen = spent',
           call'[c].pc = "invoke" => spent' < Cap,
           spent' < Cap + MaxCost
    PROVE  Exactly'
<1>1. \A d \in Calls : /\ call'[d].pc = "store" => call'[d].seen = spent'
                      /\ call'[d].pc = "invoke" => spent' < Cap
  OBVIOUS
<1>2. Recording' = Recording
  BY DEF Recording
<1> QED
  BY <1>1, <1>2 DEF Exactly

LEMMA NextExactly ==
    ASSUME Sound, Alone, Quiet, Exactly, Quiet', NEW c \in Calls,
           Begin(c) \/ Step(c) \/ Cancel(c)
    PROVE  Exactly'
<1> USE BudgetAssumption DEF Sound
<1>1. /\ spent \in Nat /\ cache \in Nat \cup {NULL} /\ call[c] \in CallType
      /\ spent < Cap + MaxCost
  BY DEF TypeOK, Exactly
<1>2. \A d \in Calls \ {c} : call'[d] = call[d] /\ call[d].pc \in {"idle", "done"}
  BY Rest DEF Quiet
<1>3. ASSUME call[c].pc \notin Recording, cache # NULL PROVE cache = spent
  <2>1. \A d \in Calls : call[d].pc \notin Recording
    BY <1>2, <1>3 DEF Recording
  <2> QED
    BY <1>3, <2>1 DEF Exactly
<1>4. ASSUME call[c].pc \notin Recording PROVE IF snap = NULL THEN spent = 0 ELSE snap.used = spent
  <2>1. \A d \in Calls : call[d].pc \notin {"read", "rebuild", "write"}
    BY <1>2, <1>4 DEF Recording
  <2> QED
    BY <2>1, ChargedImplies DEF ExactUnlessRaced, Quiet
<1>5. CASE Begin(c)
  <2>1. call[c].pc = "idle" /\ spent' = spent /\ cache' = cache
    BY <1>5 DEF Begin
  <2>2. call'[c].pc = "check" \/ (call'[c].pc = "invoke" /\ ~call'[c].hard)
    BY <1>1, <1>5 DEF Begin, Goto, TypeOK, CallType
  <2> QED
    BY <1>1, <1>2, <1>3, <2>1, <2>2, ExactlyOne DEF Quiet, Recording
<1>6. CASE Check(c)
  <2>1. call[c].pc = "check" /\ spent' = spent /\ cache' = cache
    BY <1>6 DEF Check
  <2>2. /\ call'[c].pc # "store"
        /\ call'[c].pc = "invoke" => cache # NULL /\ ~(cache >= Cap)
    BY <1>1, <1>6 DEF Check, Decide, Decision, EffectiveCap, Goto, End, TypeOK, CallType
  <2> QED
    BY <1>1, <1>2, <1>3, <2>1, <2>2, ExactlyOne DEF Recording
<1>7. CASE Load(c)
  <2>1. call[c].pc = "load" /\ spent' = spent /\ cache' = cache
    BY <1>7 DEF Load
  <2>2. \/ call'[c].pc = "refresh"
        \/ call'[c].pc = "store" /\ snap # NULL /\ call'[c].seen = snap.used
    BY <1>1, <1>7 DEF Load, ReadRow, TypeOK, CallType
  <2> QED
    BY <1>1, <1>2, <1>3, <1>4, <2>1, <2>2, ExactlyOne DEF Recording
<1>8. CASE RefreshOnCheck(c)
  <2>1. call[c].pc = "refresh" /\ spent' = spent /\ cache' = cache
    BY <1>8 DEF RefreshOnCheck
  <2>2. call'[c].pc = "store" /\ call'[c].seen = 0
    BY <1>1, <1>8, SnapType DEF RefreshOnCheck, RefreshRow, TypeOK, CallType
  <2>3. ~Overwrites(SumUsage)
    BY <1>8 DEF RefreshOnCheck, RefreshRow, Quiet
  <2>4. spent = 0
    BY <1>4, <2>1, <2>3 DEF Overwrites, SumUsage, Recording
  <2> QED
    BY <1>1, <1>2, <1>3, <2>1, <2>2, <2>4, ExactlyOne DEF Recording
<1>9. CASE Store(c)
  <2>1. /\ call[c].pc = "store" /\ spent' = spent /\ cache' = call[c].seen
        /\ call[c].seen = spent
    BY <1>9 DEF Store, Exactly
  <2>2. /\ call'[c].pc # "store"
        /\ call'[c].pc = "invoke" => ~(call[c].seen >= Cap)
    BY <1>1, <1>9 DEF Store, Decide, Decision, EffectiveCap, Goto, End, TypeOK, CallType
  <2> QED
    BY <1>1, <1>2, <2>1, <2>2, ExactlyOne
<1>10. CASE Invoke(c)
  <2>1. call[c].pc = "invoke" /\ cache' = cache /\ spent < Cap /\ call[c].hard
    BY <1>10 DEF Invoke, Exactly, Quiet
  <2>2. \/ call'[c].pc = "read" /\ \E n \in 1..MaxCost : spent' = spent + n
        \/ call'[c].pc = "done" /\ spent' = spent
    BY <1>1, <1>10, <2>1 DEF Invoke, End, TypeOK, CallType
  <2>3. spent' < Cap + MaxCost
    BY <1>1, <2>1, <2>2
  <2> QED
    BY <1>2, <1>3, <2>1, <2>2, <2>3, ExactlyOne DEF Recording
<1>11. CASE Read(c) \/ RefreshOnRecord(c) \/ Write(c)
  <2>1. spent' = spent
    BY <1>11 DEF Read, RefreshOnRecord, Write
  <2>2. call'[c].pc \in Recording /\ call'[c].pc \notin {"store", "invoke"}
    BY <1>1, <1>11 DEF Read, ReadRow, RefreshOnRecord, RefreshRow, Write, Goto, Recording,
                       TypeOK, CallType
  <2> QED
    BY <1>1, <1>2, <2>1, <2>2, ExactlyOne
<1>12. CASE Invalidate(c)
  <2>1. spent' = spent /\ cache' = NULL /\ call'[c].pc = "done"
    BY <1>1, <1>12 DEF Invalidate, End, TypeOK, CallType
  <2> QED
    BY <1>1, <1>2, <2>1, ExactlyOne
<1>13. CASE Cancel(c)
  <2>1. spent' = spent /\ cache' = cache /\ call'[c].pc = "done"
    BY <1>1, <1>13 DEF Cancel, End, TypeOK, CallType
  <2>2. call[c].pc \notin Recording
    BY <1>13 DEF Cancel, Quiet
  <2> QED
    BY <1>1, <1>2, <1>3, <2>1, <2>2, ExactlyOne
<1> QED
  BY <1>5, <1>6, <1>7, <1>8, <1>9, <1>10, <1>11, <1>12, <1>13 DEF Step

LEMMA NextCalm == Sound /\ Alone /\ Calm /\ [Next]_vars => Calm'
<1> SUFFICES ASSUME Sound, Alone, Calm, [Next]_vars, Quiet' PROVE Exactly'
  BY DEF Calm
<1>1. Quiet /\ Exactly
  BY QuietBefore DEF Calm, Sound
<1>2. CASE UNCHANGED vars \/ Expire \/ AdminRead
  BY <1>1, <1>2 DEF vars, Expire, AdminRead, Exactly, Recording
<1>3. ASSUME NEW c \in Calls, Begin(c) \/ Step(c) \/ Cancel(c) PROVE Exactly'
  BY <1>1, <1>3, NextExactly
<1> QED
  BY <1>2, <1>3 DEF Next

(* Calls that have the cap, do not overlap and lose no record overshoot it *)
(* by less than one call: the decision is never taken on a stale total.    *)
THEOREM BudgetCapRespected == Spec => []CapRespected
<1>1. Init => Calm
  BY BudgetAssumption DEF Init, Calm, Exactly, NewCall
<1>2. Calm => CapRespected
  BY DEF Calm, Quiet, Exactly, CapRespected
<1> QED
  BY <1>1, <1>2, NextCalm, AlwaysAlone, PTL DEF Spec

-----------------------------------------------------------------------------
(* A call about to write knows whether the row says the warning has fired, *)
(* and the row remembers it across a refresh.                              *)
Warned ==
    ~overlap =>
        /\ warns <= 1
        /\ warns >= 1 => snap # NULL /\ snap.warned
        /\ \A c \in Calls : call[c].pc = "write" =>
              snap # NULL /\ (call[c].warned <=> snap.warned)

LEMMA NextWarned == Sound /\ Alone /\ Warned /\ [Next]_vars => Warned'
<1> SUFFICES ASSUME Sound, Alone, Warned, [Next]_vars, ~overlap'
             PROVE  /\ warns' <= 1
                    /\ warns' >= 1 => snap' # NULL /\ snap'.warned
                    /\ \A c \in Calls : call'[c].pc = "write" =>
                          snap' # NULL /\ (call'[c].warned <=> snap'.warned)
  BY DEF Warned
<1> USE BudgetAssumption DEF Sound
<1>0. warns \in Nat /\ TypeOK' /\ (snap # NULL => snap.warned \in BOOLEAN)
  BY NextType, SnapType DEF TypeOK
<1>R. ASSUME snap' = Refreshed
      PROVE  snap' # NULL /\ snap'.warned = (snap # NULL /\ snap.warned)
  BY <1>R, <1>0, SnapType DEF Refreshed
<1>1. CASE UNCHANGED vars \/ Expire
  BY <1>1 DEF vars, Expire, Warned
<1>2. CASE AdminRead
  <2>1. /\ snap' = Refreshed /\ call' = call /\ warns' = warns /\ ~overlap
    BY <1>2 DEF AdminRead
  <2> QED
    BY <1>R, <2>1 DEF Warned
<1>3. ASSUME NEW c \in Calls, Begin(c) \/ Step(c) \/ Cancel(c)
      PROVE  /\ warns' <= 1
             /\ warns' >= 1 => snap' # NULL /\ snap'.warned
             /\ call'[c].pc = "write" =>
                   snap' # NULL /\ (call'[c].warned <=> snap'.warned)
  <2>0. ~overlap /\ call[c] \in CallType /\ warns <= 1
    BY <1>3, Rest DEF TypeOK, Warned
  <2>1. CASE Begin(c) \/ Check(c) \/ Load(c) \/ Store(c) \/ Invoke(c) \/ Invalidate(c)
             \/ Cancel(c)
    <3>1. snap' = snap /\ warns' = warns
      BY <2>1 DEF Begin, Check, Load, Store, Invoke, Invalidate, Cancel
    <3>2. call'[c].pc # "write"
      BY <2>0, <2>1 DEF Begin, Check, Load, ReadRow, Store, Decide, Invoke, Invalidate, Cancel,
                        Goto, End, TypeOK, CallType
    <3> QED
      BY <2>0, <3>1, <3>2 DEF Warned
  <2>2. CASE Read(c)
    <3>1. snap' = snap /\ warns' = warns
      BY <2>2 DEF Read
    <3>2. call'[c].pc = "write" => snap # NULL /\ call'[c].warned = snap.warned
      BY <2>0, <2>2 DEF Read, ReadRow, TypeOK, CallType
    <3> QED
      BY <2>0, <3>1, <3>2 DEF Warned
  <2>3. CASE RefreshOnCheck(c) \/ RefreshOnRecord(c)
    <3>1. snap' = Refreshed /\ warns' = warns
      BY <2>3 DEF RefreshOnCheck, RefreshOnRecord, RefreshRow
    <3>2. call'[c].warned = Refreshed.warned
      BY <2>0, <2>3, SnapType DEF RefreshOnCheck, RefreshOnRecord, RefreshRow, TypeOK, CallType
    <3> QED
      BY <2>0, <1>R, <3>1, <3>2 DEF Warned
  <2>4. CASE Write(c)
    <3>1. snap # NULL /\ (call[c].warned <=> snap.warned)
      BY <2>0, <2>4 DEF Write, Warned
    <3>2. call'[c].pc = "drop"
      BY <2>0, <2>4 DEF Write, Goto, TypeOK, CallType
    <3>3. snap' \in [used : Nat, warned : BOOLEAN] /\ snap' # NULL
          /\ snap'.warned = (FiresWarn(c) \/ call[c].warned \/ snap.warned)
      <4>1. NewUsed(c) \in Nat /\ FiresWarn(c) \in BOOLEAN /\ call[c].warned \in BOOLEAN
            /\ snap.warned \in BOOLEAN
        BY <2>0, <2>4, <1>0, <3>1 DEF Write, NewUsed, FiresWarn, Reads, CallType
      <4> QED
        BY <2>4, <3>1, <4>1 DEF Write
    <3>4. CASE FiresWarn(c)
      <4>1. ~snap.warned
        BY <3>1, <3>4 DEF FiresWarn
      <4>2. warns = 0
        BY <2>0, <1>0, <4>1 DEF Warned
      <4>3. warns' = 1
        BY <2>4, <3>4, <4>2 DEF Write
      <4> QED
        BY <3>2, <3>3, <3>4, <4>3
    <3>5. CASE ~FiresWarn(c)
      <4>1. warns' = warns
        BY <2>4, <3>5 DEF Write
      <4> QED
        BY <2>0, <3>2, <3>3, <4>1 DEF Warned
    <3> QED
      BY <3>4, <3>5
  <2> QED
    BY <1>3, <2>1, <2>2, <2>3, <2>4 DEF Step
<1>4. ASSUME NEW c \in Calls, Begin(c) \/ Step(c) \/ Cancel(c)
      PROVE  \A d \in Calls : call'[d].pc = "write" =>
                 snap' # NULL /\ (call'[d].warned <=> snap'.warned)
  BY <1>3, <1>4, Rest
<1> QED
  BY <1>1, <1>2, <1>3, <1>4 DEF Next

(* Without overlapping calls the soft warning of a period fires once, also *)
(* when a refresh takes the total back below the threshold.                *)
THEOREM BudgetWarnedOnce == Spec => []WarnedOnce
<1>1. Init => Warned
  BY DEF Init, Warned, NewCall
<1>2. Warned => WarnedOnce
  BY DEF Warned, WarnedOnce
<1> QED
  BY <1>1, <1>2, NextWarned, AlwaysAlone, PTL DEF Spec
=============================================================================
