-------------------------- MODULE BackgroundProofs --------------------------
(***************************************************************************)
(* The background workers: the job queues of the QA and mining workers,    *)
(* and the outbox with its dispatcher.                                     *)
(*                                                                         *)
(* Scores, mined drafts and their review hold for any number of replies,   *)
(* mining requests, worker slots, administrators and tenants, however      *)
(* often jobs are redelivered, run twice at once or cut off; the outbox    *)
(* for any number of events, workers and attempts.                         *)
(***************************************************************************)
EXTENDS BackgroundJobs, Outbox, FiniteSetTheorems, TLAPS


QaPCs == {"check", "judge", "insert", "commit"}
MinePCs == {"scan", "tenant", "generate", "save"}
RunPCs == QaPCs \cup MinePCs

(* What a slot knows by itself: which worker it belongs to, that the       *)
(* tenant it mines is still to do, and that it stages what was generated.  *)
SlotOK(s, x) ==
    /\ x.pc \in QaPCs => s \in QaSlots /\ x.job \in Replies
    /\ x.pc \in {"generate", "save"} =>
          /\ x.tenant \in x.todo
          /\ x.staged \subseteq x.clusters
          /\ \A c \in x.staged : Generated(c)
    /\ x.pc = "save" => x.staged = x.clusters

(* A review that is under way has read a draft that exists.                *)
Reads == \A a \in Admins : admin[a].pc # "idle" => admin[a].draft \in DOMAIN draft

IInv == TypeOK /\ Reads /\ IsFiniteSet(article) /\ \A s \in Slots : SlotOK(s, exec[s])

LEMMA Kinds ==
    ASSUME NEW x \in Exec
    PROVE  /\ x = Down <=> x.pc = "down"
           /\ x = Free <=> x.pc = "free"
           /\ x.pc \in RunPCs \cup {"down", "free"}
           /\ x.pc \in RunPCs =>
                 /\ x \in Run
                 /\ x.job \in Jobs /\ x.try \in Nat /\ x.todo \subseteq Tenants
                 /\ x.tenant \in Tenants \cup {NULL}
                 /\ x.clusters \subseteq Clusters /\ x.staged \subseteq Clusters
BY DEF Exec, Run, Down, Free, RunPCs, QaPCs, MinePCs

LEMMA Idle ==
    /\ Down \in Exec /\ Free \in Exec /\ Down.pc = "down" /\ Free.pc = "free"
    /\ \A s : SlotOK(s, Down) /\ SlotOK(s, Free)
BY DEF Exec, Down, Free, SlotOK, QaPCs

(* A run that goes on: the parts of its state that the steps change.       *)
LEMMA RunGoesOn ==
    ASSUME NEW x \in Exec, x.pc \in RunPCs, NEW l \in RunPCs
    PROVE  LET y == [x EXCEPT !.pc = l]
           IN  /\ y \in Exec /\ y.pc = l /\ y.job = x.job /\ y.try = x.try
               /\ y.todo = x.todo /\ y.tenant = x.tenant
               /\ y.clusters = x.clusters /\ y.staged = x.staged
BY DEF Exec, Run, Down, Free, RunPCs, QaPCs, MinePCs

(* A step of one slot leads it to x, and so do the steps of the two tasks. *)
Moves(s, x) ==
    /\ exec' = [exec EXCEPT ![s] = x]
    /\ x \in Exec /\ SlotOK(s, x)

(* The same job, the same attempt; or the end of the run.                  *)
SameRun(s, x) == x = Free \/ (x.job = exec[s].job /\ x.try = exec[s].try)

LEMMA EndsMoves ==
    ASSUME IInv, NEW s \in Slots, Ends(s)
    PROVE  Moves(s, Free) /\ SameRun(s, Free)
BY Idle DEF Ends, Moves, SameRun

LEMMA QaShape ==
    ASSUME IInv, NEW s \in QaSlots,
           QaCheck(s) \/ QaJudge(s) \/ QaInsert(s) \/ QaCommit(s)
    PROVE  /\ exec[s].pc \in QaPCs /\ exec[s].job \in Replies
           /\ \E x : /\ Moves(s, x) /\ SameRun(s, x)
                     /\ x = Free \/ (x.pc \in {"judge", "insert", "commit"})
                     /\ x.pc = "commit" <=> QaInsert(s) /\ exec[s].job \notin scores
<1>0. s \in Slots /\ exec[s] \in Exec /\ SlotOK(s, exec[s])
  BY DEF Slots, IInv, TypeOK
<1>1. exec[s].pc \in QaPCs /\ exec[s].job \in Replies /\ exec[s].pc \in RunPCs
  BY <1>0 DEF QaCheck, QaJudge, QaInsert, QaCommit, QaPCs, RunPCs, SlotOK
<1>2. ASSUME NEW l \in {"judge", "insert", "commit"}, exec' = [exec EXCEPT ![s].pc = l]
      PROVE  \E x : Moves(s, x) /\ SameRun(s, x) /\ x.pc = l
  <2>1. PICK x : x = [exec[s] EXCEPT !.pc = l]
    OBVIOUS
  <2>2. x \in Exec /\ x.pc = l /\ x.job = exec[s].job /\ x.try = exec[s].try
    BY <1>0, <1>1, <2>1, RunGoesOn DEF RunPCs, QaPCs
  <2>3. exec' = [exec EXCEPT ![s] = x]
    BY <1>0, <1>2, <2>1 DEF IInv, TypeOK
  <2>4. SlotOK(s, x)
    BY <1>1, <2>2 DEF SlotOK
  <2> QED
    BY <2>2, <2>3, <2>4 DEF Moves, SameRun
<1>3. Ends(s) => Moves(s, Free) /\ SameRun(s, Free) /\ Free.pc = "free"
  BY <1>0, EndsMoves, Idle
<1>4. CASE QaCheck(s)
  BY <1>1, <1>2, <1>3, <1>4 DEF QaCheck, QaInsert
<1>5. CASE QaJudge(s)
  BY <1>1, <1>2, <1>3, <1>5 DEF QaJudge, QaInsert
<1>6. CASE QaInsert(s)
  BY <1>1, <1>2, <1>3, <1>6 DEF QaInsert
<1>7. CASE QaCommit(s)
  BY <1>1, <1>3, <1>7 DEF QaCommit, QaInsert
<1> QED
  BY <1>4, <1>5, <1>6, <1>7

LEMMA NextTenantShape ==
    ASSUME IInv, NEW s \in Slots, exec[s].pc \in MinePCs, NEW t, NextTenant(s, t)
    PROVE  \E x : /\ Moves(s, x) /\ SameRun(s, x)
                  /\ x = Free \/ (x.pc = "tenant" /\ x.todo = exec[s].todo \ {t})
<1>0. exec[s] \in Run /\ exec[s].pc \in RunPCs
  BY Kinds DEF IInv, TypeOK, RunPCs
<1>1. CASE Ends(s)
  BY <1>1, EndsMoves
<1>2. CASE exec' = [exec EXCEPT ![s].pc = "tenant", ![s].todo = @ \ {t},
                        ![s].tenant = NULL, ![s].clusters = {}, ![s].staged = {}]
  <2>0. PICK T \in SUBSET Tenants : T = exec[s].todo \ {t}
    BY <1>0 DEF Run
  <2>1. PICK x : x = [exec[s] EXCEPT !.pc = "tenant", !.todo = T,
                                     !.tenant = NULL, !.clusters = {}, !.staged = {}]
    OBVIOUS
  <2>2. exec' = [exec EXCEPT ![s] = x]
    BY <1>2, <2>0, <2>1 DEF IInv, TypeOK
  <2>3. x \in Exec /\ x.pc = "tenant" /\ x.job = exec[s].job /\ x.try = exec[s].try
        /\ x.todo = exec[s].todo \ {t}
    BY <1>0, <2>0, <2>1 DEF Exec, Run
  <2>4. SlotOK(s, x)
    BY <2>3 DEF SlotOK, QaPCs
  <2> QED
    BY <2>2, <2>3, <2>4 DEF Moves, SameRun
<1> QED
  BY <1>1, <1>2 DEF NextTenant

(* Whatever the labels are, the groups are sets of the tenant's questions. *)
LEMMA ClusteringsType ==
    ASSUME NEW t \in Tenants, NEW cs \in Clusterings(t)
    PROVE  cs \subseteq Clusters
<1> DEFINE kept == Questions[t] \ Zero
           groups(l) == {{q \in kept : l[q] = i} : i \in {1, 2}}
           sized(l) == {c \in groups(l) : Cardinality(c) \in MinSize..MaxSize}
<1>1. kept \subseteq AllQuestions
  BY DEF AllQuestions
<1>2. \A l : groups(l) \subseteq Clusters
  BY <1>1 DEF Clusters
<1>3. cs = {} \/ \E l \in [kept -> {0, 1, 2}] : cs = sized(l)
  BY DEF Clusterings
<1> HIDE DEF kept, groups
<1> QED
  BY <1>2, <1>3

LEMMA MineShape ==
    ASSUME IInv, NEW s \in MiningSlots,
           MineScan(s) \/ MineTenant(s) \/ MineGenerate(s) \/ MineSave(s)
    PROVE  /\ exec[s].pc \in MinePCs
           /\ \E x : /\ Moves(s, x) /\ SameRun(s, x)
                     /\ x = Free \/ /\ x.pc \in {"tenant", "generate", "save"}
                                    /\ exec[s].pc # "scan" => x.todo \subseteq exec[s].todo
                                    /\ exec[s].pc = "save" => exec[s].tenant \notin x.todo
<1>0. s \in Slots /\ exec[s] \in Exec /\ SlotOK(s, exec[s])
  BY DEF Slots, IInv, TypeOK
<1>1. exec[s].pc \in MinePCs /\ exec[s] \in Run
  BY <1>0, Kinds DEF MineScan, MineTenant, MineGenerate, MineSave, MinePCs, RunPCs
<1>2. CASE Ends(s)
  BY <1>0, <1>1, <1>2, EndsMoves
<1>3. ASSUME NEW t, NextTenant(s, t), exec[s].pc = "save" => t = exec[s].tenant
      PROVE  \E x : /\ Moves(s, x) /\ SameRun(s, x)
                    /\ x = Free \/ /\ x.pc \in {"tenant", "generate", "save"}
                                   /\ x.todo \subseteq exec[s].todo
                                   /\ exec[s].pc = "save" => exec[s].tenant \notin x.todo
  BY <1>0, <1>1, <1>3, NextTenantShape
<1>4. CASE MineScan(s)
  <2>1. CASE exec' = [exec EXCEPT ![s].pc = "tenant",
                          ![s].todo = {t \in Tenants : Questions[t] # {}}]
    <3>0. PICK T \in SUBSET Tenants : T = {t \in Tenants : Questions[t] # {}}
      OBVIOUS
    <3>1. PICK x : x = [exec[s] EXCEPT !.pc = "tenant", !.todo = T]
      OBVIOUS
    <3>2. exec' = [exec EXCEPT ![s] = x]
      BY <1>0, <2>1, <3>0, <3>1 DEF IInv, TypeOK
    <3>3. x \in Exec /\ x.pc = "tenant" /\ x.job = exec[s].job /\ x.try = exec[s].try
      BY <1>1, <3>0, <3>1 DEF Exec, Run
    <3>4. SlotOK(s, x)
      BY <3>3 DEF SlotOK, QaPCs
    <3> QED
      BY <1>1, <1>4, <3>2, <3>3, <3>4 DEF Moves, SameRun, MineScan
  <2> QED
    BY <1>2, <1>4, <2>1 DEF MineScan
<1>5. CASE MineTenant(s)
  <2>1. exec[s].pc = "tenant"
    BY <1>5 DEF MineTenant
  <2>2. PICK t \in exec[s].todo :
            \/ NextTenant(s, t)
            \/ \E cs \in Clusterings(t) :
                  exec' = [exec EXCEPT ![s].pc = "generate", ![s].tenant = t,
                                       ![s].clusters = cs, ![s].staged = {}]
    BY <1>5 DEF MineTenant
  <2>3. t \in Tenants /\ exec[s].todo \subseteq Tenants
    BY <1>1 DEF Run
  <2>4. CASE NextTenant(s, t)
    BY <1>1, <1>3, <2>1, <2>4
  <2>5. ASSUME NEW cs \in Clusterings(t),
               exec' = [exec EXCEPT ![s].pc = "generate", ![s].tenant = t,
                                    ![s].clusters = cs, ![s].staged = {}]
        PROVE  \E x : /\ Moves(s, x) /\ SameRun(s, x) /\ x.pc = "generate"
                      /\ x.todo = exec[s].todo
    <3>1. PICK x : x = [exec[s] EXCEPT !.pc = "generate", !.tenant = t,
                                       !.clusters = cs, !.staged = {}]
      OBVIOUS
    <3>2. exec' = [exec EXCEPT ![s] = x]
      BY <1>0, <2>5, <3>1 DEF IInv, TypeOK
    <3>3. cs \in SUBSET Clusters
      BY <2>3, ClusteringsType
    <3>4. x \in Exec /\ x.pc = "generate" /\ x.job = exec[s].job /\ x.try = exec[s].try
          /\ x.todo = exec[s].todo /\ x.tenant = t /\ x.staged = {}
      BY <1>1, <2>3, <3>1, <3>3 DEF Exec, Run
    <3>5. SlotOK(s, x)
      BY <3>4 DEF SlotOK, QaPCs
    <3> QED
      BY <3>2, <3>4, <3>5 DEF Moves, SameRun
  <2> QED
    BY <1>1, <2>1, <2>2, <2>4, <2>5
<1>6. CASE MineGenerate(s)
  <2>1. exec[s].pc = "generate"
    BY <1>6 DEF MineGenerate
  <2>2. PICK c \in exec[s].clusters \ exec[s].staged :
            \/ NextTenant(s, exec[s].tenant)
            \/ /\ Generated(c)
               /\ exec' = [exec EXCEPT ![s].staged = @ \cup {c},
                              ![s].pc = IF exec[s].staged \cup {c} = exec[s].clusters
                                        THEN "save" ELSE "generate"]
    BY <1>6 DEF MineGenerate
  <2>3. CASE NextTenant(s, exec[s].tenant)
    BY <1>1, <1>3, <2>1, <2>3
  <2>4. CASE /\ Generated(c)
             /\ exec' = [exec EXCEPT ![s].staged = @ \cup {c},
                            ![s].pc = IF exec[s].staged \cup {c} = exec[s].clusters
                                      THEN "save" ELSE "generate"]
    <3>1. PICK l \in {"save", "generate"} :
              l = IF exec[s].staged \cup {c} = exec[s].clusters THEN "save" ELSE "generate"
      OBVIOUS
    <3>2. PICK S \in SUBSET Clusters : S = exec[s].staged \cup {c}
      BY <1>1 DEF Run
    <3>3. PICK x : x = [exec[s] EXCEPT !.staged = S, !.pc = l]
      OBVIOUS
    <3>4. exec' = [exec EXCEPT ![s] = x]
      BY <1>0, <2>4, <3>1, <3>2, <3>3 DEF IInv, TypeOK
    <3>5. x \in Exec /\ x.pc = l /\ x.job = exec[s].job /\ x.try = exec[s].try
          /\ x.todo = exec[s].todo /\ x.tenant = exec[s].tenant
          /\ x.clusters = exec[s].clusters /\ x.staged = exec[s].staged \cup {c}
      BY <1>1, <3>1, <3>2, <3>3 DEF Exec, Run
    <3>6. SlotOK(s, x)
      BY <1>0, <2>1, <2>2, <2>4, <3>1, <3>5 DEF SlotOK, QaPCs
    <3> QED
      BY <1>1, <2>1, <3>4, <3>5, <3>6 DEF Moves, SameRun
  <2> QED
    BY <2>2, <2>3, <2>4
<1>7. CASE MineSave(s)
  <2>1. NextTenant(s, exec[s].tenant) /\ exec[s].pc = "save"
    BY <1>7 DEF MineSave
  <2> QED
    BY <1>1, <1>3, <2>1
<1> QED
  BY <1>4, <1>5, <1>6, <1>7

(* A slot takes a job that its worker knows, and counts the attempt.       *)
LEMMA TakeShape ==
    ASSUME IInv, NEW s \in Slots, NEW j \in Jobs, Take(s, j)
    PROVE  \/ UNCHANGED <<exec, tries>>
           \/ \E x : /\ Moves(s, x)
                     /\ exec[s] = Free
                     /\ tries' = [tries EXCEPT ![j] = @ + 1]
                     /\ x.job = j /\ x.try = tries[j] + 1 /\ x.pc \in {"check", "scan"}
<1>1. CASE tries[j] >= MaxTries \/ ~Registered(s, j)
  BY <1>1 DEF Take
<1>2. CASE ~(tries[j] >= MaxTries \/ ~Registered(s, j))
  <2>1. tries[j] \in Nat
    BY DEF IInv, TypeOK
  <2>2. PICK l \in {"check", "scan"} : l = IF j \in Replies THEN "check" ELSE "scan"
    OBVIOUS
  <2>3. PICK x : x = [pc |-> l, job |-> j, try |-> tries[j] + 1,
                      todo |-> {}, tenant |-> NULL, clusters |-> {}, staged |-> {}]
    OBVIOUS
  <2>4. x \in Exec /\ x.pc = l /\ x.job = j /\ x.try = tries[j] + 1
    BY <2>1, <2>3 DEF Exec, Run
  <2>5. exec' = [exec EXCEPT ![s] = x] /\ exec[s] = Free
        /\ tries' = [tries EXCEPT ![j] = @ + 1]
    BY <1>2, <2>2, <2>3 DEF Take, Started
  <2>6. SlotOK(s, x)
    BY <1>2, <2>2, <2>4 DEF SlotOK, QaPCs, Registered
  <2> QED
    BY <2>4, <2>5, <2>6 DEF Moves
<1> QED
  BY <1>1, <1>2

LEMMA CrashShape ==
    ASSUME IInv, NEW slots \in SUBSET Slots, Crash(slots)
    PROVE  /\ exec' \in [Slots -> Exec]
           /\ \A s \in Slots \ slots : exec'[s] = exec[s]
           /\ \A s \in slots : exec'[s] \in {Free, Down}
<1>1. exec' = [s \in Slots |-> IF s \notin slots THEN exec[s]
                               ELSE IF s \in QaSlots THEN Free ELSE Down]
  BY DEF Crash
<1>2. exec \in [Slots -> Exec]
  BY DEF IInv, TypeOK
<1> QED
  BY <1>1, <1>2, Idle

(* A mining worker is started where none was.                              *)
LEMMA SpawnShape ==
    ASSUME IInv, NEW j \in Clicks, RunHistoryMining(j)
    PROVE  \/ exec' = exec
           \/ \E s \in Slots : exec[s] = Down /\ Moves(s, Free)
BY Idle DEF RunHistoryMining, Slots, Moves

(* What a move of one slot means for all of them.                          *)
LEMMA Moved ==
    ASSUME IInv, NEW s \in Slots, NEW x, Moves(s, x)
    PROVE  /\ exec' \in [Slots -> Exec]
           /\ \A o \in Slots : exec'[o] = IF o = s THEN x ELSE exec[o]
           /\ \A o \in Slots : SlotOK(o, exec'[o])
BY DEF IInv, TypeOK, Moves

(* The rows that are counted and not committed belong to the QA worker.    *)
LEMMA UncommittedAreQa ==
    ASSUME IInv, NEW r, NEW slots \in SUBSET Slots
    PROVE  /\ {s \in slots : Uncommitted(s, r)} \subseteq {s \in QaSlots : Uncommitted(s, r)}
           /\ IsFiniteSet({s \in slots : Uncommitted(s, r)})
           /\ Cardinality({s \in slots : Uncommitted(s, r)}) \in Nat
<1>1. \A s \in slots : Uncommitted(s, r) => s \in QaSlots
  BY DEF IInv, SlotOK, Uncommitted, QaPCs
<1>2. {s \in slots : Uncommitted(s, r)} \subseteq QaSlots
  BY <1>1
<1>3. IsFiniteSet({s \in slots : Uncommitted(s, r)})
  BY <1>2, FS_Subset, BackgroundJobsAssumption
<1> QED
  BY <1>1, <1>3, FS_CardinalityType

-----------------------------------------------------------------------------
(* Types.                                                                  *)

LEMMA InitIInv == Init => IInv
<1> SUFFICES ASSUME Init PROVE IInv
  OBVIOUS
<1> USE DEF Init
<1>1. exec \in [Slots -> Exec] /\ \A s \in Slots : SlotOK(s, exec[s])
  BY Idle
<1>2. draft = <<>> /\ DOMAIN draft = {}
  OBVIOUS
<1>3. draft \in [DOMAIN draft -> {"DRAFT", "APPROVED", "REJECTED"}]
  BY <1>2
<1>4. IsFiniteSet(article)
  BY FS_EmptySet
<1> QED
  BY <1>1, <1>2, <1>3, <1>4 DEF IInv, TypeOK, IdleAdmin, Reads

(* The queue: what is in Redis, and a crash.                               *)
LEMMA QueueIInv ==
    ASSUME IInv,
           \/ \E r \in Replies : EnqueueQaJudge(r)
           \/ \E j \in Jobs : Redeliver(j)
           \/ \E j \in Clicks : RunHistoryMining(j)
           \/ \E s \in Slots, j \in Jobs : Take(s, j)
    PROVE  IInv'
<1>1. CASE \/ \E r \in Replies : EnqueueQaJudge(r)
           \/ \E j \in Jobs : Redeliver(j)
  BY <1>1 DEF EnqueueQaJudge, Redeliver, qa, review, Fault, IInv, Reads, TypeOK, Jobs
<1>2. ASSUME NEW j \in Clicks, RunHistoryMining(j) PROVE IInv'
  <2>1. exec' \in [Slots -> Exec] /\ \A s \in Slots : SlotOK(s, exec'[s])
    BY <1>2, SpawnShape, Moved DEF IInv, TypeOK
  <2>2. /\ job' \in [Jobs -> {"none", "queued", "running", "lost", "expired", "not_found", "ended"}]
        /\ pid' \in MiningSlots \cup {NULL} /\ faults' \in Nat
    BY <1>2 DEF RunHistoryMining, Fault, IInv, TypeOK
  <2> QED
    BY <1>2, <2>1, <2>2 DEF RunHistoryMining, qa, review, IInv, Reads, TypeOK
<1>3. ASSUME NEW s \in Slots, NEW j \in Jobs, Take(s, j) PROVE IInv'
  <2>1. /\ exec' \in [Slots -> Exec] /\ \A o \in Slots : SlotOK(o, exec'[o])
        /\ tries' \in [Jobs -> Nat]
    BY <1>3, TakeShape, Moved DEF IInv, TypeOK
  <2>2. job' \in [Jobs -> {"none", "queued", "running", "lost", "expired", "not_found", "ended"}]
    BY <1>3 DEF Take, IInv, TypeOK
  <2> QED
    BY <1>3, <2>1, <2>2 DEF Take, qa, review, IInv, Reads, TypeOK
<1> QED
  BY <1>1, <1>2, <1>3

LEMMA CrashIInv ==
    ASSUME IInv, NEW slots \in SUBSET Slots, Crash(slots)
    PROVE  IInv'
<1>1. exec' \in [Slots -> Exec] /\ \A s \in Slots : SlotOK(s, exec'[s])
  BY CrashShape, Idle DEF IInv
<1>2. PICK lost : job' = [j \in Jobs |-> IF j \in lost /\ job[j] = "running"
                                         THEN "queued" ELSE job[j]]
  BY DEF Crash
<1>3. job' \in [Jobs -> {"none", "queued", "running", "lost", "expired", "not_found", "ended"}]
  BY <1>2 DEF IInv, TypeOK
<1>4. wasted' \in [Replies -> Nat]
  <2>1. wasted' = [r \in Replies |->
            wasted[r] + Cardinality({s \in slots : Uncommitted(s, r)})]
    BY DEF Crash
  <2>2. \A r \in Replies : Cardinality({s \in slots : Uncommitted(s, r)}) \in Nat
    BY UncommittedAreQa
  <2> QED
    BY <2>1, <2>2 DEF IInv, TypeOK
<1>5. /\ faults' \in Nat
      /\ UNCHANGED <<tries, pid, scores, counted, draft, kb, article, admin, blown>>
  BY DEF Crash, Fault, review, IInv, TypeOK
<1> QED
  BY <1>1, <1>3, <1>4, <1>5 DEF IInv, Reads, TypeOK

LEMMA EndsJob ==
    ASSUME IInv, NEW s, Ends(s) \/ UNCHANGED job
    PROVE  job' \in [Jobs -> {"none", "queued", "running", "lost", "expired", "not_found", "ended"}]
BY DEF Ends, IInv, TypeOK

LEMMA QaIInv ==
    ASSUME IInv, NEW s \in QaSlots,
           QaCheck(s) \/ QaJudge(s) \/ QaInsert(s) \/ QaCommit(s)
    PROVE  IInv'
<1>0. s \in Slots /\ exec[s].job \in Replies
  BY QaShape DEF Slots
<1>1. exec' \in [Slots -> Exec] /\ \A o \in Slots : SlotOK(o, exec'[o])
  BY <1>0, QaShape, Moved
<1>2. /\ UNCHANGED <<tries, pid, draft, kb, article, admin, blown>>
      /\ Ends(s) \/ UNCHANGED job
  BY DEF QaCheck, QaJudge, QaInsert, QaCommit, review
<1>3. /\ scores' \subseteq Replies
      /\ counted' \in [Replies -> Nat] /\ wasted' \in [Replies -> Nat]
      /\ faults' \in Nat
  BY <1>0 DEF QaCheck, QaJudge, QaInsert, QaCommit, qa, Fault, IInv, TypeOK
<1> QED
  BY <1>1, <1>2, <1>3, EndsJob DEF IInv, Reads, TypeOK

(* The drafts a run saves are drafts of its own run and tenant.            *)
Saved(s) == {DraftOf(s, c) : c \in exec[s].staged}

LEMMA SavedDrafts ==
    ASSUME IInv, NEW s \in Slots, exec[s].pc = "save"
    PROVE  /\ Saved(s) \subseteq Draft
           /\ exec[s].tenant \in exec[s].todo /\ exec[s].staged = exec[s].clusters
           /\ \A d \in Saved(s) : d.run = <<exec[s].job, exec[s].try>>
                                  /\ d.tenant = exec[s].tenant
<1>1. exec[s] \in Run /\ SlotOK(s, exec[s])
  BY Kinds DEF IInv, TypeOK, RunPCs, MinePCs
<1>2. exec[s].tenant \in exec[s].todo /\ exec[s].tenant \in Tenants
      /\ exec[s].staged = exec[s].clusters
  BY <1>1 DEF Run, SlotOK
<1>3. ASSUME NEW c \in exec[s].staged
      PROVE  /\ DraftOf(s, c) \in Draft
             /\ DraftOf(s, c).run = <<exec[s].job, exec[s].try>>
             /\ DraftOf(s, c).tenant = exec[s].tenant
  <2>1. c \in Clusters /\ exec[s].clusters \in SUBSET Clusters
        /\ exec[s].job \in Jobs /\ exec[s].try \in Nat
    BY <1>1 DEF Run
  <2> QED
    BY <1>2, <2>1 DEF DraftOf, Draft
<1> QED
  BY <1>2, <1>3 DEF Saved

LEMMA MineIInv ==
    ASSUME IInv, NEW s \in MiningSlots,
           MineScan(s) \/ MineTenant(s) \/ MineGenerate(s) \/ MineSave(s)
    PROVE  IInv'
<1>0. s \in Slots
  BY DEF Slots
<1>1. exec' \in [Slots -> Exec] /\ \A o \in Slots : SlotOK(o, exec'[o])
  BY <1>0, MineShape, Moved
<1>2. /\ UNCHANGED <<tries, pid, scores, counted, wasted, kb, article, admin, blown>>
      /\ faults' \in Nat
  <2>1. CASE MineScan(s) \/ MineGenerate(s) \/ MineSave(s)
    BY <2>1 DEF MineScan, MineGenerate, MineSave, review, qa, IInv, TypeOK
  <2>2. CASE MineTenant(s)
    <3>1. UNCHANGED <<tries, pid, qa, draft, review>> /\ (Fault \/ UNCHANGED faults)
      BY <2>2 DEF MineTenant
    <3> QED
      BY <3>1 DEF review, qa, Fault, IInv, TypeOK
  <2> QED
    BY <2>1, <2>2
<1>3. Ends(s) \/ UNCHANGED job
  BY DEF MineScan, MineTenant, MineGenerate, MineSave, NextTenant
<1>4. /\ DOMAIN draft' \subseteq Draft /\ DOMAIN draft \subseteq DOMAIN draft'
      /\ draft' \in [DOMAIN draft' -> {"DRAFT", "APPROVED", "REJECTED"}]
  <2>1. CASE MineSave(s)
    <3>1. draft' = [d \in Saved(s) \cup DOMAIN draft |->
                        IF d \in Saved(s) THEN "DRAFT" ELSE draft[d]]
          /\ exec[s].pc = "save"
      BY <2>1 DEF MineSave, Saved
    <3>2. Saved(s) \subseteq Draft
      BY <1>0, <3>1, SavedDrafts
    <3> QED
      BY <3>1, <3>2 DEF IInv, TypeOK
  <2>2. CASE UNCHANGED draft
    BY <2>2 DEF IInv, TypeOK
  <2> QED
    BY <2>1, <2>2 DEF MineScan, MineTenant, MineGenerate
<1> QED
  BY <1>1, <1>2, <1>3, <1>4, EndsJob DEF IInv, Reads, TypeOK

LEMMA ReviewIInv ==
    ASSUME IInv, NEW a \in Admins, Approve(a) \/ Reject(a) \/ AdminStep(a)
    PROVE  IInv'
<1>0. /\ admin[a].pc # "idle" => admin[a].draft \in Draft
      /\ admin[a] \in [pc : {"idle", "kb", "flush", "publish", "publish_kb"},
                       draft : Draft \cup {NULL}]
      /\ draft \in [DOMAIN draft -> {"DRAFT", "APPROVED", "REJECTED"}]
  BY DEF IInv, Reads, TypeOK
<1>1. UNCHANGED <<job, tries, exec, pid, scores, counted, wasted>>
  BY DEF Approve, Reject, AdminStep, SelectKb, FlushKb, Publish, queue, qa
<1> SUFFICES ASSUME TRUE
             PROVE  /\ DOMAIN draft' \subseteq Draft
                    /\ draft' \in [DOMAIN draft' -> {"DRAFT", "APPROVED", "REJECTED"}]
                    /\ kb' \subseteq Tenants /\ Reads'
                    /\ article' \subseteq Draft \X Nat /\ IsFiniteSet(article')
                    /\ admin' \in [Admins -> [pc : {"idle", "kb", "flush", "publish", "publish_kb"},
                                              draft : Draft \cup {NULL}]]
                    /\ blown' \subseteq Draft
                    /\ faults' \in Nat
  BY <1>1 DEF IInv, TypeOK
<1> USE DEF IdleAdmin
<1>2. CASE Approve(a)
  BY <1>2 DEF Approve, IInv, Reads, TypeOK
<1>3. CASE Reject(a)
  BY <1>3 DEF Reject, IInv, Reads, TypeOK
<1>4. CASE SelectKb(a)
  BY <1>0, <1>4 DEF SelectKb, IInv, Reads, TypeOK
<1>5. CASE FlushKb(a)
  BY <1>0, <1>5 DEF FlushKb, IInv, Reads, TypeOK
<1>6. CASE Publish(a)
  <2>1. PICK d \in Draft : d = admin[a].draft /\ d \in DOMAIN draft
    BY <1>0, <1>6 DEF Publish, IInv, Reads
  <2>2. PICK n \in Nat : n = Cardinality({x \in article : x[1] = d}) + 1
    <3>1. IsFiniteSet({x \in article : x[1] = d})
      BY FS_Subset DEF IInv
    <3>2. Cardinality({x \in article : x[1] = d}) \in Nat
      BY <3>1, FS_CardinalityType
    <3> QED
      BY <3>2
  <2>3. /\ \/ /\ article' = article \cup {<<d, n>>}
              /\ draft' = [draft EXCEPT ![d] = "APPROVED"]
              /\ kb' = kb \cup {d.tenant}
              /\ UNCHANGED faults
           \/ Fault /\ UNCHANGED <<article, draft, kb>>
        /\ admin' = [admin EXCEPT ![a] = IdleAdmin]
        /\ UNCHANGED blown
    BY <1>6, <2>1, <2>2 DEF Publish
  <2>4. IsFiniteSet(article')
    <3>1. IsFiniteSet(article \cup {<<d, n>>})
      BY FS_AddElement DEF IInv
    <3> QED
      BY <2>3, <3>1 DEF IInv
  <2>5. d.tenant \in Tenants /\ <<d, n>> \in Draft \X Nat
    BY <2>1 DEF Draft
  <2>6. DOMAIN draft' = DOMAIN draft
    BY <2>3
  <2> QED
    BY <1>0, <2>1, <2>3, <2>4, <2>5, <2>6 DEF Fault, IInv, Reads, TypeOK
<1> QED
  BY <1>2, <1>3, <1>4, <1>5, <1>6 DEF AdminStep

LEMMA NextIInv == IInv /\ [Next]_vars => IInv'
<1> SUFFICES ASSUME IInv, [Next]_vars PROVE IInv'
  OBVIOUS
<1>1. CASE UNCHANGED vars
  BY <1>1 DEF vars, IInv, TypeOK, Reads
<1>2. QaSlots \in SUBSET Slots /\ \A s \in MiningSlots : {s} \in SUBSET Slots
  BY DEF Slots
<1>3. ASSUME NEW s \in Slots, SlotStep(s) PROVE IInv'
  BY <1>3, QueueIInv, QaIInv, MineIInv DEF SlotStep
<1> QED
  BY <1>1, <1>2, <1>3, QueueIInv, CrashIInv, ReviewIInv DEF Next

LEMMA Invariance == Spec => []IInv
BY InitIInv, NextIInv, PTL DEF Spec

(* Type correctness of the queue, the workers, the scores and the review.  *)
THEOREM BackgroundJobsTypeCorrect == Spec => []TypeOK
<1>1. IInv => TypeOK
  BY DEF IInv
<1> QED
  BY <1>1, Invariance, PTL

-----------------------------------------------------------------------------
(* The scores.  A row that is flushed and not committed keeps other slots  *)
(* from inserting one for the same reply: there is at most one, and none   *)
(* once a score is stored.                                                 *)
Flushed(r) == {s \in QaSlots : Uncommitted(s, r)}

Stored(r) == IF r \in scores THEN 1 ELSE 0

QaInv ==
    \A r \in Replies :
        /\ r \in scores => Flushed(r) = {}
        /\ \A s, o \in Flushed(r) : s = o
        /\ counted[r] = wasted[r] + Cardinality(Flushed(r)) + Stored(r)

LEMMA FlushedFinite ==
    ASSUME NEW r
    PROVE  IsFiniteSet(Flushed(r)) /\ Cardinality(Flushed(r)) \in Nat
<1>1. IsFiniteSet(Flushed(r))
  BY FS_Subset, BackgroundJobsAssumption DEF Flushed
<1> QED
  BY <1>1, FS_CardinalityType

(* A slot that neither commits nor is about to.                            *)
LEMMA SameFlushed ==
    ASSUME IInv, QaInv, NEW s \in Slots, NEW x, Moves(s, x),
           exec[s].pc # "commit", x.pc # "commit",
           UNCHANGED <<scores, counted, wasted>>
    PROVE  QaInv'
<1>1. \A r : Flushed(r)' = Flushed(r)
  BY Moved DEF Flushed, Uncommitted, Slots
<1> QED
  BY <1>1 DEF QaInv, Stored

LEMMA UnchangedQa ==
    ASSUME QaInv, UNCHANGED <<exec, scores, counted, wasted>>
    PROVE  QaInv'
BY DEF QaInv, Flushed, Uncommitted, Stored

(* A step that concerns one reply.                                         *)
LEMMA OneReply ==
    ASSUME QaInv, NEW q \in Replies,
           \A r \in Replies \ {q} :
              /\ Flushed(r)' = Flushed(r) /\ (r \in scores' <=> r \in scores)
              /\ counted'[r] = counted[r] /\ wasted'[r] = wasted[r],
           q \in scores' => Flushed(q)' = {},
           \A s, o \in Flushed(q)' : s = o,
           counted'[q] = wasted'[q] + Cardinality(Flushed(q)') + Stored(q)'
    PROVE  QaInv'
<1> SUFFICES ASSUME NEW r \in Replies \ {q}
             PROVE  /\ r \in scores' => Flushed(r)' = {}
                    /\ \A s, o \in Flushed(r)' : s = o
                    /\ counted'[r] = wasted'[r] + Cardinality(Flushed(r)') + Stored(r)'
  BY DEF QaInv
<1>1. Stored(r)' = Stored(r) /\ Cardinality(Flushed(r)') = Cardinality(Flushed(r))
  BY DEF Stored
<1> QED
  BY <1>1 DEF QaInv

LEMMA InsertQa ==
    ASSUME IInv, QaInv, NEW s \in QaSlots, QaInsert(s), exec[s].job \notin scores
    PROVE  QaInv'
<1>0. PICK q \in Replies : q = exec[s].job
  BY QaShape
<1>1. PICK x : q = exec[s].job /\ Moves(s, x) /\ SameRun(s, x) /\ x.pc = "commit"
  BY <1>0, QaShape
<1>2. s \in Slots /\ exec[s].pc = "insert" /\ x.job = q /\ q \notin scores
      /\ counted' = [counted EXCEPT ![q] = @ + 1] /\ UNCHANGED <<scores, wasted>>
  BY <1>1, Idle DEF QaInsert, SameRun, Slots
<1>3. Flushed(q) = {}
  BY <1>1 DEF QaInsert, RowHeld, Flushed
<1>4. \A o \in QaSlots : o \in Slots /\ exec'[o] = IF o = s THEN x ELSE exec[o]
  BY <1>1, <1>2, Moved DEF Slots
<1>5. \A r \in Replies \ {q} : Flushed(r)' = Flushed(r)
  BY <1>1, <1>2, <1>4 DEF Flushed, Uncommitted
<1>6. Flushed(q)' = {s}
  BY <1>1, <1>2, <1>3, <1>4 DEF Flushed, Uncommitted
<1>7. Cardinality(Flushed(q)) = 0 /\ Cardinality(Flushed(q)') = 1
  BY <1>3, <1>6, FS_EmptySet, FS_Singleton
<1>8. counted \in [Replies -> Nat] /\ wasted[q] \in Nat
  BY DEF IInv, TypeOK
<1>9. counted'[q] = wasted'[q] + Cardinality(Flushed(q)') + Stored(q)'
  <2>1. counted[q] = wasted[q]
    BY <1>2, <1>7, <1>8 DEF QaInv, Stored
  <2>2. Stored(q)' = 0 /\ counted'[q] = counted[q] + 1 /\ wasted'[q] = wasted[q]
    BY <1>2, <1>8 DEF Stored
  <2> QED
    BY <1>7, <1>8, <2>1, <2>2
<1>10. \A r \in Replies \ {q} : counted'[r] = counted[r] /\ wasted'[r] = wasted[r]
  BY <1>2, <1>8
<1> QED
  BY <1>2, <1>5, <1>6, <1>9, <1>10, OneReply

LEMMA CommitQa ==
    ASSUME IInv, QaInv, NEW s \in QaSlots, QaCommit(s)
    PROVE  QaInv'
<1>1. PICK q \in Replies : q = exec[s].job
  BY QaShape
<1>2. /\ s \in Slots /\ exec[s].pc = "commit" /\ Moves(s, Free) /\ UNCHANGED counted
      /\ \/ scores' = scores \cup {q} /\ UNCHANGED wasted
         \/ wasted' = [wasted EXCEPT ![q] = @ + 1] /\ UNCHANGED scores
  BY <1>1, EndsMoves DEF QaCommit, Slots
<1>3. Flushed(q) = {s} /\ q \notin scores
  <2>1. s \in Flushed(q)
    BY <1>1, <1>2 DEF Flushed, Uncommitted
  <2> QED
    BY <2>1 DEF QaInv
<1>4. \A o \in QaSlots : o \in Slots /\ exec'[o] = IF o = s THEN Free ELSE exec[o]
  BY <1>2, Moved DEF Slots
<1>5. \A r \in Replies \ {q} : Flushed(r)' = Flushed(r)
  BY <1>1, <1>2, <1>4, Idle DEF Flushed, Uncommitted
<1>6. Flushed(q)' = {}
  BY <1>2, <1>3, <1>4, Idle DEF Flushed, Uncommitted
<1>7. Cardinality(Flushed(q)) = 1 /\ Cardinality(Flushed(q)') = 0
  BY <1>3, <1>6, FS_EmptySet, FS_Singleton
<1>8. wasted \in [Replies -> Nat] /\ counted[q] \in Nat
  BY DEF IInv, TypeOK
<1>9. counted'[q] = wasted'[q] + Cardinality(Flushed(q)') + Stored(q)'
  <2>1. counted[q] = wasted[q] + 1
    <3>1. Stored(q) = 0
      BY <1>3 DEF Stored
    <3>2. counted[q] = wasted[q] + Cardinality(Flushed(q)) + Stored(q)
      BY DEF QaInv
    <3> QED
      BY <1>7, <1>8, <3>1, <3>2
  <2>2. CASE scores' = scores \cup {q} /\ UNCHANGED wasted
    <3>1. Stored(q)' = 1
      BY <2>2 DEF Stored
    <3> QED
      BY <1>2, <1>7, <1>8, <2>1, <2>2, <3>1
  <2>3. CASE wasted' = [wasted EXCEPT ![q] = @ + 1] /\ UNCHANGED scores
    <3>1. Stored(q)' = 0 /\ wasted'[q] = wasted[q] + 1
      BY <1>3, <1>8, <2>3 DEF Stored
    <3> QED
      BY <1>2, <1>7, <1>8, <2>1, <2>3, <3>1
  <2> QED
    BY <1>2, <2>2, <2>3
<1>10. \A r \in Replies \ {q} :
          counted'[r] = counted[r] /\ wasted'[r] = wasted[r] /\ (r \in scores' <=> r \in scores)
  BY <1>2, <1>8
<1> QED
  BY <1>5, <1>6, <1>9, <1>10, OneReply

(* A crash loses the rows its slots had flushed.                           *)
LEMMA CrashQa ==
    ASSUME IInv, QaInv, NEW slots \in SUBSET Slots, Crash(slots)
    PROVE  QaInv'
<1> SUFFICES ASSUME NEW r \in Replies
             PROVE  /\ r \in scores' => Flushed(r)' = {}
                    /\ \A s, o \in Flushed(r)' : s = o
                    /\ counted'[r] = wasted'[r] + Cardinality(Flushed(r)') + Stored(r)'
  BY DEF QaInv
<1>1. UNCHANGED <<scores, counted>>
      /\ wasted'[r] = wasted[r] + Cardinality({s \in slots : Uncommitted(s, r)})
  BY DEF Crash
<1>2. {s \in slots : Uncommitted(s, r)} = Flushed(r) \cap slots
  BY UncommittedAreQa DEF Flushed
<1>3. Flushed(r)' = Flushed(r) \ slots
  <2>1. \A s \in QaSlots : s \in Slots
    BY DEF Slots
  <2> QED
    BY <2>1, CrashShape, Idle DEF Flushed, Uncommitted
<1>4. Cardinality(Flushed(r) \ slots)
          = Cardinality(Flushed(r)) - Cardinality(Flushed(r) \cap slots)
  BY FlushedFinite, FS_Difference
<1>5. wasted[r] \in Nat /\ counted[r] \in Nat /\ Cardinality(Flushed(r)) \in Nat
      /\ Cardinality(Flushed(r) \cap slots) \in Nat
  BY <1>2, UncommittedAreQa, FlushedFinite DEF IInv, TypeOK
<1>6. Stored(r)' = Stored(r) /\ Stored(r) \in Nat
      /\ counted[r] = wasted[r] + Cardinality(Flushed(r)) + Stored(r)
  BY <1>1 DEF QaInv, Stored
<1>7. counted'[r] = wasted'[r] + Cardinality(Flushed(r) \ slots) + Stored(r)'
  <2>1. PICK a, b \in Nat : a = Cardinality(Flushed(r)) /\ b = Cardinality(Flushed(r) \cap slots)
    BY <1>5
  <2>2. wasted'[r] = wasted[r] + b /\ Cardinality(Flushed(r) \ slots) = a - b
    BY <1>1, <1>2, <1>4, <2>1
  <2> QED
    BY <1>1, <1>5, <1>6, <2>1, <2>2
<1> QED
  BY <1>1, <1>3, <1>7 DEF QaInv

LEMMA NextQaInv == IInv /\ QaInv /\ [Next]_vars => QaInv'
<1> SUFFICES ASSUME IInv, QaInv, [Next]_vars PROVE QaInv'
  OBVIOUS
<1>1. CASE UNCHANGED vars
  BY <1>1, UnchangedQa DEF vars
<1>2. CASE \/ \E r \in Replies : EnqueueQaJudge(r)
           \/ \E j \in Jobs : Redeliver(j)
           \/ \E a \in Admins : Approve(a) \/ Reject(a) \/ AdminStep(a)
  BY <1>2, UnchangedQa DEF EnqueueQaJudge, Redeliver, Approve, Reject, AdminStep, SelectKb,
                           FlushKb, Publish, qa, queue
<1>3. ASSUME NEW j \in Clicks, RunHistoryMining(j) PROVE QaInv'
  <2>1. UNCHANGED <<scores, counted, wasted>>
    BY <1>3 DEF RunHistoryMining, qa
  <2> QED
    BY <1>3, <2>1, SpawnShape, SameFlushed, UnchangedQa, Idle
<1>4. ASSUME NEW s \in Slots, NEW j \in Jobs, Take(s, j) PROVE QaInv'
  <2>1. UNCHANGED <<scores, counted, wasted>>
    BY <1>4 DEF Take, qa
  <2> QED
    BY <1>4, <2>1, TakeShape, SameFlushed, UnchangedQa, Idle
<1>5. ASSUME NEW s \in QaSlots, QaCheck(s) \/ QaJudge(s) \/ QaInsert(s) PROVE QaInv'
  <2>1. CASE QaInsert(s) /\ exec[s].job \notin scores
    BY <2>1, InsertQa
  <2>2. CASE ~(QaInsert(s) /\ exec[s].job \notin scores)
    <3>1. UNCHANGED <<scores, counted, wasted>> /\ exec[s].pc # "commit" /\ s \in Slots
      BY <1>5, <2>2 DEF QaCheck, QaJudge, QaInsert, qa, Slots
    <3>2. PICK x : Moves(s, x) /\ x.pc # "commit"
      BY <1>5, <2>2, QaShape
    <3> QED
      BY <3>1, <3>2, SameFlushed
  <2> QED
    BY <2>1, <2>2
<1>6. ASSUME NEW s \in MiningSlots,
             MineScan(s) \/ MineTenant(s) \/ MineGenerate(s) \/ MineSave(s)
      PROVE  QaInv'
  <2>1. UNCHANGED <<scores, counted, wasted>> /\ s \in Slots
    BY <1>6 DEF MineScan, MineTenant, MineGenerate, MineSave, qa, Slots
  <2>2. PICK x : Moves(s, x) /\ x.pc # "commit"
    BY <1>6, MineShape, Idle
  <2>3. exec[s].pc # "commit"
    BY <1>6, MineShape DEF MinePCs
  <2> QED
    BY <2>1, <2>2, <2>3, SameFlushed
<1>7. QaSlots \in SUBSET Slots /\ \A s \in MiningSlots : {s} \in SUBSET Slots
  BY DEF Slots
<1> QED
  BY <1>1, <1>2, <1>3, <1>4, <1>5, <1>6, <1>7, CommitQa, CrashQa DEF Next, SlotStep

(* LUMEN_QA_SCORES counts each stored score once.  What it counts beyond   *)
(* them are rows being committed and rows that were lost, however often    *)
(* qa_judge_task is redelivered, run twice at once or cut off.             *)
THEOREM EveryScoreCountedOnce == Spec => []ScoresCounted
<1>1. Init => QaInv
  <2> SUFFICES ASSUME Init PROVE QaInv
    OBVIOUS
  <2>1. \A r : Flushed(r) = {}
    BY Idle DEF Init, Flushed, Uncommitted, Slots
  <2>2. \A r : Cardinality(Flushed(r)) = 0
    BY <2>1, FS_EmptySet
  <2> QED
    BY <2>1, <2>2 DEF Init, QaInv, Stored
<1>2. QaInv => ScoresCounted
  BY DEF QaInv, ScoresCounted, Flushed, Stored
<1> QED
  BY <1>1, <1>2, Invariance, NextQaInv, PTL DEF Spec

-----------------------------------------------------------------------------
(* The batches.  Each run of a job has a number of its own, so that nobody *)
(* else writes its drafts, and it writes those of a tenant once.           *)
Runs == {s \in Slots : exec[s].pc \in RunPCs}

RunOf(x) == <<x.job, x.try>>

(* What a mining run has not saved yet.                                    *)
Fresh(x) ==
    x.pc \in MinePCs => \A d \in DOMAIN draft :
        d.run = RunOf(x) => x.pc # "scan" /\ d.tenant \notin x.todo

MineInv ==
    /\ \A s \in Runs : exec[s].try <= tries[exec[s].job]
    /\ \A s, o \in Runs : RunOf(exec[s]) = RunOf(exec[o]) => s = o
    /\ \A d \in DOMAIN draft : d.run[2] <= tries[d.run[1]]
    /\ \A s \in Slots : Fresh(exec[s])
    /\ WholeBatches

LEMMA UnchangedMine ==
    ASSUME MineInv, UNCHANGED <<exec, tries>>, DOMAIN draft' = DOMAIN draft
    PROVE  MineInv'
BY DEF MineInv, Runs, Fresh, WholeBatches

(* A run goes on or ends.                                                  *)
LEMMA SameMine ==
    ASSUME IInv, MineInv, NEW s \in Slots, NEW x, Moves(s, x),
           x.pc \in RunPCs => s \in Runs /\ SameRun(s, x),
           Fresh(x), UNCHANGED <<tries, draft>>
    PROVE  MineInv'
<1>1. \A o \in Slots : exec'[o] = IF o = s THEN x ELSE exec[o]
  BY Moved
<1>2. x.pc \in RunPCs => x.job = exec[s].job /\ x.try = exec[s].try
  BY Idle DEF SameRun, RunPCs, QaPCs, MinePCs
<1>3. \A o \in Runs' : o \in Runs /\ exec'[o].job = exec[o].job /\ exec'[o].try = exec[o].try
  BY <1>1, <1>2 DEF Runs
<1>4. \A o \in Slots : Fresh(exec[o])'
  BY <1>1 DEF MineInv, Fresh
<1>5. \A o \in Runs' : exec'[o].try <= tries'[exec'[o].job]
  BY <1>3 DEF MineInv
<1>6. \A o, v \in Runs' : RunOf(exec'[o]) = RunOf(exec'[v]) => o = v
  BY <1>3 DEF MineInv, RunOf
<1>7. (\A d \in DOMAIN draft : d.run[2] <= tries[d.run[1]])' /\ WholeBatches'
  BY DEF MineInv, WholeBatches
<1> QED
  BY <1>4, <1>5, <1>6, <1>7 DEF MineInv


(* A run that begins has a number nobody has.                              *)
LEMMA TakeMine ==
    ASSUME IInv, MineInv, NEW s \in Slots, NEW j \in Jobs, Take(s, j)
    PROVE  MineInv'
<1>1. draft' = draft
  BY DEF Take
<1>2. CASE UNCHANGED <<exec, tries>>
  BY <1>1, <1>2, UnchangedMine
<1>3. ASSUME NEW x, Moves(s, x), exec[s] = Free, tries' = [tries EXCEPT ![j] = @ + 1],
             x.job = j, x.try = tries[j] + 1, x.pc \in {"check", "scan"}
      PROVE  MineInv'
  <2>1. tries \in [Jobs -> Nat] /\ \A o \in Slots : exec[o] \in Exec
    BY DEF IInv, TypeOK
  <2>2. \A o \in Slots : exec'[o] = IF o = s THEN x ELSE exec[o]
    BY <1>3, Moved
  <2>3. \A i \in Jobs : tries[i] <= tries'[i] /\ tries[i] \in Nat /\ tries'[i] \in Nat
    BY <1>3, <2>1
  <2>4. \A o \in Runs : exec[o].job \in Jobs /\ exec[o].try \in Nat
    BY <2>1, Kinds DEF Runs
  <2>5. \A o \in Runs' : o = s \/ (o \in Runs /\ exec'[o] = exec[o])
    BY <2>2 DEF Runs
  <2>6. \A o \in Runs' : exec'[o].try <= tries'[exec'[o].job]
    BY <1>3, <2>1, <2>2, <2>3, <2>4, <2>5 DEF MineInv
  <2>7. \A o \in Runs : RunOf(exec[o]) # RunOf(x)
    BY <1>3, <2>1, <2>4 DEF MineInv, RunOf
  <2>8. \A o, p \in Runs' : RunOf(exec'[o]) = RunOf(exec'[p]) => o = p
    BY <2>2, <2>5, <2>7 DEF MineInv
  <2>9. \A d \in DOMAIN draft : d.run[1] \in Jobs /\ d.run[2] \in Nat
    BY DEF IInv, TypeOK, Draft
  <2>10. \A d \in DOMAIN draft' : d.run[2] <= tries'[d.run[1]]
    BY <1>1, <2>3, <2>9 DEF MineInv
  <2>11. \A o \in Slots : Fresh(exec[o])'
    <3>1. \A d \in DOMAIN draft : d.run # RunOf(x)
      BY <1>3, <2>1, <2>9 DEF MineInv, RunOf
    <3> QED
      BY <1>1, <2>2, <3>1 DEF MineInv, Fresh
  <2> QED
    BY <1>1, <2>6, <2>8, <2>10, <2>11 DEF MineInv, WholeBatches, RunOf
<1> QED
  BY <1>2, <1>3, TakeShape

LEMMA CrashMine ==
    ASSUME IInv, MineInv, NEW slots \in SUBSET Slots, Crash(slots)
    PROVE  MineInv'
<1>1. UNCHANGED <<tries, draft>>
  BY DEF Crash
<1>2. \A o \in Slots : exec'[o] = exec[o] \/ exec'[o] \in {Free, Down}
  BY CrashShape
<1>3. \A o \in Runs' : o \in Runs /\ exec'[o] = exec[o]
  BY <1>2, Idle DEF Runs, RunPCs, QaPCs, MinePCs
<1>4. \A o \in Slots : Fresh(exec[o])'
  BY <1>1, <1>2, Idle DEF MineInv, Fresh, MinePCs
<1> QED
  BY <1>1, <1>3, <1>4 DEF MineInv, WholeBatches

(* The drafts of a tenant are new when they are saved, and are all of them.*)
LEMMA SaveAddsNew ==
    ASSUME IInv, MineInv, NEW s \in MiningSlots, MineSave(s)
    PROVE  /\ s \in Slots /\ s \in Runs /\ exec[s].pc = "save"
           /\ draft' = [d \in Saved(s) \cup DOMAIN draft |->
                            IF d \in Saved(s) THEN "DRAFT" ELSE draft[d]]
           /\ Saved(s) \cap DOMAIN draft = {}
<1>1. s \in Slots /\ s \in Runs /\ exec[s].pc = "save"
  BY DEF MineSave, Slots, Runs, RunPCs, MinePCs
<1>2. draft' = [d \in Saved(s) \cup DOMAIN draft |->
                    IF d \in Saved(s) THEN "DRAFT" ELSE draft[d]]
  BY DEF MineSave, Saved
<1>3. \A d \in Saved(s) : d \notin DOMAIN draft
  BY <1>1, SavedDrafts DEF MineInv, Fresh, RunOf, MinePCs
<1> QED
  BY <1>1, <1>2, <1>3

LEMMA SaveMine ==
    ASSUME IInv, MineInv, NEW s \in MiningSlots, MineSave(s)
    PROVE  MineInv'
<1>1. /\ s \in Slots /\ s \in Runs /\ exec[s].pc = "save"
      /\ DOMAIN draft' = Saved(s) \cup DOMAIN draft
      /\ UNCHANGED tries
  BY SaveAddsNew DEF MineSave
<1>2. PICK x : /\ Moves(s, x) /\ SameRun(s, x)
               /\ x = Free \/ /\ x.pc \in {"tenant", "generate", "save"}
                              /\ x.todo \subseteq exec[s].todo
                              /\ exec[s].tenant \notin x.todo
  BY <1>1, MineShape
<1>3. \A o \in Slots : exec'[o] = IF o = s THEN x ELSE exec[o]
  BY <1>1, <1>2, Moved
<1>4. \A o \in Runs' : o \in Runs /\ exec'[o].job = exec[o].job /\ exec'[o].try = exec[o].try
  BY <1>1, <1>2, <1>3, Idle DEF Runs, SameRun, RunPCs, QaPCs, MinePCs
<1>5. \A d \in Saved(s) : d.run = RunOf(exec[s]) /\ d.tenant = exec[s].tenant
  BY <1>1, SavedDrafts DEF RunOf
<1>6. \A d \in DOMAIN draft' : d.run[2] <= tries'[d.run[1]]
  BY <1>1, <1>5 DEF MineInv, RunOf
<1>7. ASSUME NEW o \in Slots PROVE Fresh(exec[o])'
  <2>1. CASE o # s
    <3>1. exec'[o] = exec[o] /\ Fresh(exec[o])
      BY <1>3, <2>1 DEF MineInv
    <3>2. exec[o].pc \in MinePCs => RunOf(exec[o]) # RunOf(exec[s])
      BY <1>1, <2>1 DEF MineInv, Runs, RunPCs
    <3> QED
      BY <1>1, <1>5, <3>1, <3>2 DEF Fresh, RunOf
  <2>2. CASE o = s
    <3>1. exec'[o] = x
      BY <1>3, <2>2
    <3>2. CASE x = Free
      BY <3>1, <3>2, Idle DEF Fresh, MinePCs
    <3>3. CASE x # Free
      <4>1. x.pc # "scan" /\ x.todo \subseteq exec[s].todo /\ exec[s].tenant \notin x.todo
            /\ RunOf(x) = RunOf(exec[s])
        BY <1>2, <3>3 DEF SameRun, RunOf
      <4>2. \A d \in DOMAIN draft : d.run = RunOf(x) => d.tenant \notin x.todo
        BY <1>1, <4>1 DEF MineInv, Fresh, MinePCs
      <4> QED
        BY <1>1, <1>5, <3>1, <4>1, <4>2 DEF Fresh, RunOf
    <3> QED
      BY <3>2, <3>3
  <2> QED
    BY <2>1, <2>2
<1>8. WholeBatches'
  <2>1. ASSUME NEW c \in exec[s].staged
        PROVE  /\ DraftOf(s, c).batch = exec[s].staged
               /\ \A e : [DraftOf(s, c) EXCEPT !.cluster = e] = DraftOf(s, e)
    BY <1>1, SavedDrafts DEF DraftOf
  <2>2. \A c \in exec[s].staged : Generated(c)
    BY <1>1 DEF IInv, SlotOK
  <2>3. ASSUME NEW d \in DOMAIN draft', NEW c \in d.batch
        PROVE  Generated(c) /\ [d EXCEPT !.cluster = c] \in DOMAIN draft'
    <3>1. CASE d \in DOMAIN draft
      BY <1>1, <2>3, <3>1 DEF MineInv, WholeBatches
    <3>2. CASE d \in Saved(s)
      <4>1. PICK e \in exec[s].staged : d = DraftOf(s, e)
        BY <3>2 DEF Saved
      <4>2. c \in exec[s].staged /\ [d EXCEPT !.cluster = c] = DraftOf(s, c)
        BY <2>1, <2>3, <4>1
      <4> QED
        BY <1>1, <2>2, <4>2 DEF Saved
    <3> QED
      BY <1>1, <3>1, <3>2
  <2> QED
    BY <2>3 DEF WholeBatches, Generated
<1> QED
  BY <1>1, <1>4, <1>6, <1>7, <1>8 DEF MineInv, RunOf

LEMMA MiningMine ==
    ASSUME IInv, MineInv, NEW s \in MiningSlots, MineScan(s) \/ MineTenant(s) \/ MineGenerate(s)
    PROVE  MineInv'
<1>1. s \in Slots /\ s \in Runs /\ UNCHANGED <<tries, draft>> /\ exec[s].pc \in MinePCs
  BY MineShape DEF MineScan, MineTenant, MineGenerate, Slots, Runs, RunPCs
<1>2. PICK x : /\ Moves(s, x) /\ SameRun(s, x)
               /\ x = Free \/ /\ x.pc \in {"tenant", "generate", "save"}
                              /\ exec[s].pc # "scan" => x.todo \subseteq exec[s].todo
  BY MineShape
<1>3. Fresh(x)
  <2>1. CASE x = Free
    BY <2>1, Idle DEF Fresh, MinePCs
  <2>2. CASE x # Free
    BY <1>1, <1>2, <2>2 DEF MineInv, Fresh, SameRun, RunOf
  <2> QED
    BY <2>1, <2>2
<1> QED
  BY <1>1, <1>2, <1>3, SameMine

LEMMA QaMine ==
    ASSUME IInv, MineInv, NEW s \in QaSlots,
           QaCheck(s) \/ QaJudge(s) \/ QaInsert(s) \/ QaCommit(s)
    PROVE  MineInv'
<1>1. s \in Slots /\ s \in Runs /\ UNCHANGED <<tries, draft>>
  BY QaShape DEF QaCheck, QaJudge, QaInsert, QaCommit, Slots, Runs, RunPCs
<1>2. PICK x : Moves(s, x) /\ SameRun(s, x) /\ (x = Free \/ x.pc \in {"judge", "insert", "commit"})
  BY QaShape
<1>3. Fresh(x)
  BY <1>2, Idle DEF Fresh, MinePCs
<1> QED
  BY <1>1, <1>2, <1>3, SameMine

LEMMA ReviewKeepsDrafts ==
    ASSUME IInv, NEW a \in Admins, Approve(a) \/ Reject(a) \/ AdminStep(a)
    PROVE  DOMAIN draft' = DOMAIN draft
BY DEF Approve, Reject, AdminStep, SelectKb, FlushKb, Publish

LEMMA NextMineInv == IInv /\ MineInv /\ [Next]_vars => MineInv'
<1> SUFFICES ASSUME IInv, MineInv, [Next]_vars PROVE MineInv'
  OBVIOUS
<1>1. CASE UNCHANGED vars
  BY <1>1, UnchangedMine DEF vars
<1>2. CASE \/ \E r \in Replies : EnqueueQaJudge(r)
           \/ \E j \in Jobs : Redeliver(j)
  BY <1>2, UnchangedMine DEF EnqueueQaJudge, Redeliver
<1>3. ASSUME NEW a \in Admins, Approve(a) \/ Reject(a) \/ AdminStep(a) PROVE MineInv'
  <2>1. UNCHANGED <<exec, tries>>
    BY <1>3 DEF Approve, Reject, AdminStep, SelectKb, FlushKb, Publish, queue
  <2> QED
    BY <1>3, <2>1, ReviewKeepsDrafts, UnchangedMine
<1>4. ASSUME NEW j \in Clicks, RunHistoryMining(j) PROVE MineInv'
  <2>1. UNCHANGED <<tries, draft>>
    BY <1>4 DEF RunHistoryMining
  <2>2. Fresh(Free) /\ Free.pc \notin RunPCs
    BY Idle DEF Fresh, RunPCs, QaPCs, MinePCs
  <2> QED
    BY <1>4, <2>1, <2>2, SpawnShape, SameMine, UnchangedMine
<1>5. ASSUME NEW s \in Slots, SlotStep(s) PROVE MineInv'
  BY <1>5, TakeMine, QaMine, MiningMine, SaveMine DEF SlotStep
<1>6. QaSlots \in SUBSET Slots /\ \A s \in MiningSlots : {s} \in SUBSET Slots
  BY DEF Slots
<1> QED
  BY <1>1, <1>2, <1>3, <1>4, <1>5, <1>6, CrashMine DEF Next

LEMMA MineInvariance == Spec => []MineInv
<1>1. Init => MineInv
  <2> SUFFICES ASSUME Init PROVE MineInv
    OBVIOUS
  <2>1. Runs = {} /\ DOMAIN draft = {}
    BY Idle DEF Init, Runs, RunPCs, QaPCs, MinePCs
  <2> QED
    BY <2>1 DEF MineInv, Fresh, WholeBatches
<1> QED
  BY <1>1, Invariance, NextMineInv, PTL DEF Spec

(* A run of history_mining_worker leaves a tenant all its drafts or none,  *)
(* whoever mines at the same time and wherever a worker dies.              *)
THEOREM BatchesAreWhole == Spec => []WholeBatches
<1>1. MineInv => WholeBatches
  BY DEF MineInv
<1> QED
  BY <1>1, MineInvariance, PTL

-----------------------------------------------------------------------------
(* The review.  A draft that is being approved is still a DRAFT, and one   *)
(* administrator has it.                                                   *)
ReviewInv ==
    /\ OneArticlePerDraft
    /\ \A a \in Admins : admin[a].pc # "idle" => draft[admin[a].draft] = "DRAFT"
    /\ \A a, b \in Admins :
          admin[a].pc # "idle" /\ admin[b].pc # "idle" /\ admin[a].draft = admin[b].draft
              => a = b

LEMMA UnchangedReview ==
    ASSUME ReviewInv, UNCHANGED <<draft, kb, article, admin>>
    PROVE  ReviewInv'
BY DEF ReviewInv, OneArticlePerDraft

(* New drafts have no article and no review.                               *)
LEMMA SaveReview ==
    ASSUME IInv, MineInv, ReviewInv, NEW s \in MiningSlots, MineSave(s)
    PROVE  ReviewInv'
<1>1. /\ draft' = [d \in Saved(s) \cup DOMAIN draft |->
                       IF d \in Saved(s) THEN "DRAFT" ELSE draft[d]]
      /\ Saved(s) \cap DOMAIN draft = {}
      /\ UNCHANGED <<kb, article, admin>>
  BY SaveAddsNew DEF MineSave, review
<1>2. {d \in DOMAIN draft' : draft'[d] = "APPROVED"} = {d \in DOMAIN draft : draft[d] = "APPROVED"}
  BY <1>1
<1>3. OneArticlePerDraft'
  BY <1>1, <1>2 DEF ReviewInv, OneArticlePerDraft
<1>4. \A a \in Admins : admin[a].pc # "idle" => draft'[admin[a].draft] = "DRAFT"
  BY <1>1 DEF ReviewInv, IInv, Reads
<1> QED
  BY <1>1, <1>3, <1>4 DEF ReviewInv

LEMMA PublishReview ==
    ASSUME IInv, ReviewInv, NEW a \in Admins, Publish(a)
    PROVE  ReviewInv'
<1>1. PICK d \in DOMAIN draft : d = admin[a].draft /\ draft[d] = "DRAFT"
  BY DEF Publish, IInv, Reads, ReviewInv
<1>2. \A b \in Admins : admin'[b] = IF b = a THEN IdleAdmin ELSE admin[b]
  BY DEF Publish, IInv, TypeOK
<1>3. CASE UNCHANGED <<article, draft, kb>>
  BY <1>2, <1>3 DEF ReviewInv, OneArticlePerDraft, IdleAdmin
<1>4. CASE /\ article' = article \cup {<<d, Cardinality({x \in article : x[1] = d}) + 1>>}
           /\ draft' = [draft EXCEPT ![d] = "APPROVED"]
           /\ kb' = kb \cup {d.tenant}
  <2>1. {x \in article : x[1] = d} = {}
    BY <1>1 DEF ReviewInv, OneArticlePerDraft
  <2>2. article' = article \cup {<<d, 1>>}
    BY <1>4, <2>1, FS_EmptySet
  <2>3. DOMAIN draft' = DOMAIN draft
        /\ \A e \in DOMAIN draft : draft'[e] = IF e = d THEN "APPROVED" ELSE draft[e]
    BY <1>4 DEF IInv, TypeOK
  <2>4. {x[1] : x \in article'} = {x[1] : x \in article} \cup {d}
    <3>1. {x[1] : x \in article'} \subseteq {x[1] : x \in article} \cup {d}
      BY <2>2
    <3>2. <<d, 1>> \in article' /\ <<d, 1>>[1] = d /\ article \subseteq article'
      BY <2>2
    <3>3. {x[1] : x \in article} \cup {d} \subseteq {x[1] : x \in article'}
      BY <3>2
    <3> QED
      BY <3>1, <3>3
  <2>5. {e \in DOMAIN draft' : draft'[e] = "APPROVED"}
            = {e \in DOMAIN draft : draft[e] = "APPROVED"} \cup {d}
    BY <2>3
  <2>6. OneArticlePerDraft'
    <3>1. \A x \in article' : x[2] = 1
      BY <2>2 DEF ReviewInv, OneArticlePerDraft
    <3>2. {x[1] : x \in article'} = {e \in DOMAIN draft' : draft'[e] = "APPROVED"}
      BY <2>4, <2>5 DEF ReviewInv, OneArticlePerDraft
    <3>3. \A x \in article' : x[1].tenant \in kb'
      <4> SUFFICES ASSUME NEW x \in article' PROVE x[1].tenant \in kb'
        OBVIOUS
      <4>1. CASE x \in article
        BY <4>1, <1>4 DEF ReviewInv, OneArticlePerDraft
      <4>2. CASE x = <<d, 1>>
        BY <4>2, <1>4
      <4> QED
        BY <2>2, <4>1, <4>2
    <3> QED
      BY <3>1, <3>2, <3>3 DEF OneArticlePerDraft
  <2>7. \A b \in Admins : admin'[b].pc # "idle" =>
            b # a /\ admin'[b] = admin[b] /\ admin[b].draft # d /\ admin[b].draft \in DOMAIN draft
    BY <1>1, <1>2 DEF ReviewInv, IdleAdmin, Publish, IInv, Reads
  <2> QED
    BY <2>3, <2>6, <2>7 DEF ReviewInv
<1> QED
  BY <1>1, <1>3, <1>4 DEF Publish

LEMMA AdminReview ==
    ASSUME IInv, ReviewInv, NEW a \in Admins, Approve(a) \/ Reject(a) \/ AdminStep(a)
    PROVE  ReviewInv'
<1>0. admin \in [Admins -> [pc : {"idle", "kb", "flush", "publish", "publish_kb"},
                            draft : Draft \cup {NULL}]]
  BY DEF IInv, TypeOK
<1>1. CASE Approve(a)
  <2>1. PICK d \in DOMAIN draft :
            /\ draft[d] = "DRAFT" /\ ~Locked(d)
            /\ admin' = [admin EXCEPT ![a] = [pc |-> "kb", draft |-> d]]
    BY <1>1 DEF Approve
  <2>2. \A b \in Admins : admin'[b] = IF b = a THEN [pc |-> "kb", draft |-> d] ELSE admin[b]
    BY <1>0, <2>1
  <2>3. \A b \in Admins : admin[b].draft # d
    BY <2>1 DEF Locked
  <2>4. UNCHANGED <<draft, kb, article>>
    BY <1>1 DEF Approve
  <2> QED
    BY <2>1, <2>2, <2>3, <2>4 DEF ReviewInv, OneArticlePerDraft
<1>2. CASE Reject(a)
  <2>1. PICK d \in DOMAIN draft :
            draft[d] = "DRAFT" /\ ~Locked(d) /\ draft' = [draft EXCEPT ![d] = "REJECTED"]
    BY <1>2 DEF Reject
  <2>2. DOMAIN draft' = DOMAIN draft
        /\ \A e \in DOMAIN draft : draft'[e] = IF e = d THEN "REJECTED" ELSE draft[e]
    BY <2>1
  <2>3. {e \in DOMAIN draft' : draft'[e] = "APPROVED"} = {e \in DOMAIN draft : draft[e] = "APPROVED"}
    BY <2>1, <2>2
  <2>4. \A b \in Admins : admin[b].draft # d
    BY <2>1 DEF Locked
  <2>5. UNCHANGED <<kb, article, admin>>
    BY <1>2 DEF Reject
  <2>6. OneArticlePerDraft'
    BY <2>3, <2>5 DEF ReviewInv, OneArticlePerDraft
  <2> QED
    BY <2>2, <2>4, <2>5, <2>6 DEF ReviewInv, IInv, Reads
<1>3. CASE \E l \in {"publish", "flush", "publish_kb"} :
               /\ admin' = [admin EXCEPT ![a].pc = l] /\ admin[a].pc # "idle"
               /\ UNCHANGED <<draft, kb, article>>
  <2>1. \A b \in Admins : admin'[b].draft = admin[b].draft
                          /\ (admin'[b].pc # "idle" => admin[b].pc # "idle")
    BY <1>0, <1>3
  <2> QED
    BY <1>3, <2>1 DEF ReviewInv, OneArticlePerDraft
<1>4. CASE admin' = [admin EXCEPT ![a] = IdleAdmin] /\ UNCHANGED <<draft, kb, article>>
  <2>1. \A b \in Admins : admin'[b] = IF b = a THEN IdleAdmin ELSE admin[b]
    BY <1>0, <1>4
  <2> QED
    BY <1>4, <2>1 DEF ReviewInv, OneArticlePerDraft, IdleAdmin
<1>5. CASE SelectKb(a)
  BY <1>3, <1>5 DEF SelectKb
<1>6. CASE FlushKb(a)
  BY <1>3, <1>4, <1>6 DEF FlushKb
<1> QED
  BY <1>1, <1>2, <1>5, <1>6, PublishReview DEF AdminStep

LEMMA NextReviewInv == IInv /\ MineInv /\ ReviewInv /\ [Next]_vars => ReviewInv'
<1> SUFFICES ASSUME IInv, MineInv, ReviewInv, [Next]_vars PROVE ReviewInv'
  OBVIOUS
<1>1. CASE UNCHANGED <<draft, kb, article, admin>>
  BY <1>1, UnchangedReview
<1>2. CASE \/ UNCHANGED vars
           \/ \E r \in Replies : EnqueueQaJudge(r)
           \/ \E j \in Clicks : RunHistoryMining(j)
           \/ \E j \in Jobs : Redeliver(j)
           \/ Crash(QaSlots) \/ \E s \in MiningSlots : Crash({s})
  BY <1>1, <1>2 DEF vars, EnqueueQaJudge, RunHistoryMining, Redeliver, Crash, review
<1>3. ASSUME NEW s \in Slots, SlotStep(s) PROVE ReviewInv'
  <2>1. CASE \/ \E j \in Jobs : Take(s, j)
             \/ QaCheck(s) \/ QaJudge(s) \/ QaInsert(s) \/ QaCommit(s)
             \/ MineScan(s) \/ MineTenant(s) \/ MineGenerate(s)
    BY <1>1, <2>1 DEF Take, QaCheck, QaJudge, QaInsert, QaCommit, MineScan, MineTenant,
                      MineGenerate, review
  <2> QED
    BY <1>3, <2>1, SaveReview DEF SlotStep
<1> QED
  BY <1>2, <1>3, AdminReview DEF Next

(* Whatever administrators approve and reject at once, a draft has at most *)
(* one article, has it exactly when it is APPROVED, and the article's      *)
(* knowledge base exists.                                                  *)
THEOREM OneArticle == Spec => []OneArticlePerDraft
<1>1. Init => ReviewInv
  BY DEF Init, ReviewInv, OneArticlePerDraft, IdleAdmin
<1>2. ReviewInv => OneArticlePerDraft
  BY DEF ReviewInv
<1> QED
  BY <1>1, <1>2, Invariance, MineInvariance, NextReviewInv, PTL DEF Spec

-----------------------------------------------------------------------------
(* The outbox for any number of events, workers and attempts.              *)


(* What the attempts column, and the copy of it a worker holds, say about  *)
(* the calls that were really made.  A pending event has attempts left and *)
(* has failed at least as often as it says; so has the row a worker read,  *)
(* and a worker whose handler has come back can account for its verdict.   *)
RowCounts ==
    \A e \in Events :
        /\ status[e] = "absent" => attempts[e] = 0
        /\ status[e] = "pending" =>
              attempts[e] < MaxAttempts /\ attempts[e] <= failures[e]

WorkerCounts ==
    \A k \in Workers : w[k].pc \in {"call", "settle"} =>
        /\ w[k].event \in Events
        /\ status[w[k].event] # "absent"
        /\ w[k].seen < MaxAttempts
        /\ w[k].seen <= failures[w[k].event]
        /\ w[k].pc = "settle" =>
              IF w[k].ok THEN succeeded[w[k].event]
              ELSE w[k].seen + 1 <= failures[w[k].event]

OutboxIInv == OutboxTypeOK /\ DoneMeansHandled /\ FailedMeansExhausted
        /\ RowCounts /\ WorkerCounts

LEMMA OutboxInitIInv == OutboxInit => OutboxIInv
<1> SUFFICES ASSUME OutboxInit PROVE OutboxIInv
  OBVIOUS
<1> USE OutboxAssumption DEF OutboxInit, Events
<1>1. Resting \in Worker
  BY DEF Resting, Worker
<1>2. OutboxTypeOK
  BY <1>1 DEF OutboxTypeOK
<1>3. DoneMeansHandled /\ FailedMeansExhausted /\ RowCounts /\ WorkerCounts
  BY DEF DoneMeansHandled, FailedMeansExhausted, RowCounts, WorkerCounts, Resting
<1> QED
  BY <1>2, <1>3 DEF OutboxIInv

(* Steps that change neither the counters nor a call that is under way.    *)
LEMMA EmitIInv ==
    ASSUME OutboxIInv, NEW e \in Events, Emit(e)
    PROVE  OutboxIInv'
<1> USE OutboxAssumption DEF OutboxIInv, OutboxTypeOK, Events, Emit
<1>1. OutboxTypeOK'
  OBVIOUS
<1>2. DoneMeansHandled' /\ FailedMeansExhausted'
  BY DEF DoneMeansHandled, FailedMeansExhausted
<1>3. WorkerCounts'
  BY DEF WorkerCounts
<1>4. RowCounts'
  BY DEF RowCounts
<1> QED
  BY <1>1, <1>2, <1>3, <1>4

LEMMA BecomeDueIInv ==
    ASSUME OutboxIInv, NEW e \in Events, BecomeDue(e)
    PROVE  OutboxIInv'
<1> USE DEF OutboxIInv, BecomeDue
<1>1. OutboxTypeOK'
  BY DEF OutboxTypeOK
<1>2. DoneMeansHandled' /\ FailedMeansExhausted' /\ WorkerCounts' /\ RowCounts'
  BY DEF DoneMeansHandled, FailedMeansExhausted, WorkerCounts, RowCounts
<1> QED
  BY <1>1, <1>2

(* A step that changes only w, and leaves worker k where it holds no row.  *)
LEMMA BetweenCalls ==
    ASSUME OutboxIInv, NEW k \in Workers, NEW x \in Worker,
           x.pc \in {"idle", "loop"},
           w' = [w EXCEPT ![k] = x],
           UNCHANGED <<status, attempts, due, succeeded, failures>>
    PROVE  OutboxIInv'
<1> USE DEF OutboxIInv
<1>1. OutboxTypeOK'
  BY DEF OutboxTypeOK
<1>2. DoneMeansHandled' /\ FailedMeansExhausted' /\ RowCounts'
  BY DEF DoneMeansHandled, FailedMeansExhausted, RowCounts
<1>3. WorkerCounts'
  BY DEF WorkerCounts, OutboxTypeOK
<1> QED
  BY <1>1, <1>2, <1>3

LEMMA SelectIInv ==
    ASSUME OutboxIInv, NEW k \in Workers, Select(k)
    PROVE  OutboxIInv'
<1> DEFINE x == [w[k] EXCEPT !.pc = "loop", !.batch = First(Due, Limit)]
<1>1. First(Due, Limit) \subseteq Events
  BY DEF First, Due
<1>2. x \in Worker /\ x.pc = "loop"
  BY <1>1 DEF OutboxIInv, OutboxTypeOK, Worker
<1>3. w' = [w EXCEPT ![k] = x]
  BY DEF Select, OutboxIInv, OutboxTypeOK
<1> QED
  BY <1>2, <1>3, BetweenCalls DEF Select

LEMMA ReturnIInv ==
    ASSUME OutboxIInv, NEW k \in Workers, Return(k)
    PROVE  OutboxIInv'
<1>1. Resting \in Worker /\ Resting.pc = "idle"
  BY OutboxAssumption DEF Resting, Worker, Events
<1> QED
  BY <1>1, BetweenCalls DEF Return

LEMMA StopIInv ==
    ASSUME OutboxIInv, NEW k \in Workers, Stop(k)
    PROVE  OutboxIInv'
<1>1. Resting \in Worker /\ Resting.pc = "idle"
  BY OutboxAssumption DEF Resting, Worker, Events
<1> QED
  BY <1>1, BetweenCalls DEF Stop

(* dispatch_one reads a row: what the row says of its failures holds of    *)
(* the copy.                                                               *)
LEMMA LoadIInv ==
    ASSUME OutboxIInv, NEW k \in Workers, Load(k)
    PROVE  OutboxIInv'
<1> USE DEF OutboxIInv
<1>1. PICK e \in w[k].batch :
        \/ /\ Runnable(e)
           /\ w' = [w EXCEPT ![k].pc = "call", ![k].batch = @ \ {e},
                             ![k].event = e, ![k].seen = attempts[e]]
        \/ /\ ~Runnable(e)
           /\ w' = [w EXCEPT ![k].batch = @ \ {e}]
  BY DEF Load
<1>2. w[k] \in Worker /\ e \in Events /\ w[k].pc = "loop"
  BY DEF OutboxTypeOK, Worker, Load
<1>3. UNCHANGED <<status, attempts, due, succeeded, failures>>
  BY DEF Load
<1>4. CASE ~Runnable(e)
  <2> DEFINE x == [w[k] EXCEPT !.batch = @ \ {e}]
  <2>1. x \in Worker /\ x.pc = "loop"
    BY <1>2 DEF Worker
  <2>2. w' = [w EXCEPT ![k] = x]
    BY <1>1, <1>4 DEF OutboxTypeOK
  <2> QED
    BY <2>1, <2>2, <1>3, BetweenCalls
<1>5. CASE Runnable(e)
  <2> DEFINE x == [w[k] EXCEPT !.pc = "call", !.batch = @ \ {e},
                               !.event = e, !.seen = attempts[e]]
  <2>1. attempts[e] \in 0..MaxAttempts
    BY <1>2 DEF OutboxTypeOK
  <2>2. x \in Worker
    BY <1>2, <2>1 DEF Worker
  <2>3. x.pc = "call" /\ x.event = e /\ x.seen = attempts[e]
    BY <1>2 DEF Worker
  <2>4. w' = [w EXCEPT ![k] = x]
    BY <1>1, <1>5 DEF OutboxTypeOK
  <2> HIDE DEF x
  <2>5. OutboxTypeOK'
    BY <2>2, <2>4, <1>3 DEF OutboxTypeOK
  <2>6. DoneMeansHandled' /\ FailedMeansExhausted' /\ RowCounts'
    BY <1>3 DEF DoneMeansHandled, FailedMeansExhausted, RowCounts
  <2>7. attempts[e] < MaxAttempts /\ attempts[e] <= failures[e]
        /\ status[e] # "absent"
    BY <1>2, <1>5 DEF RowCounts, Runnable
  <2>8. WorkerCounts'
    BY <1>2, <1>3, <2>3, <2>4, <2>7 DEF WorkerCounts, OutboxTypeOK
  <2> QED
    BY <2>5, <2>6, <2>8
<1> QED
  BY <1>4, <1>5

(* The handler comes back: a success is remembered, a failure is counted.  *)
LEMMA CallIInv ==
    ASSUME OutboxIInv, NEW k \in Workers, Call(k)
    PROVE  OutboxIInv'
<1> USE OutboxAssumption DEF OutboxIInv
<1> DEFINE e == w[k].event
<1>1. w[k] \in Worker /\ w[k].pc = "call" /\ e \in Events
  BY DEF OutboxTypeOK, Call, WorkerCounts
<1>2. UNCHANGED <<status, attempts, due>>
  BY DEF Call
<1>3. CASE /\ w' = [w EXCEPT ![k].pc = "settle", ![k].ok = TRUE]
           /\ succeeded' = [succeeded EXCEPT ![e] = TRUE]
           /\ UNCHANGED failures
  <2> DEFINE x == [w[k] EXCEPT !.pc = "settle", !.ok = TRUE]
  <2>1. x \in Worker /\ x.pc = "settle" /\ x.ok = TRUE
        /\ x.event = e /\ x.seen = w[k].seen
    BY <1>1 DEF Worker
  <2>2. w' = [w EXCEPT ![k] = x]
    BY <1>3 DEF OutboxTypeOK
  <2> HIDE DEF x
  <2>3. OutboxTypeOK'
    BY <1>2, <1>3, <2>1, <2>2 DEF OutboxTypeOK
  <2>4. DoneMeansHandled' /\ FailedMeansExhausted' /\ RowCounts'
    BY <1>2, <1>3, <1>1
       DEF DoneMeansHandled, FailedMeansExhausted, RowCounts, OutboxTypeOK
  <2>5. WorkerCounts'
    BY <1>1, <1>2, <1>3, <2>1, <2>2 DEF WorkerCounts, OutboxTypeOK
  <2> QED
    BY <2>3, <2>4, <2>5
<1>4. CASE /\ w' = [w EXCEPT ![k].pc = "settle", ![k].ok = FALSE]
           /\ failures' = [failures EXCEPT
                             ![e] = IF @ < MaxAttempts THEN @ + 1 ELSE @]
           /\ UNCHANGED succeeded
  <2> DEFINE x == [w[k] EXCEPT !.pc = "settle", !.ok = FALSE]
  <2>1. x \in Worker /\ x.pc = "settle" /\ x.ok = FALSE
        /\ x.event = e /\ x.seen = w[k].seen
    BY <1>1 DEF Worker
  <2>2. w' = [w EXCEPT ![k] = x]
    BY <1>4 DEF OutboxTypeOK
  <2> HIDE DEF x
  <2>3. /\ failures' \in [Events -> 0..MaxAttempts]
        /\ \A f \in Events : failures'[f] >= failures[f]
        /\ failures'[e] = IF failures[e] < MaxAttempts THEN failures[e] + 1
                          ELSE failures[e]
    BY <1>1, <1>4 DEF OutboxTypeOK
  <2>4. OutboxTypeOK'
    <3>1. w' \in [Workers -> Worker]
      BY <2>1, <2>2 DEF OutboxTypeOK
    <3> QED
      BY <3>1, <1>2, <1>4, <2>3 DEF OutboxTypeOK
  <2>5. failures \in [Events -> 0..MaxAttempts] /\ w[k].seen \in 0..MaxAttempts
    BY <1>1 DEF OutboxTypeOK, Worker
  <2>6. DoneMeansHandled'
    BY <1>2, <1>4 DEF DoneMeansHandled
  <2>7. FailedMeansExhausted'
    BY <1>2, <2>3, <2>5 DEF FailedMeansExhausted
  <2>8. RowCounts'
    BY <1>2, <2>3, <2>5 DEF RowCounts, OutboxTypeOK
  <2>9. w[k].seen + 1 <= failures'[e] /\ w[k].seen < MaxAttempts
        /\ status[e] # "absent"
    BY <1>1, <2>3, <2>5 DEF WorkerCounts
  <2>10. ASSUME NEW j \in Workers, w'[j].pc \in {"call", "settle"}
         PROVE  /\ w'[j].event \in Events
                /\ status'[w'[j].event] # "absent"
                /\ w'[j].seen < MaxAttempts
                /\ w'[j].seen <= failures'[w'[j].event]
                /\ w'[j].pc = "settle" =>
                      IF w'[j].ok THEN succeeded'[w'[j].event]
                      ELSE w'[j].seen + 1 <= failures'[w'[j].event]
    <3>1. CASE j = k
      <4>1. w'[j] = x
        BY <3>1, <2>2 DEF OutboxTypeOK
      <4> QED
        BY <4>1, <1>1, <1>2, <2>1, <2>3, <2>5, <2>9
    <3>2. CASE j # k
      <4>1. w'[j] = w[j] /\ w[j] \in Worker
        BY <3>2, <2>2 DEF OutboxTypeOK
      <4>2. w[j].seen \in 0..MaxAttempts
        BY <4>1 DEF Worker
      <4> QED
        BY <4>1, <4>2, <2>10, <1>2, <1>4, <2>3, <2>5 DEF WorkerCounts
    <3> QED
      BY <3>1, <3>2
  <2>11. WorkerCounts'
    BY <2>10 DEF WorkerCounts
  <2> QED
    BY <2>4, <2>6, <2>7, <2>8, <2>11
<1> QED
  BY <1>3, <1>4 DEF Call

(* A worker that has written its row back.                                 *)
LEMMA SettledWorker ==
    ASSUME NEW r \in Worker
    PROVE  LET x == [r EXCEPT !.pc = "loop", !.event = None, !.seen = 0,
                              !.ok = FALSE]
           IN  x \in Worker /\ x.pc = "loop"
<1>1. 0 \in 0..MaxAttempts
  BY OutboxAssumption
<1> QED
  BY <1>1 DEF Worker

(* The row is written from the copy: the verdict is one the calls justify, *)
(* whatever other workers have written meanwhile.                          *)
LEMMA SettleIInv ==
    ASSUME OutboxIInv, NEW k \in Workers, Settle(k)
    PROVE  OutboxIInv'
<1> USE OutboxAssumption DEF OutboxIInv
<1> DEFINE e == w[k].event
           n == w[k].seen + 1
           x == [w[k] EXCEPT !.pc = "loop", !.event = None, !.seen = 0, !.ok = FALSE]
<1>1. w[k] \in Worker /\ w[k].pc = "settle"
  BY DEF OutboxTypeOK, Settle
<1>2. e \in Events /\ status[e] # "absent" /\ n \in 1..MaxAttempts
      /\ w[k].ok \in BOOLEAN
  BY <1>1 DEF WorkerCounts, Worker
<1>3. x \in Worker /\ x.pc = "loop"
  BY <1>1, SettledWorker
<1>4. /\ status' = [status EXCEPT ![e] = IF Verdict(k) = "pending" THEN @
                                        ELSE Verdict(k)]
      /\ attempts' = [attempts EXCEPT ![e] = n]
      /\ due' = [due EXCEPT ![e] = IF Verdict(k) = "pending" THEN FALSE ELSE @]
      /\ UNCHANGED <<succeeded, failures>>
  BY DEF Settle, Counted
<1>5. w' = [w EXCEPT ![k] = x]
  BY DEF Settle, OutboxTypeOK
<1>6. Verdict(k) \in {"done", "failed", "pending"}
  BY DEF Verdict
<1>7. /\ Verdict(k) = "done" => succeeded[e]
      /\ Verdict(k) = "failed" => failures[e] >= MaxAttempts
      /\ Verdict(k) = "pending" => n < MaxAttempts /\ n <= failures[e]
  BY <1>1, <1>2 DEF Verdict, Counted, Exhausted, WorkerCounts, OutboxTypeOK
<1> HIDE DEF x, n
<1>8. OutboxTypeOK'
  <2>1. status' \in [Events -> {"absent", "pending", "done", "failed"}]
    BY <1>2, <1>4, <1>6 DEF OutboxTypeOK
  <2>2. attempts' \in [Events -> 0..MaxAttempts]
    BY <1>2, <1>4 DEF OutboxTypeOK
  <2>3. due' \in [Events -> BOOLEAN]
    BY <1>2, <1>4 DEF OutboxTypeOK
  <2>4. w' \in [Workers -> Worker]
    BY <1>3, <1>5 DEF OutboxTypeOK
  <2> QED
    BY <2>1, <2>2, <2>3, <2>4, <1>4 DEF OutboxTypeOK
<1>9. DoneMeansHandled'
  BY <1>2, <1>4, <1>7 DEF DoneMeansHandled, OutboxTypeOK
<1>10. FailedMeansExhausted'
  BY <1>2, <1>4, <1>7 DEF FailedMeansExhausted, OutboxTypeOK
<1>11. RowCounts'
  BY <1>2, <1>4, <1>6, <1>7 DEF RowCounts, OutboxTypeOK
<1>12. WorkerCounts'
  BY <1>2, <1>3, <1>4, <1>5, <1>6 DEF WorkerCounts, OutboxTypeOK
<1> QED
  BY <1>8, <1>9, <1>10, <1>11, <1>12

LEMMA OutboxNextIInv == OutboxIInv /\ [OutboxNext]_outboxVars => OutboxIInv'
<1> SUFFICES ASSUME OutboxIInv, [OutboxNext]_outboxVars PROVE OutboxIInv'
  OBVIOUS
<1>1. CASE UNCHANGED outboxVars
  BY <1>1 DEF outboxVars, OutboxIInv, OutboxTypeOK, DoneMeansHandled, FailedMeansExhausted,
              RowCounts, WorkerCounts
<1>2. CASE OutboxNext
  BY <1>2, EmitIInv, BecomeDueIInv, SelectIInv, ReturnIInv, LoadIInv, CallIInv,
     SettleIInv, StopIInv DEF OutboxNext, Step
<1> QED
  BY <1>1, <1>2

LEMMA OutboxInductive == OutboxSpec => []OutboxIInv
BY OutboxInitIInv, OutboxNextIInv, PTL DEF OutboxSpec

(* Type correctness of the outbox; in particular attempts never exceeds    *)
(* max_attempts, although dispatchers overwrite each other's counts.       *)
THEOREM OutboxTypeCorrect == OutboxSpec => []OutboxTypeOK
BY OutboxInductive, PTL DEF OutboxIInv

(* For any number of dispatchers: an event marked done was handled.        *)
THEOREM NothingLost == OutboxSpec => []DoneMeansHandled
BY OutboxInductive, PTL DEF OutboxIInv

(* For any number of dispatchers: an event marked failed has failed        *)
(* max_attempts times.                                                     *)
THEOREM NothingGivenUpEarly == OutboxSpec => []FailedMeansExhausted
BY OutboxInductive, PTL DEF OutboxIInv

-----------------------------------------------------------------------------
(* With a single worker the event whose handler runs is still pending:     *)
(* nobody else writes the row.                                             *)
Solo ==
    \A k \in Workers : w[k].pc \in {"call", "settle"} =>
        status[w[k].event] = "pending"

LEMMA SoloNext ==
    ASSUME NEW k0, Workers = {k0}, OutboxIInv, Solo, [OutboxNext]_outboxVars
    PROVE  Solo'
<1> USE DEF OutboxIInv, Solo
<1>1. k0 \in Workers /\ w[k0] \in Worker
  BY DEF OutboxTypeOK
<1>2. SUFFICES ASSUME w'[k0].pc \in {"call", "settle"}
               PROVE  status'[w'[k0].event] = "pending"
  OBVIOUS
<1>3. CASE UNCHANGED outboxVars
  BY <1>1, <1>2, <1>3 DEF outboxVars
<1>4. ASSUME NEW e \in Events, Emit(e) \/ BecomeDue(e)
      PROVE  status'[w'[k0].event] = "pending"
  <2>1. w' = w /\ w[k0].event \in Events /\ status[w[k0].event] = "pending"
    BY <1>1, <1>2, <1>4 DEF Emit, BecomeDue, WorkerCounts
  <2> QED
    BY <2>1, <1>4 DEF Emit, BecomeDue, OutboxTypeOK
<1>5. CASE Select(k0) \/ Return(k0) \/ Settle(k0) \/ Stop(k0)
  <2>1. w'[k0].pc \in {"loop", "idle"}
    <3>1. CASE Select(k0)
      BY <1>1, <3>1 DEF Select, OutboxTypeOK, Worker
    <3>2. CASE Return(k0) \/ Stop(k0)
      BY <1>1, <3>2 DEF Return, Stop, Resting, OutboxTypeOK
    <3>3. CASE Settle(k0)
      BY <1>1, <3>3, SettledWorker DEF Settle, OutboxTypeOK
    <3> QED
      BY <1>5, <3>1, <3>2, <3>3
  <2> QED
    BY <2>1, <1>2
<1>6. CASE Load(k0)
  <2>1. PICK e \in w[k0].batch :
          \/ /\ Runnable(e)
             /\ w' = [w EXCEPT ![k0].pc = "call", ![k0].batch = @ \ {e},
                               ![k0].event = e, ![k0].seen = attempts[e]]
          \/ /\ ~Runnable(e)
             /\ w' = [w EXCEPT ![k0].batch = @ \ {e}]
    BY <1>6 DEF Load
  <2>2. w[k0].pc = "loop" /\ status' = status
    BY <1>6 DEF Load
  <2>3. Runnable(e) /\ w'[k0].event = e
    BY <1>1, <1>2, <2>1, <2>2 DEF OutboxTypeOK, Worker
  <2> QED
    BY <2>2, <2>3 DEF Runnable
<1>7. CASE Call(k0)
  <2>1. w'[k0].event = w[k0].event /\ status' = status /\ w[k0].pc = "call"
    BY <1>1, <1>7 DEF Call, OutboxTypeOK, Worker
  <2> QED
    BY <2>1, <1>1
<1> QED
  BY <1>3, <1>4, <1>5, <1>6, <1>7 DEF OutboxNext, Step

LEMMA SoloStep ==
    ASSUME NEW k0, Workers = {k0}, OutboxIInv, Solo, [OutboxNext]_outboxVars
    PROVE  [Delivery!Next]_<<status, succeeded>>
<1> USE DEF OutboxIInv
<1>1. k0 \in Workers /\ w[k0] \in Worker
  BY DEF OutboxTypeOK
<1>2. CASE UNCHANGED outboxVars
  BY <1>2 DEF outboxVars
<1>3. ASSUME NEW e \in Events, Emit(e)
      PROVE  Delivery!Next
  <2>1. Delivery!Emit(e)
    BY <1>3 DEF Emit, Delivery!Emit
  <2> QED
    BY <2>1 DEF Delivery!Next
<1>4. ASSUME NEW e \in Events, BecomeDue(e)
      PROVE  UNCHANGED <<status, succeeded>>
  BY <1>4 DEF BecomeDue
<1>5. CASE Select(k0) \/ Return(k0) \/ Load(k0) \/ Stop(k0)
  BY <1>5 DEF Select, Return, Load, Stop
<1>6. CASE Call(k0)
  <2> DEFINE e == w[k0].event
  <2>1. e \in Events /\ status[e] = "pending" /\ status' = status
    BY <1>1, <1>6 DEF Call, WorkerCounts, Solo
  <2>2. CASE succeeded' = [succeeded EXCEPT ![e] = TRUE]
    <3>1. Delivery!Succeed(e)
      BY <2>1, <2>2 DEF Delivery!Succeed
    <3> QED
      BY <2>1, <3>1 DEF Delivery!Next
  <2>3. CASE UNCHANGED succeeded
    BY <2>1, <2>3
  <2> QED
    BY <1>6, <2>2, <2>3 DEF Call
<1>7. CASE Settle(k0)
  <2> DEFINE e == w[k0].event
  <2>1. e \in Events /\ status[e] = "pending" /\ succeeded' = succeeded
    BY <1>1, <1>7 DEF Settle, WorkerCounts, Solo
  <2>2. status' = [status EXCEPT ![e] = IF Verdict(k0) = "pending" THEN @
                                        ELSE Verdict(k0)]
    BY <1>7 DEF Settle
  <2>3. Verdict(k0) \in {"done", "failed", "pending"}
        /\ (Verdict(k0) = "done" => succeeded[e])
    BY <1>1, <1>7 DEF Verdict, Settle, WorkerCounts
  <2>4. CASE Verdict(k0) = "pending"
    BY <2>1, <2>2, <2>4 DEF OutboxTypeOK
  <2>5. CASE Verdict(k0) = "done"
    <3>1. Delivery!Finish(e)
      BY <2>1, <2>2, <2>3, <2>5 DEF Delivery!Finish
    <3> QED
      BY <2>1, <3>1 DEF Delivery!Next
  <2>6. CASE Verdict(k0) = "failed"
    <3>1. Delivery!GiveUp(e)
      BY <2>1, <2>2, <2>6 DEF Delivery!GiveUp
    <3> QED
      BY <2>1, <3>1 DEF Delivery!Next
  <2> QED
    BY <2>3, <2>4, <2>5, <2>6
<1> QED
  BY <1>2, <1>3, <1>4, <1>5, <1>6, <1>7 DEF OutboxNext, Step

(* With a single worker, which may stop anywhere, the dispatcher           *)
(* implements OutboxDelivery: done and failed are final, the handler is    *)
(* called only while the event is pending, and done follows a success.     *)
THEOREM OneWorkerImplementsDelivery ==
    ASSUME NEW k0, Workers = {k0}
    PROVE  OutboxSpec => DeliverySpec
<1>1. OutboxInit => Delivery!Init /\ Solo
  BY DEF OutboxInit, Delivery!Init, Solo, Resting
<1>2. OutboxIInv /\ Solo /\ [OutboxNext]_outboxVars => Solo'
  BY SoloNext
<1>3. OutboxIInv /\ Solo /\ [OutboxNext]_outboxVars => [Delivery!Next]_<<status, succeeded>>
  BY SoloStep
<1> QED
  BY <1>1, <1>2, <1>3, OutboxInductive, PTL DEF OutboxSpec, DeliverySpec, Delivery!Spec
=============================================================================
