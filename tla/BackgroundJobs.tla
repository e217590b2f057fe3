--------------------------- MODULE BackgroundJobs ---------------------------
(***************************************************************************)
(* What happens to a conversation after the customer has been answered:    *)
(* the arq queue and the two workers that share it, the QA score of each   *)
(* AI reply, the mining of closed conversations into article drafts, and   *)
(* the review of the drafts by administrators.                             *)
(*                                                                         *)
(* The provider calls of the judge are module Gateway; the articles an     *)
(* approval creates are those of module Knowledge.                         *)
(***************************************************************************)
EXTENDS Integers, FiniteSets

CONSTANTS
    Replies,      \* AI messages: each has one qa_judge_task
    Clicks,       \* requests for run_history_mining
    QaSlots,      \* job slots of the QA worker (max_jobs)
    MiningSlots,  \* processes of the mining worker
    Admins,       \* requests to approve or reject
    Tenants,
    Questions,    \* the customers' questions of closed conversations, per tenant
    Long,         \* questions that do not fit into a draft's body
    Zero,         \* questions whose embedding is the zero vector
    MinSize, MaxSize,  \* history_mining_min_cluster_size, _max_cluster_size
    MaxTries,     \* max_tries of arq
    MaxFaults,    \* crashes, redeliveries and failed statements (a bound)
    NULL

ASSUME BackgroundJobsAssumption ==
    /\ Questions \in [Tenants -> SUBSET UNION {Questions[t] : t \in Tenants}]
    /\ {MinSize, MaxSize, MaxTries, MaxFaults} \subseteq Nat
    /\ IsFiniteSet(QaSlots)

Jobs == Replies \cup Clicks
Slots == QaSlots \cup MiningSlots

VARIABLES
    job,       \* the state of each job in Redis
    tries,     \* how often each job was started
    exec,      \* what each slot is doing
    pid,       \* the process the PID file names
    scores,    \* message_qa_scores: the replies that have a row
    counted,   \* LUMEN_QA_SCORES, per reply
    wasted,    \* how many of them were counted and then not committed
    draft,     \* kb_article_drafts
    kb,        \* the tenants whose auto-mined knowledge base is committed
    article,   \* the drafts the articles come from, with their number
    admin,     \* the requests of the administrators
    blown,     \* drafts whose approval ended in an internal error
    faults

queue == <<job, tries>>
review == <<kb, article, admin, blown>>
qa == <<scores, counted, wasted>>
vars == <<job, tries, exec, pid, scores, counted, wasted, draft, kb, article, admin, blown, faults>>

Down == [pc |-> "down"]
Free == [pc |-> "free"]
IdleAdmin == [pc |-> "idle", draft |-> NULL]

(* The QA worker and one mining worker are started with the system.        *)
Init ==
    /\ job = [j \in Jobs |-> "none"]
    /\ tries = [j \in Jobs |-> 0]
    /\ exec \in {e \in [Slots -> {Free, Down}] :
                     \A s \in QaSlots : e[s] = Free}
    /\ pid = NULL
    /\ scores = {} /\ counted = [r \in Replies |-> 0] /\ wasted = [r \in Replies |-> 0]
    /\ draft = <<>> /\ kb = {} /\ article = {}
    /\ admin = [a \in Admins |-> IdleAdmin] /\ blown = {}
    /\ faults = 0

Fault == faults < MaxFaults /\ faults' = faults + 1

-----------------------------------------------------------------------------
(* The queue.                                                              *)

(* _enqueue_qa_judge, after the reply was stored: when Redis does not      *)
(* answer the job is given up.                                             *)
EnqueueQaJudge(r) ==
    /\ job[r] = "none"
    /\ \/ job' = [job EXCEPT ![r] = "queued"] /\ UNCHANGED faults
       \/ job' = [job EXCEPT ![r] = "lost"] /\ Fault
    /\ UNCHANGED <<tries, exec, pid, qa, draft, review>>

(* _history_mining_worker_alive: the process of the PID file, and no other *)
(* process that takes jobs.                                                *)
WorkerAlive == pid # NULL /\ exec[pid] # Down

(* run_history_mining: the job is enqueued, then a worker is started if    *)
(* none is known.  Nothing is awaited between the look and the PID file,   *)
(* which may fail to be written.                                           *)
RunHistoryMining(j) ==
    /\ job[j] = "none"
    /\ \/ job' = [job EXCEPT ![j] = "lost"] /\ Fault /\ UNCHANGED <<exec, pid>>
       \/ /\ job' = [job EXCEPT ![j] = "queued"]
          /\ IF WorkerAlive \/ \A s \in MiningSlots : exec[s] # Down
             THEN UNCHANGED <<exec, pid, faults>>
             ELSE \E s \in MiningSlots :
                     /\ exec[s] = Down
                     /\ exec' = [exec EXCEPT ![s] = Free]
                     /\ \/ pid' = s /\ UNCHANGED faults
                        \/ Fault /\ UNCHANGED pid
    /\ UNCHANGED <<tries, qa, draft, review>>

(* The functions of the two WorkerSettings.                                *)
Registered(s, j) == (s \in QaSlots) <=> (j \in Replies)

Started(j) ==
    [pc |-> IF j \in Replies THEN "check" ELSE "scan", job |-> j, try |-> tries[j] + 1,
     todo |-> {}, tenant |-> NULL, clusters |-> {}, staged |-> {}]

(* Neither worker names a queue of its own: a slot takes any job, and one  *)
(* whose function it does not know, or that was tried too often, is        *)
(* dropped by arq.                                                         *)
Take(s, j) ==
    /\ exec[s] = Free /\ job[j] = "queued"
    /\ IF tries[j] >= MaxTries \/ ~Registered(s, j)
       THEN /\ job' = [job EXCEPT ![j] = IF Registered(s, j) THEN "expired" ELSE "not_found"]
            /\ UNCHANGED <<exec, tries>>
       ELSE /\ job' = [job EXCEPT ![j] = "running"]
            /\ tries' = [tries EXCEPT ![j] = @ + 1]
            /\ exec' = [exec EXCEPT ![s] = Started(j)]
    /\ UNCHANGED <<pid, qa, draft, review, faults>>

(* The slot has counted a score that is not yet committed.                 *)
Uncommitted(s, r) == exec[s].pc = "commit" /\ exec[s].job = r

(* The task returned or raised: arq removes the job.                       *)
Ends(s) ==
    /\ exec' = [exec EXCEPT ![s] = Free]
    /\ job' = [job EXCEPT ![exec[s].job] = "ended"]

(* A worker's process is gone with its slots, and their jobs are taken up  *)
(* again later; the QA worker is restarted, a mining worker only by        *)
(* RunHistoryMining.                                                       *)
Crash(slots) ==
    LET lost == {exec[s].job : s \in {x \in slots : exec[x] \notin {Down, Free}}} IN
    /\ \E s \in slots : exec[s] # Down
    /\ Fault
    /\ exec' = [s \in Slots |-> IF s \notin slots THEN exec[s]
                               ELSE IF s \in QaSlots THEN Free ELSE Down]
    /\ job' = [j \in Jobs |-> IF j \in lost /\ job[j] = "running" THEN "queued" ELSE job[j]]
    /\ wasted' = [r \in Replies |->
           wasted[r] + Cardinality({s \in slots : Uncommitted(s, r)})]
    /\ UNCHANGED <<tries, pid, scores, counted, draft, review>>

(* The in-progress mark expires under a worker that is only slow: the job  *)
(* is taken a second time.                                                 *)
Redeliver(j) ==
    /\ job[j] = "running" /\ Fault
    /\ job' = [job EXCEPT ![j] = "queued"]
    /\ UNCHANGED <<tries, exec, pid, qa, draft, review>>

-----------------------------------------------------------------------------
(* qa_judge_task.                                                          *)

(* A committed score of the reply.                                         *)
exists_for_message(r) == r \in scores

(* The check comes after the message and its conversation were loaded.     *)
QaCheck(s) ==
    /\ exec[s].pc = "check"
    /\ IF exists_for_message(exec[s].job) THEN Ends(s)
       ELSE exec' = [exec EXCEPT ![s].pc = "judge"] /\ UNCHANGED job
    /\ UNCHANGED <<tries, pid, qa, draft, review, faults>>

(* Every exception of the judge is counted and ends the job.               *)
QaJudge(s) ==
    /\ exec[s].pc = "judge"
    /\ \/ Ends(s)
       \/ exec' = [exec EXCEPT ![s].pc = "insert"] /\ UNCHANGED job
    /\ UNCHANGED <<tries, pid, qa, draft, review, faults>>

(* The unique key on the message: a second insert waits for the first.     *)
RowHeld(r) == \E o \in QaSlots : Uncommitted(o, r)

(* Mutant: the score is counted before the row is flushed.                 *)
QaInsert_CountsFirst(s) ==
    /\ exec[s].pc = "insert" /\ ~RowHeld(exec[s].job)
    /\ counted' = [counted EXCEPT ![exec[s].job] = @ + 1]
    /\ IF exec[s].job \in scores THEN Ends(s)
       ELSE exec' = [exec EXCEPT ![s].pc = "commit"] /\ UNCHANGED job
    /\ UNCHANGED <<tries, pid, scores, wasted, draft, review, faults>>

(* insert flushes: a duplicate is an IntegrityError, and returns.  The     *)
(* score is counted once the row is accepted, before it is committed.      *)
QaInsert(s) ==
    /\ exec[s].pc = "insert" /\ ~RowHeld(exec[s].job)
    /\ IF exec[s].job \in scores
       THEN Ends(s) /\ UNCHANGED counted
       ELSE /\ exec' = [exec EXCEPT ![s].pc = "commit"]
            /\ counted' = [counted EXCEPT ![exec[s].job] = @ + 1]
            /\ UNCHANGED job
    /\ UNCHANGED <<tries, pid, scores, wasted, draft, review, faults>>

(* A commit that fails raises, and the job is over.                        *)
QaCommit(s) ==
    /\ exec[s].pc = "commit"
    /\ \/ scores' = scores \cup {exec[s].job} /\ UNCHANGED <<wasted, faults>>
       \/ Fault /\ wasted' = [wasted EXCEPT ![exec[s].job] = @ + 1] /\ UNCHANGED scores
    /\ Ends(s)
    /\ UNCHANGED <<tries, pid, counted, draft, review>>

-----------------------------------------------------------------------------
(* history_mining_worker.                                                  *)

(* HdbscanClusterer.cluster: a single point forms no cluster, zero vectors *)
(* are left out, HDBSCAN refuses a minimal size below 2 (the error ends    *)
(* the tenant), its labels are any for this model, and the groups of an    *)
(* accepted size remain.                                                   *)
Clusterings(t) ==
    LET kept == Questions[t] \ Zero
        groups(l) == {{q \in kept : l[q] = i} : i \in {1, 2}}
        sized(l) == {c \in groups(l) : Cardinality(c) \in MinSize..MaxSize}
    IN IF Cardinality(Questions[t]) = 1 \/ Cardinality(kept) < MinSize \/ MinSize < 2
       THEN {{}}
       ELSE {sized(l) : l \in [kept -> {0, 1, 2}]}

MineScan(s) ==
    /\ exec[s].pc = "scan"
    /\ LET found == {t \in Tenants : Questions[t] # {}} IN
       IF found = {} THEN Ends(s)
       ELSE /\ exec' = [exec EXCEPT ![s].pc = "tenant", ![s].todo = found]
            /\ UNCHANGED job
    /\ UNCHANGED <<tries, pid, qa, draft, review, faults>>

(* The worker goes on with the other tenants.                              *)
NextTenant(s, t) ==
    IF exec[s].todo = {t} THEN Ends(s)
    ELSE /\ exec' = [exec EXCEPT ![s].pc = "tenant", ![s].todo = @ \ {t},
                     ![s].tenant = NULL, ![s].clusters = {}, ![s].staged = {}]
         /\ UNCHANGED job

(* _process_tenant: the embeddings, which may fail, and the clusters.      *)
MineTenant(s) ==
    /\ exec[s].pc = "tenant"
    /\ \E t \in exec[s].todo :
         \/ Fault /\ NextTenant(s, t)
         \/ /\ UNCHANGED faults
            /\ \E cs \in Clusterings(t) :
                 IF cs = {} THEN NextTenant(s, t)
                 ELSE /\ exec' = [exec EXCEPT ![s].pc = "generate", ![s].tenant = t,
                                           ![s].clusters = cs, ![s].staged = {}]
                      /\ UNCHANGED job
    /\ UNCHANGED <<tries, pid, qa, draft, review>>

(* KBDraftGenerator.generate.  The call passes a parameter the client does *)
(* not have, so the draft is the fallback made of the questions; one that  *)
(* is too long is refused by KBDraft, and the tenant's session is closed   *)
(* without a commit.                                                       *)
Generated(c) == c \cap Long = {}

(* Mutant: what was drafted is committed when a later cluster fails.       *)
MineGenerate_Early(s) ==
    /\ exec[s].pc = "generate"
    /\ \E c \in exec[s].clusters \ exec[s].staged :
         exec' = [exec EXCEPT ![s].pc = "save",
                              ![s].staged = IF Generated(c) THEN @ \cup {c} ELSE @]
    /\ UNCHANGED <<queue, pid, qa, draft, review, faults>>

(* The clusters one after the other; nothing is stored meanwhile.          *)
MineGenerate(s) ==
    /\ exec[s].pc = "generate"
    /\ \E c \in exec[s].clusters \ exec[s].staged :
         IF Generated(c)
         THEN /\ exec' = [exec EXCEPT ![s].staged = @ \cup {c},
                     ![s].pc = IF exec[s].staged \cup {c} = exec[s].clusters
                               THEN "save" ELSE "generate"]
              /\ UNCHANGED job
         ELSE NextTenant(s, exec[s].tenant)
    /\ UNCHANGED <<tries, pid, qa, draft, review, faults>>

DraftOf(s, c) ==
    [run |-> <<exec[s].job, exec[s].try>>, tenant |-> exec[s].tenant,
     cluster |-> c, batch |-> exec[s].clusters]

(* One commit for all drafts of a tenant; a rerun adds its own.            *)
MineSave(s) ==
    /\ exec[s].pc = "save"
    /\ LET new == {DraftOf(s, c) : c \in exec[s].staged} IN
       draft' = [d \in new \cup DOMAIN draft |-> IF d \in new THEN "DRAFT" ELSE draft[d]]
    /\ NextTenant(s, exec[s].tenant)
    /\ UNCHANGED <<tries, pid, qa, review, faults>>

-----------------------------------------------------------------------------
(* The review.  A request that has locked a draft keeps it to its end.     *)

Locked(d) == \E a \in Admins : admin[a].draft = d
KbHeld(t) == \E a \in Admins : admin[a].pc = "publish_kb" /\ admin[a].draft.tenant = t

(* Mutant: the row is read without the lock, as the status shows DRAFT.    *)
Approve_Unlocked(a) ==
    /\ admin[a].pc = "idle"
    /\ \E d \in DOMAIN draft :
         /\ draft[d] = "DRAFT"
         /\ admin' = [admin EXCEPT ![a] = [pc |-> "kb", draft |-> d]]
    /\ UNCHANGED <<queue, exec, pid, qa, draft, kb, article, blown, faults>>

(* approve_kb_draft: SELECT ... FOR UPDATE, and the status.                *)
Approve(a) ==
    /\ admin[a].pc = "idle"
    /\ \E d \in DOMAIN draft :
         /\ draft[d] = "DRAFT" /\ ~Locked(d)
         /\ admin' = [admin EXCEPT ![a] = [pc |-> "kb", draft |-> d]]
    /\ UNCHANGED <<queue, exec, pid, qa, draft, kb, article, blown, faults>>

(* _ensure_auto_mined_kb: the select ...                                   *)
SelectKb(a) ==
    /\ admin[a].pc = "kb"
    /\ admin' = [admin EXCEPT ![a].pc =
                     IF admin[a].draft.tenant \in kb THEN "publish" ELSE "flush"]
    /\ UNCHANGED <<queue, exec, pid, qa, draft, kb, article, blown, faults>>

(* Mutant: a knowledge base that has appeared is waited for once more.     *)
FlushKb_Waits(a) ==
    /\ admin[a].pc = "flush" /\ ~KbHeld(admin[a].draft.tenant)
    /\ admin[a].draft.tenant \notin kb
    /\ admin' = [admin EXCEPT ![a].pc = "publish_kb"]
    /\ UNCHANGED <<queue, exec, pid, qa, draft, kb, article, blown, faults>>

(* ... and the insert, which waits for another transaction's.  On the      *)
(* IntegrityError the session is rolled back: the draft's lock is given    *)
(* up and the draft expired, and reading its body outside of an await      *)
(* fails.                                                                  *)
FlushKb(a) ==
    LET d == admin[a].draft IN
    /\ admin[a].pc = "flush" /\ ~KbHeld(d.tenant)
    /\ IF d.tenant \in kb
       THEN /\ admin' = [admin EXCEPT ![a] = IdleAdmin]
            /\ blown' = blown \cup {d}
       ELSE /\ admin' = [admin EXCEPT ![a].pc = "publish_kb"]
            /\ UNCHANGED blown
    /\ UNCHANGED <<queue, exec, pid, qa, draft, kb, article, faults>>

(* The article, its version, the draft's status and the knowledge base in  *)
(* one commit, or none of them.                                            *)
Publish(a) ==
    LET d == admin[a].draft IN
    /\ admin[a].pc \in {"publish", "publish_kb"}
    /\ \/ /\ article' = article \cup {<<d, Cardinality({x \in article : x[1] = d}) + 1>>}
          /\ draft' = [draft EXCEPT ![d] = "APPROVED"]
          /\ kb' = kb \cup {d.tenant}
          /\ UNCHANGED faults
       \/ Fault /\ UNCHANGED <<article, draft, kb>>
    /\ admin' = [admin EXCEPT ![a] = IdleAdmin]
    /\ UNCHANGED <<queue, exec, pid, qa, blown>>

(* reject_kb_draft.                                                        *)
Reject(a) ==
    /\ admin[a].pc = "idle"
    /\ \E d \in DOMAIN draft :
         /\ draft[d] = "DRAFT" /\ ~Locked(d)
         /\ draft' = [draft EXCEPT ![d] = "REJECTED"]
    /\ UNCHANGED <<queue, exec, pid, qa, kb, article, admin, blown, faults>>

-----------------------------------------------------------------------------
SlotStep(s) ==
    \/ \E j \in Jobs : Take(s, j)
    \/ s \in QaSlots /\ (QaCheck(s) \/ QaJudge(s) \/ QaInsert(s) \/ QaCommit(s))
    \/ s \in MiningSlots /\ (MineScan(s) \/ MineTenant(s) \/ MineGenerate(s) \/ MineSave(s))

AdminStep(a) == SelectKb(a) \/ FlushKb(a) \/ Publish(a)

Next ==
    \/ \E r \in Replies : EnqueueQaJudge(r)
    \/ \E j \in Clicks : RunHistoryMining(j)
    \/ \E s \in Slots : SlotStep(s)
    \/ Crash(QaSlots) \/ \E s \in MiningSlots : Crash({s})
    \/ \E j \in Jobs : Redeliver(j)
    \/ \E a \in Admins : Approve(a) \/ Reject(a) \/ AdminStep(a)

(* A worker that is up goes on taking and running jobs; a request goes on. *)
Spec ==
    /\ Init /\ [][Next]_vars
    /\ \A s \in Slots : WF_vars(SlotStep(s))
    /\ \A a \in Admins : WF_vars(AdminStep(a))

-----------------------------------------------------------------------------
(* Type correctness.                                                       *)

AllQuestions == UNION {Questions[t] : t \in Tenants}
Clusters == SUBSET AllQuestions
Draft == [run : Jobs \X Nat, tenant : Tenants, cluster : Clusters, batch : SUBSET Clusters]
Run ==
    [pc : {"check", "judge", "insert", "commit", "scan", "tenant", "generate", "save"},
     job : Jobs, try : Nat, todo : SUBSET Tenants, tenant : Tenants \cup {NULL},
     clusters : SUBSET Clusters, staged : SUBSET Clusters]
Exec == {Down, Free} \cup Run
TypeOK ==
    /\ job \in [Jobs -> {"none", "queued", "running", "lost", "expired", "not_found", "ended"}]
    /\ tries \in [Jobs -> Nat]
    /\ exec \in [Slots -> Exec]
    /\ pid \in MiningSlots \cup {NULL}
    /\ scores \subseteq Replies
    /\ counted \in [Replies -> Nat] /\ wasted \in [Replies -> Nat]
    /\ DOMAIN draft \subseteq Draft
    /\ draft \in [DOMAIN draft -> {"DRAFT", "APPROVED", "REJECTED"}]
    /\ kb \subseteq Tenants
    /\ article \subseteq Draft \X Nat
    /\ admin \in [Admins -> [pc : {"idle", "kb", "flush", "publish", "publish_kb"},
                            draft : Draft \cup {NULL}]]
    /\ blown \subseteq Draft
    /\ faults \in Nat

-----------------------------------------------------------------------------
(* Properties.                                                             *)

(* However often a job is redelivered, run twice at once or cut off, the   *)
(* metric counts every stored score once: what it counts beyond them are   *)
(* rows that are being committed, or were counted and then lost.           *)
ScoresCounted ==
    \A r \in Replies :
        counted[r] = wasted[r] + Cardinality({s \in QaSlots : Uncommitted(s, r)})
                     + (IF r \in scores THEN 1 ELSE 0)

(* Whatever administrators do at once, a draft has at most one article,    *)
(* and has it exactly when it is APPROVED, in a knowledge base that exists.*)
OneArticlePerDraft ==
    /\ \A x \in article : x[2] = 1
    /\ {x[1] : x \in article} = {d \in DOMAIN draft : draft[d] = "APPROVED"}
    /\ \A x \in article : x[1].tenant \in kb

(* A run leaves a tenant all its drafts or none, and one question that     *)
(* does not fit costs the tenant the whole batch, whatever fails meanwhile.*)
WholeBatches ==
    \A d \in DOMAIN draft : \A c \in d.batch :
        Generated(c) /\ [d EXCEPT !.cluster = c] \in DOMAIN draft

(* Every job a worker has taken and every review that has locked a draft   *)
(* comes to its end, whoever waits for whose row: after the last request   *)
(* nothing is left half done and no queued job waits beside a free slot.   *)
AtRest ==
    /\ \A s \in Slots : exec[s] \in {Down, Free}
    /\ \A a \in Admins : admin[a].pc = "idle"
    /\ \A j \in Jobs : job[j] \notin {"queued", "running"}
WorkEnds == <>[]AtRest

(* "Spawn a detached arq worker process so the enqueued job has a          *)
(* consumer" (admin/api.py): no mining job is dropped by a worker that     *)
(* does not know it.                                                       *)
EnqueuedHasConsumer == \A j \in Clicks : job[j] # "not_found"

(* _ensure_auto_mined_kb says that "a race between two admins approving    *)
(* the first draft doesn't blow up".                                       *)
RaceDoesNotBlowUp == blown = {}
=============================================================================
