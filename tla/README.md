# Lumen support agent: specifications

TLA+ specifications of the API of the Lumen support agent (`apps/api/src`), the
TLC configurations that check them on small instances, and TLAPS proofs. File
names below are relative to `apps/api/src`; `PROJECT.json` maps every definition
to its lines.

## 1. The system

The API is one FastAPI process with several workers. Every HTTP request and
webhook is an asyncio coroutine. The coroutines share nothing but PostgreSQL,
Redis, Qdrant and a few in-process caches, and each of them opens a new database
session for most of its statements. What is hard is therefore nearly always the
same thing: a value is read in one transaction, something slow is awaited (a
model, a mail API, another statement) and the value is used in a later
transaction.

| Component | State | Operations | Hard behaviour | What makes it correct |
|---|---|---|---|---|
| Conversations (`conversation/`, `assignment/`) | conversation row: status, assignee, AI flag; messages | find-or-create, assign, auto-assign, escalate, return to AI, close, claim, post | mutations read, load and write in three transactions, without a lock; unique-index races | one open conversation per customer, consistent flags, exclusive claims, tenant isolation |
| Inbound pipeline and AI turn (`channel/inbound.py`, `agent/`) | the local state of a turn; ticket, QA job | record, create ticket, answer or escalate by tools, record the reply, enqueue QA, hand off | staff act while the model runs; the pipeline is cut short between commits | no dangling references, a failed turn reaches the human queue, the tool loop ends |
| Tickets (`ticket/`) | ticket row, audit events | auto-creation, transition, add and delete a note | who commits differs per path; row locks | one ticket per conversation, audit trail agrees with the rows |
| Email channel (`channel/inbound_email.py`, `channel/outbound_email.py`, `core/email_parser.py`) | thread, last Message-ID header, messages, mails sent | webhook, dedup, routing, turn, commit, send with retries | redelivery, also concurrent; crashes; lost answers of the mail API | a redelivery is recognised, nothing is mailed before it is stored |
| Outbox (`channel/outbox/`) | event rows: status, attempts, next attempt | select a batch, dispatch one, retry with backoff, give up | overlapping dispatchers, crash between the handler and the commit | at-least-once, given up only when exhausted, every event settles |
| Token budget (`budget/`) | snapshot row, pre-check cache, soft-warn flag | pre-check, record, refresh, invalidate | read-modify-write over two transactions, cache fill against invalidation, cancellation | never overcharged, nobody refused below the cap, the cap holds without overlap |
| Knowledge base (`knowledge/`) | article, its versions, chunk rows, Qdrant points | create, upload, reupload, reindex, index in the background, delete, retrieve | two stores without a common transaction; requests and index runs overlap; crashes | versions in order, an INDEXED article can be found, a retrieval shows nothing superseded or deleted |
| Agent turn (`agent/simple_responder.py`, `agent/graph/`, `agent/suggest.py`) | the turn's messages and tool calls, the context variable the tools read | respond, suggest, summarise, call the model, run tools, escalate | turns run at once in one process; staff take the conversation over meanwhile; every call may fail | tools act for their own conversation, an escalation ends the turn, a turn that has asked the model ends in a text |
| LLM gateway (`llm_client/client.py`, `resolvers.py`, `gateway.py`, `llm_usage/`) | the attempts of a call; usage rows in memory | chat, structured output, stream; fall back, retry, time out, flush | a timeout against a late answer, retry loops inside retry loops | first answer wins, bounded attempts, no usage row lost or doubled |
| LLM tenant configuration (`llm_client/tenant_*`, `runtime_chain.py`, `admin/repository.py`) | provider rows, chain, audit log, two caches, the process-wide chain | POST, PATCH, DELETE, replace a chain, build a resolver, expire | read-diff-write without a lock; cache fill against invalidation | every value in force is in the audit log, the caches become current |
| Background jobs (`qa/`, `history_mining/`, the review in `admin/api.py`) | arq jobs, scores, drafts, mined articles | score a reply, mine drafts, approve, reject | at-least-once jobs, two at once, a crash before the commit; two administrators | one score per message, one article per draft, a batch stored whole |
| Documents (`knowledge/chunker.py`, `knowledge/multimodal/`, `knowledge/rag_service.py`) | chunks, S3 objects, two collections, `kb_multimodal_articles` | chunk, upload, search one base, all bases, texts with images | four stores without a transaction; one base or store fails; boundaries of windows | no phrase lost at a boundary, hits can be opened, the best hits of all bases |
| Widget, websockets, Feishu (`widget/`, `agent/ws.py`, `channel/feishu/`) | connections, tokens | connect, broadcast, verify, deliver | redelivery, disconnects | broadcasts stay in the tenant |
| Auth, tenants, observability | users, settings | CRUD, login, rate limit | limiter fails open | tenant isolation |

How they interact: a channel (widget, Feishu, email) hands an envelope to the
pipeline, which calls ConversationService, the ticket hook, the agent graph
(whose escalate tool calls ConversationService again), the LLM client (through
BudgetResolver) and finally enqueues the QA job. Staff mutate the same
conversations through `conversation/api.py` and `agent/api.py` at any time.
Nothing inserts outbox events yet; the dispatcher is modelled with events that
appear by themselves.

## 2. Modules

A step of a model is one committed transaction, one database statement where a
session spans several, or one external call: the intervals between two awaits
at which the event loop can run somebody else.

**Conversation.tla** (`MCConversation`, `ConversationProofs`). A request
`r \in Reqs` is an inbound message (`StartInbound`) or a staff operation
(`StartMutation`, `Claim`, `PostAgentMessage`). The inbound path is `Find`,
`Insert` (guarded by the partial unique index `IndexAdmits`), `Refind`,
`RecordCustomer`, `AutoCreateTicket`, `Respond`, `Answer`, `ToolRound`,
`EscalationNode`, `RecordReply`, `EnqueueQA` and the handoff. A service mutation
is `Read` (the detached row its target is computed from), `Load` (the second
`session.get` in `ConversationRepository.update`) and `Flush`, whose UPDATE names
only the columns whose new value differs from the loaded one (`Merge`). `Resolve`
is the auto-assignment policy. `Abort` cuts a request short anywhere. The history
variables record what no table does: which rows were written over a value the
writer had not loaded (`tainted`), which were closed, and how often each was
claimed and released.

**Ticket.tla** (`MCTicket`, `TicketProofs`). Sessions are explicit: what a request has flushed
is pending in `pend` and holds the row lock until the session commits or rolls
back, and each path commits where the code does. `Arrive` chooses the hook, a
transition or a note; `Fail` is an exception in any statement.

**EmailInbound.tla** (`MCEmailInbound`, `EmailProofs`). Customers write mails with the
In-Reply-To and References a mail client produces; SES delivers each any number
of times, also concurrently. A delivery runs `Check`, `Find`, `Insert`,
`RecordCustomer`, `Respond`, `RecordReply`, `Escalate`, `CommitHeader`, `Send`;
`Staff` closes or takes over a conversation; `Crash` stops a handler. `ThreadOf`
is the parser's choice of the thread id. The ghosts are the Message-IDs that have
been replaced as a header (`moved`) and which deliveries had ended when another
one began (`past`).

**Outbox.tla**, **OutboxDelivery.tla** (`MCOutbox`, `BackgroundProofs`). `Select`
takes the oldest due events, `Load` re-reads one with the early returns of
`dispatch_one`, `Call` is the handler (external), `Settle` writes the verdict
computed from the row that was loaded. `OutboxDelivery` is what the dispatcher
promises: an event goes from absent to pending and then once to done or to
failed.

**Budget.tla** (`MCBudget`, `BudgetProofs`). One tenant and period in one process with the
deployment's defaults: `Check`/`Load`/`RefreshOnCheck`/`Store` are the pre-check
through `PrecheckCache`, `Invoke` is the provider, `Read`/`RefreshOnRecord`/
`Write`/`Invalidate` are `_post_record` (a call built with a budget that has no
hard cap skips the pre-check, and as a stream the record too), `AdminRead` is the usage endpoint, which
refreshes the row, and `Cancel` ends a call at any await. `SumUsage` is 0: a call
through `ainvoke` enqueues no `llm_usage` row and nothing flushes the rows that
`stream_chat` enqueues. The ghosts are the tokens really consumed (`spent`),
whether an update was lost (`raced`) and whether calls ever overlapped
(`overlap`).

**Knowledge.tla** (`MCKnowledge`, `KnowledgeProofs`). One article. A job
`j \in Jobs` is a request: `Create`, `ReuploadLock`/`ReuploadAppend` (one
transaction under the row lock, in two steps so that others can run between its
read and its write), `ReindexRead`/`ReindexCompare`/`ReindexMint` (three
transactions without a lock), or `Delete`/`Purge`/`Erase`. After a create, a
reupload or a reindex the job is its `index_article`: `Load` reads whichever
version is current, `Mark`, `Embed`, `Clear`, `Upsert`, `Rows` and `Finish` or
`Fail` follow. Two failures are caught nowhere and end the job while the article may be
INDEXING: of `UpdateMetadata`, which a reupload with a new title or source runs
after its commit, and of `Load`, which is outside the try of `index_article`; a delete
whose listing of the versions fails goes on without a purge. `points` is Qdrant and `chunks` the table; a chunk is the pair of
version and index its keys are derived from, and a re-run may cut a text
differently because the base's chunk size has been changed (`Sizes`). A reader is
one `retrieve_chunks`: `Search` picks any hits, `Hydrate` joins the rows,
`Resolve` filters by current version. The ghosts are `overlap` (an index run met
a mint, a delete or another run), the current version when a reader searched
(`asof`) and the versions whose purge failed (`left`).

**TenantConfig.tla** (`MCTenantConfig`, `LlmProofs`). One tenant. An admin request is a
transaction in two or three steps: `PostConfig`, `PatchConfig` or `DeleteConfig`
reads the row, `ReadLatestKey` the newest audited key, and `CommitPost`,
`CommitPatch` or `CommitDelete` writes the row and the entries `diff_upsert`
computes from what was read. `UpsertChain`/`DeleteChain` commit the chain and
`InvalidateChain` then drops its cache; `PutLlmChain` replaces the process-wide
chain. A builder is a request that needs a resolver: `Lookup`, `ReadRows`,
`LookupChain`, `ReadChain`, `StoreChain`, with `Finish` choosing the chain and
storing the resolver. The ghost `raced` names the providers two requests worked
on at once.

**Gateway.tla**, **FirstAnswer.tla** (`MCGateway`, `LlmProofs`). A call has a route: the QA
judge, or a tenant's resolver with a chain of a given length (0 is prefix
routing), with or without a model override, streamed or not. `Begin` sends it to
its first provider, `Answers` is any reply (classified as the providers classify
status, body and network errors) with the retry, the next step or the end that
follows from it, `TimeOutStep` and `TimeOutRound` are the timeouts of a step and of
the judge's loop, `Chunk` is a piece of a stream, `Stop` and `Insert` are the
flush of the judge's usage rows when its worker stops. `FirstAnswer` is what a chain
promises: candidates are asked in order and the first answer wins.

**BackgroundJobs.tla** (`MCBackgroundJobs`, `BackgroundProofs`). arq's queue is external and modelled
by its contract (at least once, bounded tries, jobs nobody knows are dropped).
`QaCheck`, `QaJudge`, `QaInsert`, `QaCommit` are `qa_judge_task`; `MineScan`,
`MineTenant`, `MineGenerate`, `MineSave` the mining job, whose clustering is a
free choice of labels (a single question forms no cluster); `Approve`/`Reject` lock a draft and `SelectKb`, `FlushKb`,
`Publish` finish an approval. `Crash` stops all slots of a process, `Redeliver`
runs a job again, also beside the first run.

**AgentTurn.tla** (`MCAgentTurn`, `LlmProofs`). A request is a `Respond` or a `Suggest`; both
load the history, may ask the model for a summary, retrieve, and run the tool
loop in the same graph. Here the tables of Conversation are one fact per
conversation, who handles it; in exchange every tool call, the context variable
`_escalation_ctx`, the iteration limit and every failure are explicit. Most failures
become a text; those of reading the conversation or its messages and of building the
graph leave the request (`raised`).

**Chunking.tla**, **Documents.tla** (`MCDocuments`, `DocumentsProofs`). `Chunking`
is the loop of `chunk_document`: a section is its number of words, a chunk an
interval of them. `Documents` extends it with `upload_multimodal`, which writes to the
object store, two collections and a table in this order and cleans nothing up, and
with the three searches: over one or all bases with threshold and merge, for the
context of a turn, and over texts and images with reciprocal rank fusion. A
point's score is an input; images come in any order, since the tool asks for them with
a zero vector.

## 3. What the runs check

| Run | Instance | Shows |
|---|---|---|
| `conversation_safety` | 1 customer, 2 conversation ids, 2 agents, 3 requests, no faults | the unique index, the claim lock and each single mutation keep the rows consistent in every interleaving; a message is dropped only after a close |
| `conversation_fair` | 2 tenants (the second has only staff), 2 requests, cut short anywhere, fair | tenant isolation of every mutation and claim; a failed turn reaches the queue |
| `ticket` | 1 conversation, 2 users, 3 sessions that may fail, fair | one ticket, an audit trail that agrees with it, no session waits for ever |
| `email` | 2 mails, 3 deliveries, crashes, 1 retry | a redelivery after the answer is recognised while the mail is still the header, one conversation per opening mail, nothing is mailed before the turn is stored |
| `outbox` | 3 events (one without a handler), 2 workers that may stop anywhere, batches of 2, 3 attempts, fair | overlapping workers neither lose nor give up an event early, and every event settles once the processes stop crashing |
| `budget` | 3 calls, cap 3, warning at 2, costs 1 and 2, cancellations, admin reads | races only lose usage; the total is exact when nothing was overwritten; without overlap the cap is kept |
| `knowledge` | 3 jobs, 1 reader, 2 texts (one blank), 1 or 2 chunks, failures and crashes anywhere | without overlap an INDEXED article is complete in both stores and a deleted one leaves only points whose purge failed; an INDEXING article has a run under way, or a job that crashed or ended in an error before it could write another status; a retrieval is fresh |
| `tenant_config` | 2 overlapping admin requests out of 3, 1 builder, 2 providers, 1 failed read, fair | the audit log accounts for every value in force, and exactly where nobody raced; the cached resolver becomes the one the tables describe |
| `gateway` | 2 calls of every kind, a chain of 2 dialects, 1 retry in each loop | a chain implements `FirstAnswer`; the judge's two retry loops multiply, to at most four calls here, and nothing else is retried; usage rows are conserved |
| `background_jobs` | 1 reply and 1 mining job, 2 QA slots, 1 mining worker, 2 administrators, 2 tenants (one with up to two clusters, of which one may be too long to draft, one with a single question), 2 faults, fair | the metric agrees with the stored scores, at most one article per draft, drafts stored whole also when a cluster fails after another was drafted, all work ends |
| `agent_turn` | 2 turns, 2 conversations, 1 tool round of up to 2 calls, fair | tools act for their own conversation, escalation is last, every turn ends, and with a text unless an error came before the model was asked |
| `documents` | 4 documents, 2 sizes and overlaps, 1 upload of 2 pages, 1 search over 3 bases, 1 fault, fair chunking | no phrase is lost at a boundary and the loop ends; hits can be opened; the merge is the best of all; texts and images are shown in turn |

The conversation model needs both of its runs: messages are dropped and the
index refuses an INSERT only with three requests, and with three requests the
state space with faults and a second tenant is too large.

**Bounds.** A race of the read-load-flush kind needs two mutations; a third
request lets a close or a claim fall between them, and two conversation ids let a
customer come back after a close. Three deliveries of two mails are the least
with which a header is replaced between two deliveries of the same mail. Two
workers and three attempts let `attempts` be lost once and still be exhausted.
Three calls with costs up to two cross the soft limit and the cap in either
order, and let a third call meet a decision two others made stale. Three jobs on
an article are a create and two more, which is what a mint or a delete between
the reads of a reindex, two index runs of one version, and a run that outlives
its article take; two sizes let a later run leave rows and points of an earlier
one. Two admin requests at once and a third before or after them are what a lost
diff, a delete below a patch and an invalidation between a builder's read and its
store take; the two providers are `minimax` and `openai` because the provider
object of the first carries the name of the second. A chain of two steps
has a first, a last and a step after a failed one; the two dialects differ in how
replies are classified. Two QA slots run one job twice at once, two
administrators meet on one draft, and five questions of one tenant, of which one
is too long for a draft, are the least that form two clusters (of the minimal size 2)
with and without it: with it, the batch fails before or after its other cluster was
drafted; without it, the two drafts are approved at once while there is no knowledge
base. Two turns are what it takes to confuse
their contexts. The documents include an empty text, a block that fits, one that
is split and one of an unknown type; 0 is a size, and 2 an overlap,
that the validation must refuse.
Apart from `MaxOps`, `MaxFaults`, `MaxCalls`, `MaxLength` and `MaxChunks`, which
cap inputs and are named where they are declared, the only
bounds in the guards are the code's own (`MaxToolIter`, `MaxRetries`,
`MaxAttempts`, `Limit`) and the finite sets of requests, deliveries, events and
calls, each of which is used once. `MaxCost` bounds the tokens of a call.

**Deadlock.** Conversation and Ticket have an `Idle` step in their final states,
so TLC's deadlock check finds every other state in which all requests wait. The
other systems may really stop: all mails delivered, all events settled, all
calls, turns, uploads and jobs done; their configurations say `CHECK_DEADLOCK FALSE`.

**Fairness.** Weak fairness of every request's, delivery's or worker's own step
and nothing else: the event loop resumes a coroutine whose await has completed,
every database call and provider call ends (in a result or a timeout), and
PostgreSQL grants a released lock to a waiter. The outbox also needs the periodic
task to be called again and time to pass, TenantConfig that cache entries expire
(the time to live), Gateway that a provider answers or its HTTP client's timeout
makes that a network error, and BackgroundJobs that a worker that is up goes on
taking jobs. `EveryEventSettles` and `WorkEnds` are about a system that stops
crashing: the first assumes so (`CrashesEnd`), and `MaxFaults` bounds the crashes
of the second. EmailInbound, Budget, Knowledge and the uploads and
searches of Documents are checked for safety only and have no fairness: `Crash`
may end a job of theirs at any step. Customers, SES, staff, administrators and
faults are never obliged to act.

**Symmetry** is used only in runs without liveness properties, over sets whose
members nothing tells apart.

**Refinement.** `KeepsPromise` is `FirstAnswer!Spec` under the mapping in Gateway:
the failures so far and the winning step are read off a call's log. Section 4
proves it for every chain, and that the outbox dispatcher implements
`OutboxDelivery`.

**Stated, and outside the runs.** Some definitions are properties TLC finds true
with the same configurations and that the runs above do not repeat:
`EveryRequestCompletes`, `NoDanglingReferences` (Conversation)
and `EveryCallEnds` (Gateway). Section
4 proves others that no run repeats: the type invariants of Conversation, Ticket,
EmailInbound, Outbox, Budget, Knowledge, BackgroundJobs and Documents,
`ListedMeansFound`, `TurnBounded`, `OnlyOwnNotesVanish`,
`WarnedOnce`, `RefusedOnlyAtCap`, `NumberedInOrder`, `ReuploadNumberFree`,
`UnforcedMintsNothing`, `NoGhostAnswers`, `RowsAfterVectors` and the refinement of
the dispatcher. To check one of them with TLC add it to the configuration of its
module.

## 4. What is proved

`ConversationProofs` proves, for every number of conversations, customers,
tenants, agents and requests and with faults, `TypeCorrect` (`TypeOK`),
`UniqueOpen` (`OneOpenPerCustomer`), `LockStepUnlessRaced`
(`UntaintedLockStep`), `ClaimExclusive` (`ClaimsBounded`) and `DropNeedsClose`
(`DroppedOnlyAfterClose`), and `Isolation` (`TenantIsolation`, as an action property). The
assumptions are `ConstantsAssumption`: every customer has a tenant, the staff of
a tenant is a finite set of ordered ids, NULL is none of the ids.

None of these is inductive alone. `IInv` adds: what a row looks like at all
(`RowsOK`), that claims and releases of a row balance with whether it has an
agent (`ClaimBalance`: a claim is only possible where the balance allows it), and
for each request what its program counter implies about what it has read
(`ReqInv`): a request in its AI turn owns a conversation of its own tenant, the
row a mutation loaded is a row that existed, and a request that lost the insert
race knows of a live row or of a close since (`RaceOK`). The last part is where
interleaving enters: `Evolves` says how any step may change the table (rows are
only added, keep their customer, and stop being live only by a close), and
`ReqStable` shows that what a suspended request relies on survives such a step.
Then there is one lemma per action, and the theorems follow by PTL.

`TicketProofs` proves `TicketTypeCorrect` (`TypeOK`), `AtMostOneTicket`
(`OneTicketPerConversation`), `TrailComplete` (`AuditTrail`) and the action property
`TrailAppendOnly` (`OnlyOwnNotesVanish`) for any number of conversations, users and
sessions that fail anywhere, from `TicketAssumption` (NULL is none of the ids). The
invariant speaks of what is flushed and not yet committed, because that is what the
next commit makes true: `Known` is what a request's place in its handler implies,
`Flushed` what its session holds by then (a hook's ticket and then its audit row,
a note, a deletion of notes of the user's own, and that only a transition updates
a ticket), `Unique` the constraint over stored and flushed tickets together, and
`Trail` that each stored ticket has its "created" event and its first status. The
last part is inductive only because the session of a transition is never
committed; it is the finding of section 5, and the proof shows where it is used.

`EmailProofs` proves `EmailTypeCorrect` (`TypeOK`), `RedeliveryRecognised`
(`SequentialRedelivery`), `NoSecondConversation` (`OneConversationPerMail`) and
`MailedOnlyAfterCommit` (`MailedAfterCommit`) for any number of mails, deliveries
and customers, from `EmailAssumption` (at least one attempt to send, mails and
deliveries are different things, NULL is none of them) and `NullAssumption` (NULL is
not a row and not an answer). A delivery's own part is `Known`, `Stored` (which
messages it has recorded) and `Recorded`: past the commit its mail is the header
or has been one (`IsHeader`). The shared parts are `Headers` (a mail is the header
of one conversation at most, which is what the index on the header gives),
`Answers` (what an accepted answer says about its delivery) and `Recognised`: a
delivery that got past the duplicate check of a mail answered before knows that
the header has moved on. `Grows` is the interference of a step: no row, message or
header is lost without a trace, so what a suspended delivery relies on stays true.

`BackgroundProofs` is about the two kinds of background work. Of the outbox it
proves `OutboxTypeCorrect`, `NothingLost` (`DoneMeansHandled`) and
`NothingGivenUpEarly` (`FailedMeansExhausted`) for any number of events, overlapping workers and crashes.
The strengthening counts: `RowCounts` (the attempts column never exceeds the
failures that really happened) and `WorkerCounts` (the same for the stale value a
worker still holds). Lost updates only lower the column, so it cannot reach
`max_attempts` early. `OneWorkerImplementsDelivery` shows that with a single
worker every step is a step of `OutboxDelivery` or a stutter; the extra invariant
is that the row a lone worker is about to write is still pending. With two
workers it is false: an event that is done can be written back.

Of the job queues it proves `BackgroundJobsTypeCorrect` (`TypeOK`),
`EveryScoreCountedOnce` (`ScoresCounted`), `BatchesAreWhole` (`WholeBatches`) and
`OneArticle` (`OneArticlePerDraft`) for any number of replies, clicks, slots, tenants,
administrators, redeliveries and crashes, from `BackgroundJobsAssumption` (the QA
worker has finitely many slots, `max_jobs`). `IInv` is the types and what a slot and
a review know by themselves; each theorem adds one part. `QaInv`: of one reply at
most one row is flushed and not committed, and none beside a stored one, which is
the unique key seen from inside the transactions; what a crash or a failed commit
takes is what `wasted` gains. `MineInv`: two runs never have the same job and
attempt, because `Take` counts every attempt, and a run has no drafts yet of the
tenants it has still to do (`Fresh`); so nobody else adds to a batch, and the commit
adds it at once. `ReviewInv`: a review under way holds the lock on a draft that is still
DRAFT, and no two hold the same.

`BudgetProofs` proves `BudgetTypeCorrect` (`TypeOK`), `BudgetNeverOvercharged`
(`NeverOvercharged`), `BudgetExact` (`ExactUnlessRaced`), `BudgetCapRespected`
(`CapRespected`) and the action properties `BudgetRefusedOnlyAtCap` and
`BudgetWarnedOnce` (`RefusedOnlyAtCap`, `WarnedOnce`) for any number of calls and any cap,
warning and costs, from `BudgetAssumption` (the cap and the cost are positive, NULL
is no number and no row). The first two rest on a *ledger* (`Charged`): the tokens
consumed can be numbered so that the row accounts for some of them, each call
still owes others, and each call that has read the row remembers the ones the row
accounted for then; no token is owed twice or owed and recorded. A write adds the
tokens owed to the ones remembered, so it can drop tokens of others but never
record one twice; and as long as `raced` is false nothing is dropped. A sum over
calls in place of the sets would not do, because a stale write brings back a total
some of whose parts have been recorded since. The decisions then follow: a
cached total or one under way to the cache is never more than what was consumed
(`Behind`). Without overlap (`Alone`) all calls but one rest, so a decision is taken
on the exact total (`Calm`) or the call that made it stale is still recording, and
the warning's flag stays with the row (`Warned`).

`KnowledgeProofs` proves, for any number of jobs, readers, texts and chunk
counts and with every fault, `KnowledgeTypeCorrect` (`TypeOK`), `VersionsInOrder`
(`NumberedInOrder`), `UnforcedReindexIsIdle` (`UnforcedMintsNothing`),
`ReuploadIsSafe` (`ReuploadNumberFree`), `AnswersAreFresh` (`FreshAnswers`),
`DeletedIsUnseen` (`NoGhostAnswers`), `NeverForgotten` (`IndexingHasRun`),
`IndexedIsComplete` (`IndexedMeansFound`), `OnlyFailedPurgesRemain`
(`OrphansExplained`) and the action property `VectorsFirst`
(`RowsAfterVectors`), from `KnowledgeAssumption` (positive sizes and `TopK`,
NULL is no job, no number and no kind of request). It has five layers:

1. `IInv` is `TypeOK`, `NumberedInOrder`, `UnforcedMintsNothing` and two
   strengthenings. `JobInv`: a job about to append holds the lock and has read
   the last number; a job about to mint has read an existing number, and if it is
   unforced that number is taken. `RowInv`: a living article has a
   version, any other has neither versions nor a current one. The point is `TakenNumbers`: since numbers
   are dense, a number that follows an existing one is free only at the end, so
   the unique constraint alone puts a stale reindex out of the race.
2. `ReadInv` follows a reader: the current version never decreases while the
   article lives, so what `Resolve` keeps is at least as new as what was current
   at the search; and a deleted article has no rows and stays deleted, so a
   search that began after the delete loses all its hits when it hydrates.
3. `RunsAlone`: while `overlap` is false there is one index run and no delete, so
   nobody removes the points of a run between its upsert and its rows.
4. `Owed`: a job that has still to index, or was lost before it could. Every step that
   makes the article INDEXING leaves such a job, and the step with which a job
   stops owing is one that writes another status, finds the article gone, or is one of
   the four losses the model has: a crash, a status write that fails, and the errors
   of `UpdateMetadata` and `Load`. `NeverForgotten` says no more than that no other
   step, early return or overlap leaves an article INDEXING; the losses are those of
   section 5.
5. `StoreInv`, on top of the third: what the one run or the one delete has done to
   the two stores by each of its steps. `RunOK`: which points and rows of its own
   version a run has cleared, upserted and inserted, so that it finds both complete
   when it writes INDEXED. `DeleteOK`: which versions a delete has purged, and that a
   point of one that is behind it is `Spared`, that is, its purge failed. `Alongside`
   states both while `overlap` is false, and that the points of a living article are
   of versions that exist; `Marked` recognises a request that ever deleted.

`DocumentsProofs` proves `NoPhraseLost` (`PhrasesKept`), `DocumentsTypeCorrect`
(`TypeOK`), `ListedIsStored` (`ListedMeansFound`), `EverythingOpens` (`CanBeOpened`),
`BestHits` (`BestOfAll`) and `BothAreShown` (`FairShares`) for every document, size
and overlap and any number of
uploads, searches, knowledge bases and points. It has four parts.

1. The loop of `chunk_document`: the sections behind it are covered
   whole, and the section under it up to word `i + overlap`, because the window that
   starts at `i` begins `overlap` words before the end of the one it follows.
   `ChunkingAssumption` says that a document is a non-empty sequence of
   sections that ends with the text; that a size is positive and an overlap smaller is
   not assumed but follows from `validate_config`.
2. `StoresInv`: by each of its steps an upload's file is stored before its first point
   is, and its text and image points are all there, or none, except where an upsert
   failed, which ends the upload. `OthersOK` shows that the steps of the others leave
   that alone; since files are never removed, it also carries to what searches have
   found (`Own`).
3. `SearchInv`, for the merge. That a list of `top_k` per base is enough needs
   `Gathered`: a point above the threshold of a base that answered is among the hits
   or is `PassedOver`, that is, there are `top_k` hits none of which is worse.
   `AskGathers` keeps it when one more base answers, and `MergeIsBest` counts: if the
   merged list held a hit worse than a point that was passed over, its `top_k` betters
   would all have to be on the list beside it.
4. `FairInv`, for the fusion: the two lists of a search hold no point twice and none in
   common, because points are text or image by where they are stored. So the weight of a hit is
   `1 / (RRF_K + rank)` of its own list, and `FuseOrder` shows that a hit gives way only
   to hits of the other list of a smaller rank, or of the same one if it is an
   image's. `Share` counts once for both lists: if one of the first `q` hits of a list is not
   shown, the shown hits of the other list have ranks below `q` (or up to it), and the
   rest of what is shown is the list's own. Weights are fractions compared by
   cross-multiplication (`Plus`, `Exceeds`), so that nothing is rounded.

`DocumentsAssumption` says that the articles' points and the pages are finite sets, that
knowledge bases are pairs of a tenant and a slug, that NULL is neither, and that
`TopK` is positive. Points of equal score come in any order (`Nearest` is the set of
all rankings), so nothing depends on how ties are broken.

`LlmProofs` follows a question to its answer: the agent's turn, the calls of a
client to the providers, and the tenant configuration they are resolved from.

1. AgentTurn, for any number of requests, conversations, rounds and tool calls:
   `ToolsActForTheirOwn` (`OwnConversation`), `NothingAfterEscalation`
   (`EscalationIsLast`) and `ModelCallsBounded` (`TurnBounded`). `TurnIInv` says what
   each request knows by itself, and no part of it mentions another request, which is
   the point of a context variable per task: it is bound to its own conversation or
   to none (`Bound`), it has handed over before it says so and is then on its way out
   (`HandsOver`), and each call of the model is the summary's, the first one or that
   of a counted round (`Counts`). `EscalationIsLast` is an action property and uses
   the second of these in the state before the step. `AgentTurnAssumption` says that
   the limits are numbers and that `NoConv` is no conversation.
2. Gateway, for any chain, limits and number of calls: `RetriesBounded`
   (`CallsBounded`), `EveryAnswerIsAccounted` (`UsageConserved`) and the refinement
   `ChainKeepsPromise` (`KeepsPromise`). `ChainOK`: a chain stands at the step after
   the ones that failed, and each of those failed with a trigger. `JudgeOK`: what the
   judge has asked is at most its full rounds times the attempts of a round, and the
   attempts of this one. The bound of the two loops is a product, so the step that
   begins a round needs that `(round + 1) * (MaxRetries + 1)` is one round more
   (`RoundsLeft`). `RowsOK` says why no row is counted twice: the worker stops when
   every judge call has ended, so a row is in the queue, or in the batch, or where
   the insert left it, according to what the worker does. The refinement takes a
   step at a time (`StepKeepsPromise`): a reply to a chain call is `Fail`, `Answer`,
   `GiveUp` or `Refuse` of `FirstAnswer` (`WalkKeepsPromise`), a timeout is `Fail` or
   `GiveUp`, and every other step is a stutter, also one of the judge or of a stream,
   which the mapping leaves out.
3. TenantConfig, for any providers, administrators and interleaving of their
   requests: `NoUnexplainedValue` (`AuditCovers`) and `NewestEntriesAreTheRow`
   (`AuditExactUnlessRaced`). The two are inductive together with what a request goes
   by between its read and its commit. `Copied`: the row it has read was accounted
   for, and so was the key it looked up; entries are never removed, so they still
   are. That is enough for the first theorem, since a field that the diff leaves out
   has the value the copy had. `Alone`: while nobody has raced on the provider, the
   copy is the row, and the log of the provider is older than the request. The second
   theorem also needs that the times tell entries apart (`LogOK`), so that a field has
   one newest entry, and `Commits` puts the three commits in one form, of which
   `CommitIInv` shows what they leave. `ConfigAssumption` says that the payloads are
   rows, or parts of rows without the key, and that NULL is no model, key or row.

Left to TLC: liveness, since fairness and ENABLED are outside the prover's reach.
Every invariant and every action property that a run checks has a theorem, and so
have both refinements.

## 5. Where code and documents disagree

None of these is a run: the models show them, and the ones that have a definition
can be reproduced by adding it to the configuration of its module (`INVARIANT`, or
`PROPERTY` for an action).

- *Ticket transitions* (`TransitionIsStored`, Ticket). `get_ticket_service` is
  documented to commit on clean exit (`ticket/api.py:64-66`); it does not, and
  `transition` only flushes (`ticket/api.py:81`). A 200 is rolled back. That
  missing commit also hides that two transitions from one status are not locked
  against each other (`ticket/service.py:171`).
- *"duplicate" mails* (`DuplicateMeansSeen`, EmailInbound). The handler takes every
  integrity error of the INSERT for a Message-ID it has seen
  (`main.py:285`, `channel/inbound_email.py:160`); the index on open conversations
  raises the same error, and a new mail is dropped.
- *Replacing a chain* (`ChainTakesEffect`, TenantConfig). `admin/api.py:1190-1197`
  says the next resolver call "hits the DB"; the handler drops the cached chain,
  and `tenant_resolver.py:508` returns the cached resolver without looking at it.
- *The kept window* (`ContextCovered`, AgentTurn, with `BeforeSummary = 2` and
  `MaxLength = 3`). `simple_responder.py:65` says the window covers all context
  when there is no summary; a history longer than the window and not longer than
  the summary threshold loses its oldest messages (lines 335 and 369).
- *Model overrides* (`ReceivesResponse`, Gateway). The comment at
  `tenant_model_override_resolver.py:72-79` says the client always receives a
  response; over a prefix-routing resolver it receives a provider.
- *Two first approvals* (`RaceDoesNotBlowUp`, BackgroundJobs).
  `_ensure_auto_mined_kb` says that such a race "doesn't blow up"; the loser's
  flush raises and its approval is an internal error.
- *Calls of a bad turn* (`OuterAttemptsOnly`, Gateway). `qa/worker.py:37` says that
  with one retry "a single bad turn costs at most 2 LLM calls", `qa/judge.py:26`
  that there are "up to 2 attempts total". The client retries under the judge's
  loop, so the two multiply: with the defaults it is 4 calls, the bound of
  `CallsBounded`.
- *Text against images* (`LowRankedBoosts`, Documents).
  `knowledge/multimodal/retriever.py:60-63` gives as the reason for `RRF_K` that a hit
  "only in the text list at rank 8 can still boost past an image-only top-1".
  1/68 is less than 1/61, and no constant changes that: no hit is in both lists, so
  the first image is always among the first two hits, as `FairShares` states.
- *A consumer for the mining job* (`EnqueuedHasConsumer`, BackgroundJobs). Both
  workers listen on arq's default queue, and the QA worker drops a job it does not
  know.
- `channel/inbound.py:397-401` says the row is still OPEN, AI-handled and
  unassigned when the handoff after a fallback runs; staff may have taken it
  meanwhile, and the handoff clears their assignment;
- `budget/precheck_cache.py:7` says the cache "never serves a stale below-cap
  decision after a real write"; a loader that read before the write stores after
  the invalidation;
- overlapping mutations mix their columns (OPEN and AI-handled with an assignee),
  which is why the lock-step property is stated for untainted rows only;
- `return_to_ai`, `assign_to_agent` and `escalate_to_human_queue` reopen a CLOSED
  conversation, against the state machine in the repository's README;
- `close` writes the assignee it read first over one stored since;
- an AI answer that was being generated is recorded after a human took over;
- the loser of an insert race drops its message when the winner is closed before
  it looks again (hence `DroppedOnlyAfterClose`);
- a mail redelivered while or after its thread has moved on is processed again
  (hence `moved`), and the parser prefers In-Reply-To over the References root
  the design document names, so mails of one dialog part;
- as many outbox events without a handler as a batch holds starve all others, and
  two dispatchers call the handler of an event that is already done;
- overlapping calls fire the soft warning twice; reading the usage through the
  admin API resets the enforced total to a sum agent calls never feed; credits
  do not reach the pre-check, which is built without a credit service;
- `knowledge/retriever.py:292-297` says that the chunks table carries only the
  current version; `knowledge/worker.py:540` deletes rows of the version it
  indexes only, so every older version keeps rows and points, and the filter of
  the retriever is what hides them. A comment at that filter
  (`retriever.py:337`) says that a missing article counts as an orphan; the
  condition keeps its chunks, of superseded versions too, when the article is
  deleted between the two reads (hence `gone` in `FreshAnswers`);
- two runs on the same version break "vectors first" (hence `overlap`), and an
  older run can write INDEXED or FAILED over the state of a newer version;
- a reindex without force never mints, so a FAILED article is recovered only
  with force, and an article whose job was lost stays INDEXING: nothing resumes
  it (hence the lost job in `IndexingHasRun`). `knowledge/worker.py:265` says that on
  any exception after the article was moved to INDEXING it becomes FAILED; reupload
  and reindex move it there before they call `index_article`, whose checks and loads
  (lines 287-348) are in no try, and a reupload updates title and source in between
  (`knowledge/service.py:707`), so an error there leaves it INDEXING. `reindex_article` catches it and answers
  FAILED because "the pipeline already wrote FAILED" (`knowledge/worker.py:789`), which it did not.
  Points left by a failed purge are not removed by a retry, because each
  retry works on a version of its own;
- a handler that stops after the new conversation is committed and before the
  message is recorded (`inbound_email.py:191`) loses the mail, because the
  redelivery is taken for a duplicate; a Feishu event that is delivered
  again (`feishu/webhook.py:134`) is not recognised at all;
- `draft_generator.py` passes a `timeout` its client does not accept, so every
  draft is the fallback, and a fallback body over 2000 characters
  (`draft_generator.py:47-50`) fails the whole batch of its tenant, as
  `WholeBatches` states; the article of an approved draft stays INDEXING
  (`admin/api.py:378`), since nothing enqueues its index run;
- `simple_responder.py:217` reads the messages and line 221 builds the graph outside
  any try: an error there, or of the read of the conversation before, leaves `respond`
  without a text, so that the customer gets no answer and, since the handoff is not
  reached either, the conversation stays with the AI (hence the exception in
  `EveryTurnAnswered`);
- the tool loop appends the results of tools without the assistant's message that
  asked for them; `search_internal_kb` drops a slug it does not know and searches
  all bases (`tools.py:337-377`);
- the usage row of `client.py:146` is not written on the `ainvoke` path, and the
  rows the QA client collects are flushed only when its worker stops;
- the text points of an uploaded PDF carry no `knowledge_base_id`, so a multimodal
  search with a slug never finds them;
- `chunk_text` ends with a chunk that repeats only the overlap when the last full
  window ends with the text;
- `patch_assignment_policy` (`admin/api.py:2117-2158`) reads, merges and writes the
  settings without a lock.

## 6. Not modelled

`PROJECT.json` lists every component with its status and the reason. Outside the
models are: widget tokens and the websocket manager, the Feishu webhook's own
checks, authentication and the rate limiter, the assignment policy's settings, the
CRUD of tenants, users and knowledge bases, the SLA alert (it reads and counts),
the web console and the SDK. Of the modelled parts: several articles at once in
Knowledge (nothing in the code relates two of them); document formats and the
parser (a parsed document is an input); embeddings, scores and clustering (a
score is an input, labels are a free choice); the text of prompts, messages and
answers; prices. Left out on purpose: cryptography and signatures, metrics that
no code reads back (the QA score counter is kept because it must agree with a
table) and tracing, timestamps (times matter only as "has passed"), and websocket
broadcasts, which are best effort and change no state that is read back.
PostgreSQL is taken to be READ COMMITTED with atomic statements; a unique index
admits or refuses an INSERT or UPDATE atomically. Redis, arq, Qdrant, S3 and the
providers are modelled by how the code uses them.

## 7. Plan

Done, in this order: Conversation with its pipeline and proofs, Ticket,
EmailInbound, Outbox with its abstract specification and proofs, Budget,
Knowledge with its proofs, TenantConfig, Gateway with its abstract specification,
BackgroundJobs, AgentTurn, Chunking and Documents; then the proofs of Budget, Ticket,
EmailInbound, BackgroundJobs and Documents, the two stores of Knowledge, and the
proofs of AgentTurn, Gateway with its refinement, and TenantConfig.

Next:

1. `Realtime`: websocket connections, broadcasts, widget tokens; the lookup rate
   limiter.
2. Composition: Ticket's transactions inside the pipeline of Conversation, a Feishu
   redelivery in front of it, Budget around Gateway.
3. An abstract specification of Knowledge (a set of answers per current version)
   that its retrieval implements.
