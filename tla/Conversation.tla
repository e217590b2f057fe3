---------------------------- MODULE Conversation ----------------------------
(***************************************************************************)
(* The conversation layer and the inbound message pipeline.                *)
(*                                                                         *)
(* Every HTTP handler and every inbound webhook is an asyncio coroutine: a *)
(* request r \in Reqs.  It shares nothing with the others but the database *)
(* and may be suspended at every await, so each of its steps below is one  *)
(* committed transaction (READ COMMITTED) or one external call.            *)
(*                                                                         *)
(* A service mutation (assign, escalate, return, close) is three steps:    *)
(*    read   ConversationService.get: the detached row the target is       *)
(*           computed from (snap);                                         *)
(*    load   ConversationRepository.update: session.get of the row again   *)
(*           (load);                                                       *)
(*    flush  the UPDATE, which the ORM restricts to the columns whose      *)
(*           assigned value differs from the loaded one, and its commit.   *)
(* Only claim holds a row lock from its read to its commit.                *)
(*                                                                         *)
(* Left out: timestamps, message text, the websocket broadcasts (best      *)
(* effort, they change no state that is read back).                        *)
(***************************************************************************)
EXTENDS Naturals, FiniteSets

CONSTANTS
    Conv,          \* ids the conversations table can hold
    Customers,     \* (channel_id, customer_external_id) pairs
    Tenants,
    TenantOf,      \* the tenant that owns a customer's channel
    Staff,         \* the assignable agents of each tenant (ids are ordered)
    Reqs,          \* request coroutines
    MaxToolIter,   \* _MAX_TOOL_ITERATIONS
    Faults,        \* whether the database, Redis or the process may fail
    NULL

Agents == UNION {Staff[t] : t \in Tenants}

ASSUME ConstantsAssumption ==
    /\ TenantOf \in [Customers -> Tenants]
    /\ Staff \in [Tenants -> SUBSET Nat]
    /\ \A t \in Tenants : IsFiniteSet(Staff[t])
    /\ MaxToolIter \in Nat
    /\ Faults \in BOOLEAN
    /\ NULL \notin Nat \cup Customers \cup Conv \cup Tenants

VARIABLES
    row,        \* the conversations table
    messages,   \* the messages table
    tickets,    \* conversations that have a ticket
    qa,         \* requests whose AI message was queued for the QA judge
    req,        \* the local state of every request
    \* History, read by properties only:
    tainted,    \* conversations written over a value other than the loaded one
    closes,     \* conversations some request has closed
    claims,     \* successful claims of each conversation
    releases    \* writes that took each conversation from its agent

vars == <<row, messages, tickets, qa, req, tainted, closes, claims, releases>>
history == <<tainted, closes, claims, releases>>

-----------------------------------------------------------------------------
(* Rows.                                                                   *)

Statuses == {"none", "open", "pending", "closed"}

RowType == [status : Statuses, agent : Agents \cup {NULL}, ai : BOOLEAN,
            cust : Customers \cup {NULL}]

NoRow == [status |-> "none", agent |-> NULL, ai |-> FALSE, cust |-> NULL]

(* The row find_or_create_for_inbound inserts.                             *)
NewRow(k) == [status |-> "open", agent |-> NULL, ai |-> TRUE, cust |-> k]

Live(x) == x.status \in {"open", "pending"}

(* Mutant: the query asks for status = 'open'.                             *)
OpenFor_OnlyOpen(k) ==
    {c \in Conv : row[c].cust = k /\ row[c].status = "open"}

(* find_open_by_channel_customer: status != 'closed'.                      *)
OpenFor(k) == {c \in Conv : row[c].cust = k /\ Live(row[c])}

(* Mutant: the tenant check is dropped.                                    *)
Visible_AnyTenant(c, t) == row[c].status # "none"

(* The row is there and belongs to the tenant: what get() checks.          *)
Visible(c, t) == row[c].status # "none" /\ TenantOf[row[c].cust] = t

(* Mutant: the index is declared WHERE status = 'open'.                    *)
IndexAdmits_OnlyOpen(c, x) ==
    \A d \in Conv : x.status = "open" /\ row[d].status = "open"
                        /\ row[d].cust = x.cust => d = c

(* uq_conversations_channel_customer_open, a partial unique index: may row *)
(* c hold x?                                                               *)
IndexAdmits(c, x) ==
    \A d \in Conv : Live(x) /\ Live(row[d]) /\ row[d].cust = x.cust => d = c

(* Mutant: a conversation somebody already claimed can be claimed again.   *)
Claimable_AnyPending(x) == x.status = "pending"

(* The check claim makes under its row lock.                               *)
Claimable(x) == x.status = "pending" /\ x.agent = NULL

(* Mutant: return_to_ai keeps the assignee.                                *)
Target_ReturnKeepsAgent(op, snap, a) ==
    CASE op \in {"assign", "autoassign"} ->
             [snap EXCEPT !.status = "pending", !.agent = a, !.ai = FALSE]
      [] op = "escalate" ->
             [snap EXCEPT !.status = "pending", !.agent = NULL, !.ai = FALSE]
      [] op = "return" -> [snap EXCEPT !.status = "open", !.ai = TRUE]
      [] op = "close" -> [snap EXCEPT !.status = "closed", !.ai = FALSE]

(* The attributes a service method assigns before it calls repo.update,    *)
(* computed from the row it read.                                          *)
Target(op, snap, a) ==
    CASE op \in {"assign", "autoassign"} ->
             [snap EXCEPT !.status = "pending", !.agent = a, !.ai = FALSE]
      [] op = "escalate" ->
             [snap EXCEPT !.status = "pending", !.agent = NULL, !.ai = FALSE]
      [] op = "return" ->
             [snap EXCEPT !.status = "open", !.agent = NULL, !.ai = TRUE]
      [] op = "close" ->
             [snap EXCEPT !.status = "closed", !.ai = FALSE]

(* The UPDATE of repo.update: a column keeps the stored value when the     *)
(* assigned value equals the loaded one.                                   *)
Merge(cur, load, new) ==
    [cur EXCEPT
        !.status = IF new.status # load.status THEN new.status ELSE cur.status,
        !.agent  = IF new.agent # load.agent THEN new.agent ELSE cur.agent,
        !.ai     = IF new.ai # load.ai THEN new.ai ELSE cur.ai]

-----------------------------------------------------------------------------
(* Requests.                                                               *)

PCs == {"idle", "find", "insert", "refind", "record", "ticket", "respond",
        "llm", "ack", "reply", "qa", "read", "load", "flush", "resolve",
        "done"}
Ops == {"inbound", "message", "claim", "assign", "autoassign", "escalate",
        "return", "close"}

ReqType ==
    [pc     : PCs,
     op     : Ops \cup {NULL},                  \* the operation under way
     ret    : {"api", "tool", "handoff", NULL}, \* who called the mutation
     tenant : Tenants \cup {NULL},
     cust   : Customers \cup {NULL},
     conv   : Conv \cup {NULL},
     agent  : Agents \cup {NULL},
     snap   : RowType,        \* the row the service read
     load   : RowType,        \* the row repo.update loaded
     iter   : Nat,            \* rounds of the tool loop
     said   : {"text", "ack", "fallback", NULL}, \* the AI's answer
     res    : {"running", "ok", "notfound", "conflict", "error", "dropped",
               "aborted"}]

NewReq ==
    [pc |-> "idle", op |-> NULL, ret |-> NULL, tenant |-> NULL, cust |-> NULL,
     conv |-> NULL, agent |-> NULL, snap |-> NoRow, load |-> NoRow, iter |-> 0,
     said |-> NULL, res |-> "running"]

(* The coroutine ends and its locals are gone.                             *)
Finish(q, result) ==
    [NewReq EXCEPT !.pc = "done", !.res = result, !.tenant = q.tenant,
                   !.cust = q.cust, !.conv = q.conv]

(* Where a request goes when its mutation returns or raises.  The HTTP     *)
(* handlers report the outcome.  The handoff after a fallback swallows it. *)
(* The escalate tool reports a raise to the model, which gets another      *)
(* round; an escalation that succeeded ends the turn, and a failure of the *)
(* auto-assignment nested in it is swallowed.                              *)
Resume(q, outcome) ==
    CASE q.ret = "api" -> Finish(q, outcome)
      [] q.ret = "handoff" -> Finish(q, "ok")
      [] q.ret = "tool" ->
            [q EXCEPT !.pc = IF q.op = "escalate" /\ outcome = "error"
                             THEN "llm" ELSE "ack",
                      !.snap = NoRow, !.load = NoRow]

(* escalate_to_human_queue is called for the request's own conversation.   *)
CallEscalate(q, from) ==
    [q EXCEPT !.pc = "read", !.op = "escalate", !.ret = from, !.agent = NULL]

-----------------------------------------------------------------------------
Init ==
    /\ row = [c \in Conv |-> NoRow]
    /\ messages = {}
    /\ tickets = {}
    /\ qa = {}
    /\ req = [r \in Reqs |-> NewReq]
    /\ tainted = {}
    /\ closes = {}
    /\ claims = [c \in Conv |-> 0]
    /\ releases = [c \in Conv |-> 0]

(* process_inbound_envelope starts.  The adapter resolved the channel, so  *)
(* the envelope carries the channel's own tenant.                          *)
StartInbound(r) ==
    /\ req[r].pc = "idle"
    /\ \E k \in Customers :
          req' = [req EXCEPT ![r] =
                    [NewReq EXCEPT !.pc = "find", !.op = "inbound",
                                   !.cust = k, !.tenant = TenantOf[k]]]
    /\ UNCHANGED <<row, messages, tickets, qa, history>>

(* POST /assign, /return-to-ai, /close.  Any staff member's token names    *)
(* the tenant; the conversation id may be another tenant's.                *)
StartMutation(r) ==
    /\ req[r].pc = "idle"
    /\ \E op \in {"assign", "return", "close"}, t \in Tenants, c \in Conv :
          \E a \in IF op = "assign" THEN Staff[t] ELSE {NULL} :
             /\ row[c].status # "none"
             /\ req' = [req EXCEPT ![r] =
                          [NewReq EXCEPT !.pc = "read", !.op = op,
                                         !.ret = "api", !.tenant = t,
                                         !.conv = c, !.agent = a]]
    /\ UNCHANGED <<row, messages, tickets, qa, history>>

(* find_or_create_for_inbound, first query.  The row found is the          *)
(* "conversation" object the rest of the pipeline looks at.                *)
Find(r) ==
    LET open == OpenFor(req[r].cust) IN
    /\ req[r].pc = "find"
    /\ IF open = {}
       THEN req' = [req EXCEPT ![r].pc = "insert"]
       ELSE \E c \in open :
               req' = [req EXCEPT ![r].pc = "record", ![r].conv = c,
                                  ![r].snap = row[c]]
    /\ UNCHANGED <<row, messages, tickets, qa, history>>

(* repo.create; the unique index turns the loser of a race away.           *)
Insert(r) ==
    LET k == req[r].cust IN
    /\ req[r].pc = "insert"
    /\ \E c \in Conv :
          /\ row[c].status = "none"
          /\ IF IndexAdmits(c, NewRow(k))
             THEN /\ row' = [row EXCEPT ![c] = NewRow(k)]
                  /\ req' = [req EXCEPT ![r].pc = "record", ![r].conv = c,
                                        ![r].snap = NewRow(k)]
             ELSE /\ req' = [req EXCEPT ![r].pc = "refind"]
                  /\ UNCHANGED row
    /\ UNCHANGED <<messages, tickets, qa, history>>

(* except IntegrityError: re-read the winner.  When it has been closed in  *)
(* the meantime the error is raised again, and the pipeline swallows it.   *)
Refind(r) ==
    LET open == OpenFor(req[r].cust) IN
    /\ req[r].pc = "refind"
    /\ IF open = {}
       THEN req' = [req EXCEPT ![r] = Finish(@, "dropped")]
       ELSE \E c \in open :
               req' = [req EXCEPT ![r].pc = "record", ![r].conv = c,
                                  ![r].snap = row[c]]
    /\ UNCHANGED <<row, messages, tickets, qa, history>>

Message(r, c, role) == [conv |-> c, role |-> role, by |-> r]

(* record_message(CUSTOMER): the row commits before anything else happens. *)
RecordCustomer(r) ==
    /\ req[r].pc = "record"
    /\ messages' = messages \cup {Message(r, req[r].conv, "customer")}
    /\ req' = [req EXCEPT ![r].pc = "ticket"]
    /\ UNCHANGED <<row, tickets, qa, history>>

(* _try_auto_create_ticket, in a session of its own: every failure is      *)
(* swallowed, and UNIQUE(conversation_id) rejects a second ticket.  Then   *)
(* the gate of the AI turn, on the row as find_or_create returned it.      *)
AutoCreateTicket(r) ==
    LET q == req[r] IN
    /\ q.pc = "ticket"
    /\ \/ tickets' = tickets \cup {q.conv}
       \/ Faults /\ UNCHANGED tickets
    /\ req' = [req EXCEPT ![r] =
                 IF q.snap.ai /\ q.snap.status = "open"
                 THEN [q EXCEPT !.pc = "respond", !.snap = NoRow]
                 ELSE Finish(q, "ok")]
    /\ UNCHANGED <<row, messages, qa, history>>

(* SimpleResponder.respond reads the row again and gives up when a human   *)
(* has taken over.                                                         *)
Respond(r) ==
    /\ req[r].pc = "respond"
    /\ req' = [req EXCEPT ![r] = IF row[@.conv].ai THEN [@ EXCEPT !.pc = "llm"]
                                 ELSE Finish(@, "ok")]
    /\ UNCHANGED <<row, messages, tickets, qa, history>>

(* The model answers, or a provider error, an empty answer or an exception *)
(* of the graph becomes FALLBACK_MESSAGE.                                  *)
Answer(r) ==
    /\ req[r].pc = "llm"
    /\ \E s \in {"text", "fallback"} :
          req' = [req EXCEPT ![r].pc = "reply", ![r].said = s]
    /\ UNCHANGED <<row, messages, tickets, qa, history>>

(* The model asks for tools: one round of dispatch_tool_calls.  Past       *)
(* max_iterations the turn falls back.                                     *)
ToolRound(r) ==
    LET q == [req[r] EXCEPT !.iter = @ + 1] IN
    /\ q.pc = "llm"
    /\ IF q.iter > MaxToolIter
       THEN req' = [req EXCEPT ![r] =
                      [q EXCEPT !.pc = "reply", !.said = "fallback"]]
       ELSE \/ req' = [req EXCEPT ![r] = q]
            \/ req' = [req EXCEPT ![r] = CallEscalate(q, "tool")]
    /\ UNCHANGED <<row, messages, tickets, qa, history>>

(* The escalation node: the reason becomes the reply, a blank reason       *)
(* becomes FALLBACK_MESSAGE.                                               *)
EscalationNode(r) ==
    /\ req[r].pc = "ack"
    /\ \E s \in {"ack", "fallback"} :
          req' = [req EXCEPT ![r].pc = "reply", ![r].said = s]
    /\ UNCHANGED <<row, messages, tickets, qa, history>>

(* record_message(AI): the row is not looked at again.                     *)
RecordReply(r) ==
    /\ req[r].pc = "reply"
    /\ messages' = messages \cup {Message(r, req[r].conv, "ai")}
    /\ req' = [req EXCEPT ![r].pc = "qa"]
    /\ UNCHANGED <<row, tickets, qa, history>>

(* Mutant: no handoff after a fallback.                                    *)
EnqueueQA_NoHandoff(r) ==
    /\ req[r].pc = "qa"
    /\ \/ qa' = qa \cup {r}
       \/ Faults /\ UNCHANGED qa
    /\ req' = [req EXCEPT ![r] = Finish(@, "ok")]
    /\ UNCHANGED <<row, messages, tickets, history>>

(* _enqueue_qa_judge, best effort; after a fallback, the handoff to the    *)
(* human queue.                                                            *)
EnqueueQA(r) ==
    /\ req[r].pc = "qa"
    /\ \/ qa' = qa \cup {r}
       \/ Faults /\ UNCHANGED qa
    /\ req' = [req EXCEPT ![r] = IF @.said = "fallback"
                                 THEN CallEscalate(@, "handoff")
                                 ELSE Finish(@, "ok")]
    /\ UNCHANGED <<row, messages, tickets, history>>

-----------------------------------------------------------------------------
(* The mutations.                                                          *)

Read(r) ==
    LET q == req[r] IN
    /\ q.pc = "read"
    /\ req' = [req EXCEPT ![r] =
                 IF Visible(q.conv, q.tenant)
                 THEN [q EXCEPT !.pc = "load", !.snap = row[q.conv]]
                 ELSE Resume(q, "notfound")]
    /\ UNCHANGED <<row, messages, tickets, qa, history>>

Load(r) ==
    /\ req[r].pc = "load"
    /\ req' = [req EXCEPT ![r].pc = "flush", ![r].load = row[req[r].conv]]
    /\ UNCHANGED <<row, messages, tickets, qa, history>>

Flush(r) ==
    LET q == req[r]
        c == q.conv
        new == Merge(row[c], q.load, Target(q.op, q.snap, q.agent))
    IN
    /\ q.pc = "flush"
    /\ IF IndexAdmits(c, new)
       THEN /\ row' = [row EXCEPT ![c] = new]
            /\ req' = [req EXCEPT ![r] =
                         IF q.op = "escalate" THEN [q EXCEPT !.pc = "resolve"]
                         ELSE Resume(q, "ok")]
            /\ tainted' = IF row[c] = q.load THEN tainted
                          ELSE tainted \cup {c}
            /\ closes' = IF new.status = "closed" THEN closes \cup {c}
                         ELSE closes
            /\ releases' = IF row[c].agent # NULL /\ new.agent = NULL
                           THEN [releases EXCEPT ![c] = @ + 1] ELSE releases
       ELSE /\ req' = [req EXCEPT ![r] = Resume(q, "error")]
            /\ UNCHANGED <<row, tainted, closes, releases>>
    /\ UNCHANGED <<messages, tickets, qa, claims>>

(* count_open_pending_per_agent.                                           *)
Busy(a, t) ==
    Cardinality({c \in Conv : /\ Live(row[c])
                              /\ row[c].agent = a
                              /\ TenantOf[row[c].cust] = t})

(* least_busy: the smallest (load, id).                                    *)
LeastBusy(t) ==
    {a \in Staff[t] : \A b \in Staff[t] :
        \/ Busy(a, t) < Busy(b, t)
        \/ Busy(a, t) = Busy(b, t) /\ a <= b}

(* _auto_assign_after_escalate: the policy may be off, or its resolver may *)
(* fail; otherwise assign_to_agent is called for the agent it picks.       *)
Resolve(r) ==
    LET q == req[r] IN
    /\ q.pc = "resolve"
    /\ \/ req' = [req EXCEPT ![r] = Resume(q, "ok")]
       \/ \E a \in LeastBusy(q.tenant) :
             req' = [req EXCEPT ![r] =
                       [q EXCEPT !.pc = "read", !.op = "autoassign",
                                 !.agent = a, !.snap = NoRow, !.load = NoRow]]
    /\ UNCHANGED <<row, messages, tickets, qa, history>>

-----------------------------------------------------------------------------
(* Handlers that are one transaction.                                      *)

(* claim: SELECT ... FOR UPDATE, check, write, commit.                     *)
Claim(r) ==
    /\ req[r].pc = "idle"
    /\ \E t \in Tenants, c \in Conv : \E a \in Staff[t] :
          LET q == [NewReq EXCEPT !.op = "claim", !.tenant = t, !.conv = c,
                                  !.agent = a]
          IN
          /\ row[c].status # "none"
          /\ IF Visible(c, t) /\ Claimable(row[c])
             THEN /\ row' = [row EXCEPT ![c].agent = a, ![c].ai = FALSE]
                  /\ claims' = [claims EXCEPT ![c] = @ + 1]
                  /\ req' = [req EXCEPT ![r] = Finish(q, "ok")]
             ELSE /\ req' = [req EXCEPT ![r] =
                               Finish(q, IF Visible(c, t) THEN "conflict"
                                         ELSE "notfound")]
                  /\ UNCHANGED <<row, claims>>
    /\ UNCHANGED <<messages, tickets, qa, tainted, closes, releases>>

(* POST /messages: record_message(AGENT), without regard to status or      *)
(* assignee.                                                               *)
PostAgentMessage(r) ==
    /\ req[r].pc = "idle"
    /\ \E t \in Tenants, c \in Conv : \E a \in Staff[t] :
          LET q == [NewReq EXCEPT !.op = "message", !.tenant = t, !.conv = c,
                                  !.agent = a]
          IN
          /\ row[c].status # "none"
          /\ IF Visible(c, t)
             THEN /\ messages' = messages \cup {Message(r, c, "agent")}
                  /\ req' = [req EXCEPT ![r] = Finish(q, "ok")]
             ELSE /\ req' = [req EXCEPT ![r] = Finish(q, "notfound")]
                  /\ UNCHANGED messages
    /\ UNCHANGED <<row, tickets, qa, history>>

(* The handler ends early: its process stops, its task is cancelled or the *)
(* database refuses a statement.  What it committed stays.                 *)
Abort(r) ==
    /\ Faults
    /\ req[r].pc \notin {"idle", "done"}
    /\ req' = [req EXCEPT ![r] = Finish(@, "aborted")]
    /\ UNCHANGED <<row, messages, tickets, qa, history>>

-----------------------------------------------------------------------------
Mutate(r) == Read(r) \/ Load(r) \/ Flush(r) \/ Resolve(r)

Turn(r) ==
    \/ Find(r) \/ Insert(r) \/ Refind(r)
    \/ RecordCustomer(r) \/ AutoCreateTicket(r) \/ Respond(r)
    \/ Answer(r) \/ ToolRound(r) \/ EscalationNode(r)
    \/ RecordReply(r) \/ EnqueueQA(r)

Step(r) == Mutate(r) \/ Turn(r)

Start(r) ==
    StartInbound(r) \/ StartMutation(r) \/ Claim(r) \/ PostAgentMessage(r)

Quiescent == \A r \in Reqs : req[r].pc = "done"

(* All requests have been served: the server idles.                        *)
Idle == Quiescent /\ UNCHANGED vars

Next == (\E r \in Reqs : Start(r) \/ Step(r) \/ Abort(r)) \/ Idle

Spec == Init /\ [][Next]_vars

(* The event loop resumes every coroutine whose await has completed, and   *)
(* every database and provider call ends, in a result or a timeout.        *)
FairSpec == Spec /\ \A r \in Reqs : WF_vars(Step(r))

-----------------------------------------------------------------------------
(* Type correctness of the tables and of every request.                    *)
TypeOK ==
    /\ row \in [Conv -> RowType]
    /\ \A c \in Conv : row[c].status = "none" <=> row[c].cust = NULL
    /\ messages \subseteq [conv : Conv, role : {"customer", "ai", "agent"},
                           by : Reqs]
    /\ tickets \subseteq Conv
    /\ qa \subseteq Reqs
    /\ req \in [Reqs -> ReqType]
    /\ tainted \subseteq Conv
    /\ closes \subseteq Conv
    /\ claims \in [Conv -> Nat]
    /\ releases \in [Conv -> Nat]

(* A customer has at most one conversation that is not closed, however     *)
(* inserts, reopenings (return_to_ai, assign and escalate of a closed row) *)
(* and closings interleave.                                                *)
OneOpenPerCustomer ==
    \A c, d \in Conv :
        Live(row[c]) /\ Live(row[d]) /\ row[c].cust = row[d].cust => c = d

(* The combinations of flags the service means to store: OPEN is handled   *)
(* by the AI and unassigned, PENDING and CLOSED are not handled by the AI. *)
LockStep(x) ==
    CASE x.status = "open" -> x.ai /\ x.agent = NULL
      [] x.status \in {"pending", "closed"} -> ~x.ai
      [] OTHER -> TRUE

(* Flags and status stay in lock-step in every conversation that no        *)
(* request wrote over a value it had not loaded: a mutation that does not  *)
(* race leaves a consistent row, whatever row it started from.             *)
UntaintedLockStep == \A c \in Conv : c \in tainted \/ LockStep(row[c])

(* Two claims of a conversation never both succeed unless some request     *)
(* took it from its agent in between (ConversationService.claim).          *)
ClaimsBounded == \A c \in Conv : claims[c] <= releases[c] + 1

(* find_or_create_for_inbound drops a customer's message only if one of    *)
(* the customer's conversations was closed.                                *)
DroppedOnlyAfterClose ==
    \A r \in Reqs : req[r].res = "dropped" =>
        \E c \in closes : row[c].cust = req[r].cust

(* Tickets and QA jobs refer to messages that are in the table, wherever   *)
(* the pipeline was cut short.                                             *)
NoDanglingReferences ==
    /\ \A c \in tickets : \E m \in messages :
          m.conv = c /\ m.role = "customer"
    /\ \A r \in qa : \E m \in messages : m.by = r /\ m.role = "ai"

(* A step writes only to conversations of the tenant of its request.       *)
WritesOwnTenant ==
    /\ \A r \in Reqs, c \in Conv :
          req'[r] # req[r] /\ row'[c] # row[c] =>
              TenantOf[row'[c].cust] = req'[r].tenant
    /\ \A m \in messages' \ messages :
          TenantOf[row'[m.conv].cust] = req'[m.by].tenant

(* No request ever changes a conversation of another tenant, or adds a     *)
(* message to one, whatever conversation id it was given: the tenant check *)
(* of get() is made on a read that is stale when the write happens.        *)
TenantIsolation == [][WritesOwnTenant]_vars

(* Every request that started ends: the tool loop is bounded, also when    *)
(* the escalate tool fails again and again.                                *)
EveryRequestCompletes ==
    \A r \in Reqs : req[r].pc # "idle" ~> req[r].pc = "done"

(* After a fallback answer the conversation is at some time in the human   *)
(* queue or with an agent, or somebody has closed it: only a process that  *)
(* stops leaves it with the AI that failed.                                *)
FallbackReachesQueue ==
    \A r \in Reqs, c \in Conv :
        req[r].pc = "qa" /\ req[r].said = "fallback" /\ req[r].conv = c
            ~> row[c].status \in {"pending", "closed"} \/ req[r].res = "aborted"
=============================================================================
