---------------------------- MODULE EmailInbound ----------------------------
(***************************************************************************)
(* The email channel: the SES webhook, thread routing, the deduplication   *)
(* by Message-ID, the AI turn and the mailed answer.                       *)
(*                                                                         *)
(* Customers write mails; SES delivers each of them any number of times,   *)
(* also concurrently (Deliver).  A delivery runs handle_email_inbound, one *)
(* action per database statement or external call.  The conversation it    *)
(* creates, the messages it records and the answer it mails are named by   *)
(* the delivery.  There is one tenant with one email channel: the lookups  *)
(* are scoped to a tenant, and the index to a channel.                     *)
(***************************************************************************)
EXTENDS Naturals, FiniteSets

CONSTANTS
    Mails,        \* Message-IDs of customer mails
    Deliveries,   \* webhook calls
    Customers,    \* sender addresses
    MaxRetries,   \* EmailOutbound max_retries
    Faults,       \* whether a process may stop within a handler
    NULL

ASSUME EmailAssumption ==
    /\ MaxRetries \in Nat \ {0}
    /\ Faults \in BOOLEAN
    /\ Mails \cap Deliveries = {}
    /\ NULL \notin Mails \cup Deliveries \cup Customers

VARIABLES
    mail,       \* the mails written so far
    conv,       \* the conversations table
    messages,   \* the messages table
    sent,       \* the answers SES accepted
    dlv,        \* the local state of each delivery
    moved,      \* ghost: Message-IDs replaced as a conversation's header
    past        \* ghost: the deliveries that had ended when this one began

vars == <<mail, conv, messages, sent, dlv, moved, past>>

MsgId == Mails \cup Deliveries
Mail == [from : Customers, irt : MsgId \cup {NULL}, ref : MsgId \cup {NULL}]
Row == [cust : Customers, status : {"open", "pending", "closed"},
        ai : BOOLEAN, thread : MsgId, header : Mails]
Message == [by : Deliveries, mail : Mails, conv : Deliveries,
            role : {"customer", "ai"}]
Delivery ==
    [pc     : {"idle", "check", "find", "insert", "record", "respond",
               "reply", "escalate", "commit", "send", "done"},
     mail   : Mails \cup {NULL},
     conv   : Deliveries \cup {NULL},
     bump   : BOOLEAN,       \* the header is set when the session commits
     turn   : BOOLEAN,       \* AI-handled and OPEN when the row was loaded
     answer : {"text", "fallback", NULL},
     tries  : 0..(MaxRetries - 1),
     res    : {"ok", "duplicate", "error", "crashed", NULL}]
NewDelivery ==
    [pc |-> "idle", mail |-> NULL, conv |-> NULL, bump |-> FALSE,
     turn |-> FALSE, answer |-> NULL, tries |-> 0, res |-> NULL]

(* What is missing is no row, and no answer of the webhook.                *)
ASSUME NullAssumption == NULL \notin Row /\ NULL # "ok"

Written == {m \in Mails : mail[m] # NULL}
Rows == {c \in Deliveries : conv[c] # NULL}

Init ==
    /\ mail = [m \in Mails |-> NULL]
    /\ conv = [c \in Deliveries |-> NULL]
    /\ messages = {}
    /\ sent = {}
    /\ dlv = [d \in Deliveries |-> NewDelivery]
    /\ moved = {}
    /\ past = [d \in Deliveries |-> {}]

-----------------------------------------------------------------------------
(* The first Message-ID of the References of a mail that answers p.        *)
Root(p) ==
    LET m == IF p \in Mails THEN p ELSE dlv[p].mail
    IN  IF mail[m].ref # NULL THEN mail[m].ref
        ELSE IF mail[m].irt # NULL THEN mail[m].irt ELSE m

(* parse_ses_inbound: In-Reply-To, else References[0], else the mail.      *)
ThreadOf(m) ==
    IF mail[m].irt # NULL THEN mail[m].irt
    ELSE IF mail[m].ref # NULL THEN mail[m].ref ELSE m

(* A customer writes a new mail, or answers a mail or an answer of ours;   *)
(* some mail programs set only References.                                 *)
Write(m) ==
    /\ mail[m] = NULL
    /\ \/ \E c \in Customers :
             mail' = [mail EXCEPT ![m] = [from |-> c, irt |-> NULL, ref |-> NULL]]
       \/ \E p \in Written \cup {s.id : s \in sent}, irt \in BOOLEAN :
             LET m0 == IF p \in Mails THEN p ELSE dlv[p].mail IN
             mail' = [mail EXCEPT ![m] =
                        [from |-> mail[m0].from,
                         irt |-> IF irt THEN p ELSE NULL, ref |-> Root(p)]]
    /\ UNCHANGED <<conv, messages, sent, dlv, moved, past>>

(* SES calls the webhook.                                                  *)
Deliver(d) ==
    /\ dlv[d].pc = "idle"
    /\ \E m \in Written :
          dlv' = [dlv EXCEPT ![d].pc = "check", ![d].mail = m]
    /\ past' = [past EXCEPT ![d] = {e \in Deliveries : dlv[e].pc = "done"}]
    /\ UNCHANGED <<mail, conv, messages, sent, moved>>

Goto(d, l) == dlv' = [dlv EXCEPT ![d].pc = l]
End(d, s) == dlv' = [dlv EXCEPT ![d].pc = "done", ![d].res = s]

(* Mutant: the check is dropped.                                           *)
Seen_Never(m) == FALSE

(* _check_existing_message: the most recent mail of some conversation.     *)
Seen(m) == \E c \in Rows : conv[c].header = m

Check(d) ==
    /\ dlv[d].pc = "check"
    /\ IF Seen(dlv[d].mail) THEN End(d, "duplicate") ELSE Goto(d, "find")
    /\ UNCHANGED <<mail, conv, messages, sent, moved, past>>

(* _find_conversation_by_thread, of any status; LIMIT 1.                   *)
Find(d) ==
    LET found == {c \in Rows : conv[c].thread = ThreadOf(dlv[d].mail)} IN
    /\ dlv[d].pc = "find"
    /\ \/ found = {} /\ Goto(d, "insert")
       \/ \E c \in found :
             dlv' = [dlv EXCEPT
                       ![d].pc = "record", ![d].conv = c, ![d].bump = TRUE,
                       ![d].turn = conv[c].ai /\ conv[c].status = "open"]
    /\ UNCHANGED <<mail, conv, messages, sent, moved, past>>

(* Mutant: no UNIQUE constraint on the header.                             *)
Admits_NoHeader(m) ==
    ~\E c \in Rows : conv[c].cust = mail[m].from /\ conv[c].status # "closed"

(* The INSERT passes both unique indexes: the header, and one conversation *)
(* that is not closed per channel and customer.                            *)
Admits(m) ==
    /\ ~\E c \in Rows : conv[c].header = m
    /\ ~\E c \in Rows : conv[c].cust = mail[m].from /\ conv[c].status # "closed"

(* INSERT, flush and commit.  An INSERT that meets an uncommitted key      *)
(* waits for that session, so the two statements are one step.  Either     *)
(* index makes the handler answer "duplicate".                             *)
Insert(d) ==
    LET m == dlv[d].mail IN
    /\ dlv[d].pc = "insert"
    /\ IF Admits(m)
       THEN /\ conv' = [conv EXCEPT ![d] =
                          [cust |-> mail[m].from, status |-> "open", ai |-> TRUE,
                           thread |-> ThreadOf(m), header |-> m]]
            /\ dlv' = [dlv EXCEPT ![d].pc = "record", ![d].conv = d,
                                  ![d].turn = TRUE]
       ELSE /\ End(d, "duplicate")
            /\ UNCHANGED conv
    /\ UNCHANGED <<mail, messages, sent, moved, past>>

MessageOf(d, role) ==
    [by |-> d, mail |-> dlv[d].mail, conv |-> dlv[d].conv, role |-> role]

(* record_message of the customer's text, in a session of its own.         *)
RecordCustomer(d) ==
    /\ dlv[d].pc = "record"
    /\ messages' = messages \cup {MessageOf(d, "customer")}
    /\ Goto(d, IF dlv[d].turn THEN "respond" ELSE "commit")
    /\ UNCHANGED <<mail, conv, sent, moved, past>>

(* SimpleResponder.respond: it reads ai_handling again; no answer, a text, *)
(* or FALLBACK_MESSAGE when the model fails.                               *)
Respond(d) ==
    /\ dlv[d].pc = "respond"
    /\ \/ Goto(d, "commit")
       \/ /\ conv[dlv[d].conv].ai
          /\ \E a \in {"text", "fallback"} :
                dlv' = [dlv EXCEPT ![d].pc = "reply", ![d].answer = a]
    /\ UNCHANGED <<mail, conv, messages, sent, moved, past>>

RecordReply(d) ==
    /\ dlv[d].pc = "reply"
    /\ messages' = messages \cup {MessageOf(d, "ai")}
    /\ Goto(d, IF dlv[d].answer = "fallback" THEN "escalate" ELSE "commit")
    /\ UNCHANGED <<mail, conv, sent, moved, past>>

(* escalate_to_human_queue; a failure is swallowed.                        *)
Escalate(d) ==
    LET c == dlv[d].conv IN
    /\ dlv[d].pc = "escalate"
    /\ \/ conv' = [conv EXCEPT ![c].status = "pending", ![c].ai = FALSE]
       \/ UNCHANGED conv
    /\ Goto(d, "commit")
    /\ UNCHANGED <<mail, messages, sent, moved, past>>

(* Mutant: the answer is mailed first, and the header committed after it.  *)
CommitHeader_Late(d) ==
    /\ dlv[d].pc = "commit"
    /\ IF dlv[d].answer # NULL THEN Goto(d, "send") ELSE End(d, "ok")
    /\ sent' = IF dlv[d].answer # NULL
               THEN sent \cup {[id |-> d, mail |-> dlv[d].mail, n |-> 0]}
               ELSE sent
    /\ UNCHANGED <<mail, conv, messages, moved, past>>

(* session.commit(): the header of a thread that existed is set now; the   *)
(* unique constraint may refuse it, and the outer handler returns None.    *)
CommitHeader(d) ==
    LET c == dlv[d].conv
        m == dlv[d].mail
    IN
    /\ dlv[d].pc = "commit"
    /\ IF dlv[d].bump /\ \E b \in Rows \ {c} : conv[b].header = m
       THEN /\ End(d, "error")
            /\ UNCHANGED <<conv, moved>>
       ELSE /\ conv' = IF dlv[d].bump THEN [conv EXCEPT ![c].header = m] ELSE conv
            /\ moved' = IF dlv[d].bump THEN moved \cup ({conv[c].header} \ {m})
                        ELSE moved
            /\ IF dlv[d].answer # NULL THEN Goto(d, "send") ELSE End(d, "ok")
    /\ UNCHANGED <<mail, messages, sent, past>>

(* A 5xx or a network error: another attempt, or EmailSendError, which the *)
(* handler logs.                                                           *)
Retry(d) ==
    IF dlv[d].tries + 1 < MaxRetries
    THEN dlv' = [dlv EXCEPT ![d].tries = @ + 1]
    ELSE End(d, "ok")

Accept(d) ==
    sent' = sent \cup {[id |-> d, mail |-> dlv[d].mail, n |-> dlv[d].tries]}

(* _send_with_retries: SES accepts and says so; accepts and the answer is  *)
(* lost; refuses for now; refuses for good (4xx).                          *)
Send(d) ==
    /\ dlv[d].pc = "send"
    /\ \/ Accept(d) /\ End(d, "ok")
       \/ Accept(d) /\ Retry(d)
       \/ Retry(d) /\ UNCHANGED sent
       \/ End(d, "ok") /\ UNCHANGED sent
    /\ UNCHANGED <<mail, conv, messages, moved, past>>

(* The process stops; the session is rolled back.                          *)
Crash(d) ==
    /\ Faults
    /\ dlv[d].pc \notin {"idle", "done"}
    /\ End(d, "crashed")
    /\ UNCHANGED <<mail, conv, messages, sent, moved, past>>

(* Staff assign, return to the AI or close a conversation (see module      *)
(* Conversation); a reopened row must pass the index.                      *)
Staff(c) ==
    /\ conv[c] # NULL
    /\ \/ conv' = [conv EXCEPT ![c].status = "closed", ![c].ai = FALSE]
       \/ /\ ~\E b \in Rows \ {c} : conv[b].cust = conv[c].cust
                                    /\ conv[b].status # "closed"
          /\ \E ai \in BOOLEAN :
                conv' = [conv EXCEPT ![c].ai = ai,
                            ![c].status = IF ai THEN "open" ELSE "pending"]
    /\ UNCHANGED <<mail, messages, sent, dlv, moved, past>>

-----------------------------------------------------------------------------
Step(d) ==
    \/ Check(d) \/ Find(d) \/ Insert(d) \/ RecordCustomer(d) \/ Respond(d)
    \/ RecordReply(d) \/ Escalate(d) \/ CommitHeader(d) \/ Send(d)

Next ==
    \/ \E m \in Mails : Write(m)
    \/ \E d \in Deliveries : Deliver(d) \/ Step(d) \/ Crash(d) \/ Staff(d)

Spec == Init /\ [][Next]_vars

-----------------------------------------------------------------------------
(* Type correctness; a sending makes at most MaxRetries attempts.          *)
TypeOK ==
    /\ mail \in [Mails -> Mail \cup {NULL}]
    /\ conv \in [Deliveries -> Row \cup {NULL}]
    /\ messages \subseteq Message
    /\ sent \subseteq [id : Deliveries, mail : Mails, n : 0..(MaxRetries - 1)]
    /\ dlv \in [Deliveries -> Delivery]
    /\ moved \subseteq Mails
    /\ past \in [Deliveries -> SUBSET Deliveries]

(* A mail that SES delivers again after the first delivery was answered    *)
(* "ok" is recognised: it is processed a second time only if another mail  *)
(* of the thread has taken its place as the header in between.             *)
SequentialRedelivery ==
    \A d, e \in Deliveries :
        /\ dlv[d].res = "ok" /\ dlv[e].res = "ok"
        /\ d \in past[e] /\ dlv[d].mail = dlv[e].mail
        => dlv[d].mail \in moved

(* An answer is mailed only when the mail it answers has become the        *)
(* header, so a process that stops around the sending leaves a mail that a *)
(* redelivery recognises; both messages of the turn are stored by then.    *)
MailedAfterCommit ==
    \A s \in sent :
        /\ conv[dlv[s.id].conv].header = s.mail \/ s.mail \in moved
        /\ {MessageOf(s.id, "customer"), MessageOf(s.id, "ai")} \subseteq messages

(* Two deliveries of the mail that opens a thread never create two         *)
(* conversations for it, whatever their interleaving, unless the header of *)
(* the first has moved on.                                                 *)
OneConversationPerMail ==
    \A d, e \in Rows :
        /\ d # e
        /\ dlv[d].mail = dlv[e].mail
        => dlv[d].mail \in moved

(* email_inbound_webhook: "duplicate" means that the Message-ID was        *)
(* already seen.                                                           *)
DuplicateMeansSeen ==
    \A d \in Deliveries :
        dlv[d].res = "duplicate" => Seen(dlv[d].mail) \/ dlv[d].mail \in moved
=============================================================================
