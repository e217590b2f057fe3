------------------------------- MODULE Ticket -------------------------------
(***************************************************************************)
(* Tickets, their audit trail and the sessions they are written through.   *)
(*                                                                         *)
(* A request works in one database session.  TicketRepository only         *)
(* flushes: what a request has flushed is pending (pend) and holds the row *)
(* lock (lock) until the session commits or is rolled back.  Who commits   *)
(* differs: the auto-creation hook runs inside core.database.get_session,  *)
(* which commits on clean exit; add_note and delete_note commit            *)
(* themselves; a status transition runs in the session of the dependency   *)
(* get_ticket_service, which closes it, and a session closed without a     *)
(* commit is rolled back.                                                  *)
(*                                                                         *)
(* A ticket, and an event, is named by the request that inserted it.       *)
(***************************************************************************)
EXTENDS Naturals, FiniteSets

CONSTANTS
    Conv,      \* conversations
    Users,     \* staff members
    Reqs,      \* requests
    Faults,    \* whether a statement or the process may fail
    NULL

ASSUME TicketAssumption ==
    /\ Faults \in BOOLEAN
    /\ NULL \notin Conv \cup Users \cup Reqs

VARIABLES
    tickets,   \* committed tickets
    events,    \* committed ticket_events
    lock,      \* the request that holds the row lock of each ticket
    pend,      \* what each open session has flushed
    req        \* the local state of each request

vars == <<tickets, events, lock, pend, req>>

Status == {"new", "triaged", "in_progress", "waiting_customer", "resolved",
           "closed", "cancelled"}

(* _TRANSITIONS.                                                           *)
Allowed ==
    [s \in Status |->
        CASE s = "new" -> {"triaged", "cancelled"}
          [] s = "triaged" -> {"in_progress", "cancelled"}
          [] s = "in_progress" -> {"waiting_customer", "resolved", "cancelled"}
          [] s = "waiting_customer" -> {"in_progress", "resolved", "cancelled"}
          [] s = "resolved" -> {"closed", "in_progress"}
          [] s \in {"closed", "cancelled"} -> {}]

TicketRow == [id : Reqs, conv : Conv, status : Status]
Event == [id : Reqs, ticket : Reqs, type : {"created", "status_changed", "note"},
          actor : Users \cup {NULL}]
Writes == [add : SUBSET TicketRow, set : SUBSET TicketRow,
           log : SUBSET Event, del : SUBSET Event]
Clean == [add |-> {}, set |-> {}, log |-> {}, del |-> {}]

ReqType ==
    [pc     : {"idle", "lookup", "insert", "log", "exit", "load", "flush",
               "commit", "done"},
     kind   : {"create", "transition", "note", "delete", NULL},
     conv   : Conv \cup {NULL},
     ticket : Reqs \cup {NULL},
     note   : Reqs \cup {NULL},
     user   : Users \cup {NULL},
     seen   : Status \cup {NULL},     \* the status the session loaded
     target : Status \cup {NULL},
     res    : {"ok", "notfound", "conflict", "failed", NULL}]

NewReq == [pc |-> "idle", kind |-> NULL, conv |-> NULL, ticket |-> NULL,
           note |-> NULL, user |-> NULL, seen |-> NULL, target |-> NULL,
           res |-> NULL]

TicketOf(c) == {t \in tickets : t.conv = c}
RowOf(i) == CHOOSE t \in tickets : t.id = i

Init ==
    /\ tickets = {}
    /\ events = {}
    /\ lock = [r \in Reqs |-> NULL]
    /\ pend = [r \in Reqs |-> Clean]
    /\ req = [r \in Reqs |-> NewReq]

Goto(r, l) == req' = [req EXCEPT ![r].pc = l]
Answer(r, s) == req' = [req EXCEPT ![r].pc = "done", ![r].res = s]

(* session.commit(): the flushed writes become visible, the locks go.      *)
Commit(r) ==
    LET w == pend[r] IN
    /\ tickets' = {t \in tickets : \A u \in w.set : u.id # t.id}
                      \cup w.add \cup w.set
    /\ events' = (events \ w.del) \cup w.log
    /\ pend' = [pend EXCEPT ![r] = Clean]
    /\ lock' = [t \in Reqs |-> IF lock[t] = r THEN NULL ELSE lock[t]]

(* Mutant: the rollback forgets the locks (a session that is never closed).*)
Rollback_Leaks(r) ==
    /\ pend' = [pend EXCEPT ![r] = Clean]
    /\ UNCHANGED <<tickets, events, lock>>

(* The session is closed without a commit.                                 *)
Rollback(r) ==
    /\ pend' = [pend EXCEPT ![r] = Clean]
    /\ lock' = [t \in Reqs |-> IF lock[t] = r THEN NULL ELSE lock[t]]
    /\ UNCHANGED <<tickets, events>>

-----------------------------------------------------------------------------
(* A request arrives.  The hook runs for every customer message; the API   *)
(* is called with the id of a stored ticket, and of a stored event, or     *)
(* with an id that names nothing (NULL).                                   *)
Arrive(r) ==
    LET ticketIds == {t.id : t \in tickets} \cup {NULL}
        eventIds == {e.id : e \in events} \cup {NULL}
    IN
    /\ req[r].pc = "idle"
    /\ \/ \E c \in Conv :
             req' = [req EXCEPT ![r] = [NewReq EXCEPT
                       !.pc = "lookup", !.kind = "create", !.conv = c]]
       \/ \E t \in ticketIds, u \in Users, s \in Status :
             req' = [req EXCEPT ![r] = [NewReq EXCEPT
                       !.pc = "load", !.kind = "transition",
                       !.ticket = t, !.user = u, !.target = s]]
       \/ \E t \in ticketIds, u \in Users :
             req' = [req EXCEPT ![r] = [NewReq EXCEPT
                       !.pc = "load", !.kind = "note",
                       !.ticket = t, !.user = u]]
       \/ \E t \in ticketIds, u \in Users, e \in eventIds :
             req' = [req EXCEPT ![r] = [NewReq EXCEPT
                       !.pc = "load", !.kind = "delete",
                       !.ticket = t, !.user = u, !.note = e]]
    /\ UNCHANGED <<tickets, events, lock, pend>>

(* _try_auto_create_ticket: get_for_conversation.                          *)
Lookup(r) ==
    /\ req[r].pc = "lookup"
    /\ IF TicketOf(req[r].conv) # {} THEN Answer(r, "ok") ELSE Goto(r, "insert")
    /\ UNCHANGED <<tickets, events, lock, pend>>

(* Mutant: no UNIQUE constraint on tickets.conversation_id.                *)
Unclaimed_NoIndex(r, c) == TRUE

(* UNIQUE(conversation_id): no committed and no flushed ticket has the     *)
(* conversation.                                                           *)
Unclaimed(r, c) == TicketOf(c) = {}

(* Mutant: repo.create commits the ticket before its audit row.            *)
Insert_Commits(r) ==
    LET t == [id |-> r, conv |-> req[r].conv, status |-> "new"] IN
    /\ req[r].pc = "insert"
    /\ tickets' = tickets \cup {t}
    /\ Goto(r, "log")
    /\ UNCHANGED <<events, lock, pend>>

(* repo.create: INSERT and flush.  A flushed ticket of the same            *)
(* conversation makes the INSERT wait for the other session; a committed   *)
(* one makes it fail, and the hook swallows the error.                     *)
Insert(r) ==
    LET c == req[r].conv
        t == [id |-> r, conv |-> c, status |-> "new"]
    IN
    /\ req[r].pc = "insert"
    /\ \A s \in Reqs : \A u \in pend[s].add : u.conv # c
    /\ IF Unclaimed(r, c)
       THEN /\ pend' = [pend EXCEPT ![r].add = {t}]
            /\ Goto(r, "log")
       ELSE /\ Answer(r, "failed")
            /\ UNCHANGED pend
    /\ UNCHANGED <<tickets, events, lock>>

LogEvent(r, type) ==
    [id |-> r, ticket |-> IF type = "created" THEN r ELSE req[r].ticket,
     type |-> type, actor |-> req[r].user]

(* append_event, then the session's exit: get_session commits for the      *)
(* hook, and the dependency only closes.                                   *)
Append(r) ==
    LET type == IF req[r].kind = "create" THEN "created" ELSE "status_changed"
    IN
    /\ req[r].pc = "log"
    /\ pend' = [pend EXCEPT ![r].log = {LogEvent(r, type)}]
    /\ Goto(r, "exit")
    /\ UNCHANGED <<tickets, events, lock>>

Exit(r) ==
    /\ req[r].pc = "exit"
    /\ IF req[r].kind = "create" THEN Commit(r) ELSE Rollback(r)
    /\ Answer(r, "ok")

(* get_by_id of the API handlers; get_event_by_id for a deletion.          *)
Load(r) ==
    LET q == req[r] IN
    /\ q.pc = "load"
    /\ IF q.kind = "delete" THEN Goto(r, "flush")
       ELSE IF ~\E t \in tickets : t.id = q.ticket THEN Answer(r, "notfound")
       ELSE req' = [req EXCEPT ![r].pc = "flush",
                               ![r].seen = RowOf(q.ticket).status]
    /\ UNCHANGED <<tickets, events, lock, pend>>

(* transition: the state machine's guard on the status the session loaded, *)
(* then UPDATE and flush, which waits for the row lock.  The cleanup for   *)
(* CANCELLED sets conversations.ticket_id, which nothing ever sets, to     *)
(* NULL; it is left out.                                                   *)
Transition(r) ==
    LET q == req[r]
        t == q.ticket
    IN
    /\ q.pc = "flush" /\ q.kind = "transition"
    /\ \/ /\ q.target \notin Allowed[q.seen]
          /\ Answer(r, "conflict")
          /\ UNCHANGED <<lock, pend>>
       \/ /\ q.target \in Allowed[q.seen]
          /\ lock[t] = NULL
          /\ lock' = [lock EXCEPT ![t] = r]
          /\ pend' = [pend EXCEPT ![r].set =
                        {[RowOf(t) EXCEPT !.status = q.target]}]
          /\ Goto(r, "log")
    /\ UNCHANGED <<tickets, events>>

(* add_note: append_event; the service commits.                            *)
AddNote(r) ==
    /\ req[r].pc = "flush" /\ req[r].kind = "note"
    /\ pend' = [pend EXCEPT ![r].log = {LogEvent(r, "note")}]
    /\ Goto(r, "commit")
    /\ UNCHANGED <<tickets, events, lock>>

(* The checks of delete_note.                                              *)
Deletable(q, e) == e.ticket = q.ticket /\ e.type = "note" /\ e.actor = q.user

DeleteNote(r) ==
    LET q == req[r]
        found == {e \in events : e.id = q.note /\ Deletable(q, e)}
    IN
    /\ q.pc = "flush" /\ q.kind = "delete"
    /\ IF found = {}
       THEN /\ Answer(r, "notfound")
            /\ UNCHANGED pend
       ELSE /\ pend' = [pend EXCEPT ![r].del = found]
            /\ Goto(r, "commit")
    /\ UNCHANGED <<tickets, events, lock>>

CommitNote(r) ==
    /\ req[r].pc = "commit"
    /\ Commit(r)
    /\ Answer(r, "ok")

(* A statement fails or the process stops: the session is rolled back.     *)
Fail(r) ==
    /\ Faults
    /\ req[r].pc \notin {"idle", "done"}
    /\ Rollback(r)
    /\ Answer(r, "failed")

-----------------------------------------------------------------------------
Step(r) ==
    \/ Lookup(r) \/ Insert(r) \/ Append(r) \/ Exit(r)
    \/ Load(r) \/ Transition(r) \/ AddNote(r) \/ DeleteNote(r) \/ CommitNote(r)

Idle == (\A r \in Reqs : req[r].pc = "done") /\ UNCHANGED vars

Next == (\E r \in Reqs : Arrive(r) \/ Step(r) \/ Fail(r)) \/ Idle

Spec == Init /\ [][Next]_vars

(* The event loop resumes every request, and a lock that is released is    *)
(* granted to some session that waits for it.                              *)
FairSpec == Spec /\ \A r \in Reqs : WF_vars(Step(r))

-----------------------------------------------------------------------------
(* Type correctness of the tables, the sessions and the requests.          *)
TypeOK ==
    /\ tickets \subseteq TicketRow
    /\ events \subseteq Event
    /\ lock \in [Reqs -> Reqs \cup {NULL}]
    /\ pend \in [Reqs -> Writes]
    /\ req \in [Reqs -> ReqType]

(* A conversation has at most one ticket, also when customer messages      *)
(* arrive together and every hook finds none.                              *)
OneTicketPerConversation == \A c \in Conv : Cardinality(TicketOf(c)) <= 1

(* The audit trail and the tickets agree: a ticket that is stored has its  *)
(* "created" event, no event is stored without its ticket, and a ticket    *)
(* that left NEW has a status_changed event, wherever a session failed.    *)
AuditTrail ==
    /\ \A t \in tickets : \E e \in events :
          e.ticket = t.id /\ e.type = "created"
    /\ \A e \in events : \E t \in tickets : t.id = e.ticket
    /\ \A t \in tickets : t.status # "new" =>
          \E e \in events : e.ticket = t.id /\ e.type = "status_changed"

(* The audit trail is append-only but for notes, and a note is removed     *)
(* only by its author.                                                     *)
OnlyOwnNotesVanish ==
    [][\A e \in events \ events' :
          /\ e.type = "note"
          /\ \E r \in Reqs : /\ req[r].kind = "delete"
                             /\ req[r].user = e.actor
                             /\ req'[r] # req[r]]_vars

(* Sessions that wait for each other's rows all end.                       *)
EverySessionEnds ==
    \A r \in Reqs : req[r].pc # "idle" ~> req[r].pc = "done"

(* get_ticket_service: "commit on clean exit": a transition that was       *)
(* answered with 200 is stored when the session has ended.                 *)
TransitionIsStored ==
    [][\A r \in Reqs :
          /\ req[r].kind = "transition" /\ req[r].pc = "exit"
          /\ req'[r].res = "ok"
          => \E t \in tickets' :
                t.id = req[r].ticket /\ t.status = req[r].target]_vars
=============================================================================
