---------------------------- MODULE TicketProofs ----------------------------
(***************************************************************************)
(* The tickets and their audit trail for any number of conversations,      *)
(* staff members and requests, wherever the sessions fail.                 *)
(***************************************************************************)
EXTENDS Ticket, FiniteSetTheorems, TLAPS

Present(i) == \E t \in tickets : t.id = i
NewTicket(r) == [id |-> r, conv |-> req[r].conv, status |-> "new"]

(* What a request knows at each point of its handler.                      *)
Known(r) ==
    LET q == req[r] IN
    /\ q.pc \in {"lookup", "insert"} => q.kind = "create" /\ q.conv \in Conv
    /\ q.pc \in {"log", "exit"} =>
          \/ q.kind = "create" /\ q.conv \in Conv
          \/ q.kind = "transition" /\ Present(q.ticket)
    /\ q.pc = "load" => q.kind \in {"transition", "note", "delete"}
    /\ q.pc = "flush" =>
          \/ q.kind = "transition" /\ Present(q.ticket) /\ q.seen \in Status
          \/ q.kind = "note" /\ Present(q.ticket)
          \/ q.kind = "delete"
    /\ q.pc = "commit" => \/ q.kind = "note" /\ Present(q.ticket)
                          \/ q.kind = "delete"
    /\ q.pc \in {"load", "flush"} /\ q.kind = "transition" => q.target \in Status

(* What its session has flushed by then: a hook its ticket and then the    *)
(* audit row, a note one event, a deletion notes of the user's own.  Only  *)
(* a transition updates a ticket, and its session is never committed.      *)
Flushed(r) ==
    LET q == req[r]
        w == pend[r]
    IN
    /\ w.add = IF q.kind = "create" /\ q.pc \in {"log", "exit"}
               THEN {NewTicket(r)} ELSE {}
    /\ q.kind # "transition" \/ q.pc = "idle" =>
          /\ w.set = {}
          /\ w.log = IF q.pc = "exit" THEN {LogEvent(r, "created")}
                     ELSE IF q.pc = "commit" /\ q.kind = "note"
                          THEN {LogEvent(r, "note")} ELSE {}
    /\ q.kind # "delete" \/ q.pc = "idle" => w.del = {}
    /\ \A e \in w.del : e.type = "note" /\ e.actor = q.user

(* UNIQUE(conversation_id) over the stored and the flushed tickets.        *)
Unique ==
    /\ \A t, u \in tickets : t.conv = u.conv => t = u
    /\ \A r \in Reqs : \A t \in pend[r].add :
          /\ \A u \in tickets : t.conv # u.conv
          /\ \A s \in Reqs \ {r} : \A u \in pend[s].add : t.conv # u.conv

(* The stored tickets are the ones the hook created, with their event.     *)
Trail ==
    /\ \A t \in tickets : t.status = "new"
    /\ \A t \in tickets : \E e \in events : e.ticket = t.id /\ e.type = "created"
    /\ \A e \in events : Present(e.ticket)

Sessions == \A r \in Reqs : Known(r) /\ Flushed(r)
IInv == TypeOK /\ Sessions /\ Unique /\ Trail

LEMMA InitIInv == Init => IInv
<1> SUFFICES ASSUME Init PROVE IInv
  OBVIOUS
<1> USE TicketAssumption DEF Init
<1>1. NewReq \in ReqType /\ Clean \in Writes
  BY DEF NewReq, ReqType, Clean, Writes
<1>2. TypeOK
  BY <1>1 DEF TypeOK
<1>3. Sessions
  BY DEF Sessions, Known, Flushed, NewReq, Clean
<1>4. Unique /\ Trail
  BY DEF Unique, Trail, Clean
<1> QED
  BY <1>2, <1>3, <1>4 DEF IInv

(* What the invariant says of a request that nobody touches stays true as  *)
(* long as no ticket disappears.                                           *)
LEMMA Untouched ==
    ASSUME NEW s \in Reqs, Known(s), Flushed(s), tickets \subseteq tickets',
           req'[s] = req[s], pend'[s] = pend[s]
    PROVE  Known(s)' /\ Flushed(s)'
<1>1. \A i : Present(i) => Present(i)'
  BY DEF Present
<1>2. Known(s)'
  BY <1>1 DEF Known
<1>3. NewTicket(s)' = NewTicket(s) /\ LogEvent(s, "created")' = LogEvent(s, "created")
      /\ LogEvent(s, "note")' = LogEvent(s, "note")
  BY DEF NewTicket, LogEvent
<1>4. Flushed(s)'
  BY <1>3 DEF Flushed
<1> QED
  BY <1>2, <1>4

(* A step of request r that stores nothing: the invariant is the type of   *)
(* what it leaves, and what it says about r.                               *)
LEMMA StoresNothing ==
    ASSUME IInv, NEW r \in Reqs, UNCHANGED <<tickets, events>>,
           lock' \in [Reqs -> Reqs \cup {NULL}],
           NEW x \in ReqType, req' = [req EXCEPT ![r] = x],
           NEW w \in Writes, pend' = [pend EXCEPT ![r] = w],
           Known(r)', Flushed(r)', w.add \subseteq pend[r].add
    PROVE  IInv'
<1>1. TypeOK'
  BY DEF IInv, TypeOK
<1>2. \A s \in Reqs \ {r} : req'[s] = req[s] /\ pend'[s] = pend[s]
  BY DEF IInv, TypeOK
<1>3. Sessions'
  BY <1>2, Untouched DEF IInv, Sessions
<1>4. \A s \in Reqs : pend'[s].add \subseteq pend[s].add
  BY DEF IInv, TypeOK
<1>5. Unique'
  BY <1>4 DEF IInv, Unique
<1>6. Trail'
  BY DEF IInv, Trail, Present
<1> QED
  BY <1>1, <1>3, <1>5, <1>6 DEF IInv

(* ... in particular one that only changes the request.                    *)
LEMMA OnlyRequest ==
    ASSUME IInv, NEW r \in Reqs, UNCHANGED <<tickets, events, pend, lock>>,
           NEW x \in ReqType, req' = [req EXCEPT ![r] = x],
           Known(r)', Flushed(r)'
    PROVE  IInv'
<1>1. pend[r] \in Writes /\ pend' = [pend EXCEPT ![r] = pend[r]]
      /\ lock' \in [Reqs -> Reqs \cup {NULL}]
  BY DEF IInv, TypeOK
<1> QED
  BY <1>1, StoresNothing

LEMMA ArriveIInv == ASSUME IInv, NEW r \in Reqs, Arrive(r) PROVE IInv'
<1> USE TicketAssumption
<1> DEFINE ticketIds == {t.id : t \in tickets} \cup {NULL}
           eventIds == {e.id : e \in events} \cup {NULL}
           A(c) == [NewReq EXCEPT !.pc = "lookup", !.kind = "create", !.conv = c]
           B(t, u, s) == [NewReq EXCEPT !.pc = "load", !.kind = "transition",
                                        !.ticket = t, !.user = u, !.target = s]
           C(t, u) == [NewReq EXCEPT !.pc = "load", !.kind = "note",
                                     !.ticket = t, !.user = u]
           D(t, u, e) == [NewReq EXCEPT !.pc = "load", !.kind = "delete",
                                        !.ticket = t, !.user = u, !.note = e]
           Fresh(x) == \/ x.pc = "lookup" /\ x.kind = "create" /\ x.conv \in Conv
                       \/ /\ x.pc = "load" /\ x.kind \in {"transition", "note", "delete"}
                          /\ x.kind = "transition" => x.target \in Status
<1>1. PICK x \in ReqType : req' = [req EXCEPT ![r] = x] /\ Fresh(x)
  <2>1. ticketIds \subseteq Reqs \cup {NULL} /\ eventIds \subseteq Reqs \cup {NULL}
    BY DEF IInv, TypeOK, TicketRow, Event
  <2>2. NewReq \in ReqType
    BY DEF NewReq, ReqType
  <2>3. \A c \in Conv : A(c) \in ReqType /\ Fresh(A(c))
    BY <2>2 DEF ReqType
  <2>4. \A t \in ticketIds, u \in Users, s \in Status :
          B(t, u, s) \in ReqType /\ Fresh(B(t, u, s))
    <3> HIDE DEF A, B, C, D, Fresh, ticketIds, eventIds
    <3> SUFFICES ASSUME NEW t \in Reqs \cup {NULL}, NEW u \in Users, NEW s \in Status
                 PROVE  B(t, u, s) \in ReqType /\ Fresh(B(t, u, s))
      BY <2>1
    <3>1. B(t, u, s) = [NewReq EXCEPT !.pc = "load", !.kind = "transition",
                                      !.ticket = t, !.user = u, !.target = s]
      BY DEF B
    <3>2. B(t, u, s) \in ReqType
      BY <3>1 DEF NewReq, ReqType
    <3>3. /\ B(t, u, s).pc = "load" /\ B(t, u, s).kind = "transition"
          /\ B(t, u, s).target = s
      BY <3>1 DEF NewReq
    <3> QED
      BY <3>2, <3>3 DEF Fresh
  <2>5. \A t \in ticketIds, u \in Users : C(t, u) \in ReqType /\ Fresh(C(t, u))
    <3> HIDE DEF A, B, C, D, Fresh, ticketIds, eventIds
    <3> SUFFICES ASSUME NEW t \in Reqs \cup {NULL}, NEW u \in Users
                 PROVE  C(t, u) \in ReqType /\ Fresh(C(t, u))
      BY <2>1
    <3>1. C(t, u) = [NewReq EXCEPT !.pc = "load", !.kind = "note", !.ticket = t, !.user = u]
      BY DEF C
    <3>2. C(t, u) \in ReqType
      BY <3>1 DEF NewReq, ReqType
    <3>3. C(t, u).pc = "load" /\ C(t, u).kind = "note"
      BY <3>1 DEF NewReq
    <3> QED
      BY <3>2, <3>3 DEF Fresh
  <2>6. \A t \in ticketIds, u \in Users, e \in eventIds :
          D(t, u, e) \in ReqType /\ Fresh(D(t, u, e))
    <3> HIDE DEF A, B, C, D, Fresh, ticketIds, eventIds
    <3> SUFFICES ASSUME NEW t \in Reqs \cup {NULL}, NEW u \in Users,
                        NEW e \in Reqs \cup {NULL}
                 PROVE  D(t, u, e) \in ReqType /\ Fresh(D(t, u, e))
      BY <2>1
    <3>1. D(t, u, e) = [NewReq EXCEPT !.pc = "load", !.kind = "delete", !.ticket = t,
                                      !.user = u, !.note = e]
      BY DEF D
    <3>2. D(t, u, e) \in ReqType
      BY <3>1 DEF NewReq, ReqType
    <3>3. D(t, u, e).pc = "load" /\ D(t, u, e).kind = "delete"
      BY <3>1 DEF NewReq
    <3> QED
      BY <3>2, <3>3 DEF Fresh
  <2>7. \/ \E c \in Conv : req' = [req EXCEPT ![r] = A(c)]
        \/ \E t \in ticketIds, u \in Users, s \in Status : req' = [req EXCEPT ![r] = B(t, u, s)]
        \/ \E t \in ticketIds, u \in Users : req' = [req EXCEPT ![r] = C(t, u)]
        \/ \E t \in ticketIds, u \in Users, e \in eventIds :
              req' = [req EXCEPT ![r] = D(t, u, e)]
    BY DEF Arrive
  <2> HIDE DEF A, B, C, D, Fresh, ticketIds, eventIds
  <2> QED
    BY <2>3, <2>4, <2>5, <2>6, <2>7
<1>2. UNCHANGED <<tickets, events, pend, lock>> /\ req'[r] = x
  BY <1>1 DEF Arrive, IInv, TypeOK
<1>3. Known(r)'
  BY <1>1, <1>2 DEF Known
<1>4. Flushed(r)'
  <2>1. pend[r].add = {} /\ pend[r].set = {} /\ pend[r].log = {} /\ pend[r].del = {}
    <3>1. req[r].pc = "idle"
      BY DEF Arrive
    <3> QED
      BY <3>1 DEF IInv, Sessions, Flushed
  <2> QED
    BY <1>1, <1>2, <2>1 DEF Flushed
<1> QED
  BY <1>1, <1>2, <1>3, <1>4, OnlyRequest

(* A request that goes on, and one that is answered.                       *)
LEMMA GoesOn ==
    ASSUME IInv, NEW r \in Reqs,
           NEW l \in {"insert", "log", "exit", "flush", "commit"}, Goto(r, l)
    PROVE  \E x \in ReqType :
              /\ req' = [req EXCEPT ![r] = x] /\ req'[r] = x /\ x.pc = l
              /\ x.kind = req[r].kind /\ x.conv = req[r].conv /\ x.ticket = req[r].ticket
              /\ x.user = req[r].user /\ x.target = req[r].target /\ x.seen = req[r].seen
<1> DEFINE x == [req[r] EXCEPT !.pc = l]
<1>1. req[r] \in ReqType
  BY DEF IInv, TypeOK
<1>2. /\ x \in ReqType /\ x.pc = l
      /\ x.kind = req[r].kind /\ x.conv = req[r].conv /\ x.ticket = req[r].ticket
      /\ x.user = req[r].user /\ x.target = req[r].target /\ x.seen = req[r].seen
  BY <1>1 DEF ReqType
<1>3. req' = [req EXCEPT ![r] = x] /\ req'[r] = x
  BY DEF Goto, IInv, TypeOK
<1> QED
  BY <1>2, <1>3

LEMMA IsAnswered ==
    ASSUME IInv, NEW r \in Reqs, NEW s \in {"ok", "notfound", "conflict", "failed"},
           Answer(r, s)
    PROVE  \E x \in ReqType :
              /\ req' = [req EXCEPT ![r] = x] /\ req'[r] = x /\ x.pc = "done"
              /\ x.kind = req[r].kind /\ x.user = req[r].user
<1> DEFINE x == [req[r] EXCEPT !.pc = "done", !.res = s]
<1>1. req[r] \in ReqType
  BY DEF IInv, TypeOK
<1>2. x \in ReqType /\ x.pc = "done" /\ x.kind = req[r].kind /\ x.user = req[r].user
  <2>1. x.pc = "done" /\ x.kind = req[r].kind /\ x.user = req[r].user
    BY <1>1 DEF ReqType
  <2>2. PICK y : y = [req[r] EXCEPT !.pc = "done"]
    OBVIOUS
  <2>3. y \in ReqType
    BY <1>1, <2>2 DEF ReqType
  <2>4. x = [y EXCEPT !.res = s]
    BY <1>1, <2>2 DEF ReqType
  <2>5. [y EXCEPT !.res = s] \in ReqType
    BY <2>3 DEF ReqType
  <2> QED
    BY <2>1, <2>4, <2>5
<1>3. req' = [req EXCEPT ![r] = x] /\ req'[r] = x
  BY DEF Answer, IInv, TypeOK
<1> QED
  BY <1>2, <1>3

(* A request that is answered with nothing flushed.                        *)
LEMMA AnsweredClean ==
    ASSUME IInv, NEW r \in Reqs, NEW s \in {"ok", "notfound", "conflict", "failed"},
           Answer(r, s), req[r].pc \notin {"log", "exit", "commit"},
           UNCHANGED <<tickets, events, pend, lock>>
    PROVE  IInv'
<1>1. PICK x \in ReqType :
        /\ req' = [req EXCEPT ![r] = x] /\ req'[r] = x /\ x.pc = "done"
        /\ x.kind = req[r].kind /\ x.user = req[r].user
  BY IsAnswered
<1>2. Known(r)'
  BY <1>1 DEF Known
<1>3. Flushed(r)'
  BY <1>1 DEF Flushed, IInv, Sessions
<1> QED
  BY <1>1, <1>2, <1>3, OnlyRequest

LEMMA LookupIInv == ASSUME IInv, NEW r \in Reqs, Lookup(r) PROVE IInv'
<1>1. req[r].pc = "lookup" /\ UNCHANGED <<tickets, events, pend, lock>>
  BY DEF Lookup
<1>2. CASE Answer(r, "ok")
  BY <1>1, <1>2, AnsweredClean
<1>3. CASE Goto(r, "insert")
  <2>1. PICK x \in ReqType :
          /\ req' = [req EXCEPT ![r] = x] /\ req'[r] = x /\ x.pc = "insert"
          /\ x.kind = req[r].kind /\ x.conv = req[r].conv /\ x.user = req[r].user
    BY <1>3, GoesOn
  <2>2. Known(r)'
    BY <1>1, <2>1 DEF Known, IInv, Sessions
  <2>3. Flushed(r)'
    BY <1>1, <2>1 DEF Flushed, IInv, Sessions
  <2> QED
    BY <1>1, <2>1, <2>2, <2>3, OnlyRequest
<1> QED
  BY <1>2, <1>3 DEF Lookup

LEMMA LoadIInv == ASSUME IInv, NEW r \in Reqs, Load(r) PROVE IInv'
<1>1. /\ req[r].pc = "load" /\ UNCHANGED <<tickets, events, pend, lock>>
      /\ req[r].kind \in {"transition", "note", "delete"} /\ req[r] \in ReqType
      /\ req[r].kind = "transition" => req[r].target \in Status
  BY DEF Load, IInv, Sessions, Known, TypeOK
<1>2. CASE req[r].kind = "delete"
  <2>1. PICK x \in ReqType :
          /\ req' = [req EXCEPT ![r] = x] /\ req'[r] = x /\ x.pc = "flush"
          /\ x.kind = req[r].kind /\ x.user = req[r].user
    BY <1>2, GoesOn DEF Load
  <2>2. Known(r)'
    BY <1>2, <2>1 DEF Known
  <2>3. Flushed(r)'
    BY <1>1, <2>1 DEF Flushed, IInv, Sessions
  <2> QED
    BY <1>1, <2>1, <2>2, <2>3, OnlyRequest
<1>3. CASE req[r].kind # "delete" /\ ~Present(req[r].ticket)
  <2>1. Answer(r, "notfound")
    BY <1>3 DEF Load, Present
  <2> QED
    BY <1>1, <2>1, AnsweredClean
<1>4. CASE req[r].kind # "delete" /\ Present(req[r].ticket)
  <2>1. RowOf(req[r].ticket).status \in Status
    BY <1>4 DEF Present, RowOf, IInv, TypeOK, TicketRow
  <2> DEFINE x == [req[r] EXCEPT !.pc = "flush", !.seen = RowOf(req[r].ticket).status]
  <2>2. /\ x \in ReqType /\ x.pc = "flush" /\ x.kind = req[r].kind /\ x.user = req[r].user
        /\ x.ticket = req[r].ticket /\ x.target = req[r].target /\ x.seen \in Status
    <3> HIDE DEF Status
    <3> QED
      BY <1>1, <2>1 DEF ReqType
  <2>3. req' = [req EXCEPT ![r] = x] /\ req'[r] = x
    BY <1>4 DEF Load, Present, IInv, TypeOK
  <2>4. PICK y \in ReqType :
          /\ req' = [req EXCEPT ![r] = y] /\ req'[r] = y
          /\ y.pc = "flush" /\ y.kind = req[r].kind /\ y.user = req[r].user
          /\ y.ticket = req[r].ticket /\ y.target = req[r].target /\ y.seen \in Status
    BY <2>2, <2>3
  <2>5. Known(r)'
    <3>1. Present(y.ticket)'
      BY <1>1, <1>4, <2>4 DEF Present
    <3> QED
      BY <1>1, <1>4, <2>4, <3>1 DEF Known
  <2>6. Flushed(r)'
    BY <1>1, <2>4 DEF Flushed, IInv, Sessions
  <2> QED
    BY <1>1, <2>4, <2>5, <2>6, OnlyRequest
<1> QED
  BY <1>2, <1>3, <1>4

(* The session is left clean, and its request answered.                    *)
LEMMA RolledBack ==
    ASSUME IInv, NEW r \in Reqs, NEW s \in {"ok", "failed"}, Rollback(r), Answer(r, s)
    PROVE  IInv'
<1>1. PICK x \in ReqType :
        /\ req' = [req EXCEPT ![r] = x] /\ req'[r] = x /\ x.pc = "done"
        /\ x.kind = req[r].kind /\ x.user = req[r].user
  BY IsAnswered
<1>2. Clean \in Writes /\ Clean.add = {} /\ Clean.set = {} /\ Clean.log = {} /\ Clean.del = {}
  BY DEF Clean, Writes
<1>3. /\ UNCHANGED <<tickets, events>> /\ pend' = [pend EXCEPT ![r] = Clean]
      /\ pend'[r] = Clean
      /\ lock' \in [Reqs -> Reqs \cup {NULL}]
  BY DEF Rollback, IInv, TypeOK
<1>4. Known(r)'
  BY <1>1 DEF Known
<1>5. Flushed(r)'
  BY <1>1, <1>2, <1>3 DEF Flushed
<1>6. Clean.add \subseteq pend[r].add
  BY <1>2
<1> QED
  BY <1>1, <1>2, <1>3, <1>4, <1>5, <1>6, StoresNothing

(* repo.create: the index admits the ticket only if no other session has   *)
(* flushed one for the conversation and none is stored.                    *)
LEMMA InsertIInv == ASSUME IInv, NEW r \in Reqs, Insert(r) PROVE IInv'
<1>1. /\ req[r].pc = "insert" /\ UNCHANGED <<tickets, events, lock>>
      /\ req[r].kind = "create" /\ req[r].conv \in Conv
  BY DEF Insert, IInv, Sessions, Known
<1>2. CASE ~Unclaimed(r, req[r].conv)
  <2>1. Answer(r, "failed") /\ UNCHANGED pend
    BY <1>2 DEF Insert
  <2> QED
    BY <1>1, <2>1, AnsweredClean
<1>3. CASE Unclaimed(r, req[r].conv)
  <2>1. PICK t : t = NewTicket(r)
    OBVIOUS
  <2>2. PICK w : w = [pend[r] EXCEPT !.add = {t}]
    OBVIOUS
  <2>3. t \in TicketRow /\ t.conv = req[r].conv
    BY <1>1, <2>1 DEF NewTicket, TicketRow, Status
  <2>4. /\ w \in Writes /\ w.add = {t} /\ w.set = pend[r].set /\ w.log = pend[r].log
        /\ w.del = pend[r].del
    BY <2>2, <2>3 DEF Writes, IInv, TypeOK
  <2>5. pend' = [pend EXCEPT ![r] = w] /\ Goto(r, "log")
    BY <1>3, <2>1, <2>2 DEF Insert, NewTicket, IInv, TypeOK
  <2>6. PICK x \in ReqType :
          /\ req' = [req EXCEPT ![r] = x] /\ req'[r] = x /\ x.pc = "log"
          /\ x.kind = req[r].kind /\ x.conv = req[r].conv /\ x.user = req[r].user
    BY <2>5, GoesOn
  <2>7. pend'[r] = w /\ NewTicket(r)' = t
    BY <2>1, <2>5, <2>6 DEF NewTicket, IInv, TypeOK
  <2>8. TypeOK'
    BY <1>1, <2>4, <2>5, <2>6 DEF IInv, TypeOK
  <2>9. \A s \in Reqs \ {r} : req'[s] = req[s] /\ pend'[s] = pend[s]
    BY <2>5, <2>6 DEF IInv, TypeOK
  <2>10. Known(r)' /\ Flushed(r)'
    <3>1. Known(r)'
      BY <1>1, <2>6 DEF Known
    <3>2. Flushed(r)'
      BY <1>1, <2>4, <2>6, <2>7 DEF Flushed, IInv, Sessions
    <3> QED
      BY <3>1, <3>2
  <2>11. Sessions'
    BY <1>1, <2>9, <2>10, Untouched DEF IInv, Sessions
  <2>12. Unique'
    <3>1. \A u \in tickets : u.conv # t.conv
      BY <1>3, <2>3 DEF Unclaimed, TicketOf
    <3>2. \A s \in Reqs : \A u \in pend[s].add : u.conv # t.conv
      BY <2>3 DEF Insert
    <3>3. pend'[r].add = {t}
      BY <2>4, <2>7
    <3> QED
      BY <1>1, <2>9, <3>1, <3>2, <3>3 DEF IInv, Unique
  <2>13. Trail'
    BY <1>1 DEF IInv, Trail, Present
  <2> QED
    BY <2>8, <2>11, <2>12, <2>13 DEF IInv
<1> QED
  BY <1>2, <1>3

LEMMA EventType ==
    ASSUME IInv, NEW r \in Reqs, NEW type \in {"created", "status_changed", "note"},
           type = "created" \/ Present(req[r].ticket)
    PROVE  LogEvent(r, type) \in Event
<1>1. req[r].user \in Users \cup {NULL}
  BY DEF IInv, TypeOK, ReqType
<1>2. (IF type = "created" THEN r ELSE req[r].ticket) \in Reqs
  BY DEF Present, IInv, TypeOK, TicketRow
<1> QED
  BY <1>1, <1>2 DEF LogEvent, Event

LEMMA AppendIInv == ASSUME IInv, NEW r \in Reqs, Append(r) PROVE IInv'
<1>1. /\ req[r].pc = "log" /\ UNCHANGED <<tickets, events, lock>>
      /\ \/ req[r].kind = "create" /\ req[r].conv \in Conv
         \/ req[r].kind = "transition" /\ Present(req[r].ticket)
  BY DEF Append, IInv, Sessions, Known
<1>2. PICK type \in {"created", "status_changed", "note"} :
        type = IF req[r].kind = "create" THEN "created" ELSE "status_changed"
  OBVIOUS
<1>3. PICK e : e = LogEvent(r, type)
  OBVIOUS
<1>4. e \in Event
  BY <1>1, <1>2, <1>3, EventType
<1>5. PICK w : w = [pend[r] EXCEPT !.log = {e}]
  OBVIOUS
<1>6. /\ w \in Writes /\ w.log = {e} /\ w.add = pend[r].add /\ w.set = pend[r].set
      /\ w.del = pend[r].del
  BY <1>4, <1>5 DEF Writes, IInv, TypeOK
<1>7. pend' = [pend EXCEPT ![r] = w] /\ Goto(r, "exit") /\ pend'[r] = w
  BY <1>2, <1>3, <1>5 DEF Append, IInv, TypeOK
<1>8. PICK x \in ReqType :
        /\ req' = [req EXCEPT ![r] = x] /\ req'[r] = x /\ x.pc = "exit"
        /\ x.kind = req[r].kind /\ x.conv = req[r].conv /\ x.user = req[r].user
        /\ x.ticket = req[r].ticket
  BY <1>7, GoesOn
<1>9. Known(r)'
  BY <1>1, <1>8 DEF Known, Present
<1>10. Flushed(r)'
  <2>1. LogEvent(r, "created")' = LogEvent(r, "created") /\ NewTicket(r)' = NewTicket(r)
    BY <1>8 DEF LogEvent, NewTicket
  <2>2. Flushed(r)
    BY DEF IInv, Sessions
  <2> QED
    BY <1>1, <1>2, <1>3, <1>6, <1>7, <1>8, <2>1, <2>2 DEF Flushed
<1>11. w.add \subseteq pend[r].add /\ lock' \in [Reqs -> Reqs \cup {NULL}]
  BY <1>1, <1>6 DEF IInv, TypeOK
<1> QED
  BY <1>1, <1>6, <1>7, <1>8, <1>9, <1>10, <1>11, StoresNothing

(* A transition updates a ticket in a session that will be rolled back.    *)
LEMMA TransitionIInv == ASSUME IInv, NEW r \in Reqs, Transition(r) PROVE IInv'
<1>1. /\ req[r].pc = "flush" /\ UNCHANGED <<tickets, events>>
      /\ req[r].kind = "transition" /\ Present(req[r].ticket) /\ req[r].target \in Status
  BY DEF Transition, IInv, Sessions, Known
<1>2. CASE Answer(r, "conflict") /\ UNCHANGED <<lock, pend>>
  BY <1>1, <1>2, AnsweredClean
<1>3. CASE ~(Answer(r, "conflict") /\ UNCHANGED <<lock, pend>>)
  <2>1. PICK t : t = [RowOf(req[r].ticket) EXCEPT !.status = req[r].target]
    OBVIOUS
  <2>2. t \in TicketRow
    <3>1. RowOf(req[r].ticket) \in TicketRow
      BY <1>1 DEF Present, RowOf, IInv, TypeOK
    <3> HIDE DEF Status
    <3> QED
      BY <1>1, <2>1, <3>1 DEF TicketRow
  <2>3. PICK w : w = [pend[r] EXCEPT !.set = {t}]
    OBVIOUS
  <2>4. /\ w \in Writes /\ w.set = {t} /\ w.add = pend[r].add /\ w.log = pend[r].log
        /\ w.del = pend[r].del
    BY <2>2, <2>3 DEF Writes, IInv, TypeOK
  <2>5. pend' = [pend EXCEPT ![r] = w] /\ Goto(r, "log") /\ pend'[r] = w
        /\ lock' = [lock EXCEPT ![req[r].ticket] = r]
    BY <1>3, <2>1, <2>3 DEF Transition, IInv, TypeOK
  <2>6. PICK x \in ReqType :
          /\ req' = [req EXCEPT ![r] = x] /\ req'[r] = x /\ x.pc = "log"
          /\ x.kind = req[r].kind /\ x.user = req[r].user /\ x.ticket = req[r].ticket
    BY <2>5, GoesOn
  <2>7. Known(r)'
    BY <1>1, <2>6 DEF Known, Present
  <2>8. Flushed(r)'
    BY <1>1, <2>4, <2>5, <2>6 DEF Flushed, IInv, Sessions
  <2>9. w.add \subseteq pend[r].add /\ lock' \in [Reqs -> Reqs \cup {NULL}]
    BY <2>4, <2>5 DEF IInv, TypeOK
  <2> QED
    BY <1>1, <2>4, <2>5, <2>6, <2>7, <2>8, <2>9, StoresNothing
<1> QED
  BY <1>2, <1>3

LEMMA AddNoteIInv == ASSUME IInv, NEW r \in Reqs, AddNote(r) PROVE IInv'
<1>1. /\ req[r].pc = "flush" /\ UNCHANGED <<tickets, events, lock>>
      /\ req[r].kind = "note" /\ Present(req[r].ticket)
  BY DEF AddNote, IInv, Sessions, Known
<1>2. PICK e \in Event : e = LogEvent(r, "note")
  BY <1>1, EventType
<1>3. PICK w : w = [pend[r] EXCEPT !.log = {e}]
  OBVIOUS
<1>4. /\ w \in Writes /\ w.log = {e} /\ w.add = pend[r].add /\ w.set = pend[r].set
      /\ w.del = pend[r].del
  BY <1>2, <1>3 DEF Writes, IInv, TypeOK
<1>5. pend' = [pend EXCEPT ![r] = w] /\ Goto(r, "commit") /\ pend'[r] = w
  BY <1>2, <1>3 DEF AddNote, IInv, TypeOK
<1>6. PICK x \in ReqType :
        /\ req' = [req EXCEPT ![r] = x] /\ req'[r] = x /\ x.pc = "commit"
        /\ x.kind = req[r].kind /\ x.user = req[r].user /\ x.ticket = req[r].ticket
  BY <1>5, GoesOn
<1>7. Known(r)'
  BY <1>1, <1>6 DEF Known, Present
<1>8. Flushed(r)'
  <2>1. LogEvent(r, "note")' = e
    BY <1>2, <1>6 DEF LogEvent
  <2> QED
    BY <1>1, <1>4, <1>5, <1>6, <2>1 DEF Flushed, IInv, Sessions
<1>9. w.add \subseteq pend[r].add /\ lock' \in [Reqs -> Reqs \cup {NULL}]
  BY <1>1, <1>4 DEF IInv, TypeOK
<1> QED
  BY <1>1, <1>4, <1>5, <1>6, <1>7, <1>8, <1>9, StoresNothing

LEMMA DeleteNoteIInv == ASSUME IInv, NEW r \in Reqs, DeleteNote(r) PROVE IInv'
<1>1. /\ req[r].pc = "flush" /\ UNCHANGED <<tickets, events, lock>>
      /\ req[r].kind = "delete"
  BY DEF DeleteNote
<1>2. PICK found : found = {e \in events : e.id = req[r].note /\ Deletable(req[r], e)}
  OBVIOUS
<1>3. CASE found = {}
  BY <1>1, <1>2, <1>3, AnsweredClean DEF DeleteNote
<1>4. CASE found # {}
  <2>1. PICK w : w = [pend[r] EXCEPT !.del = found]
    OBVIOUS
  <2>2. /\ w \in Writes /\ w.del = found /\ w.add = pend[r].add /\ w.set = pend[r].set
        /\ w.log = pend[r].log
    BY <1>2, <2>1 DEF Writes, IInv, TypeOK
  <2>3. pend' = [pend EXCEPT ![r] = w] /\ Goto(r, "commit") /\ pend'[r] = w
    BY <1>2, <1>4, <2>1 DEF DeleteNote, IInv, TypeOK
  <2>4. PICK x \in ReqType :
          /\ req' = [req EXCEPT ![r] = x] /\ req'[r] = x /\ x.pc = "commit"
          /\ x.kind = req[r].kind /\ x.user = req[r].user
    BY <2>3, GoesOn
  <2>5. Known(r)'
    BY <1>1, <2>4 DEF Known
  <2>6. Flushed(r)'
    <3>1. \A e \in found : e.type = "note" /\ e.actor = req[r].user
      BY <1>2 DEF Deletable
    <3>2. Flushed(r)
      BY DEF IInv, Sessions
    <3> QED
      BY <1>1, <2>2, <2>3, <2>4, <3>1, <3>2 DEF Flushed
  <2>7. w.add \subseteq pend[r].add /\ lock' \in [Reqs -> Reqs \cup {NULL}]
    BY <1>1, <2>2 DEF IInv, TypeOK
  <2> QED
    BY <1>1, <2>2, <2>3, <2>4, <2>5, <2>6, <2>7, StoresNothing
<1> QED
  BY <1>3, <1>4

-----------------------------------------------------------------------------
(* A session that commits and its request, which is answered.              *)
LEMMA Committed ==
    ASSUME IInv, NEW r \in Reqs, pend[r].set = {}, Commit(r), Answer(r, "ok")
    PROVE  /\ TypeOK'
           /\ tickets' = tickets \cup pend[r].add
           /\ events' = (events \ pend[r].del) \cup pend[r].log
           /\ pend'[r] = Clean
           /\ req'[r].pc = "done" /\ req'[r].kind = req[r].kind
           /\ \A s \in Reqs \ {r} : req'[s] = req[s] /\ pend'[s] = pend[s]
<1>1. PICK x \in ReqType :
        /\ req' = [req EXCEPT ![r] = x] /\ req'[r] = x /\ x.pc = "done"
        /\ x.kind = req[r].kind
  BY IsAnswered
<1>2. Clean \in Writes
  BY DEF Clean, Writes
<1>3. tickets' = tickets \cup pend[r].add
  BY DEF Commit
<1>4. events' = (events \ pend[r].del) \cup pend[r].log
  BY DEF Commit
<1>5. pend' = [pend EXCEPT ![r] = Clean] /\ lock' \in [Reqs -> Reqs \cup {NULL}]
  BY DEF Commit, IInv, TypeOK
<1>6. pend[r].add \subseteq TicketRow /\ pend[r].log \subseteq Event
  BY DEF IInv, TypeOK, Writes
<1>7. TypeOK'
  BY <1>1, <1>2, <1>3, <1>4, <1>5, <1>6 DEF IInv, TypeOK
<1>8. \A s \in Reqs \ {r} : req'[s] = req[s] /\ pend'[s] = pend[s]
  BY <1>1, <1>5 DEF IInv, TypeOK
<1>9. pend'[r] = Clean
  BY <1>5 DEF IInv, TypeOK
<1> QED
  BY <1>1, <1>3, <1>4, <1>7, <1>8, <1>9

LEMMA CommittedSessions ==
    ASSUME IInv, NEW r \in Reqs, tickets \subseteq tickets',
           pend'[r] = Clean, req'[r].pc = "done",
           \A s \in Reqs \ {r} : req'[s] = req[s] /\ pend'[s] = pend[s]
    PROVE  Sessions'
<1>1. Known(r)'
  BY DEF Known
<1>2. Flushed(r)'
  BY DEF Flushed, Clean
<1> QED
  BY <1>1, <1>2, Untouched DEF IInv, Sessions

LEMMA ExitIInv == ASSUME IInv, NEW r \in Reqs, Exit(r) PROVE IInv'
<1>1. req[r].pc = "exit" /\ Answer(r, "ok")
  BY DEF Exit
<1>2. CASE req[r].kind # "create"
  BY <1>1, <1>2, RolledBack DEF Exit
<1>3. CASE req[r].kind = "create"
  <2>1. PICK t : t = NewTicket(r)
    OBVIOUS
  <2>2. PICK e : e = LogEvent(r, "created")
    OBVIOUS
  <2>3. pend[r].add = {t} /\ pend[r].set = {} /\ pend[r].log = {e} /\ pend[r].del = {}
    BY <1>1, <1>3, <2>1, <2>2 DEF IInv, Sessions, Flushed
  <2>4. Commit(r)
    BY <1>3 DEF Exit
  <2>5. /\ TypeOK' /\ tickets' = tickets \cup {t} /\ events' = events \cup {e}
        /\ pend'[r] = Clean /\ req'[r].pc = "done"
        /\ \A s \in Reqs \ {r} : req'[s] = req[s] /\ pend'[s] = pend[s]
    BY <1>1, <2>3, <2>4, Committed
  <2>6. Sessions'
    BY <2>5, CommittedSessions
  <2>7. Unique'
    <3>1. pend'[r].add = {}
      BY <2>5 DEF Clean
    <3>2. \A u \in tickets : u.conv # t.conv
      BY <2>3 DEF IInv, Unique
    <3>3. \A s \in Reqs \ {r} : \A u \in pend[s].add : u.conv # t.conv
      BY <2>3 DEF IInv, Unique
    <3>4. \A u, v \in tickets' : u.conv = v.conv => u = v
      BY <2>5, <3>2 DEF IInv, Unique
    <3>5. ASSUME NEW s \in Reqs, NEW u \in pend'[s].add
          PROVE  /\ \A v \in tickets' : u.conv # v.conv
                 /\ \A q \in Reqs \ {s} : \A v \in pend'[q].add : u.conv # v.conv
      <4>1. s # r /\ u \in pend[s].add
        BY <2>5, <3>1, <3>5
      <4> QED
        BY <2>5, <3>1, <3>3, <4>1 DEF IInv, Unique
    <3> QED
      BY <3>4, <3>5 DEF Unique
  <2>8. Trail'
    <3>1. t.status = "new" /\ t.id = r /\ e.ticket = r /\ e.type = "created"
      BY <2>1, <2>2 DEF NewTicket, LogEvent
    <3> QED
      BY <2>5, <3>1 DEF IInv, Trail, Present
  <2> QED
    BY <2>5, <2>6, <2>7, <2>8 DEF IInv
<1> QED
  BY <1>2, <1>3

(* What a note's session stores: an event of a ticket that exists, or the  *)
(* removal of notes.                                                       *)
LEMMA NoteFlushed ==
    ASSUME IInv, NEW r \in Reqs, req[r].pc = "commit"
    PROVE  /\ pend[r].add = {} /\ pend[r].set = {}
           /\ \A e \in pend[r].log : Present(e.ticket)
           /\ \A e \in pend[r].del : e.type = "note" /\ e.actor = req[r].user
           /\ pend[r].del # {} => req[r].kind = "delete"
<1>1. Known(r) /\ Flushed(r)
  BY DEF IInv, Sessions
<1>2. CASE req[r].kind = "note"
  BY <1>1, <1>2 DEF Known, Flushed, LogEvent
<1>3. CASE req[r].kind = "delete"
  BY <1>1, <1>3 DEF Known, Flushed
<1> QED
  BY <1>1, <1>2, <1>3 DEF Known

LEMMA CommitNoteIInv == ASSUME IInv, NEW r \in Reqs, CommitNote(r) PROVE IInv'
<1>1. req[r].pc = "commit" /\ Commit(r) /\ Answer(r, "ok")
  BY DEF CommitNote
<1>2. /\ TypeOK' /\ tickets' = tickets
      /\ events' = (events \ pend[r].del) \cup pend[r].log
      /\ pend'[r] = Clean /\ req'[r].pc = "done"
      /\ \A s \in Reqs \ {r} : req'[s] = req[s] /\ pend'[s] = pend[s]
  BY <1>1, Committed, NoteFlushed
<1>3. Sessions'
  BY <1>2, CommittedSessions
<1>4. Unique'
  <2>1. \A s \in Reqs : pend'[s].add \subseteq pend[s].add
    BY <1>2 DEF Clean
  <2> QED
    BY <1>2, <2>1 DEF IInv, Unique
<1>5. Trail'
  <2>1. \A t \in tickets : \E e \in events' : e.ticket = t.id /\ e.type = "created"
    <3> SUFFICES ASSUME NEW t \in tickets
                 PROVE  \E e \in events' : e.ticket = t.id /\ e.type = "created"
      OBVIOUS
    <3>1. PICK e \in events : e.ticket = t.id /\ e.type = "created"
      BY DEF IInv, Trail
    <3>2. e \notin pend[r].del
      BY <1>1, <3>1, NoteFlushed
    <3> QED
      BY <1>2, <3>1, <3>2
  <2>2. \A e \in events' : Present(e.ticket)
    BY <1>1, <1>2, NoteFlushed DEF IInv, Trail
  <2> QED
    BY <1>2, <2>1, <2>2 DEF IInv, Trail, Present
<1> QED
  BY <1>2, <1>3, <1>4, <1>5 DEF IInv

LEMMA NextIInv == IInv /\ [Next]_vars => IInv'
<1> SUFFICES ASSUME IInv, [Next]_vars PROVE IInv'
  OBVIOUS
<1>1. CASE UNCHANGED vars \/ Idle
  <2>1. tickets' = tickets /\ events' = events /\ lock' = lock /\ pend' = pend /\ req' = req
    BY <1>1 DEF vars, Idle
  <2>2. TypeOK' /\ Unique' /\ Trail'
    BY <2>1 DEF IInv, TypeOK, Unique, Trail, Present
  <2>3. Sessions'
    BY <2>1, Untouched DEF IInv, Sessions
  <2> QED
    BY <2>2, <2>3 DEF IInv
<1>2. ASSUME NEW r \in Reqs, Arrive(r) PROVE IInv'
  BY <1>2, ArriveIInv
<1>3. ASSUME NEW r \in Reqs, Fail(r) PROVE IInv'
  BY <1>3, RolledBack DEF Fail
<1>4. ASSUME NEW r \in Reqs, Step(r) PROVE IInv'
  BY <1>4, LookupIInv, InsertIInv, AppendIInv, ExitIInv, LoadIInv, TransitionIInv,
     AddNoteIInv, DeleteNoteIInv, CommitNoteIInv DEF Step
<1> QED
  BY <1>1, <1>2, <1>3, <1>4 DEF Next

LEMMA AlwaysIInv == Spec => []IInv
BY InitIInv, NextIInv, PTL DEF Spec

(* The tables, the sessions and the requests are always well typed.        *)
THEOREM TicketTypeCorrect == Spec => []TypeOK
BY AlwaysIInv, PTL DEF IInv

(* However many hooks run together for a conversation and wherever they    *)
(* fail, it has at most one ticket.                                        *)
THEOREM AtMostOneTicket == Spec => []OneTicketPerConversation
<1>1. ASSUME IInv, NEW c \in Conv PROVE Cardinality(TicketOf(c)) <= 1
  <2>1. CASE TicketOf(c) = {}
    BY <2>1, FS_EmptySet
  <2>2. CASE TicketOf(c) # {}
    <3>1. PICK t : t \in TicketOf(c)
      BY <2>2
    <3>2. TicketOf(c) = {t}
      BY <1>1, <3>1 DEF TicketOf, IInv, Unique
    <3> QED
      BY <3>2, FS_Singleton
  <2> QED
    BY <2>1, <2>2
<1>2. IInv => OneTicketPerConversation
  BY <1>1 DEF OneTicketPerConversation
<1> QED
  BY <1>2, AlwaysIInv, PTL

(* A ticket is stored together with its "created" event, and no event      *)
(* without its ticket, wherever the sessions fail or are rolled back.      *)
THEOREM TrailComplete == Spec => []AuditTrail
<1>1. IInv => AuditTrail
  BY DEF IInv, Trail, Present, AuditTrail
<1> QED
  BY <1>1, AlwaysIInv, PTL

(* Only notes vanish from the audit trail, and only for their author.      *)
THEOREM TrailAppendOnly == Spec => OnlyOwnNotesVanish
<1>1. ASSUME IInv, [Next]_vars, NEW e \in events \ events'
      PROVE  /\ e.type = "note"
             /\ \E r \in Reqs : /\ req[r].kind = "delete"
                                /\ req[r].user = e.actor
                                /\ req'[r] # req[r]
  <2>1. PICK r \in Reqs : Exit(r) \/ CommitNote(r)
    <3>1. events' # events
      BY <1>1
    <3> QED
      BY <1>1, <3>1 DEF Next, vars, Idle, Arrive, Fail, Rollback, Step, Lookup, Insert, Append,
                        Load, Transition, AddNote, DeleteNote
  <2>2. CASE Exit(r)
    <3>1. req[r].kind = "create" /\ events' = (events \ pend[r].del) \cup pend[r].log
      BY <1>1, <2>2 DEF Exit, Rollback, Commit
    <3>2. pend[r].del = {}
      BY <1>1, <3>1 DEF IInv, Sessions, Flushed
    <3> QED
      BY <1>1, <3>1, <3>2
  <2>3. CASE CommitNote(r)
    <3>1. req[r].pc = "commit" /\ events' = (events \ pend[r].del) \cup pend[r].log
      BY <2>3 DEF CommitNote, Commit
    <3>2. e \in pend[r].del
      BY <1>1, <3>1
    <3>3. req'[r].pc = "done"
      BY <1>1, <2>3, IsAnswered DEF CommitNote
    <3> QED
      BY <1>1, <3>1, <3>2, <3>3, NoteFlushed
  <2> QED
    BY <2>1, <2>2, <2>3
<1>2. IInv /\ [Next]_vars
      => [\A e \in events \ events' :
            /\ e.type = "note"
            /\ \E r \in Reqs : /\ req[r].kind = "delete"
                               /\ req[r].user = e.actor
                               /\ req'[r] # req[r]]_vars
  BY <1>1
<1> QED
  BY <1>2, AlwaysIInv, PTL DEF Spec, OnlyOwnNotesVanish
=============================================================================
