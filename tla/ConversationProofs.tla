------------------------- MODULE ConversationProofs -------------------------
(***************************************************************************)
(* Proofs about Conversation, for any number of conversations, customers,  *)
(* tenants, agents and concurrent requests, with or without faults.        *)
(***************************************************************************)
EXTENDS Conversation, TLAPS

MutOps == {"assign", "autoassign", "escalate", "return", "close"}

(* The program counters at which a request holds a conversation id.        *)
MutPCs == {"read", "load", "flush", "resolve"}
TurnPCs == {"record", "ticket", "respond", "llm", "ack", "reply", "qa"}
FindPCs == {"find", "insert", "refind"}

(* Conversation c of table tbl belongs to tenant t.                        *)
Owned(tbl, c, t) == tbl[c].status # "none" /\ TenantOf[tbl[c].cust] = t

(* What request q may rely on at each of its steps, when the conversations *)
(* table is tbl and the conversations in cl have been closed.              *)
ReqOK(q, tbl) ==
    /\ q.pc # "idle" => q.tenant \in Tenants
    /\ q.pc \in FindPCs =>
          q.cust \in Customers /\ q.tenant = TenantOf[q.cust]
    /\ q.pc \in MutPCs \cup TurnPCs =>
          q.conv \in Conv /\ tbl[q.conv].status # "none"
    /\ q.pc \in TurnPCs \cup {"load", "flush", "resolve"} =>
          Owned(tbl, q.conv, q.tenant)
    /\ q.pc = "read" /\ q.ret # "api" => Owned(tbl, q.conv, q.tenant)
    /\ q.pc \in MutPCs =>
          q.op \in MutOps /\ q.ret \in {"api", "tool", "handoff"}

(* A request that lost the insert race has seen a conversation of its      *)
(* customer, which is live unless somebody closed it.                      *)
RaceOK(q, tbl, cl) ==
    /\ q.pc # "done" => q.res = "running"
    /\ q.pc = "refind" =>
          \E c \in Conv : tbl[c].cust = q.cust /\ (Live(tbl[c]) \/ c \in cl)
    /\ q.res = "dropped" =>
          q.cust \in Customers /\ \E c \in cl : tbl[c].cust = q.cust

ReqInv(q, tbl, cl) == q \in ReqType /\ ReqOK(q, tbl) /\ RaceOK(q, tbl, cl)

RowsOK ==
    /\ row \in [Conv -> RowType]
    /\ \A c \in Conv : row[c].status = "none" <=> row[c].cust = NULL
    /\ \A c \in Conv : row[c].status = "none" => row[c].agent = NULL

HistoryOK ==
    /\ tainted \subseteq Conv
    /\ closes \subseteq Conv
    /\ claims \in [Conv -> Nat]
    /\ releases \in [Conv -> Nat]

(* ClaimsBounded, made inductive: an unassigned conversation has one more  *)
(* claim to give.                                                          *)
ClaimBalance ==
    \A c \in Conv :
        /\ row[c].agent = NULL => claims[c] <= releases[c]
        /\ claims[c] <= releases[c] + 1

LogOK ==
    /\ messages \subseteq [conv : Conv, role : {"customer", "ai", "agent"},
                           by : Reqs]
    /\ tickets \subseteq Conv
    /\ qa \subseteq Reqs

TableInv == RowsOK /\ HistoryOK /\ OneOpenPerCustomer /\ UntaintedLockStep
            /\ ClaimBalance

ReqsInv ==
    /\ req \in [Reqs -> ReqType]
    /\ \A r \in Reqs : ReqInv(req[r], row, closes)

(* The inductive invariant.                                                *)
IInv == TableInv /\ LogOK /\ ReqsInv

(* How the conversations table may change: rows are only ever added, a row *)
(* keeps its customer, and it stops being live by being closed.            *)
Evolves(tbl, tbl2, cl, cl2) ==
    /\ cl \subseteq cl2
    /\ \A c \in Conv : tbl[c].status # "none" =>
          tbl2[c].status # "none" /\ tbl2[c].cust = tbl[c].cust
    /\ \A c \in Conv : Live(tbl[c]) => Live(tbl2[c]) \/ c \in cl2

-----------------------------------------------------------------------------
(* Helpers.                                                                *)

(* A service method assigns well-typed attributes.                         *)
LEMMA TargetType ==
    ASSUME NEW op \in MutOps, NEW x \in RowType,
           NEW a \in Agents \cup {NULL}
    PROVE  /\ Target(op, x, a) \in RowType
           /\ Target(op, x, a).cust = x.cust
           /\ Target(op, x, a).status # "none"
  BY DEF MutOps, Target, RowType, Statuses

(* The UPDATE keeps the customer and never unmakes a row.                  *)
LEMMA MergeType ==
    ASSUME NEW cur \in RowType, NEW load \in RowType, NEW new \in RowType,
           cur.status # "none", new.status # "none"
    PROVE  /\ Merge(cur, load, new) \in RowType
           /\ Merge(cur, load, new).cust = cur.cust
           /\ Merge(cur, load, new).status # "none"
  BY DEF Merge, RowType, Statuses

(* Without a race the UPDATE stores exactly what the service computed.     *)
LEMMA MergeFresh ==
    ASSUME NEW cur \in RowType, NEW new \in RowType
    PROVE  /\ Merge(cur, cur, new).status = new.status
           /\ Merge(cur, cur, new).agent = new.agent
           /\ Merge(cur, cur, new).ai = new.ai
  BY DEF Merge, RowType

LEMMA NoRowType == NoRow \in RowType
  BY DEF NoRow, RowType, Statuses

LEMMA NewReqType == NewReq \in ReqType
  BY NoRowType DEF NewReq, ReqType, PCs, Ops

LEMMA FinishType ==
    ASSUME NEW q \in ReqType, NEW s \in {"ok", "notfound", "conflict",
                                         "error", "dropped", "aborted"}
    PROVE  /\ Finish(q, s) \in ReqType
           /\ Finish(q, s).pc = "done"
           /\ Finish(q, s).res = s
           /\ Finish(q, s).tenant = q.tenant
           /\ Finish(q, s).cust = q.cust
           /\ Finish(q, s).conv = q.conv
  <1>1. ASSUME NEW n \in ReqType
        PROVE  LET m == [n EXCEPT !.pc = "done", !.res = s,
                                  !.tenant = q.tenant, !.cust = q.cust,
                                  !.conv = q.conv]
               IN  /\ m.pc = "done" /\ m.res = s
                   /\ m.tenant = q.tenant /\ m.cust = q.cust
                   /\ m.conv = q.conv
    BY DEF ReqType
  <1>2. ASSUME NEW n \in ReqType
        PROVE  [n EXCEPT !.pc = "done", !.res = s,
                                  !.tenant = q.tenant, !.cust = q.cust,
                                  !.conv = q.conv] \in ReqType
    <2>1. /\ "done" \in PCs
          /\ s \in {"running", "ok", "notfound", "conflict", "error",
                   "dropped", "aborted"}
          /\ q.tenant \in Tenants \cup {NULL}
          /\ q.cust \in Customers \cup {NULL}
          /\ q.conv \in Conv \cup {NULL}
      BY DEF PCs, ReqType
    <2>2. PICK a : a = [n EXCEPT !.pc = "done", !.res = s]
      OBVIOUS
    <2>3. a \in ReqType
      BY <2>1, <2>2 DEF ReqType
    <2>4. [a EXCEPT !.tenant = q.tenant, !.cust = q.cust, !.conv = q.conv] \in ReqType
      BY <2>1, <2>3 DEF ReqType
    <2>5. [n EXCEPT !.pc = "done", !.res = s, !.tenant = q.tenant, !.cust = q.cust,
                    !.conv = q.conv]
          = [a EXCEPT !.tenant = q.tenant, !.cust = q.cust, !.conv = q.conv]
      BY <2>2 DEF ReqType
    <2> QED BY <2>4, <2>5
  <1> QED BY <1>1, <1>2, NewReqType DEF Finish

(* A mutation that returns to the tool loop keeps its conversation.        *)
LEMMA ResumeType ==
    ASSUME NEW q \in ReqType, q.ret \in {"api", "tool", "handoff"},
           NEW s \in {"ok", "notfound", "error"}
    PROVE  /\ Resume(q, s) \in ReqType
           /\ Resume(q, s).pc \in {"done", "llm", "ack"}
           /\ q.ret = "api" => Resume(q, s).pc = "done"
           /\ Resume(q, s).tenant = q.tenant
           /\ Resume(q, s).cust = q.cust
           /\ Resume(q, s).conv = q.conv
           /\ Resume(q, s).pc # "done" => Resume(q, s).res = q.res
           /\ q.res = "running" => Resume(q, s).res # "dropped"
  <1>1. CASE q.ret = "api" \/ q.ret = "handoff"
    BY <1>1, FinishType DEF Resume
  <1>2. CASE q.ret = "tool"
    <2>0. PICK pc \in PCs : Resume(q, s) = [q EXCEPT !.pc = pc, !.snap = NoRow, !.load = NoRow]
      <3>1. /\ Resume(q, s) = [q EXCEPT !.pc = IF q.op = "escalate" /\ s = "error"
                                               THEN "llm" ELSE "ack",
                                        !.snap = NoRow, !.load = NoRow]
        BY <1>2 DEF Resume
      <3> QED BY <3>1 DEF PCs
    <2>1. Resume(q, s) \in ReqType
      BY <2>0, NoRowType DEF ReqType
    <2>2. /\ Resume(q, s).pc \in {"llm", "ack"}
          /\ Resume(q, s).tenant = q.tenant
          /\ Resume(q, s).cust = q.cust
          /\ Resume(q, s).conv = q.conv
          /\ Resume(q, s).res = q.res
      BY <1>2 DEF Resume, ReqType
    <2> QED BY <1>2, <2>1, <2>2
  <1> QED BY <1>1, <1>2

LEMMA EscalateType ==
    ASSUME NEW q \in ReqType, NEW from \in {"tool", "handoff"}
    PROVE  /\ CallEscalate(q, from) \in ReqType
           /\ CallEscalate(q, from).pc = "read"
           /\ CallEscalate(q, from).op = "escalate"
           /\ CallEscalate(q, from).ret = from
           /\ CallEscalate(q, from).tenant = q.tenant
           /\ CallEscalate(q, from).cust = q.cust
           /\ CallEscalate(q, from).conv = q.conv
           /\ CallEscalate(q, from).res = q.res
<1>1. PICK x : x = [q EXCEPT !.pc = "read", !.op = "escalate"]
  OBVIOUS
<1>2. "read" \in PCs /\ "escalate" \in Ops \cup {NULL}
  BY DEF PCs, Ops
<1>3. x \in ReqType
  BY <1>1, <1>2 DEF ReqType
<1>4. [x EXCEPT !.ret = from, !.agent = NULL] \in ReqType
  BY <1>3 DEF ReqType
<1>5. CallEscalate(q, from) = [x EXCEPT !.ret = from, !.agent = NULL]
  BY <1>1 DEF CallEscalate, ReqType
<1>6. /\ CallEscalate(q, from).pc = "read"
      /\ CallEscalate(q, from).op = "escalate"
      /\ CallEscalate(q, from).ret = from
      /\ CallEscalate(q, from).tenant = q.tenant
      /\ CallEscalate(q, from).cust = q.cust
      /\ CallEscalate(q, from).conv = q.conv
      /\ CallEscalate(q, from).res = q.res
  BY DEF CallEscalate, ReqType
<1> QED
  BY <1>4, <1>5, <1>6

-----------------------------------------------------------------------------
(* Preservation.                                                           *)

(* A request's own facts survive the steps of the others.                  *)
LEMMA ReqStable ==
    ASSUME NEW q \in ReqType, NEW tbl \in [Conv -> RowType], NEW tbl2,
           NEW cl \in SUBSET Conv, NEW cl2,
           \A c \in Conv : tbl[c].status = "none" <=> tbl[c].cust = NULL,
           ReqInv(q, tbl, cl), Evolves(tbl, tbl2, cl, cl2)
    PROVE  ReqInv(q, tbl2, cl2)
  <1>1. ReqOK(q, tbl2)
    BY DEF ReqInv, ReqOK, Owned, Evolves, MutPCs, TurnPCs
  <1>2. ASSUME NEW c \in Conv, tbl[c].cust = q.cust, Live(tbl[c]) \/ c \in cl,
               tbl[c].status # "none"
        PROVE  tbl2[c].cust = q.cust /\ (Live(tbl2[c]) \/ c \in cl2)
    BY <1>2 DEF Evolves
  <1>3. \A c \in Conv : tbl[c].cust \in Customers => tbl[c].status # "none"
    BY ConstantsAssumption
  <1>4. q.pc = "refind" =>
          \E c \in Conv : tbl2[c].cust = q.cust /\ (Live(tbl2[c]) \/ c \in cl2)
    <2> SUFFICES ASSUME q.pc = "refind"
                 PROVE  \E c \in Conv : /\ tbl2[c].cust = q.cust
                                        /\ Live(tbl2[c]) \/ c \in cl2
      OBVIOUS
    <2>1. PICK c \in Conv : /\ tbl[c].cust = q.cust
                            /\ Live(tbl[c]) \/ c \in cl
      BY DEF ReqInv, RaceOK
    <2>2. q.cust \in Customers
      BY DEF ReqInv, ReqOK, FindPCs
    <2> QED BY <1>2, <1>3, <2>1, <2>2
  <1>5. q.res = "dropped" =>
          q.cust \in Customers /\ \E c \in cl2 : tbl2[c].cust = q.cust
    <2> SUFFICES ASSUME q.res = "dropped"
                 PROVE  /\ q.cust \in Customers
                        /\ \E c \in cl2 : tbl2[c].cust = q.cust
      OBVIOUS
    <2>1. q.cust \in Customers /\ \E c \in cl : tbl[c].cust = q.cust
      BY DEF ReqInv, RaceOK
    <2>2. PICK c \in cl : tbl[c].cust = q.cust
      BY <2>1
    <2> QED BY <1>3, <2>1, <2>2 DEF Evolves
  <1>6. RaceOK(q, tbl2, cl2)
    BY <1>4, <1>5 DEF ReqInv, RaceOK
  <1> QED BY <1>1, <1>6 DEF ReqInv

(* One request moves, the table evolves: all requests keep their facts.    *)
LEMMA ReqsStep ==
    ASSUME IInv, NEW r \in Reqs, req' = [req EXCEPT ![r] = req'[r]],
           Evolves(row, row', closes, closes'),
           ReqInv(req'[r], row', closes')
    PROVE  ReqsInv'
  <1>1. req' \in [Reqs -> ReqType]
    BY DEF IInv, ReqsInv, ReqInv
  <1>2. ASSUME NEW s \in Reqs
        PROVE  ReqInv(req'[s], row', closes')
    <2>1. CASE s = r
      BY <2>1
    <2>2. CASE s # r
      <3>1. req'[s] = req[s] /\ req[s] \in ReqType
        BY <2>2 DEF IInv, ReqsInv
      <3>2. ReqInv(req[s], row, closes)
        BY DEF IInv, ReqsInv
      <3> QED BY <3>1, <3>2, ReqStable DEF IInv, TableInv, RowsOK, HistoryOK
    <2> QED BY <2>1, <2>2
  <1> QED BY <1>1, <1>2 DEF ReqsInv

(* A step that leaves the table alone.                                     *)
LEMMA LocalStep ==
    ASSUME IInv, NEW r \in Reqs, UNCHANGED <<row, history>>,
           req' = [req EXCEPT ![r] = req'[r]],
           ReqInv(req'[r], row, closes), LogOK'
    PROVE  IInv'
  <1>1. TableInv'
    BY DEF IInv, TableInv, RowsOK, HistoryOK, OneOpenPerCustomer,
           UntaintedLockStep, ClaimBalance, history
  <1>2. row' = row /\ closes' = closes
    BY DEF history
  <1>3. Evolves(row, row', closes, closes')
    BY <1>2 DEF Evolves
  <1>4. ReqsInv'
    BY <1>2, <1>3, ReqsStep
  <1> QED BY <1>1, <1>4 DEF IInv

(* The end of a request asks nothing of the table unless it was dropped.   *)
LEMMA FinishInv ==
    ASSUME NEW q \in ReqType, NEW tbl, NEW cl, q.tenant \in Tenants,
           NEW s \in {"ok", "notfound", "conflict", "error", "aborted"}
    PROVE  ReqInv(Finish(q, s), tbl, cl)
  BY FinishType DEF ReqInv, ReqOK, RaceOK, FindPCs, MutPCs, TurnPCs

(* A mutation that ends, or returns to the AI turn that called it.         *)
LEMMA ResumeInv ==
    ASSUME NEW q \in ReqType, NEW tbl, NEW cl, q.tenant \in Tenants,
           q.ret \in {"api", "tool", "handoff"}, q.res = "running",
           q.conv \in Conv, q.ret # "api" => Owned(tbl, q.conv, q.tenant),
           NEW s \in {"ok", "notfound", "error"}
    PROVE  ReqInv(Resume(q, s), tbl, cl)
  <1>1. ReqOK(Resume(q, s), tbl)
    BY ResumeType DEF ReqOK, Owned, FindPCs, MutPCs, TurnPCs
  <1>2. RaceOK(Resume(q, s), tbl, cl)
    BY ResumeType DEF RaceOK
  <1> QED BY <1>1, <1>2, ResumeType DEF ReqInv

(* The AI turn calls escalate_to_human_queue for its own conversation.     *)
LEMMA EscalateInv ==
    ASSUME NEW q \in ReqType, NEW tbl, NEW cl, q.tenant \in Tenants,
           q.res = "running", q.conv \in Conv, Owned(tbl, q.conv, q.tenant),
           NEW from \in {"tool", "handoff"}
    PROVE  ReqInv(CallEscalate(q, from), tbl, cl)
  <1>1. ReqOK(CallEscalate(q, from), tbl)
    BY EscalateType DEF ReqOK, Owned, FindPCs, MutPCs, TurnPCs, MutOps
  <1>2. RaceOK(CallEscalate(q, from), tbl, cl)
    BY EscalateType DEF RaceOK
  <1> QED BY <1>1, <1>2, EscalateType DEF ReqInv

(* The AI turn moves on within its conversation.                           *)
LEMMA TurnInv ==
    ASSUME NEW q \in ReqType, NEW tbl, NEW cl, q.tenant \in Tenants,
           q.res = "running", q.conv \in Conv, Owned(tbl, q.conv, q.tenant),
           NEW q2 \in ReqType, q2.pc \in TurnPCs, q2.tenant = q.tenant,
           q2.conv = q.conv, q2.res = q.res
    PROVE  ReqInv(q2, tbl, cl)
  BY DEF ReqInv, ReqOK, RaceOK, Owned, FindPCs, MutPCs, TurnPCs

(* What the invariant says of a request in its AI turn.                    *)
LEMMA InTurn ==
    ASSUME IInv, NEW r \in Reqs,
           req[r].pc \in TurnPCs \cup {"load", "flush", "resolve"}
    PROVE  /\ req[r] \in ReqType
           /\ req[r].tenant \in Tenants
           /\ req[r].res = "running"
           /\ req[r].conv \in Conv
           /\ Owned(row, req[r].conv, req[r].tenant)
  BY DEF IInv, ReqsInv, ReqInv, ReqOK, RaceOK, MutPCs, TurnPCs

LEMMA StartInboundStep ==
    ASSUME IInv, NEW r \in Reqs, StartInbound(r)
    PROVE  IInv'
  <1>1. PICK k \in Customers :
          req' = [req EXCEPT ![r] =
                    [NewReq EXCEPT !.pc = "find", !.op = "inbound",
                                   !.cust = k, !.tenant = TenantOf[k]]]
    BY DEF StartInbound
  <1> DEFINE q == [NewReq EXCEPT !.pc = "find", !.op = "inbound",
                                 !.cust = k, !.tenant = TenantOf[k]]
  <1>2. req'[r] = q /\ req' = [req EXCEPT ![r] = req'[r]]
    BY <1>1 DEF IInv, ReqsInv
  <1>3. TenantOf[k] \in Tenants
    BY ConstantsAssumption
  <1>4. /\ q \in ReqType /\ q.pc = "find" /\ q.res = "running"
        /\ q.cust = k /\ q.tenant = TenantOf[k]
    BY <1>3, NoRowType DEF NewReq, ReqType, PCs, Ops
  <1>5. ReqInv(q, row, closes)
    BY <1>3, <1>4 DEF ReqInv, ReqOK, RaceOK, FindPCs, MutPCs, TurnPCs
  <1> QED BY <1>2, <1>5, LocalStep DEF StartInbound, IInv, LogOK

LEMMA StartMutationStep ==
    ASSUME IInv, NEW r \in Reqs, StartMutation(r)
    PROVE  IInv'
  <1>1. PICK op \in {"assign", "return", "close"}, t \in Tenants, c \in Conv :
          \E a \in IF op = "assign" THEN Staff[t] ELSE {NULL} :
             /\ row[c].status # "none"
             /\ req' = [req EXCEPT ![r] =
                          [NewReq EXCEPT !.pc = "read", !.op = op,
                                         !.ret = "api", !.tenant = t,
                                         !.conv = c, !.agent = a]]
    BY DEF StartMutation
  <1>2. PICK a \in IF op = "assign" THEN Staff[t] ELSE {NULL} :
          /\ row[c].status # "none"
          /\ req' = [req EXCEPT ![r] =
                       [NewReq EXCEPT !.pc = "read", !.op = op,
                                      !.ret = "api", !.tenant = t,
                                      !.conv = c, !.agent = a]]
    BY <1>1
  <1>3. a \in Agents \cup {NULL}
    BY DEF Agents
  <1> DEFINE q == [NewReq EXCEPT !.pc = "read", !.op = op, !.ret = "api",
                                 !.tenant = t, !.conv = c, !.agent = a]
  <1>4. req'[r] = q /\ req' = [req EXCEPT ![r] = req'[r]]
    BY <1>2 DEF IInv, ReqsInv
  <1>5. /\ q.pc = "read" /\ q.res = "running" /\ q.op = op /\ q.ret = "api"
        /\ q.tenant = t /\ q.conv = c
    BY DEF NewReq
  <1>6. q \in ReqType
    BY <1>3, NoRowType DEF NewReq, ReqType, PCs, Ops
  <1>7. ReqInv(q, row, closes)
    BY <1>2, <1>5, <1>6
       DEF ReqInv, ReqOK, RaceOK, FindPCs, MutPCs, TurnPCs, MutOps
  <1> QED BY <1>4, <1>7, LocalStep DEF StartMutation, IInv, LogOK

(* Find and Refind adopt a live conversation of the request's customer.    *)
LEMMA AdoptInv ==
    ASSUME IInv, NEW r \in Reqs, req[r].pc \in FindPCs,
           NEW tbl \in [Conv -> RowType], NEW cl, NEW c \in Conv,
           tbl[c].status # "none", tbl[c].cust = req[r].cust
    PROVE  ReqInv([req[r] EXCEPT !.pc = "record", !.conv = c,
                                 !.snap = tbl[c]], tbl, cl)
  <1> DEFINE q == [req[r] EXCEPT !.pc = "record", !.conv = c, !.snap = tbl[c]]
  <1>1. /\ req[r] \in ReqType /\ req[r].tenant \in Tenants
        /\ req[r].res = "running" /\ req[r].tenant = TenantOf[req[r].cust]
    BY DEF IInv, ReqsInv, ReqInv, ReqOK, RaceOK, FindPCs
  <1>2. q \in ReqType
    BY <1>1 DEF ReqType, PCs
  <1>3. /\ q.pc = "record" /\ q.conv = c /\ q.res = "running"
        /\ q.tenant = req[r].tenant
    BY <1>1 DEF ReqType
  <1> QED BY <1>1, <1>2, <1>3
             DEF ReqInv, ReqOK, RaceOK, Owned, FindPCs, MutPCs, TurnPCs

LEMMA FindStep ==
    ASSUME IInv, NEW r \in Reqs, Find(r)
    PROVE  IInv'
  <1>1. req[r] \in ReqType /\ req[r].pc = "find"
    BY DEF IInv, ReqsInv, Find
  <1>2. CASE OpenFor(req[r].cust) = {}
    <2>1. req' = [req EXCEPT ![r] = [req[r] EXCEPT !.pc = "insert"]]
      BY <1>2 DEF Find
    <2>2. req'[r] = [req[r] EXCEPT !.pc = "insert"]
      BY <2>1 DEF IInv, ReqsInv
    <2>3. ReqInv([req[r] EXCEPT !.pc = "insert"], row, closes)
      <3>1. ReqInv(req[r], row, closes)
        BY DEF IInv, ReqsInv
      <3> QED BY <1>1, <3>1 DEF ReqInv, ReqOK, RaceOK, ReqType, PCs,
                                FindPCs, MutPCs, TurnPCs
    <2> QED BY <2>1, <2>2, <2>3, LocalStep DEF Find, IInv, LogOK
  <1>3. CASE OpenFor(req[r].cust) # {}
    <2>1. PICK c \in OpenFor(req[r].cust) :
            req' = [req EXCEPT ![r].pc = "record", ![r].conv = c,
                               ![r].snap = row[c]]
      BY <1>3 DEF Find
    <2>2. c \in Conv /\ row[c].status # "none" /\ row[c].cust = req[r].cust
      BY DEF OpenFor, Live
    <2>3. /\ req' = [req EXCEPT ![r] = req'[r]]
          /\ req'[r] = [req[r] EXCEPT !.pc = "record", !.conv = c,
                                      !.snap = row[c]]
      BY <2>1 DEF IInv, ReqsInv
    <2>4. ReqInv(req'[r], row, closes)
      <3>1. row \in [Conv -> RowType] /\ req[r].pc \in FindPCs
        BY <1>1 DEF FindPCs, IInv, TableInv, RowsOK
      <3>2. ReqInv([req[r] EXCEPT !.pc = "record", !.conv = c,
                                  !.snap = row[c]], row, closes)
        BY <2>2, <3>1, AdoptInv, Zenon
      <3> QED BY <2>3, <3>2
    <2> QED BY <2>3, <2>4, LocalStep DEF Find, IInv, LogOK
  <1> QED BY <1>2, <1>3

LEMMA RefindStep ==
    ASSUME IInv, NEW r \in Reqs, Refind(r)
    PROVE  IInv'
  <1>1. /\ req[r] \in ReqType /\ req[r].pc = "refind"
        /\ ReqInv(req[r], row, closes)
    BY DEF IInv, ReqsInv, Refind
  <1>2. CASE OpenFor(req[r].cust) = {}
    <2>1. /\ req' = [req EXCEPT ![r] = req'[r]]
          /\ req'[r] = Finish(req[r], "dropped")
      BY <1>2 DEF Refind, IInv, ReqsInv
    <2>2. PICK c \in Conv : /\ row[c].cust = req[r].cust
                            /\ Live(row[c]) \/ c \in closes
      BY <1>1 DEF ReqInv, RaceOK
    <2>3. c \in closes
      BY <1>2, <2>2 DEF OpenFor
    <2>4. req[r].cust \in Customers /\ req[r].tenant \in Tenants
      BY <1>1 DEF ReqInv, ReqOK, FindPCs
    <2>5. ReqInv(Finish(req[r], "dropped"), row, closes)
      BY <1>1, <2>2, <2>3, <2>4, FinishType
         DEF ReqInv, ReqOK, RaceOK, FindPCs, MutPCs, TurnPCs
    <2> QED BY <2>1, <2>5, LocalStep DEF Refind, IInv, LogOK
  <1>3. CASE OpenFor(req[r].cust) # {}
    <2>1. PICK c \in OpenFor(req[r].cust) :
            req' = [req EXCEPT ![r].pc = "record", ![r].conv = c,
                               ![r].snap = row[c]]
      BY <1>3 DEF Refind
    <2>2. c \in Conv /\ row[c].status # "none" /\ row[c].cust = req[r].cust
      BY DEF OpenFor, Live
    <2>3. /\ req' = [req EXCEPT ![r] = req'[r]]
          /\ req'[r] = [req[r] EXCEPT !.pc = "record", !.conv = c,
                                      !.snap = row[c]]
      BY <2>1 DEF IInv, ReqsInv
    <2>4. ReqInv(req'[r], row, closes)
      <3>1. row \in [Conv -> RowType] /\ req[r].pc \in FindPCs
        BY <1>1 DEF FindPCs, IInv, TableInv, RowsOK
      <3>2. ReqInv([req[r] EXCEPT !.pc = "record", !.conv = c,
                                  !.snap = row[c]], row, closes)
        BY <2>2, <3>1, AdoptInv, Zenon
      <3> QED BY <2>3, <3>2
    <2> QED BY <2>3, <2>4, LocalStep DEF Refind, IInv, LogOK
  <1> QED BY <1>2, <1>3

LEMMA RecordCustomerStep ==
    ASSUME IInv, NEW r \in Reqs, RecordCustomer(r)
    PROVE  IInv'
  <1> DEFINE q == [req[r] EXCEPT !.pc = "ticket"]
  <1>1. /\ req[r] \in ReqType /\ req[r].tenant \in Tenants
        /\ req[r].res = "running" /\ req[r].conv \in Conv
        /\ Owned(row, req[r].conv, req[r].tenant)
    BY InTurn DEF RecordCustomer, TurnPCs
  <1>2. req' = [req EXCEPT ![r] = req'[r]] /\ req'[r] = q
    BY DEF RecordCustomer, IInv, ReqsInv
  <1>3. /\ q \in ReqType /\ q.pc \in TurnPCs /\ q.tenant = req[r].tenant
        /\ q.conv = req[r].conv /\ q.res = req[r].res
    BY <1>1 DEF ReqType, PCs, TurnPCs
  <1>4. ReqInv(q, row, closes)
    BY <1>1, <1>3, TurnInv
  <1>5. LogOK'
    BY <1>1 DEF RecordCustomer, Message, IInv, LogOK
  <1> QED BY <1>2, <1>4, <1>5, LocalStep DEF RecordCustomer

LEMMA AutoCreateTicketStep ==
    ASSUME IInv, NEW r \in Reqs, AutoCreateTicket(r)
    PROVE  IInv'
  <1> DEFINE q == [req[r] EXCEPT !.pc = "respond", !.snap = NoRow]
  <1>1. /\ req[r] \in ReqType /\ req[r].tenant \in Tenants
        /\ req[r].res = "running" /\ req[r].conv \in Conv
        /\ Owned(row, req[r].conv, req[r].tenant)
    BY InTurn DEF AutoCreateTicket, TurnPCs
  <1>2. /\ req' = [req EXCEPT ![r] = req'[r]]
        /\ req'[r] = q \/ req'[r] = Finish(req[r], "ok")
    BY DEF AutoCreateTicket, IInv, ReqsInv
  <1>3. /\ q \in ReqType /\ q.pc \in TurnPCs /\ q.tenant = req[r].tenant
        /\ q.conv = req[r].conv /\ q.res = req[r].res
    BY <1>1, NoRowType DEF ReqType, PCs, TurnPCs
  <1>4. ReqInv(q, row, closes)
    BY <1>1, <1>3, TurnInv
  <1>5. ReqInv(Finish(req[r], "ok"), row, closes)
    BY <1>1, FinishInv
  <1>6. LogOK'
    BY <1>1 DEF AutoCreateTicket, IInv, LogOK
  <1> QED BY <1>2, <1>4, <1>5, <1>6, LocalStep DEF AutoCreateTicket

LEMMA RespondStep ==
    ASSUME IInv, NEW r \in Reqs, Respond(r)
    PROVE  IInv'
  <1> DEFINE q == [req[r] EXCEPT !.pc = "llm"]
  <1>1. /\ req[r] \in ReqType /\ req[r].tenant \in Tenants
        /\ req[r].res = "running" /\ req[r].conv \in Conv
        /\ Owned(row, req[r].conv, req[r].tenant)
    BY InTurn DEF Respond, TurnPCs
  <1>2. /\ req' = [req EXCEPT ![r] = req'[r]]
        /\ req'[r] = q \/ req'[r] = Finish(req[r], "ok")
    BY DEF Respond, IInv, ReqsInv
  <1>3. /\ q \in ReqType /\ q.pc \in TurnPCs /\ q.tenant = req[r].tenant
        /\ q.conv = req[r].conv /\ q.res = req[r].res
    BY <1>1 DEF ReqType, PCs, TurnPCs
  <1>4. ReqInv(q, row, closes)
    BY <1>1, <1>3, TurnInv
  <1>5. ReqInv(Finish(req[r], "ok"), row, closes)
    BY <1>1, FinishInv
  <1> QED BY <1>2, <1>4, <1>5, LocalStep DEF Respond, IInv, LogOK

(* Answer and EscalationNode settle what the AI says.                      *)
LEMMA SayInv ==
    ASSUME NEW q \in ReqType, NEW tbl, NEW cl, q.tenant \in Tenants,
           q.res = "running", q.conv \in Conv, Owned(tbl, q.conv, q.tenant),
           NEW w \in {"text", "ack", "fallback"}
    PROVE  ReqInv([q EXCEPT !.pc = "reply", !.said = w], tbl, cl)
  <1> DEFINE q2 == [q EXCEPT !.pc = "reply", !.said = w]
  <1>1. /\ q2 \in ReqType /\ q2.pc \in TurnPCs /\ q2.tenant = q.tenant
        /\ q2.conv = q.conv /\ q2.res = q.res
    BY DEF ReqType, PCs, TurnPCs
  <1> QED BY <1>1, TurnInv

LEMMA AnswerStep ==
    ASSUME IInv, NEW r \in Reqs, Answer(r) \/ EscalationNode(r)
    PROVE  IInv'
  <1>1. /\ req[r] \in ReqType /\ req[r].tenant \in Tenants
        /\ req[r].res = "running" /\ req[r].conv \in Conv
        /\ Owned(row, req[r].conv, req[r].tenant)
    BY InTurn DEF Answer, EscalationNode, TurnPCs
  <1>2. PICK w \in {"text", "ack", "fallback"} :
          req' = [req EXCEPT ![r].pc = "reply", ![r].said = w]
    BY DEF Answer, EscalationNode
  <1>3. /\ req' = [req EXCEPT ![r] = req'[r]]
        /\ req'[r] = [req[r] EXCEPT !.pc = "reply", !.said = w]
    BY <1>2 DEF IInv, ReqsInv
  <1>4. ReqInv([req[r] EXCEPT !.pc = "reply", !.said = w], row, closes)
    BY <1>1, SayInv
  <1>5. UNCHANGED <<row, messages, tickets, qa, history>>
    BY DEF Answer, EscalationNode
  <1> QED BY <1>3, <1>4, <1>5, LocalStep DEF IInv, LogOK

LEMMA ToolRoundStep ==
    ASSUME IInv, NEW r \in Reqs, ToolRound(r)
    PROVE  IInv'
  <1> DEFINE q == [req[r] EXCEPT !.iter = @ + 1]
  <1>1. /\ req[r] \in ReqType /\ req[r].tenant \in Tenants
        /\ req[r].res = "running" /\ req[r].conv \in Conv
        /\ Owned(row, req[r].conv, req[r].tenant)
    <2>1. q.pc = req[r].pc
      BY DEF IInv, ReqsInv, ReqType
    <2> QED BY <2>1, InTurn DEF ToolRound, TurnPCs
  <1>2. /\ req' = [req EXCEPT ![r] = req'[r]]
        /\ \/ req'[r] = [q EXCEPT !.pc = "reply", !.said = "fallback"]
           \/ req'[r] = q
           \/ req'[r] = CallEscalate(q, "tool")
    BY DEF ToolRound, IInv, ReqsInv
  <1>3. /\ q \in ReqType /\ q.tenant = req[r].tenant /\ q.pc = req[r].pc
        /\ q.conv = req[r].conv /\ q.res = req[r].res
    BY <1>1 DEF ReqType
  <1>4. ReqInv([q EXCEPT !.pc = "reply", !.said = "fallback"], row, closes)
    BY <1>1, <1>3, SayInv
  <1>5. ReqInv(q, row, closes)
    BY <1>1, <1>3, TurnInv DEF ToolRound, TurnPCs
  <1>6. ReqInv(CallEscalate(q, "tool"), row, closes)
    BY <1>1, <1>3, EscalateInv
  <1>7. ReqInv(req'[r], row, closes)
    BY <1>2, <1>4, <1>5, <1>6
  <1> QED BY <1>2, <1>7, LocalStep DEF ToolRound, IInv, LogOK

LEMMA RecordReplyStep ==
    ASSUME IInv, NEW r \in Reqs, RecordReply(r)
    PROVE  IInv'
  <1> DEFINE q == [req[r] EXCEPT !.pc = "qa"]
  <1>1. /\ req[r] \in ReqType /\ req[r].tenant \in Tenants
        /\ req[r].res = "running" /\ req[r].conv \in Conv
        /\ Owned(row, req[r].conv, req[r].tenant)
    BY InTurn DEF RecordReply, TurnPCs
  <1>2. req' = [req EXCEPT ![r] = req'[r]] /\ req'[r] = q
    BY DEF RecordReply, IInv, ReqsInv
  <1>3. /\ q \in ReqType /\ q.pc \in TurnPCs /\ q.tenant = req[r].tenant
        /\ q.conv = req[r].conv /\ q.res = req[r].res
    BY <1>1 DEF ReqType, PCs, TurnPCs
  <1>4. ReqInv(q, row, closes)
    BY <1>1, <1>3, TurnInv
  <1>5. LogOK'
    BY <1>1 DEF RecordReply, Message, IInv, LogOK
  <1> QED BY <1>2, <1>4, <1>5, LocalStep DEF RecordReply

LEMMA EnqueueQAStep ==
    ASSUME IInv, NEW r \in Reqs, EnqueueQA(r)
    PROVE  IInv'
  <1>1. /\ req[r] \in ReqType /\ req[r].tenant \in Tenants
        /\ req[r].res = "running" /\ req[r].conv \in Conv
        /\ Owned(row, req[r].conv, req[r].tenant)
    BY InTurn DEF EnqueueQA, TurnPCs
  <1>2. /\ req' = [req EXCEPT ![r] = req'[r]]
        /\ \/ req'[r] = CallEscalate(req[r], "handoff")
           \/ req'[r] = Finish(req[r], "ok")
    BY DEF EnqueueQA, IInv, ReqsInv
  <1>3. ReqInv(CallEscalate(req[r], "handoff"), row, closes)
    BY <1>1, EscalateInv
  <1>4. ReqInv(Finish(req[r], "ok"), row, closes)
    BY <1>1, FinishInv
  <1>5. LogOK'
    BY DEF EnqueueQA, IInv, LogOK
  <1> QED BY <1>2, <1>3, <1>4, <1>5, LocalStep DEF EnqueueQA

(* What the invariant says of a request in a mutation.                     *)
LEMMA InMutation ==
    ASSUME IInv, NEW r \in Reqs, req[r].pc \in MutPCs
    PROVE  /\ req[r] \in ReqType
           /\ req[r].tenant \in Tenants
           /\ req[r].res = "running"
           /\ req[r].conv \in Conv
           /\ row[req[r].conv] \in RowType
           /\ row[req[r].conv].status # "none"
           /\ req[r].op \in MutOps
           /\ req[r].ret \in {"api", "tool", "handoff"}
           /\ req[r].ret # "api" => Owned(row, req[r].conv, req[r].tenant)
  <1>1. req[r] \in ReqType /\ ReqOK(req[r], row) /\ RaceOK(req[r], row, closes)
    BY DEF IInv, ReqsInv, ReqInv
  <1>2. row \in [Conv -> RowType]
    BY DEF IInv, TableInv, RowsOK
  <1> QED BY <1>1, <1>2 DEF ReqOK, RaceOK, MutPCs, TurnPCs

LEMMA ReadStep ==
    ASSUME IInv, NEW r \in Reqs, Read(r)
    PROVE  IInv'
  <1> DEFINE q == [req[r] EXCEPT !.pc = "load", !.snap = row[req[r].conv]]
  <1>1. /\ req[r] \in ReqType /\ req[r].tenant \in Tenants
        /\ req[r].res = "running" /\ req[r].conv \in Conv
        /\ row[req[r].conv] \in RowType /\ row[req[r].conv].status # "none"
        /\ req[r].op \in MutOps /\ req[r].ret \in {"api", "tool", "handoff"}
        /\ req[r].ret # "api" => Owned(row, req[r].conv, req[r].tenant)
    BY InMutation DEF Read, MutPCs
  <1>2. /\ req' = [req EXCEPT ![r] = req'[r]]
        /\ \/ /\ req'[r] = q
              /\ Visible(req[r].conv, req[r].tenant)
           \/ req'[r] = Resume(req[r], "notfound")
    BY DEF Read, IInv, ReqsInv
  <1>3. /\ q \in ReqType /\ q.pc = "load" /\ q.tenant = req[r].tenant
        /\ q.conv = req[r].conv /\ q.res = req[r].res /\ q.op = req[r].op
        /\ q.ret = req[r].ret
    BY <1>1 DEF ReqType, PCs
  <1>4. Visible(req[r].conv, req[r].tenant) => ReqInv(q, row, closes)
    BY <1>1, <1>3 DEF ReqInv, ReqOK, RaceOK, Owned, Visible, FindPCs, MutPCs,
                      TurnPCs
  <1>5. ReqInv(Resume(req[r], "notfound"), row, closes)
    BY <1>1, ResumeInv
  <1>6. ReqInv(req'[r], row, closes)
    BY <1>2, <1>4, <1>5
  <1> QED BY <1>2, <1>6, LocalStep DEF Read, IInv, LogOK

LEMMA LoadStep ==
    ASSUME IInv, NEW r \in Reqs, Load(r)
    PROVE  IInv'
  <1> DEFINE q == [req[r] EXCEPT !.pc = "flush", !.load = row[req[r].conv]]
  <1>1. /\ req[r] \in ReqType /\ req[r].tenant \in Tenants
        /\ req[r].res = "running" /\ req[r].conv \in Conv
        /\ row[req[r].conv] \in RowType /\ row[req[r].conv].status # "none"
        /\ req[r].op \in MutOps /\ req[r].ret \in {"api", "tool", "handoff"}
    BY InMutation DEF Load, MutPCs
  <1>2. Owned(row, req[r].conv, req[r].tenant)
    BY InTurn DEF Load
  <1>3. req' = [req EXCEPT ![r] = req'[r]] /\ req'[r] = q
    BY DEF Load, IInv, ReqsInv
  <1>4. /\ q \in ReqType /\ q.pc = "flush" /\ q.tenant = req[r].tenant
        /\ q.conv = req[r].conv /\ q.res = req[r].res /\ q.op = req[r].op
        /\ q.ret = req[r].ret
    BY <1>1 DEF ReqType, PCs
  <1>5. ReqInv(q, row, closes)
    BY <1>1, <1>2, <1>4 DEF ReqInv, ReqOK, RaceOK, FindPCs, MutPCs, TurnPCs
  <1> QED BY <1>3, <1>5, LocalStep DEF Load, IInv, LogOK

LEMMA ResolveStep ==
    ASSUME IInv, NEW r \in Reqs, Resolve(r)
    PROVE  IInv'
  <1>1. /\ req[r] \in ReqType /\ req[r].tenant \in Tenants
        /\ req[r].res = "running" /\ req[r].conv \in Conv
        /\ row[req[r].conv] \in RowType /\ row[req[r].conv].status # "none"
        /\ req[r].op \in MutOps /\ req[r].ret \in {"api", "tool", "handoff"}
    BY InMutation DEF Resolve, MutPCs
  <1>2. Owned(row, req[r].conv, req[r].tenant)
    BY InTurn DEF Resolve
  <1>3. ReqInv(Resume(req[r], "ok"), row, closes)
    BY <1>1, <1>2, ResumeInv
  <1>4. CASE req' = [req EXCEPT ![r] = Resume(req[r], "ok")]
    <2>1. req'[r] = Resume(req[r], "ok")
      BY <1>4 DEF IInv, ReqsInv
    <2> QED BY <1>3, <1>4, <2>1, LocalStep DEF Resolve, IInv, LogOK
  <1>5. ASSUME NEW a \in LeastBusy(req[r].tenant),
               req' = [req EXCEPT ![r] =
                         [req[r] EXCEPT !.pc = "read", !.op = "autoassign",
                                        !.agent = a, !.snap = NoRow,
                                        !.load = NoRow]]
        PROVE  IInv'
    <2> DEFINE q == [req[r] EXCEPT !.pc = "read", !.op = "autoassign",
                                   !.agent = a, !.snap = NoRow, !.load = NoRow]
    <2>1. req' = [req EXCEPT ![r] = req'[r]] /\ req'[r] = q
      BY <1>5 DEF IInv, ReqsInv
    <2>2. a \in Agents
      BY <1>1 DEF LeastBusy, Agents
    <2>3. /\ q.pc = "read" /\ q.tenant = req[r].tenant
          /\ q.conv = req[r].conv /\ q.res = req[r].res
          /\ q.op = "autoassign" /\ q.ret = req[r].ret
      BY <1>1 DEF ReqType
    <2>4. q \in ReqType
      BY <1>1, <2>2, NoRowType DEF ReqType, PCs, Ops
    <2>5. ReqInv(q, row, closes)
      BY <1>1, <1>2, <2>3, <2>4
         DEF ReqInv, ReqOK, RaceOK, FindPCs, MutPCs, TurnPCs, MutOps
    <2> QED BY <2>1, <2>5, LocalStep DEF Resolve, IInv, LogOK
  <1> QED BY <1>4, <1>5 DEF Resolve

LEMMA AbortStep ==
    ASSUME IInv, NEW r \in Reqs, Abort(r)
    PROVE  IInv'
  <1>1. req[r] \in ReqType /\ req[r].tenant \in Tenants
    BY DEF Abort, IInv, ReqsInv, ReqInv, ReqOK
  <1>2. /\ req' = [req EXCEPT ![r] = req'[r]]
        /\ req'[r] = Finish(req[r], "aborted")
    BY DEF Abort, IInv, ReqsInv
  <1>3. ReqInv(Finish(req[r], "aborted"), row, closes)
    BY <1>1, FinishInv
  <1> QED BY <1>2, <1>3, LocalStep DEF Abort, IInv, LogOK

LEMMA PostAgentMessageStep ==
    ASSUME IInv, NEW r \in Reqs, PostAgentMessage(r)
    PROVE  IInv'
  <1>1. PICK t \in Tenants, c \in Conv : \E a \in Staff[t] :
          LET q == [NewReq EXCEPT !.op = "message", !.tenant = t, !.conv = c,
                                  !.agent = a]
          IN  IF Visible(c, t)
              THEN /\ messages' = messages \cup {Message(r, c, "agent")}
                   /\ req' = [req EXCEPT ![r] = Finish(q, "ok")]
              ELSE /\ req' = [req EXCEPT ![r] = Finish(q, "notfound")]
                   /\ UNCHANGED messages
    BY DEF PostAgentMessage
  <1>2. PICK a \in Staff[t] :
          LET q == [NewReq EXCEPT !.op = "message", !.tenant = t, !.conv = c,
                                  !.agent = a]
          IN  IF Visible(c, t)
              THEN /\ messages' = messages \cup {Message(r, c, "agent")}
                   /\ req' = [req EXCEPT ![r] = Finish(q, "ok")]
              ELSE /\ req' = [req EXCEPT ![r] = Finish(q, "notfound")]
                   /\ UNCHANGED messages
    BY <1>1
  <1> DEFINE q == [NewReq EXCEPT !.op = "message", !.tenant = t, !.conv = c,
                                 !.agent = a]
  <1>3. q \in ReqType /\ q.tenant = t
    BY NoRowType DEF NewReq, ReqType, PCs, Ops, Agents
  <1> HIDE DEF q
  <1>4. /\ req' = [req EXCEPT ![r] = req'[r]]
        /\ req'[r] = Finish(q, "ok") \/ req'[r] = Finish(q, "notfound")
    BY <1>2 DEF IInv, ReqsInv, q
  <1>5. ReqInv(req'[r], row, closes)
    BY <1>3, <1>4, FinishInv
  <1>6. LogOK'
    BY <1>2 DEF PostAgentMessage, Message, IInv, LogOK
  <1> QED BY <1>4, <1>5, <1>6, LocalStep DEF PostAgentMessage

-----------------------------------------------------------------------------
(* The three actions that write the conversations table.                   *)

(* The unique index: writing an admitted row keeps live customers unique.  *)
LEMMA IndexStep ==
    ASSUME IInv, NEW c \in Conv, NEW x \in RowType, IndexAdmits(c, x),
           row' = [row EXCEPT ![c] = x]
    PROVE  OneOpenPerCustomer'
  <1>1. row \in [Conv -> RowType] /\ OneOpenPerCustomer
    BY DEF IInv, TableInv, RowsOK
  <1>2. row'[c] = x /\ \A d \in Conv : d # c => row'[d] = row[d]
    BY <1>1
  <1> SUFFICES ASSUME NEW d \in Conv, NEW e \in Conv,
                      Live(row'[d]), Live(row'[e]),
                      row'[d].cust = row'[e].cust
               PROVE  d = e
    BY DEF OneOpenPerCustomer, Live
  <1> QED BY <1>1, <1>2 DEF OneOpenPerCustomer, IndexAdmits

LEMMA InsertStep ==
    ASSUME IInv, NEW r \in Reqs, Insert(r)
    PROVE  IInv'
  <1> DEFINE k == req[r].cust
  <1>1. /\ req[r] \in ReqType /\ req[r].pc = "insert"
        /\ ReqInv(req[r], row, closes)
    BY DEF IInv, ReqsInv, Insert
  <1>2. k \in Customers /\ req[r].tenant \in Tenants /\ req[r].res = "running"
    BY <1>1 DEF ReqInv, ReqOK, RaceOK, FindPCs
  <1>3. row \in [Conv -> RowType]
    BY DEF IInv, TableInv, RowsOK
  <1>4. PICK c \in Conv :
          /\ row[c].status = "none"
          /\ IF IndexAdmits(c, NewRow(k))
             THEN /\ row' = [row EXCEPT ![c] = NewRow(k)]
                  /\ req' = [req EXCEPT ![r].pc = "record", ![r].conv = c,
                                        ![r].snap = NewRow(k)]
             ELSE /\ req' = [req EXCEPT ![r].pc = "refind"]
                  /\ UNCHANGED row
    BY DEF Insert
  <1>5. CASE IndexAdmits(c, NewRow(k))
    <2>1. /\ NewRow(k) \in RowType /\ NewRow(k).status = "open"
          /\ NewRow(k).cust = k /\ NewRow(k).agent = NULL /\ NewRow(k).ai
      BY <1>2 DEF NewRow, RowType, Statuses
    <2> HIDE DEF k
    <2>2. row' = [row EXCEPT ![c] = NewRow(k)]
      BY <1>4, <1>5
    <2>3. /\ row' \in [Conv -> RowType] /\ row'[c] = NewRow(k)
          /\ \A d \in Conv : d # c => row'[d] = row[d]
      BY <1>3, <2>1, <2>2
    <2>4. UNCHANGED <<messages, tickets, qa, history>>
      BY DEF Insert
    <2>5. Evolves(row, row', closes, closes')
      BY <1>4, <2>1, <2>3, <2>4 DEF Evolves, Live, history
    <2>6. /\ req' = [req EXCEPT ![r] = req'[r]]
          /\ req'[r] = [req[r] EXCEPT !.pc = "record", !.conv = c,
                                      !.snap = row'[c]]
      BY <1>4, <1>5, <2>3 DEF IInv, ReqsInv
    <2>7. ReqInv([req[r] EXCEPT !.pc = "record", !.conv = c,
                                !.snap = row'[c]], row', closes')
      <3>1. /\ row'[c].status # "none" /\ row'[c].cust = req[r].cust
            /\ req[r].pc \in FindPCs
        BY <1>1, <2>1, <2>3 DEF FindPCs, k
      <3> QED BY <2>3, <3>1, AdoptInv, Zenon
    <2>8. ReqsInv'
      BY <2>5, <2>6, <2>7, ReqsStep
    <2>9. OneOpenPerCustomer'
      BY <1>5, <2>1, <2>2, IndexStep
    <2>10. RowsOK'
      BY <1>2, <2>1, <2>3, ConstantsAssumption
         DEF IInv, TableInv, RowsOK, k
    <2>11. UntaintedLockStep'
      BY <2>1, <2>3, <2>4
         DEF IInv, TableInv, UntaintedLockStep, LockStep, history
    <2>12. HistoryOK' /\ ClaimBalance'
      BY <1>4, <2>3, <2>4
         DEF IInv, TableInv, RowsOK, HistoryOK, ClaimBalance, history
    <2> QED BY <2>4, <2>8, <2>9, <2>10, <2>11, <2>12
               DEF IInv, TableInv, LogOK
  <1>6. CASE ~IndexAdmits(c, NewRow(k))
    <2> DEFINE q == [req[r] EXCEPT !.pc = "refind"]
    <2>1. req' = [req EXCEPT ![r] = req'[r]] /\ req'[r] = q /\ row' = row
      BY <1>4, <1>6 DEF IInv, ReqsInv
    <2>2. PICK d \in Conv : Live(row[d]) /\ row[d].cust = k
      BY <1>6 DEF IndexAdmits, NewRow
    <2>3. /\ q \in ReqType /\ q.pc = "refind" /\ q.cust = k
          /\ q.tenant = req[r].tenant /\ q.res = "running"
      BY <1>1, <1>2 DEF ReqType, PCs
    <2>4. q.tenant = TenantOf[q.cust]
      BY <1>1, <2>3 DEF ReqInv, ReqOK, FindPCs
    <2>5. ReqInv(q, row, closes)
      BY <1>2, <2>2, <2>3, <2>4
         DEF ReqInv, ReqOK, RaceOK, FindPCs, MutPCs, TurnPCs
    <2> QED BY <2>1, <2>5, LocalStep DEF Insert, IInv, LogOK
  <1> QED BY <1>5, <1>6

LEMMA ClaimStep ==
    ASSUME IInv, NEW r \in Reqs, Claim(r)
    PROVE  IInv'
  <1> DEFINE Q(t, c, a) == [NewReq EXCEPT !.op = "claim", !.tenant = t,
                                          !.conv = c, !.agent = a]
  <1>1. PICK t \in Tenants, c \in Conv : \E a \in Staff[t] :
          /\ row[c].status # "none"
          /\ IF Visible(c, t) /\ Claimable(row[c])
             THEN /\ row' = [row EXCEPT ![c].agent = a, ![c].ai = FALSE]
                  /\ claims' = [claims EXCEPT ![c] = @ + 1]
                  /\ req' = [req EXCEPT ![r] = Finish(Q(t, c, a), "ok")]
             ELSE /\ req' = [req EXCEPT ![r] =
                               Finish(Q(t, c, a),
                                      IF Visible(c, t) THEN "conflict"
                                      ELSE "notfound")]
                  /\ UNCHANGED <<row, claims>>
    BY DEF Claim
  <1>2. PICK a \in Staff[t] :
          /\ row[c].status # "none"
          /\ IF Visible(c, t) /\ Claimable(row[c])
             THEN /\ row' = [row EXCEPT ![c].agent = a, ![c].ai = FALSE]
                  /\ claims' = [claims EXCEPT ![c] = @ + 1]
                  /\ req' = [req EXCEPT ![r] = Finish(Q(t, c, a), "ok")]
             ELSE /\ req' = [req EXCEPT ![r] =
                               Finish(Q(t, c, a),
                                      IF Visible(c, t) THEN "conflict"
                                      ELSE "notfound")]
                  /\ UNCHANGED <<row, claims>>
    BY <1>1
  <1> DEFINE q == Q(t, c, a)
  <1>3. q \in ReqType /\ q.tenant = t
    BY NoRowType DEF NewReq, ReqType, PCs, Ops, Agents
  <1> HIDE DEF q
  <1>4. /\ req' = [req EXCEPT ![r] = req'[r]]
        /\ \/ req'[r] = Finish(q, "ok")
           \/ req'[r] = Finish(q, "conflict")
           \/ req'[r] = Finish(q, "notfound")
    BY <1>2 DEF IInv, ReqsInv, q
  <1>5. ReqInv(req'[r], row', closes')
    BY <1>3, <1>4, FinishInv
  <1>6. LogOK'
    BY DEF Claim, IInv, LogOK
  <1>7. CASE Visible(c, t) /\ Claimable(row[c])
    <2>1. /\ row' = [row EXCEPT ![c].agent = a, ![c].ai = FALSE]
          /\ claims' = [claims EXCEPT ![c] = @ + 1]
          /\ UNCHANGED <<tainted, closes, releases>>
      BY <1>2, <1>7 DEF Claim
    <2>2. row \in [Conv -> RowType] /\ row[c] \in RowType
      BY DEF IInv, TableInv, RowsOK
    <2>3. a \in Agents
      BY DEF Agents
    <2> DEFINE x == [row[c] EXCEPT !.agent = a, !.ai = FALSE]
    <2>4. /\ x \in RowType /\ x.status = row[c].status
          /\ x.cust = row[c].cust /\ ~x.ai
      BY <2>2, <2>3 DEF RowType
    <2>5. row' = [row EXCEPT ![c] = x]
      BY <2>1, <2>2
    <2> HIDE DEF x
    <2>6. /\ row' \in [Conv -> RowType] /\ row'[c] = x
          /\ \A d \in Conv : d # c => row'[d] = row[d]
      BY <2>2, <2>4, <2>5
    <2>7. IndexAdmits(c, x)
      BY <1>7, <2>4 DEF IndexAdmits, Claimable, Live, IInv, TableInv,
                        OneOpenPerCustomer
    <2>8. OneOpenPerCustomer'
      BY <2>4, <2>5, <2>7, IndexStep
    <2>9. Evolves(row, row', closes, closes')
      BY <2>1, <2>4, <2>6 DEF Evolves, Live
    <2>10. ReqsInv'
      BY <1>4, <1>5, <2>9, ReqsStep
    <2>11. RowsOK'
      BY <1>2, <2>4, <2>6 DEF IInv, TableInv, RowsOK
    <2>12. UntaintedLockStep'
      BY <1>7, <2>1, <2>4, <2>6
         DEF IInv, TableInv, UntaintedLockStep, LockStep, Claimable
    <2>13. HistoryOK' /\ ClaimBalance'
      <3>1. HistoryOK'
        BY <2>1 DEF IInv, TableInv, HistoryOK
      <3>2. ASSUME NEW d \in Conv
            PROVE  /\ row'[d].agent = NULL => claims'[d] <= releases'[d]
                   /\ claims'[d] <= releases'[d] + 1
        <4>1. CASE d = c
          <5>1. x.agent = a
            BY <2>2, <2>3 DEF RowType, x
          <5>2. a # NULL
            BY ConstantsAssumption
          <5>3. claims[c] <= releases[c]
            BY <1>7 DEF Claimable, IInv, TableInv, ClaimBalance
          <5>4. /\ claims'[c] = claims[c] + 1 /\ releases'[c] = releases[c]
                /\ claims[c] \in Nat /\ releases[c] \in Nat
            BY <2>1 DEF IInv, TableInv, HistoryOK
          <5> QED BY <2>6, <4>1, <5>1, <5>2, <5>3, <5>4
        <4>2. CASE d # c
          BY <2>1, <2>6, <4>2 DEF IInv, TableInv, HistoryOK, ClaimBalance
        <4> QED BY <4>1, <4>2
      <3> QED BY <3>1, <3>2 DEF ClaimBalance
    <2> QED BY <1>6, <2>8, <2>10, <2>11, <2>12, <2>13 DEF IInv, TableInv
  <1>8. CASE ~(Visible(c, t) /\ Claimable(row[c]))
    <2>1. UNCHANGED <<row, history>>
      BY <1>2, <1>8 DEF Claim, history
    <2>2. ReqInv(req'[r], row, closes)
      BY <1>5, <2>1 DEF history
    <2> QED BY <1>4, <1>6, <2>1, <2>2, LocalStep
  <1> QED BY <1>7, <1>8

(* Every service method computes a row whose flags are in lock-step.       *)
LEMMA TargetLockStep ==
    ASSUME NEW op \in MutOps, NEW x \in RowType,
           NEW a \in Agents \cup {NULL}
    PROVE  LockStep(Target(op, x, a))
  BY DEF MutOps, Target, LockStep, RowType

LEMMA FlushStep ==
    ASSUME IInv, NEW r \in Reqs, Flush(r)
    PROVE  IInv'
  <1> DEFINE q == req[r]
             c == q.conv
             tgt == Target(q.op, q.snap, q.agent)
             new == Merge(row[c], q.load, tgt)
  <1>1. /\ q \in ReqType /\ q.tenant \in Tenants /\ q.res = "running"
        /\ c \in Conv /\ row[c] \in RowType /\ row[c].status # "none"
        /\ q.op \in MutOps /\ q.ret \in {"api", "tool", "handoff"}
    BY InMutation DEF Flush, MutPCs
  <1>2. Owned(row, c, q.tenant)
    BY InTurn DEF Flush
  <1>3. q.snap \in RowType /\ q.load \in RowType
        /\ q.agent \in Agents \cup {NULL}
    BY <1>1 DEF ReqType
  <1>4. tgt \in RowType /\ tgt.status # "none" /\ LockStep(tgt)
    BY <1>1, <1>3, TargetType, TargetLockStep
  <1> HIDE DEF tgt
  <1>5. new \in RowType /\ new.cust = row[c].cust /\ new.status # "none"
    BY <1>1, <1>3, <1>4, MergeType
  <1>6. row[c] = q.load => LockStep(new)
    BY <1>1, <1>4, MergeFresh DEF LockStep
  <1> HIDE DEF new
  <1>7. row \in [Conv -> RowType]
    BY DEF IInv, TableInv, RowsOK
  <1>8. LogOK'
    BY DEF Flush, IInv, LogOK
  <1>9. CASE IndexAdmits(c, new)
    <2>1. /\ row' = [row EXCEPT ![c] = new]
          /\ req' = [req EXCEPT ![r] =
                       IF q.op = "escalate" THEN [q EXCEPT !.pc = "resolve"]
                       ELSE Resume(q, "ok")]
          /\ tainted' = IF row[c] = q.load THEN tainted ELSE tainted \cup {c}
          /\ closes' = IF new.status = "closed" THEN closes \cup {c}
                       ELSE closes
          /\ releases' = IF row[c].agent # NULL /\ new.agent = NULL
                         THEN [releases EXCEPT ![c] = @ + 1] ELSE releases
          /\ claims' = claims
      BY <1>9 DEF Flush, new, tgt
    <2>2. /\ row' \in [Conv -> RowType] /\ row'[c] = new
          /\ \A d \in Conv : d # c => row'[d] = row[d]
      BY <1>1, <1>5, <1>7, <2>1
    <2>3. Evolves(row, row', closes, closes')
      <3>1. closes \subseteq closes'
        BY <2>1
      <3>2. Live(new) \/ c \in closes'
        BY <1>5, <2>1 DEF Live, RowType, Statuses
      <3> QED BY <1>5, <2>2, <3>1, <3>2 DEF Evolves
    <2>4. Owned(row', c, q.tenant)
      BY <1>1, <1>2, <1>5, <2>2 DEF Owned
    <2>5. ReqInv(Resume(q, "ok"), row', closes')
      BY <1>1, <2>4, ResumeInv
    <2>6. ReqInv([q EXCEPT !.pc = "resolve"], row', closes')
      <3> DEFINE q2 == [q EXCEPT !.pc = "resolve"]
      <3>1. /\ q2 \in ReqType /\ q2.pc = "resolve" /\ q2.tenant = q.tenant
            /\ q2.conv = c /\ q2.res = "running" /\ q2.op = q.op
            /\ q2.ret = q.ret
        BY <1>1 DEF ReqType, PCs
      <3> HIDE DEF q2
      <3>2. ReqInv(q2, row', closes')
        BY <1>1, <2>4, <3>1
           DEF ReqInv, ReqOK, RaceOK, Owned, FindPCs, MutPCs, TurnPCs
      <3> QED BY <3>2 DEF q2
    <2>7. /\ req' = [req EXCEPT ![r] = req'[r]]
          /\ req'[r] = [q EXCEPT !.pc = "resolve"] \/ req'[r] = Resume(q, "ok")
      BY <2>1 DEF IInv, ReqsInv
    <2>8. ReqsInv'
      BY <2>3, <2>5, <2>6, <2>7, ReqsStep
    <2>9. OneOpenPerCustomer'
      BY <1>1, <1>5, <1>9, <2>1, IndexStep
    <2>10. RowsOK'
      BY <1>1, <1>5, <2>2 DEF IInv, TableInv, RowsOK
    <2>11. HistoryOK'
      BY <1>1, <2>1 DEF IInv, TableInv, HistoryOK
    <2>12. UntaintedLockStep'
      <3> SUFFICES ASSUME NEW d \in Conv, d \notin tainted'
                   PROVE  LockStep(row'[d])
        BY DEF UntaintedLockStep, LockStep
      <3>1. CASE d = c
        BY <1>6, <2>1, <2>2, <3>1
      <3>2. CASE d # c
        BY <2>1, <2>2, <3>2 DEF IInv, TableInv, UntaintedLockStep
      <3> QED BY <3>1, <3>2
    <2>13. ClaimBalance'
      <3> SUFFICES ASSUME NEW d \in Conv
                   PROVE  /\ row'[d].agent = NULL => claims'[d] <= releases'[d]
                          /\ claims'[d] <= releases'[d] + 1
        BY DEF ClaimBalance
      <3>1. /\ claims'[d] = claims[d]
            /\ claims[d] \in Nat /\ releases[d] \in Nat
            /\ row[d].agent = NULL => claims[d] <= releases[d]
            /\ claims[d] <= releases[d] + 1
        BY <2>1 DEF IInv, TableInv, HistoryOK, ClaimBalance
      <3>2. \/ releases'[d] = releases[d]
            \/ releases'[d] = releases[d] + 1
        BY <1>1, <2>1, <3>1 DEF IInv, TableInv, HistoryOK
      <3>3. CASE d # c
        BY <2>2, <3>1, <3>2, <3>3
      <3>4. CASE d = c
        <4>1. row[c].agent # NULL /\ new.agent = NULL
                => releases'[c] = releases[c] + 1
          BY <1>1, <2>1 DEF IInv, TableInv, HistoryOK
        <4> QED BY <2>2, <3>1, <3>2, <3>4, <4>1
      <3> QED BY <3>3, <3>4
    <2> QED BY <1>8, <2>8, <2>9, <2>10, <2>11, <2>12, <2>13 DEF IInv, TableInv
  <1>10. CASE ~IndexAdmits(c, new)
    <2>1. /\ req' = [req EXCEPT ![r] = Resume(q, "error")]
          /\ UNCHANGED <<row, history>>
      BY <1>10 DEF Flush, new, tgt, history
    <2>2. req'[r] = Resume(q, "error")
      BY <2>1 DEF IInv, ReqsInv
    <2>3. ReqInv(Resume(q, "error"), row, closes)
      BY <1>1, <1>2, ResumeInv
    <2> QED BY <1>8, <2>1, <2>2, <2>3, LocalStep
  <1> QED BY <1>9, <1>10

-----------------------------------------------------------------------------
LEMMA InitInv == Init => IInv
  <1> SUFFICES ASSUME Init PROVE IInv
    OBVIOUS
  <1>1. TableInv
    BY NoRowType, ConstantsAssumption
       DEF Init, TableInv, RowsOK, HistoryOK, OneOpenPerCustomer,
           UntaintedLockStep, LockStep, ClaimBalance, NoRow, Live
  <1>2. LogOK
    BY DEF Init, LogOK
  <1>3. NewReq.pc = "idle" /\ NewReq.res = "running"
    BY DEF NewReq
  <1>4. ReqInv(NewReq, row, closes)
    BY <1>3, NewReqType
       DEF ReqInv, ReqOK, RaceOK, FindPCs, MutPCs, TurnPCs
  <1>5. ReqsInv
    BY <1>4, NewReqType DEF Init, ReqsInv
  <1> QED BY <1>1, <1>2, <1>5 DEF IInv

(* Every step of every request preserves the invariant.                    *)
LEMMA NextInv == IInv /\ [Next]_vars => IInv'
  <1> SUFFICES ASSUME IInv, [Next]_vars PROVE IInv'
    OBVIOUS
  <1>1. ASSUME NEW r \in Reqs, Start(r) PROVE IInv'
    BY <1>1, StartInboundStep, StartMutationStep, ClaimStep,
       PostAgentMessageStep DEF Start
  <1>2. ASSUME NEW r \in Reqs, Mutate(r) PROVE IInv'
    BY <1>2, ReadStep, LoadStep, FlushStep, ResolveStep DEF Mutate
  <1>3. ASSUME NEW r \in Reqs, Turn(r) PROVE IInv'
    BY <1>3, FindStep, InsertStep, RefindStep, RecordCustomerStep,
       AutoCreateTicketStep, RespondStep, AnswerStep, ToolRoundStep,
       RecordReplyStep, EnqueueQAStep DEF Turn
  <1>4. ASSUME NEW r \in Reqs, Abort(r) PROVE IInv'
    BY <1>4, AbortStep
  <1>5. CASE UNCHANGED vars
    BY <1>5 DEF vars, IInv, TableInv, RowsOK, HistoryOK, OneOpenPerCustomer,
                UntaintedLockStep, ClaimBalance, LogOK, ReqsInv
  <1> QED BY <1>1, <1>2, <1>3, <1>4, <1>5 DEF Next, Step, Idle

(* The inductive invariant holds in every reachable state.                 *)
LEMMA Invariance == Spec => []IInv
  BY InitInv, NextInv, PTL DEF Spec

(* The tables and the requests are well typed.                             *)
THEOREM TypeCorrect == Spec => []TypeOK
  <1>1. IInv => TypeOK
    BY DEF IInv, TableInv, RowsOK, HistoryOK, LogOK, ReqsInv, TypeOK
  <1> QED BY <1>1, Invariance, PTL

(* However inserts, closings and reopenings race, a customer never has two *)
(* conversations that are not closed.                                      *)
THEOREM UniqueOpen == Spec => []OneOpenPerCustomer
  <1>1. IInv => OneOpenPerCustomer
    BY DEF IInv, TableInv
  <1> QED BY <1>1, Invariance, PTL

(* Only a write over a value that was not loaded can break the lock-step   *)
(* of status, assignee and AI flag.                                        *)
THEOREM LockStepUnlessRaced == Spec => []UntaintedLockStep
  <1>1. IInv => UntaintedLockStep
    BY DEF IInv, TableInv
  <1> QED BY <1>1, Invariance, PTL

(* A claimed conversation cannot be claimed again before it was released.  *)
THEOREM ClaimExclusive == Spec => []ClaimsBounded
  <1>1. IInv => ClaimsBounded
    BY DEF IInv, TableInv, ClaimBalance, ClaimsBounded
  <1> QED BY <1>1, Invariance, PTL

(* A message is lost to the insert race only if the customer's             *)
(* conversation was closed.                                                *)
THEOREM DropNeedsClose == Spec => []DroppedOnlyAfterClose
  <1>1. IInv => DroppedOnlyAfterClose
    BY DEF IInv, ReqsInv, ReqInv, RaceOK, DroppedOnlyAfterClose
  <1> QED BY <1>1, Invariance, PTL

-----------------------------------------------------------------------------
(* Tenant isolation.                                                       *)

(* It is enough to look at the request that moves and the conversation it  *)
(* writes.                                                                 *)
LEMMA OwnTenant ==
    ASSUME NEW r \in Reqs, NEW c \in Conv,
           \A s \in Reqs : s # r => req'[s] = req[s],
           \A d \in Conv : d # c => row'[d] = row[d],
           TenantOf[row'[c].cust] = req'[r].tenant,
           \A m \in messages' \ messages : m.conv = c /\ m.by = r
    PROVE  WritesOwnTenant
  BY DEF WritesOwnTenant

LEMMA NoWrite ==
    ASSUME row' = row, messages' = messages
    PROVE  WritesOwnTenant
  BY DEF WritesOwnTenant

LEMMA RecordOwn ==
    ASSUME IInv, NEW r \in Reqs, RecordCustomer(r) \/ RecordReply(r)
    PROVE  WritesOwnTenant
  <1> DEFINE c == req[r].conv
  <1>1. /\ req[r] \in ReqType /\ c \in Conv
        /\ Owned(row, c, req[r].tenant)
    BY InTurn DEF RecordCustomer, RecordReply, TurnPCs
  <1>2. PICK role \in {"customer", "ai"}, pc \in PCs :
          /\ messages' = messages \cup {Message(r, c, role)}
          /\ req' = [req EXCEPT ![r].pc = pc]
          /\ row' = row
    BY DEF RecordCustomer, RecordReply, PCs
  <1> DEFINE q == [req[r] EXCEPT !.pc = pc]
  <1>3. /\ req'[r] = q /\ q.tenant = req[r].tenant
        /\ \A s \in Reqs : s # r => req'[s] = req[s]
    BY <1>1, <1>2 DEF IInv, ReqsInv, ReqType
  <1>4. TenantOf[row'[c].cust] = req'[r].tenant
    BY <1>1, <1>2, <1>3 DEF Owned
  <1>5. \A m \in messages' \ messages : m.conv = c /\ m.by = r
    BY <1>2 DEF Message
  <1> QED BY <1>1, <1>2, <1>3, <1>4, <1>5, OwnTenant

LEMMA InsertOwn ==
    ASSUME IInv, NEW r \in Reqs, Insert(r)
    PROVE  WritesOwnTenant
  <1> DEFINE k == req[r].cust
  <1>1. req[r] \in ReqType /\ req[r].tenant = TenantOf[k]
    BY DEF IInv, ReqsInv, ReqInv, ReqOK, FindPCs, Insert
  <1>2. PICK c \in Conv :
          IF IndexAdmits(c, NewRow(k))
          THEN /\ row' = [row EXCEPT ![c] = NewRow(k)]
               /\ req' = [req EXCEPT ![r].pc = "record", ![r].conv = c,
                                     ![r].snap = NewRow(k)]
          ELSE /\ req' = [req EXCEPT ![r].pc = "refind"]
               /\ UNCHANGED row
    BY DEF Insert
  <1>3. messages' = messages
    BY DEF Insert
  <1>4. CASE IndexAdmits(c, NewRow(k))
    <2> DEFINE q == [req[r] EXCEPT !.pc = "record", !.conv = c,
                                   !.snap = NewRow(k)]
    <2>1. /\ req'[r] = q /\ q.tenant = req[r].tenant
          /\ \A s \in Reqs : s # r => req'[s] = req[s]
      BY <1>1, <1>2, <1>4 DEF IInv, ReqsInv, ReqType
    <2>2. row'[c] = NewRow(k) /\ \A d \in Conv : d # c => row'[d] = row[d]
      BY <1>2, <1>4 DEF IInv, TableInv, RowsOK
    <2>3. NewRow(k).cust = k
      BY DEF NewRow
    <2>4. TenantOf[row'[c].cust] = req'[r].tenant
      BY <1>1, <2>1, <2>2, <2>3
    <2>5. \A m \in messages' \ messages : m.conv = c /\ m.by = r
      BY <1>3
    <2> QED BY <2>1, <2>2, <2>4, <2>5, OwnTenant
  <1>5. CASE ~IndexAdmits(c, NewRow(k))
    BY <1>2, <1>3, <1>5, NoWrite
  <1> QED BY <1>4, <1>5

LEMMA ClaimOwn ==
    ASSUME IInv, NEW r \in Reqs, Claim(r)
    PROVE  WritesOwnTenant
  <1> DEFINE Q(t, c, a) == [NewReq EXCEPT !.op = "claim", !.tenant = t,
                                          !.conv = c, !.agent = a]
  <1>1. PICK t \in Tenants, c \in Conv : \E a \in Staff[t] :
          /\ row[c].status # "none"
          /\ IF Visible(c, t) /\ Claimable(row[c])
             THEN /\ row' = [row EXCEPT ![c].agent = a, ![c].ai = FALSE]
                  /\ claims' = [claims EXCEPT ![c] = @ + 1]
                  /\ req' = [req EXCEPT ![r] = Finish(Q(t, c, a), "ok")]
             ELSE /\ req' = [req EXCEPT ![r] =
                               Finish(Q(t, c, a),
                                      IF Visible(c, t) THEN "conflict"
                                      ELSE "notfound")]
                  /\ UNCHANGED <<row, claims>>
    BY DEF Claim
  <1>2. PICK a \in Staff[t] :
          /\ row[c].status # "none"
          /\ IF Visible(c, t) /\ Claimable(row[c])
             THEN /\ row' = [row EXCEPT ![c].agent = a, ![c].ai = FALSE]
                  /\ claims' = [claims EXCEPT ![c] = @ + 1]
                  /\ req' = [req EXCEPT ![r] = Finish(Q(t, c, a), "ok")]
             ELSE /\ req' = [req EXCEPT ![r] =
                               Finish(Q(t, c, a),
                                      IF Visible(c, t) THEN "conflict"
                                      ELSE "notfound")]
                  /\ UNCHANGED <<row, claims>>
    BY <1>1
  <1>3. messages' = messages
    BY DEF Claim
  <1>4. CASE row' = row
    BY <1>3, <1>4, NoWrite
  <1>5. CASE /\ Visible(c, t)
             /\ row' = [row EXCEPT ![c].agent = a, ![c].ai = FALSE]
             /\ req' = [req EXCEPT ![r] = Finish(Q(t, c, a), "ok")]
    <2> DEFINE q == Finish(Q(t, c, a), "ok")
               x == [row[c] EXCEPT !.agent = a, !.ai = FALSE]
    <2>1. row \in [Conv -> RowType] /\ row[c] \in RowType
      BY DEF IInv, TableInv, RowsOK
    <2>2. /\ row'[c] = x /\ x.cust = row[c].cust
          /\ \A d \in Conv : d # c => row'[d] = row[d]
      BY <1>5, <2>1 DEF RowType
    <2>3. req'[r] = q /\ \A s \in Reqs : s # r => req'[s] = req[s]
      BY <1>5 DEF IInv, ReqsInv
    <2>4. q.tenant = t
      BY DEF Finish, NewReq
    <2>5. TenantOf[row'[c].cust] = req'[r].tenant
      BY <1>5, <2>2, <2>3, <2>4 DEF Visible
    <2>6. \A m \in messages' \ messages : m.conv = c /\ m.by = r
      BY <1>3
    <2> QED BY <2>2, <2>3, <2>5, <2>6, OwnTenant
  <1> QED BY <1>2, <1>4, <1>5

LEMMA PostAgentMessageOwn ==
    ASSUME IInv, NEW r \in Reqs, PostAgentMessage(r)
    PROVE  WritesOwnTenant
  <1> DEFINE Q(t, c, a) == [NewReq EXCEPT !.op = "message", !.tenant = t,
                                          !.conv = c, !.agent = a]
             Goal(t, c, a) ==
               \/ /\ Visible(c, t)
                  /\ messages' = messages \cup {Message(r, c, "agent")}
                  /\ req' = [req EXCEPT ![r] = Finish(Q(t, c, a), "ok")]
               \/ messages' = messages
  <1>1. PICK t \in Tenants, c \in Conv : \E a \in Staff[t] : Goal(t, c, a)
    BY DEF PostAgentMessage
  <1>2. PICK a \in Staff[t] : Goal(t, c, a)
    BY <1>1
  <1>3. row' = row
    BY DEF PostAgentMessage
  <1>4. CASE messages' = messages
    BY <1>3, <1>4, NoWrite
  <1>5. CASE /\ Visible(c, t)
             /\ messages' = messages \cup {Message(r, c, "agent")}
             /\ req' = [req EXCEPT ![r] = Finish(Q(t, c, a), "ok")]
    <2> DEFINE q == Finish(Q(t, c, a), "ok")
    <2>1. req'[r] = q /\ \A s \in Reqs : s # r => req'[s] = req[s]
      BY <1>5 DEF IInv, ReqsInv
    <2>2. q.tenant = t
      BY DEF Finish, NewReq
    <2>3. TenantOf[row'[c].cust] = req'[r].tenant
      BY <1>3, <1>5, <2>1, <2>2 DEF Visible
    <2>4. \A m \in messages' \ messages : m.conv = c /\ m.by = r
      BY <1>5 DEF Message
    <2> QED BY <1>3, <2>1, <2>3, <2>4, OwnTenant
  <1> QED BY <1>2, <1>4, <1>5

LEMMA FlushOwn ==
    ASSUME IInv, NEW r \in Reqs, Flush(r)
    PROVE  WritesOwnTenant
  <1> DEFINE q == req[r]
             c == q.conv
             tgt == Target(q.op, q.snap, q.agent)
             new == Merge(row[c], q.load, tgt)
             q2 == IF q.op = "escalate" THEN [q EXCEPT !.pc = "resolve"]
                   ELSE Resume(q, "ok")
  <1>1. /\ q \in ReqType /\ c \in Conv /\ row[c] \in RowType
        /\ row[c].status # "none" /\ q.op \in MutOps
        /\ q.ret \in {"api", "tool", "handoff"}
    BY InMutation DEF Flush, MutPCs
  <1>2. Owned(row, c, q.tenant)
    BY InTurn DEF Flush
  <1>3. /\ q.snap \in RowType /\ q.load \in RowType
        /\ q.agent \in Agents \cup {NULL}
    BY <1>1 DEF ReqType
  <1>4. tgt \in RowType /\ tgt.status # "none"
    BY <1>1, <1>3, TargetType
  <1> HIDE DEF tgt
  <1>5. new.cust = row[c].cust
    BY <1>1, <1>3, <1>4, MergeType
  <1> HIDE DEF new
  <1>6. q2.tenant = q.tenant
    BY <1>1, ResumeType DEF ReqType
  <1>7. messages' = messages
    BY DEF Flush
  <1>8. CASE IndexAdmits(c, new)
    <2>1. row' = [row EXCEPT ![c] = new] /\ req' = [req EXCEPT ![r] = q2]
      BY <1>8 DEF Flush, new, tgt
    <2> HIDE DEF q2
    <2>2. /\ row'[c] = new /\ \A d \in Conv : d # c => row'[d] = row[d]
          /\ req'[r] = q2 /\ \A s \in Reqs : s # r => req'[s] = req[s]
      BY <1>1, <2>1 DEF IInv, TableInv, RowsOK, ReqsInv
    <2>3. TenantOf[row'[c].cust] = req'[r].tenant
      BY <1>2, <1>5, <1>6, <2>2 DEF Owned
    <2>4. \A m \in messages' \ messages : m.conv = c /\ m.by = r
      BY <1>7
    <2> QED BY <1>1, <2>2, <2>3, <2>4, OwnTenant
  <1>9. CASE ~IndexAdmits(c, new)
    <2>1. row' = row
      BY <1>9 DEF Flush, new, tgt
    <2> QED BY <1>7, <2>1, NoWrite
  <1> QED BY <1>8, <1>9

(* Nothing a tenant's requests do reaches another tenant's conversations.  *)
THEOREM Isolation == Spec => TenantIsolation
  <1>1. ASSUME IInv, [Next]_vars PROVE [WritesOwnTenant]_vars
    <2> SUFFICES ASSUME Next PROVE WritesOwnTenant
      BY <1>1
    <2>1. ASSUME NEW r \in Reqs, Start(r) PROVE WritesOwnTenant
      BY <1>1, <2>1, NoWrite, ClaimOwn, PostAgentMessageOwn
         DEF Start, StartInbound, StartMutation
    <2>2. ASSUME NEW r \in Reqs, Mutate(r) PROVE WritesOwnTenant
      BY <1>1, <2>2, NoWrite, FlushOwn DEF Mutate, Read, Load, Resolve
    <2>3. ASSUME NEW r \in Reqs, Turn(r) PROVE WritesOwnTenant
      BY <1>1, <2>3, NoWrite, InsertOwn, RecordOwn
         DEF Turn, Find, Refind, AutoCreateTicket, Respond, Answer,
             ToolRound, EscalationNode, EnqueueQA
    <2>4. ASSUME NEW r \in Reqs, Abort(r) PROVE WritesOwnTenant
      BY <2>4, NoWrite DEF Abort
    <2>5. CASE Idle
      BY <2>5, NoWrite DEF Idle, vars
    <2> QED BY <2>1, <2>2, <2>3, <2>4, <2>5 DEF Next, Step
  <1> QED BY <1>1, Invariance, PTL DEF Spec, TenantIsolation
=============================================================================
