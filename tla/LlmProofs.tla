------------------------------ MODULE LlmProofs ------------------------------
(***************************************************************************)
(* The way to an answer: a request's agent turn, the calls of a client to  *)
(* the providers, and the tenant configuration they are resolved from.     *)
(***************************************************************************)
EXTENDS AgentTurn, Gateway, TenantConfig, FiniteSetTheorems,
        SequenceTheorems, TLAPS

-----------------------------------------------------------------------------
(* The agent's turn, for any number of requests, conversations, rounds and *)
(* tool calls.                                                             *)

Extra(n) == IF Folded(n) = {} THEN 0 ELSE 1

TurnRec ==
    [pc : {"idle", "history", "summarize", "bind", "context", "first", "tools",
           "next", "escalation", "reply", "done", "raised"},
     kind : {"respond", "suggest"}, conv : Convs \cup {NoConv},
     seen : 0..MaxLength, calls : Seq(ToolCalls), iterations : Nat, llm : Nat,
     escalated : BOOLEAN, said : BOOLEAN,
     text : {"none", "empty", "answer", "fallback", "escalation"}]

(* What a request knows by itself: it is bound to its own conversation or  *)
(* to none, and to none before it is bound and after it has returned; it   *)
(* has handed its conversation over before it says so, and is then on its  *)
(* way out; and every call of the model is the summary's, the first one or *)
(* that of a counted round.                                                *)
Bound(x, c) ==
    /\ x.pc # "idle" => x.conv \in Convs
    /\ c # NoConv => c = x.conv
    /\ x.pc \in {"idle", "history", "summarize", "bind", "done", "raised"} => c = NoConv

HandsOver(t, x, done) ==
    /\ x.escalated => x.pc \in {"escalation", "reply", "done"}
                      /\ <<t, "escalate", x.conv>> \in done
    /\ x.pc = "escalation" => x.escalated
    /\ x.text = "escalation" => x.escalated

Counts(x) ==
    /\ x.pc \in {"idle", "history", "summarize"} => x.llm = 0
    /\ x.pc = "summarize" => Folded(x.seen) # {}
    /\ x.pc \in {"bind", "context", "first"} => x.llm <= Extra(x.seen)
    /\ x.pc \notin {"tools", "next", "escalation", "reply", "done"} => x.iterations = 0
    /\ x.pc \in {"tools", "next"} =>
          /\ x.iterations <= MaxToolIterations
          /\ x.llm <= Extra(x.seen) + x.iterations
    /\ x.llm <= Extra(x.seen) + 1 + MaxToolIterations

TurnOK(t, x, c) ==
    /\ Bound(x, c)
    /\ HandsOver(t, x, acts)
    /\ Counts(x)
    /\ x.pc = "tools" => x.calls # <<>>

(* What a tool has done it has done for the conversation of a request that *)
(* has begun.                                                              *)
Acts == \A a \in acts : turn[a[1]].pc # "idle" /\ a[3] = turn[a[1]].conv

TurnType ==
    /\ handler \in [Convs -> {"ai", "agent", "queue"}]
    /\ turn \in [Turns -> TurnRec]
    /\ ctx \in [Turns -> Convs \cup {NoConv}]
    /\ acts \subseteq Turns \X {"escalate", "search"} \X Convs

TurnIInv == TurnType /\ Acts /\ \A t \in Turns : TurnOK(t, turn[t], ctx[t])

LEMMA ExtraBound == ASSUME NEW n PROVE Extra(n) \in {0, 1}
BY DEF Extra

LEMMA TurnInitIInv == TurnInit => TurnIInv
<1> SUFFICES ASSUME TurnInit PROVE TurnIInv
  OBVIOUS
<1> USE AgentTurnAssumption DEF TurnInit
<1>1. Idle \in TurnRec
  BY EmptySeq DEF Idle, TurnRec
<1>2. TurnType /\ Acts
  BY <1>1 DEF TurnType, Acts
<1>3. ASSUME NEW t \in Turns PROVE TurnOK(t, turn[t], ctx[t])
  <2>1. turn[t] = Idle /\ ctx[t] = NoConv
    OBVIOUS
  <2>2. Extra(Idle.seen) \in {0, 1}
    BY ExtraBound
  <2> QED
    BY <2>1, <2>2 DEF TurnOK, Bound, HandsOver, Counts, Idle
<1> QED
  BY <1>2, <1>3 DEF TurnIInv

(* A request moves on to x, for the conversation it has begun with, and    *)
(* what it does meanwhile it does for that one.                            *)
LEMMA TurnMoves ==
    ASSUME TurnIInv, NEW t \in Turns, NEW x \in TurnRec,
           turn' = [turn EXCEPT ![t] = x],
           x.pc # "idle", turn[t].pc # "idle" => x.conv = turn[t].conv,
           handler' \in [Convs -> {"ai", "agent", "queue"}],
           ctx' \in [Turns -> Convs \cup {NoConv}],
           \A o \in Turns \ {t} : ctx'[o] = ctx[o],
           acts \subseteq acts',
           \A a \in acts' \ acts :
               /\ a \in Turns \X {"escalate", "search"} \X Convs
               /\ a[1] = t /\ a[3] = x.conv,
           Bound(x, ctx'[t]), HandsOver(t, x, acts'), Counts(x),
           x.pc = "tools" => x.calls # <<>>
    PROVE  TurnIInv'
<1> USE DEF TurnIInv, TurnType
<1>1. TurnType'
  <2>1. acts' \subseteq Turns \X {"escalate", "search"} \X Convs
    OBVIOUS
  <2> QED
    BY <2>1
<1>2. Acts'
  <2> SUFFICES ASSUME NEW a \in acts'
               PROVE  turn'[a[1]].pc # "idle" /\ a[3] = turn'[a[1]].conv
    BY DEF Acts
  <2>1. a[1] \in Turns
    BY <1>1
  <2>2. CASE a \in acts
    <3>1. turn[a[1]].pc # "idle" /\ a[3] = turn[a[1]].conv
      BY <2>2 DEF Acts
    <3> QED
      BY <3>1, <2>1
  <2>3. CASE a \notin acts
    BY <2>3
  <2> QED
    BY <2>2, <2>3
<1>3. ASSUME NEW o \in Turns PROVE TurnOK(o, turn[o], ctx[o])'
  <2>1. CASE o = t
    <3>1. turn'[o] = x
      BY <2>1
    <3> QED
      BY <3>1, <2>1 DEF TurnOK, Bound, HandsOver, Counts
  <2>2. CASE o # t
    <3>1. turn'[o] = turn[o] /\ ctx'[o] = ctx[o]
      BY <2>2
    <3>2. TurnOK(o, turn[o], ctx[o])
      OBVIOUS
    <3> QED
      BY <3>1, <3>2 DEF TurnOK, Bound, HandsOver, Counts
  <2> QED
    BY <2>1, <2>2
<1> QED
  BY <1>1, <1>2, <1>3

(* A step of the request itself: the tables, its context and what it has   *)
(* done stay as they are.                                                  *)
LEMMA TurnGoesOn ==
    ASSUME TurnIInv, NEW t \in Turns, NEW x \in TurnRec,
           turn' = [turn EXCEPT ![t] = x], UNCHANGED <<handler, ctx, acts>>,
           turn[t].pc # "idle", x.pc \notin {"idle", "done"},
           x.pc \in {"history", "summarize", "bind", "raised"} => ctx[t] = NoConv,
           x.conv = turn[t].conv, x.escalated = turn[t].escalated,
           x.escalated => x.pc = "reply",
           x.pc = "escalation" \/ x.text = "escalation" => x.escalated,
           Counts(x), x.pc = "tools" => x.calls # <<>>
    PROVE  TurnIInv'
<1>1. TurnOK(t, turn[t], ctx[t]) /\ TurnType
  BY DEF TurnIInv
<1>2. Bound(x, ctx[t])
  BY <1>1 DEF TurnOK, Bound
<1>3. HandsOver(t, x, acts')
  BY <1>1 DEF TurnOK, HandsOver
<1> QED
  BY <1>1, <1>2, <1>3, TurnMoves DEF TurnType

LEMMA BeginIInv ==
    ASSUME TurnIInv, NEW t \in Turns, NEW c \in Convs, Respond(t, c) \/ Suggest(t, c)
    PROVE  TurnIInv'
<1> DEFINE R(pc) == [turn[t] EXCEPT !.conv = c, !.pc = pc]
           S(pc) == [turn[t] EXCEPT !.conv = c, !.kind = "suggest", !.pc = pc]
<1>1. turn[t].pc = "idle" /\ UNCHANGED <<handler, ctx, acts>>
  BY DEF Respond, Suggest
<1>2. TurnType /\ turn[t] \in TurnRec /\ TurnOK(t, turn[t], ctx[t])
  BY DEF TurnIInv, TurnType
<1>3. ASSUME NEW pc \in {"history", "done", "raised"}, NEW x \in {R(pc), S(pc)},
             turn' = [turn EXCEPT ![t] = x]
      PROVE  TurnIInv'
  <2>1. x \in TurnRec /\ x.pc \in {"history", "done", "raised"} /\ x.conv = c
    BY <1>2, <1>3 DEF TurnRec
  <2>2. /\ x.escalated = turn[t].escalated /\ x.text = turn[t].text
        /\ x.llm = turn[t].llm /\ x.seen = turn[t].seen
        /\ x.iterations = turn[t].iterations
    BY <1>2, <1>3 DEF TurnRec
  <2>3. Bound(x, ctx'[t]) /\ Counts(x)
    BY <1>1, <1>2, <2>1, <2>2 DEF TurnOK, Bound, Counts
  <2>4. HandsOver(t, x, acts')
    BY <1>1, <1>2, <2>1, <2>2 DEF TurnOK, HandsOver
  <2> QED
    BY <1>1, <1>2, <1>3, <2>1, <2>3, <2>4, TurnMoves DEF TurnType
<1>4. CASE Respond(t, c)
  <2>1. PICK pc \in {IF handler[c] = "ai" THEN "history" ELSE "done", "raised"} :
            turn' = [turn EXCEPT ![t].conv = c, ![t].pc = pc]
    BY <1>4 DEF Respond
  <2>2. pc \in {"history", "done", "raised"} /\ turn' = [turn EXCEPT ![t] = R(pc)]
    BY <1>2, <2>1 DEF TurnType
  <2> QED
    BY <1>3, <2>2
<1>5. CASE Suggest(t, c)
  <2>1. PICK pc \in {"history", "raised"} :
            turn' = [turn EXCEPT ![t].conv = c, ![t].kind = "suggest", ![t].pc = pc]
    BY <1>5 DEF Suggest
  <2>2. turn' = [turn EXCEPT ![t] = S(pc)]
    BY <1>2, <2>1 DEF TurnType
  <2> QED
    BY <1>3, <2>2
<1> QED
  BY <1>4, <1>5

(* An error before the ids are bound ends the request.                     *)
LEMMA RaisedIInv ==
    ASSUME TurnIInv, NEW t \in Turns, turn[t].pc \in {"history", "bind"},
           Go(t, "raised"), UNCHANGED <<handler, ctx, acts>>
    PROVE  TurnIInv'
<1> DEFINE x == [turn[t] EXCEPT !.pc = "raised"]
<1>1. TurnType /\ turn[t] \in TurnRec /\ TurnOK(t, turn[t], ctx[t])
  BY DEF TurnIInv, TurnType
<1>2. /\ x \in TurnRec /\ x.pc = "raised" /\ x.seen = turn[t].seen
      /\ x.conv = turn[t].conv /\ x.escalated = turn[t].escalated
      /\ x.text = turn[t].text /\ x.llm = turn[t].llm
      /\ x.iterations = turn[t].iterations
  BY <1>1 DEF TurnRec
<1>3. turn' = [turn EXCEPT ![t] = x]
  BY <1>1 DEF Go, TurnType
<1> HIDE DEF x
<1>4. Counts(x)
  BY <1>1, <1>2 DEF TurnOK, Counts
<1>5. ctx[t] = NoConv /\ ~x.escalated /\ x.text # "escalation"
  BY <1>1, <1>2 DEF TurnOK, Bound, HandsOver
<1> QED
  BY <1>2, <1>3, <1>4, <1>5, TurnGoesOn

LEMMA HistoryIInv ==
    ASSUME TurnIInv, NEW t \in Turns, BuildMessages(t) \/ SummarizeHistory(t)
    PROVE  TurnIInv'
<1>1. TurnType /\ turn[t] \in TurnRec /\ TurnOK(t, turn[t], ctx[t])
  BY DEF TurnIInv, TurnType
<1>2. CASE BuildMessages(t) /\ Go(t, "raised")
  BY <1>2, RaisedIInv DEF BuildMessages
<1>3. CASE BuildMessages(t) /\ ~Go(t, "raised")
  <2>1. turn[t].pc = "history" /\ UNCHANGED <<handler, ctx, acts>>
    BY <1>3 DEF BuildMessages
  <2>2. PICK n \in 0..MaxLength :
           turn' = [turn EXCEPT ![t].seen = n,
             ![t].pc = IF turn[t].kind = "suggest" THEN "context"
                       ELSE IF Folded(n) # {} THEN "summarize" ELSE "bind"]
    BY <1>3 DEF BuildMessages
  <2>3. PICK pc \in {"context", "summarize", "bind"} :
           /\ pc = "summarize" => Folded(n) # {}
           /\ turn' = [turn EXCEPT ![t].seen = n, ![t].pc = pc]
    BY <2>2
  <2> DEFINE x == [turn[t] EXCEPT !.seen = n, !.pc = pc]
  <2>4. /\ x \in TurnRec /\ x.pc = pc /\ x.seen = n
        /\ x.conv = turn[t].conv /\ x.escalated = turn[t].escalated
        /\ x.text = turn[t].text /\ x.llm = turn[t].llm
        /\ x.iterations = turn[t].iterations
    BY <1>1, <2>3 DEF TurnRec
  <2>5. turn' = [turn EXCEPT ![t] = x]
    BY <1>1, <2>3 DEF TurnType
  <2> HIDE DEF x
  <2>6. Counts(x)
    BY <1>1, <2>1, <2>3, <2>4, ExtraBound, AgentTurnAssumption DEF TurnOK, Counts
  <2>7. ctx[t] = NoConv /\ ~x.escalated /\ x.text # "escalation"
    BY <1>1, <2>1, <2>4 DEF TurnOK, Bound, HandsOver
  <2> QED
    BY <2>1, <2>3, <2>4, <2>5, <2>6, <2>7, TurnGoesOn
<1>4. CASE SummarizeHistory(t)
  <2> DEFINE x == [turn[t] EXCEPT !.pc = "bind", !.llm = @ + 1]
  <2>1. turn[t].pc = "summarize" /\ UNCHANGED <<handler, ctx, acts>>
    BY <1>4 DEF SummarizeHistory
  <2>2. /\ x \in TurnRec /\ x.pc = "bind" /\ x.seen = turn[t].seen
        /\ x.conv = turn[t].conv /\ x.escalated = turn[t].escalated
        /\ x.text = turn[t].text /\ x.llm = turn[t].llm + 1
        /\ x.iterations = turn[t].iterations
    <3>1. turn[t].llm \in Nat
      BY <1>1 DEF TurnRec
    <3>2. turn[t].llm + 1 \in Nat
      BY <3>1
    <3> QED
      BY <1>1, <3>2 DEF TurnRec
  <2>3. turn' = [turn EXCEPT ![t] = x]
    BY <1>1, <1>4 DEF TurnType, SummarizeHistory
  <2> HIDE DEF x
  <2>4. turn[t].llm = 0 /\ Extra(x.seen) = 1 /\ x.iterations = 0
    BY <1>1, <2>1, <2>2 DEF TurnOK, Counts, Extra
  <2>5. Counts(x)
    BY <2>2, <2>4, AgentTurnAssumption DEF Counts
  <2>6. ctx[t] = NoConv /\ ~x.escalated /\ x.text # "escalation"
    BY <1>1, <2>1, <2>2 DEF TurnOK, Bound, HandsOver
  <2> QED
    BY <2>1, <2>2, <2>3, <2>5, <2>6, TurnGoesOn
<1> QED
  BY <1>2, <1>3, <1>4

LEMMA BindIInv ==
    ASSUME TurnIInv, NEW t \in Turns, Bind(t)
    PROVE  TurnIInv'
<1> SUFFICES ASSUME ~(Go(t, "raised") /\ UNCHANGED ctx) PROVE TurnIInv'
  BY RaisedIInv DEF Bind
<1> DEFINE x == [turn[t] EXCEPT !.pc = "context"]
<1>1. TurnType /\ turn[t] \in TurnRec /\ TurnOK(t, turn[t], ctx[t])
  BY DEF TurnIInv, TurnType
<1>2. turn[t].pc = "bind" /\ UNCHANGED <<handler, acts>>
      /\ ctx' = [ctx EXCEPT ![t] = turn[t].conv]
  BY DEF Bind, bind_escalation_context
<1>3. /\ x \in TurnRec /\ x.pc = "context" /\ x.seen = turn[t].seen
      /\ x.conv = turn[t].conv /\ x.escalated = turn[t].escalated
      /\ x.text = turn[t].text /\ x.llm = turn[t].llm
      /\ x.iterations = turn[t].iterations
  BY <1>1 DEF TurnRec
<1>4. turn' = [turn EXCEPT ![t] = x]
  BY <1>1 DEF TurnType, Bind, Go
<1> HIDE DEF x
<1>5. Counts(x)
  BY <1>1, <1>2, <1>3 DEF TurnOK, Counts
<1>6. Bound(x, ctx'[t]) /\ ctx' \in [Turns -> Convs \cup {NoConv}]
  BY <1>1, <1>2, <1>3 DEF TurnOK, Bound, TurnType
<1>7. HandsOver(t, x, acts')
  BY <1>1, <1>2, <1>3 DEF TurnOK, HandsOver
<1> QED
  BY <1>1, <1>2, <1>3, <1>4, <1>5, <1>6, <1>7, TurnMoves DEF TurnType

LEMMA ResponseIsSeq ==
    ASSUME NEW calls \in Responses
    PROVE  calls \in Seq(ToolCalls) /\ calls # <<>>
<1>1. PICK n \in 1..MaxCalls : calls \in [1..n -> ToolCalls]
  BY DEF Responses
<1>2. n \in Nat /\ n > 0
  BY AgentTurnAssumption
<1>3. calls \in Seq(ToolCalls)
  BY <1>1, <1>2, SeqDef
<1>4. 1 \in DOMAIN calls
  BY <1>1, <1>2
<1>5. DOMAIN <<>> = {}
  OBVIOUS
<1> QED
  BY <1>3, <1>4, <1>5

LEMMA RetrieveIInv ==
    ASSUME TurnIInv, NEW t \in Turns, RetrieveNode(t)
    PROVE  TurnIInv'
<1> DEFINE R == [turn[t] EXCEPT !.pc = "first"]
           S == [turn[t] EXCEPT !.pc = "reply", !.text = "empty"]
<1>1. TurnType /\ turn[t] \in TurnRec /\ TurnOK(t, turn[t], ctx[t])
  BY DEF TurnIInv, TurnType
<1>2. turn[t].pc = "context" /\ UNCHANGED <<handler, ctx, acts>>
  BY DEF RetrieveNode
<1>3. turn' = [turn EXCEPT ![t] = R] \/ turn' = [turn EXCEPT ![t] = S]
  BY <1>1 DEF RetrieveNode, Go, Say, TurnType
<1>4. ASSUME NEW x \in {R, S}, turn' = [turn EXCEPT ![t] = x]
      PROVE  TurnIInv'
  <2>1. /\ x \in TurnRec /\ x.pc \in {"first", "reply"} /\ x.seen = turn[t].seen
        /\ x.conv = turn[t].conv /\ x.escalated = turn[t].escalated
        /\ x.text \in {"empty", turn[t].text} /\ x.llm = turn[t].llm
        /\ x.iterations = turn[t].iterations
    BY <1>1, <1>4 DEF TurnRec
  <2>2. ~x.escalated /\ x.text # "escalation"
    BY <1>1, <1>2, <2>1 DEF TurnOK, HandsOver
  <2>3. Counts(x)
    BY <1>1, <1>2, <2>1 DEF TurnOK, Counts
  <2> QED
    BY <1>2, <1>4, <2>1, <2>2, <2>3, TurnGoesOn
<1> QED
  BY <1>3, <1>4

(* Every answer of the model, a round of tools included, is counted.       *)
LEMMA ModelIInv ==
    ASSUME TurnIInv, NEW t \in Turns, FirstCall(t) \/ NextCall(t)
    PROVE  TurnIInv'
<1>1. TurnType /\ turn[t] \in TurnRec /\ TurnOK(t, turn[t], ctx[t])
  BY DEF TurnIInv, TurnType
<1>2. turn[t].pc \in {"first", "next"} /\ UNCHANGED <<handler, ctx, acts>>
      /\ ModelAnswers(t)
  BY DEF FirstCall, NextCall
<1>3. ~turn[t].escalated /\ turn[t].text # "escalation"
  BY <1>1, <1>2 DEF TurnOK, HandsOver
<1>4. /\ turn[t].llm \in Nat /\ turn[t].iterations \in Nat
      /\ turn[t].iterations <= MaxToolIterations
      /\ turn[t].llm <= Extra(turn[t].seen) + turn[t].iterations
      /\ MaxToolIterations \in Nat
      /\ turn[t].llm + 1 \in Nat /\ turn[t].iterations + 1 \in Nat
  <2>1. MaxToolIterations \in Nat /\ Extra(turn[t].seen) \in {0, 1}
    BY AgentTurnAssumption, ExtraBound
  <2>2. turn[t].llm \in Nat /\ turn[t].iterations \in Nat
    BY <1>1 DEF TurnRec
  <2>3. turn[t].iterations <= MaxToolIterations
    BY <1>1, <1>2, <2>1, <2>2 DEF TurnOK, Counts
  <2>4. turn[t].llm <= Extra(turn[t].seen) + turn[t].iterations
    BY <1>1, <1>2, <2>1, <2>2 DEF TurnOK, Counts
  <2> QED
    BY <2>1, <2>2, <2>3, <2>4
<1>5. ASSUME NEW text \in {"answer", "fallback"},
             turn' = [turn EXCEPT ![t].pc = "reply", ![t].text = text, ![t].llm = @ + 1]
      PROVE  TurnIInv'
  <2> DEFINE x == [turn[t] EXCEPT !.pc = "reply", !.text = text, !.llm = @ + 1]
  <2>1. turn' = [turn EXCEPT ![t] = x]
    BY <1>1, <1>5 DEF TurnType
  <2>2. /\ x \in TurnRec /\ x.pc = "reply" /\ x.seen = turn[t].seen
        /\ x.conv = turn[t].conv /\ x.escalated = turn[t].escalated
        /\ x.text = text /\ x.llm = turn[t].llm + 1
    BY <1>1, <1>4 DEF TurnRec
  <2> HIDE DEF x
  <2>3. Counts(x)
    BY <1>4, <2>2, ExtraBound DEF Counts
  <2> QED
    BY <1>2, <1>3, <2>1, <2>2, <2>3, TurnGoesOn
<1>6. ASSUME NEW calls \in Responses, turn' = Rounds(t, calls)
      PROVE  TurnIInv'
  <2>1. CASE turn[t].iterations + 1 > MaxToolIterations
    <3> DEFINE x == [turn[t] EXCEPT !.pc = "reply", !.text = "fallback",
                         !.llm = @ + 1, !.iterations = @ + 1]
    <3>1. turn' = [turn EXCEPT ![t] = x]
      BY <1>1, <1>6, <2>1 DEF TurnType, Rounds
    <3>2. /\ x \in TurnRec /\ x.pc = "reply" /\ x.seen = turn[t].seen
          /\ x.conv = turn[t].conv /\ x.escalated = turn[t].escalated
          /\ x.text = "fallback" /\ x.llm = turn[t].llm + 1
      BY <1>1, <1>4 DEF TurnRec
    <3> HIDE DEF x
    <3>3. Counts(x)
      BY <1>4, <3>2, ExtraBound DEF Counts
    <3> QED
      BY <1>2, <1>3, <3>1, <3>2, <3>3, TurnGoesOn
  <2>2. CASE ~(turn[t].iterations + 1 > MaxToolIterations)
    <3> DEFINE x == [turn[t] EXCEPT !.pc = "tools", !.calls = calls,
                         !.iterations = @ + 1, !.llm = @ + 1]
    <3>1. turn' = [turn EXCEPT ![t] = x]
      BY <1>1, <1>6, <2>2 DEF TurnType, Rounds
    <3>2. /\ x \in TurnRec /\ x.pc = "tools" /\ x.seen = turn[t].seen
          /\ x.conv = turn[t].conv /\ x.escalated = turn[t].escalated
          /\ x.text = turn[t].text /\ x.llm = turn[t].llm + 1
          /\ x.iterations = turn[t].iterations + 1 /\ x.calls # <<>>
      BY <1>1, <1>4, ResponseIsSeq DEF TurnRec
    <3> HIDE DEF x
    <3>3. Counts(x)
      BY <1>4, <2>2, <3>2, ExtraBound DEF Counts
    <3> QED
      BY <1>2, <1>3, <3>1, <3>2, <3>3, TurnGoesOn
  <2> QED
    BY <2>1, <2>2
<1> QED
  BY <1>2, <1>5, <1>6 DEF ModelAnswers

(* The round goes on after a tool; what the tool has done, if anything, it *)
(* has done for the request's own conversation.                            *)
LEMMA AfterToolIInv ==
    ASSUME TurnIInv, NEW t \in Turns, turn[t].pc = "tools", AfterTool(t),
           UNCHANGED <<handler, ctx>>, acts \subseteq acts',
           \A a \in acts' \ acts :
               /\ a \in Turns \X {"escalate", "search"} \X Convs
               /\ a[1] = t /\ a[3] = turn[t].conv
    PROVE  TurnIInv'
<1> DEFINE pc == IF Len(turn[t].calls) = 1 THEN "next" ELSE "tools"
           x == [turn[t] EXCEPT !.calls = Tail(@), !.pc = pc]
<1>1. TurnType /\ turn[t] \in TurnRec /\ TurnOK(t, turn[t], ctx[t])
  BY DEF TurnIInv, TurnType
<1>2. /\ turn[t].calls \in Seq(ToolCalls) /\ turn[t].calls # <<>>
      /\ Tail(turn[t].calls) \in Seq(ToolCalls)
      /\ pc = "tools" => Tail(turn[t].calls) # <<>>
  <2>1. turn[t].calls \in Seq(ToolCalls) /\ turn[t].calls # <<>>
    BY <1>1 DEF TurnRec, TurnOK
  <2>2. /\ Tail(turn[t].calls) \in Seq(ToolCalls)
        /\ Len(Tail(turn[t].calls)) = Len(turn[t].calls) - 1
        /\ Len(turn[t].calls) \in Nat
    BY <2>1, HeadTailProperties, LenProperties
  <2>3. Len(<<>>) = 0
    OBVIOUS
  <2>4. ASSUME pc = "tools" PROVE Tail(turn[t].calls) # <<>>
    <3>1. Len(turn[t].calls) # 1
      BY <2>4
    <3>2. Len(Tail(turn[t].calls)) # 0
      BY <2>2, <3>1
    <3> QED
      BY <2>3, <3>2
  <2> QED
    BY <2>1, <2>2, <2>4
<1>3. turn' = [turn EXCEPT ![t] = x]
  BY <1>1 DEF TurnType, AfterTool
<1>4. /\ x \in TurnRec /\ x.pc = pc /\ x.seen = turn[t].seen
      /\ x.conv = turn[t].conv /\ x.escalated = turn[t].escalated
      /\ x.text = turn[t].text /\ x.llm = turn[t].llm
      /\ x.iterations = turn[t].iterations /\ x.calls = Tail(turn[t].calls)
  BY <1>1, <1>2 DEF TurnRec
<1>5. pc \in {"tools", "next"}
  OBVIOUS
<1> HIDE DEF x, pc
<1>6. Counts(x) /\ Bound(x, ctx'[t])
  BY <1>1, <1>4, <1>5 DEF TurnOK, Counts, Bound
<1>7. HandsOver(t, x, acts')
  BY <1>1, <1>4, <1>5 DEF TurnOK, HandsOver
<1> QED
  BY <1>1, <1>2, <1>3, <1>4, <1>5, <1>6, <1>7, TurnMoves DEF TurnType

(* The conversation a tool finds in the context is the request's.          *)
LEMMA OwnContext ==
    ASSUME TurnIInv, NEW t \in Turns, ctx[t] # NoConv
    PROVE  ctx[t] = turn[t].conv /\ ctx[t] \in Convs
BY DEF TurnIInv, TurnType, TurnOK, Bound

LEMMA EscalateIInv ==
    ASSUME TurnIInv, NEW t \in Turns, EscalateTool(t)
    PROVE  TurnIInv'
<1>1. turn[t].pc = "tools" /\ ctx' = ctx
  BY DEF EscalateTool
<1>2. CASE AfterTool(t) /\ UNCHANGED <<handler, acts>>
  BY <1>1, <1>2, AfterToolIInv
<1>3. CASE /\ ctx[t] # NoConv
           /\ handler' = [handler EXCEPT ![ctx[t]] = "queue"]
           /\ acts' = acts \cup {<<t, "escalate", ctx[t]>>}
           /\ Escalated(t)
  <2> DEFINE said == Head(turn[t].calls) = "escalate"
             x == [turn[t] EXCEPT !.calls = <<>>, !.escalated = TRUE,
                       !.said = said, !.pc = "escalation"]
  <2>1. TurnType /\ turn[t] \in TurnRec /\ TurnOK(t, turn[t], ctx[t])
    BY DEF TurnIInv, TurnType
  <2>2. ctx[t] = turn[t].conv /\ ctx[t] \in Convs
    BY <1>3, OwnContext
  <2>3. turn' = [turn EXCEPT ![t] = x]
    BY <1>3, <2>1 DEF TurnType, Escalated
  <2>4. said \in BOOLEAN
    OBVIOUS
  <2> HIDE DEF said
  <2>5. /\ x \in TurnRec /\ x.pc = "escalation" /\ x.seen = turn[t].seen
        /\ x.conv = turn[t].conv /\ x.llm = turn[t].llm
        /\ x.iterations = turn[t].iterations /\ x.escalated = TRUE
    BY <2>1, <2>4, EmptySeq DEF TurnRec
  <2> HIDE DEF x
  <2>6. Counts(x) /\ Bound(x, ctx'[t])
    BY <1>1, <2>1, <2>5 DEF TurnOK, Counts, Bound
  <2>7. HandsOver(t, x, acts')
    BY <1>3, <2>2, <2>5 DEF HandsOver
  <2>8. handler' \in [Convs -> {"ai", "agent", "queue"}]
    BY <1>3, <2>1 DEF TurnType
  <2>9. /\ acts \subseteq acts'
        /\ \A a \in acts' \ acts :
               /\ a \in Turns \X {"escalate", "search"} \X Convs
               /\ a[1] = t /\ a[3] = x.conv
    BY <1>3, <2>2, <2>5
  <2> QED
    BY <1>1, <2>1, <2>3, <2>5, <2>6, <2>7, <2>8, <2>9, TurnMoves DEF TurnType
<1> QED
  BY <1>2, <1>3 DEF EscalateTool

LEMMA OtherToolsIInv ==
    ASSUME TurnIInv, NEW t \in Turns, SearchTool(t) \/ UnknownTool(t)
    PROVE  TurnIInv'
<1>1. turn[t].pc = "tools" /\ AfterTool(t) /\ UNCHANGED <<handler, ctx>>
  BY DEF SearchTool, UnknownTool
<1>2. CASE acts' = acts
  BY <1>1, <1>2, AfterToolIInv
<1>3. CASE ctx[t] # NoConv /\ acts' = acts \cup {<<t, "search", ctx[t]>>}
  <2>1. /\ acts \subseteq acts'
        /\ \A a \in acts' \ acts :
               /\ a \in Turns \X {"escalate", "search"} \X Convs
               /\ a[1] = t /\ a[3] = turn[t].conv
    BY <1>3, OwnContext
  <2> QED
    BY <1>1, <2>1, AfterToolIInv
<1> QED
  BY <1>2, <1>3 DEF SearchTool, UnknownTool

LEMMA EndsIInv ==
    ASSUME TurnIInv, NEW t \in Turns, EscalationNode(t) \/ Reply(t)
    PROVE  TurnIInv'
<1>1. TurnType /\ turn[t] \in TurnRec /\ TurnOK(t, turn[t], ctx[t])
  BY DEF TurnIInv, TurnType
<1>2. CASE EscalationNode(t)
  <2> DEFINE text == IF turn[t].said THEN "escalation" ELSE "fallback"
             x == [turn[t] EXCEPT !.pc = "reply", !.text = text]
  <2>1. turn[t].pc = "escalation" /\ UNCHANGED <<handler, ctx, acts>>
    BY <1>2 DEF EscalationNode
  <2>2. turn' = [turn EXCEPT ![t] = x]
    BY <1>1, <1>2 DEF EscalationNode, Say, TurnType
  <2>3. text \in {"escalation", "fallback"}
    OBVIOUS
  <2> HIDE DEF text
  <2>4. /\ x \in TurnRec /\ x.pc = "reply" /\ x.seen = turn[t].seen
        /\ x.conv = turn[t].conv /\ x.escalated = turn[t].escalated
        /\ x.llm = turn[t].llm
    BY <1>1, <2>3 DEF TurnRec
  <2> HIDE DEF x
  <2>5. x.escalated /\ Counts(x)
    BY <1>1, <2>1, <2>4 DEF TurnOK, HandsOver, Counts
  <2> QED
    BY <2>1, <2>2, <2>4, <2>5, TurnGoesOn
<1>3. CASE Reply(t)
  <2> DEFINE x == [turn[t] EXCEPT !.pc = "done"]
  <2>1. turn[t].pc = "reply" /\ ctx' = [ctx EXCEPT ![t] = NoConv]
        /\ UNCHANGED <<handler, acts>>
    BY <1>3 DEF Reply
  <2>2. turn' = [turn EXCEPT ![t] = x]
    BY <1>1, <1>3 DEF Reply, Go, TurnType
  <2>3. /\ x \in TurnRec /\ x.pc = "done" /\ x.seen = turn[t].seen
        /\ x.conv = turn[t].conv /\ x.escalated = turn[t].escalated
        /\ x.text = turn[t].text /\ x.llm = turn[t].llm
    BY <1>1 DEF TurnRec
  <2> HIDE DEF x
  <2>4. Counts(x) /\ Bound(x, ctx'[t]) /\ ctx' \in [Turns -> Convs \cup {NoConv}]
    BY <1>1, <2>1, <2>3 DEF TurnOK, Counts, Bound, TurnType
  <2>5. HandsOver(t, x, acts')
    BY <1>1, <2>1, <2>3 DEF TurnOK, HandsOver
  <2> QED
    BY <1>1, <2>1, <2>2, <2>3, <2>4, <2>5, TurnMoves DEF TurnType
<1> QED
  BY <1>2, <1>3

LEMMA StaffIInv ==
    ASSUME TurnIInv, NEW c \in Convs, Staff(c)
    PROVE  TurnIInv'
<1>1. handler' \in [Convs -> {"ai", "agent", "queue"}]
  BY DEF TurnIInv, TurnType, Staff
<1>2. UNCHANGED <<turn, ctx, acts>>
  BY DEF Staff
<1> QED
  BY <1>1, <1>2
     DEF TurnIInv, TurnType, Acts, TurnOK, Bound, HandsOver, Counts

LEMMA TurnNextIInv == TurnIInv /\ [TurnNext]_turnVars => TurnIInv'
<1> SUFFICES ASSUME TurnIInv, [TurnNext]_turnVars PROVE TurnIInv'
  OBVIOUS
<1>1. CASE \E t \in Turns, c \in Convs : Respond(t, c) \/ Suggest(t, c)
  BY <1>1, BeginIInv
<1>2. CASE \E t \in Turns : Step(t)
  BY <1>2, HistoryIInv, BindIInv, RetrieveIInv, ModelIInv, EscalateIInv,
     OtherToolsIInv, EndsIInv DEF Step
<1>3. CASE \E c \in Convs : Staff(c)
  BY <1>3, StaffIInv
<1>4. CASE UNCHANGED turnVars
  BY <1>4
     DEF turnVars, TurnIInv, TurnType, Acts, TurnOK, Bound, HandsOver, Counts
<1> QED
  BY <1>1, <1>2, <1>3, <1>4 DEF TurnNext

LEMMA TurnInductive == TurnSpec => []TurnIInv
BY TurnInitIInv, TurnNextIInv, PTL DEF TurnSpec

(* However the requests interleave, the context each one's task has is its *)
(* own: the tools of a request act for its conversation, and a request     *)
(* that has returned leaves no ids behind.                                 *)
THEOREM ToolsActForTheirOwn == TurnSpec => []OwnConversation
<1>1. TurnIInv => OwnConversation
  BY DEF TurnIInv, Acts, TurnOK, Bound, OwnConversation
<1> QED
  BY <1>1, TurnInductive, PTL

(* A turn asks the model once for a summary at most, once to begin with,   *)
(* and once after each allowed round of tools, however many calls the      *)
(* model makes.                                                            *)
THEOREM ModelCallsBounded == TurnSpec => []TurnBounded
<1>1. TurnIInv => TurnBounded
  BY DEF TurnIInv, TurnOK, Counts, Extra, TurnBounded
<1> QED
  BY <1>1, TurnInductive, PTL

(* Once a request has handed its conversation over, nothing it does is a   *)
(* tool or a call of the model.                                            *)
LEMMA AfterEscalation ==
    ASSUME TurnIInv, TurnNext, NEW t \in Turns, turn[t].escalated
    PROVE  turn'[t].llm = turn[t].llm /\ \A a \in acts' \ acts : a[1] # t
<1>1. turn \in [Turns -> TurnRec] /\ turn[t] \in TurnRec
      /\ turn[t].pc \in {"escalation", "reply", "done"}
  BY DEF TurnIInv, TurnType, TurnOK, HandsOver
<1>2. ASSUME NEW s \in Turns, Step(s)
      PROVE  turn'[t].llm = turn[t].llm /\ \A a \in acts' \ acts : a[1] # t
  <2>1. CASE s = t
    <3>1. EscalationNode(t) \/ Reply(t)
      BY <1>1, <1>2, <2>1
         DEF Step, BuildMessages, SummarizeHistory, Bind, RetrieveNode, FirstCall,
             NextCall, EscalateTool, SearchTool, UnknownTool
    <3> QED
      BY <3>1, <1>1 DEF EscalationNode, Reply, Say, Go, TurnRec
  <2>2. CASE s # t
    <3>1. turn'[t] = turn[t]
      BY <1>1, <1>2, <2>2
         DEF Step, BuildMessages, SummarizeHistory, Bind, RetrieveNode, FirstCall,
             NextCall, EscalateTool, SearchTool, UnknownTool, EscalationNode, Reply,
             Say, Go, ModelAnswers, Rounds, AfterTool, Escalated
    <3>2. \A a \in acts' \ acts : a[1] = s
      BY <1>2
         DEF Step, BuildMessages, SummarizeHistory, Bind, RetrieveNode, FirstCall,
             NextCall, EscalateTool, SearchTool, UnknownTool, EscalationNode, Reply
    <3> QED
      BY <2>2, <3>1, <3>2
  <2> QED
    BY <2>1, <2>2
<1>3. CASE \E s \in Turns, c \in Convs : Respond(s, c) \/ Suggest(s, c)
  BY <1>1, <1>3 DEF Respond, Suggest
<1>4. CASE \E c \in Convs : Staff(c)
  BY <1>4 DEF Staff
<1> QED
  BY <1>2, <1>3, <1>4 DEF TurnNext

(* The customer is told of a hand-over only when the conversation was      *)
(* handed over.                                                            *)
LEMMA SaidIsDone ==
    ASSUME TurnIInv, TurnNext, NEW t \in Turns, turn'[t].text = "escalation"
    PROVE  <<t, "escalate", turn[t].conv>> \in acts
<1>1. turn \in [Turns -> TurnRec] /\ TurnOK(t, turn[t], ctx[t]) /\ turn[t] \in TurnRec
  BY DEF TurnIInv, TurnType
<1>2. turn[t].text = "escalation" \/ turn[t].pc = "escalation"
  <2>1. CASE \E s \in Turns, c \in Convs : Respond(s, c) \/ Suggest(s, c)
    <3>1. PICK s \in Turns, c \in Convs : Respond(s, c) \/ Suggest(s, c)
      BY <2>1
    <3>2. CASE Respond(s, c)
      BY <1>1, <3>2 DEF Respond, TurnRec
    <3>3. CASE Suggest(s, c)
      BY <1>1, <3>3 DEF Suggest, TurnRec
    <3> QED
      BY <3>1, <3>2, <3>3
  <2>2. CASE \E c \in Convs : Staff(c)
    BY <2>2 DEF Staff
  <2>3. ASSUME NEW s \in Turns, Step(s)
        PROVE  turn[t].text = "escalation" \/ turn[t].pc = "escalation"
    <3>1. CASE BuildMessages(s)
      <4>1. CASE Go(s, "raised")
        BY <1>1, <4>1 DEF Go, TurnRec
      <4>2. ASSUME NEW n \in 0..MaxLength, NEW pc \in {"context", "summarize", "bind"},
                   turn' = [turn EXCEPT ![s].seen = n, ![s].pc = pc]
            PROVE  turn'[t].text = turn[t].text
        BY <1>1, <4>2 DEF TurnRec
      <4> QED
        BY <1>1, <3>1, <4>1, <4>2 DEF BuildMessages
    <3>2. CASE SummarizeHistory(s)
      BY <1>1, <3>2 DEF SummarizeHistory, TurnRec
    <3>7. CASE Bind(s) \/ Reply(s)
      <4>1. ASSUME NEW pc \in {"context", "done", "raised"}, Go(s, pc)
            PROVE  turn'[t].text = turn[t].text
        BY <1>1, <4>1 DEF Go, TurnRec
      <4> QED
        BY <3>7, <4>1 DEF Bind, Reply
    <3>3. CASE RetrieveNode(s)
      <4>1. CASE Go(s, "first")
        BY <1>1, <4>1 DEF Go, TurnRec
      <4>2. CASE Say(s, "empty")
        BY <1>1, <4>2 DEF Say, TurnRec
      <4> QED
        BY <3>3, <4>1, <4>2 DEF RetrieveNode
    <3>6. CASE FirstCall(s) \/ NextCall(s)
      <4>1. CASE \E text \in {"answer", "fallback"} :
                    turn' = [turn EXCEPT ![s].pc = "reply", ![s].text = text,
                                         ![s].llm = @ + 1]
        BY <1>1, <4>1 DEF TurnRec
      <4>2. CASE \E calls \in Responses : turn' = Rounds(s, calls)
        BY <1>1, <4>2 DEF Rounds, TurnRec
      <4> QED
        BY <3>6, <4>1, <4>2 DEF FirstCall, NextCall, ModelAnswers
    <3>4. CASE EscalateTool(s) \/ SearchTool(s) \/ UnknownTool(s)
      <4>1. AfterTool(s) \/ Escalated(s)
        BY <3>4 DEF EscalateTool, SearchTool, UnknownTool
      <4>2. CASE AfterTool(s)
        BY <1>1, <4>2 DEF AfterTool, TurnRec
      <4>3. CASE Escalated(s)
        BY <1>1, <4>3 DEF Escalated, TurnRec
      <4> QED
        BY <4>1, <4>2, <4>3
    <3>5. CASE EscalationNode(s)
      BY <1>1, <3>5 DEF EscalationNode, Say, TurnRec
    <3> QED
      BY <2>3, <3>1, <3>2, <3>3, <3>4, <3>5, <3>6, <3>7 DEF Step
  <2> QED
    BY <2>1, <2>2, <2>3 DEF TurnNext
<1> QED
  BY <1>1, <1>2 DEF TurnOK, HandsOver

(* An escalation is the last thing a request does, and it has happened     *)
(* before the customer reads of it.                                        *)
THEOREM NothingAfterEscalation == TurnSpec => EscalationIsLast
<1> DEFINE Last ==
        \A t \in Turns :
          /\ turn'[t].text = "escalation" => <<t, "escalate", turn[t].conv>> \in acts
          /\ turn[t].escalated => /\ turn'[t].llm = turn[t].llm
                                  /\ \A a \in acts' \ acts : a[1] # t
<1>1. TurnIInv /\ [TurnNext]_turnVars => [Last]_turnVars
  BY AfterEscalation, SaidIsDone
<1> QED
  BY <1>1, TurnInductive, PTL DEF TurnSpec, EscalationIsLast

-----------------------------------------------------------------------------
(* The gateway, for any number of calls, any chain of providers and any    *)
(* number of retries.                                                      *)

Outcomes == {"ok", "rate_limited", "invalid", "unavailable", "output_invalid",
             "crash", "timeout", "malformed"}
Paid == {"ok", "malformed"}

CallRec ==
    [route : Routes, pc : {"idle", "wait", "backoff", "done"}, step : Nat \ {0},
     attempt : Nat, round : Nat, log : Seq(Nat \X Outcomes), chunks : Nat,
     out : {"none", "ok", "raised", "exhausted", "judge_failure", "cut",
            "attribute_error"}]

KindOf(r) ==
    CASE r.mode = "structured" -> "judge"
      [] r.mode = "stream" -> "stream"
      [] r.mode = "chat" -> IF r.chain > 0 THEN "chain" ELSE "single"

JudgeCalls == (MaxRetries + 1) * (JudgeRetries + 1)

(* What a call has asked so far.  A chain stands at the step after those   *)
(* that have failed; the judge has used its full rounds and the attempts   *)
(* of the present one; the others ask once.                                *)
ChainOK(x) ==
    /\ x.pc # "backoff"
    /\ x.step <= x.route.chain
    /\ x.pc \in {"idle", "wait"} =>
          /\ Len(x.log) = x.step - 1
          /\ \A i \in DOMAIN x.log : x.log[i][2] \in Triggers
          /\ x.out = "none"
    /\ Len(x.log) <= x.route.chain
    /\ x.out \in {"none", "ok", "raised", "exhausted"}

JudgeOK(x) ==
    /\ x.attempt <= MaxRetries /\ x.round <= JudgeRetries
    /\ x.pc # "done" => Len(x.log) <= x.round * (MaxRetries + 1) + x.attempt
    /\ Len(x.log) <= JudgeCalls

OnceOK(x) ==
    /\ x.pc # "backoff"
    /\ x.pc \in {"idle", "wait"} => x.log = <<>>
    /\ Len(x.log) <= 1

CallOK(x) ==
    /\ KindOf(x.route) = "chain" => ChainOK(x)
    /\ KindOf(x.route) = "judge" => JudgeOK(x)
    /\ KindOf(x.route) \in {"single", "stream"} => OnceOK(x)

(* Where the usage rows are: nothing is taken off the queue before the     *)
(* worker stops, and nothing is put on it afterwards, because every call   *)
(* of the judge has ended.                                                 *)
RowsOK ==
    /\ worker \in {"up", "flush", "down"}
    /\ Answered = pending \cup batch \cup stored \cup lost
    /\ worker = "up" => batch = {} /\ stored = {} /\ lost = {}
    /\ worker = "flush" => pending = {} /\ stored = {} /\ lost = {}
    /\ worker = "down" => pending = {} /\ batch = {} /\ (stored = {} \/ lost = {})
    /\ IsFiniteSet(pending) /\ IsFiniteSet(batch)
    /\ IsFiniteSet(stored) /\ IsFiniteSet(lost)
    /\ worker # "up" =>
          \A c \in Calls : Kind(c) = "judge" => call[c].pc \in {"idle", "done"}

GatewayIInv ==
    /\ call \in [Calls -> CallRec]
    /\ \A c \in Calls : CallOK(call[c])
    /\ RowsOK

LEMMA KindIs ==
    ASSUME NEW c \in Calls
    PROVE  Kind(c) = KindOf(call[c].route)
BY DEF Kind, KindOf

LEMMA RouteKinds ==
    ASSUME NEW r \in Routes
    PROVE  /\ KindOf(r) \in {"judge", "stream", "chain", "single"}
           /\ r.chain \in Nat
           /\ KindOf(r) = "chain" => r.chain > 0
<1>1. Len(Dialects) \in Nat
  BY GatewayAssumption, LenProperties
<1>2. r.mode \in {"structured", "chat", "stream"} /\ r.chain \in Nat
  <2>1. CASE r \in [client : {"judge"}, mode : {"structured"}, chain : {0},
                    override : {FALSE}]
    BY <2>1
  <2>2. CASE r \in [client : {"tenant"}, mode : {"chat", "stream"},
                    chain : 0..Len(Dialects), override : BOOLEAN]
    BY <1>1, <2>2
  <2> QED
    BY <2>1, <2>2 DEF Routes
<1>3. CASE r.mode = "structured"
  BY <1>2, <1>3 DEF KindOf
<1>4. CASE r.mode = "stream"
  BY <1>2, <1>4 DEF KindOf
<1>5. CASE r.mode = "chat"
  BY <1>2, <1>5 DEF KindOf
<1> QED
  BY <1>2, <1>3, <1>4, <1>5

(* What a provider can make of a reply.                                    *)
LEMMA OutcomeType ==
    ASSUME NEW c \in Calls, NEW reply \in Replies
    PROVE  Outcome(c, reply) \in Outcomes \ {"timeout", "malformed"}
<1>1. reply \in {"4xx", "429", "5xx", "network", "not_json"} =>
          StatusOutcome(reply) \in {"rate_limited", "invalid", "unavailable",
                                    "output_invalid"}
  <2>1. CASE reply = "429"
    BY <2>1 DEF StatusOutcome
  <2>2. CASE reply = "4xx"
    BY <2>2 DEF StatusOutcome
  <2>3. CASE reply \in {"5xx", "network"}
    BY <2>3 DEF StatusOutcome
  <2>4. CASE reply = "not_json"
    BY <2>4 DEF StatusOutcome
  <2> QED
    BY <2>1, <2>2, <2>3, <2>4
<1>2. OpenAIChat(reply) \in Outcomes \ {"timeout", "malformed"}
  <2>1. CASE reply = "ok"
    BY <2>1 DEF OpenAIChat, Outcomes
  <2>2. CASE reply = "no_choices"
    BY <2>2 DEF OpenAIChat, Outcomes
  <2>3. CASE reply \notin {"ok", "no_choices"}
    BY <1>1, <2>3 DEF OpenAIChat, Outcomes, Replies
  <2> QED
    BY <2>1, <2>2, <2>3
<1>3. AnthropicChat(reply) \in Outcomes \ {"timeout", "malformed"}
  BY <1>1 DEF AnthropicChat, Outcomes, Replies
<1>4. /\ OpenAIStream(reply) \in Outcomes \ {"timeout", "malformed"}
      /\ AnthropicStream(reply) \in Outcomes \ {"timeout", "malformed"}
  BY <1>1 DEF OpenAIStream, AnthropicStream, Outcomes, Replies
<1> QED
  BY <1>2, <1>3, <1>4 DEF Outcome

LEMMA LoggedType ==
    ASSUME call \in [Calls -> CallRec], NEW c \in Calls, NEW o \in Outcomes
    PROVE  /\ call[c].log \in Seq(Nat \X Outcomes) /\ Len(call[c].log) \in Nat
           /\ Logged(c, o) \in Seq(Nat \X Outcomes)
           /\ call[c].pc = "backoff" => Logged(c, o) = call[c].log
           /\ call[c].pc # "backoff" =>
                 /\ Logged(c, o) = Append(call[c].log, <<call[c].step, o>>)
                 /\ Len(Logged(c, o)) = Len(call[c].log) + 1
<1>1. call[c].log \in Seq(Nat \X Outcomes) /\ call[c].step \in Nat
  BY DEF CallRec
<1>2. <<call[c].step, o>> \in Nat \X Outcomes
  BY <1>1
<1> QED
  BY <1>1, <1>2, AppendProperties, LenProperties DEF Logged

(* The local state after End and after Again.                              *)
LEMMA EndRec ==
    ASSUME call \in [Calls -> CallRec], NEW c \in Calls, NEW o \in Outcomes,
           NEW out \in {"ok", "raised", "exhausted", "judge_failure", "cut",
                        "attribute_error"},
           End(c, o, out)
    PROVE  \E x \in CallRec :
              /\ call' = [call EXCEPT ![c] = x]
              /\ x.route = call[c].route /\ x.pc = "done" /\ x.log = Logged(c, o)
              /\ x.step = call[c].step /\ x.attempt = call[c].attempt
              /\ x.round = call[c].round /\ x.out = out
<1> DEFINE l == Logged(c, o)
           x == [call[c] EXCEPT !.pc = "done", !.log = l, !.out = out]
<1>1. l \in Seq(Nat \X Outcomes)
  BY LoggedType
<1>2. call' = [call EXCEPT ![c] = x]
  BY DEF End
<1> HIDE DEF l
<1>3. /\ x \in CallRec /\ x.route = call[c].route /\ x.pc = "done" /\ x.log = l
      /\ x.step = call[c].step /\ x.attempt = call[c].attempt
      /\ x.round = call[c].round /\ x.out = out
  BY <1>1 DEF CallRec
<1> QED
  BY <1>2, <1>3 DEF l

LEMMA AgainRec ==
    ASSUME call \in [Calls -> CallRec], NEW c \in Calls, NEW o \in Outcomes,
           NEW pc \in {"wait", "backoff"}, NEW step \in Nat \ {0},
           NEW attempt \in Nat, NEW round \in Nat,
           Again(c, o, pc, step, attempt, round)
    PROVE  \E x \in CallRec :
              /\ call' = [call EXCEPT ![c] = x]
              /\ x.route = call[c].route /\ x.pc = pc /\ x.log = Logged(c, o)
              /\ x.step = step /\ x.attempt = attempt
              /\ x.round = round /\ x.out = call[c].out
<1> DEFINE l == Logged(c, o)
           x == [call[c] EXCEPT !.pc = pc, !.log = l, !.step = step,
                                !.attempt = attempt, !.round = round]
<1>1. l \in Seq(Nat \X Outcomes)
  BY LoggedType
<1>2. call' = [call EXCEPT ![c] = x]
  BY DEF Again
<1> HIDE DEF l
<1>3. /\ x \in CallRec /\ x.route = call[c].route /\ x.pc = pc /\ x.log = l
      /\ x.step = step /\ x.attempt = attempt
      /\ x.round = round /\ x.out = call[c].out
  BY <1>1 DEF CallRec
<1> QED
  BY <1>2, <1>3 DEF l

(* A step that logs nothing, or nothing that is paid for, leaves the usage *)
(* rows as they were due ...                                               *)
LEMMA AnsweredSame ==
    ASSUME call \in [Calls -> CallRec], NEW c \in Calls, NEW x \in CallRec,
           call' = [call EXCEPT ![c] = x], x.route = call[c].route,
           \/ Kind(c) # "judge"
           \/ x.log = call[c].log
           \/ \E o \in Outcomes \ Paid : x.log = Append(call[c].log, <<call[c].step, o>>)
    PROVE  Answered' = Answered
<1>1. ASSUME NEW d \in Calls
      PROVE  Kind(d)' = Kind(d)
  BY DEF Kind
<1>2. call' \in [Calls -> CallRec] /\ call'[c] = x
  OBVIOUS
<1>3. ASSUME NEW r \in Calls \X (1..JudgeCalls), Kind(r[1]) = "judge"
      PROVE  (r[2] <= Len(call[r[1]].log) /\ call[r[1]].log[r[2]][2] \in Paid)
             <=> (r[2] <= Len(call'[r[1]].log) /\ call'[r[1]].log[r[2]][2] \in Paid)
  <2>1. r[1] \in Calls /\ r[2] \in Nat \ {0}
    BY GatewayAssumption DEF JudgeCalls
  <2>2. CASE call'[r[1]].log = call[r[1]].log
    BY <2>2
  <2>3. CASE r[1] = c /\ \E o \in Outcomes \ Paid :
                             x.log = Append(call[c].log, <<call[c].step, o>>)
    <3>1. PICK o \in Outcomes \ Paid : x.log = Append(call[c].log, <<call[c].step, o>>)
      BY <2>3
    <3>2. /\ call[c].log \in Seq(Nat \X Outcomes) /\ Len(call[c].log) \in Nat
          /\ <<call[c].step, o>> \in Nat \X Outcomes
      BY LenProperties DEF CallRec
    <3>3. /\ Len(x.log) = Len(call[c].log) + 1
          /\ \A i \in 1..Len(call[c].log) : x.log[i] = call[c].log[i]
          /\ x.log[Len(call[c].log) + 1] = <<call[c].step, o>>
      BY <3>1, <3>2, AppendProperties
    <3>4. CASE r[2] <= Len(call[c].log)
      BY <1>2, <2>1, <2>3, <3>2, <3>3, <3>4
    <3>5. CASE r[2] = Len(call[c].log) + 1
      <4>1. x.log[r[2]][2] = o
        BY <3>3, <3>5
      <4> QED
        BY <1>2, <2>1, <2>3, <3>1, <3>2, <3>5, <4>1
    <3>6. CASE r[2] > Len(call[c].log) + 1
      BY <1>2, <2>1, <2>3, <3>2, <3>3, <3>6
    <3> QED
      BY <2>1, <3>2, <3>4, <3>5, <3>6
  <2> QED
    BY <1>2, <1>3, <2>1, <2>2, <2>3
<1> QED
  BY <1>1, <1>3 DEF Answered, JudgeCalls, Paid

(* ... and an answer the judge was given adds exactly its row.             *)
LEMMA AnsweredMore ==
    ASSUME call \in [Calls -> CallRec], NEW c \in Calls, NEW x \in CallRec,
           call' = [call EXCEPT ![c] = x], x.route = call[c].route,
           Kind(c) = "judge", Len(call[c].log) + 1 <= JudgeCalls,
           \E o \in Paid : x.log = Append(call[c].log, <<call[c].step, o>>)
    PROVE  Answered' = Answered \cup {Row(c)} /\ Row(c) \notin Answered
<1>1. ASSUME NEW d \in Calls
      PROVE  Kind(d)' = Kind(d)
  BY DEF Kind
<1>2. call' \in [Calls -> CallRec] /\ call'[c] = x
  OBVIOUS
<1>3. PICK o \in Paid : x.log = Append(call[c].log, <<call[c].step, o>>)
  OBVIOUS
<1>4. /\ call[c].log \in Seq(Nat \X Outcomes) /\ Len(call[c].log) \in Nat
      /\ <<call[c].step, o>> \in Nat \X Outcomes
  BY LenProperties DEF CallRec, Paid, Outcomes
<1>5. /\ Len(x.log) = Len(call[c].log) + 1
      /\ \A i \in 1..Len(call[c].log) : x.log[i] = call[c].log[i]
      /\ x.log[Len(call[c].log) + 1] = <<call[c].step, o>>
  BY <1>3, <1>4, AppendProperties
<1>6. Row(c) \in Calls \X (1..JudgeCalls)
  BY <1>4, GatewayAssumption DEF Row, JudgeCalls
<1>7. ASSUME NEW r \in Calls \X (1..JudgeCalls), Kind(r[1]) = "judge"
      PROVE  (r[2] <= Len(call'[r[1]].log) /\ call'[r[1]].log[r[2]][2] \in Paid)
             <=> \/ (r[2] <= Len(call[r[1]].log) /\ call[r[1]].log[r[2]][2] \in Paid)
                 \/ r = Row(c)
  <2>1. r[1] \in Calls /\ r[2] \in Nat \ {0} /\ r = <<r[1], r[2]>>
    BY GatewayAssumption DEF JudgeCalls
  <2>2. CASE r[1] # c
    BY <2>1, <2>2 DEF Row
  <2>3. CASE r[1] = c /\ r[2] <= Len(call[c].log)
    <3>1. r # Row(c)
      BY <1>4, <2>1, <2>3 DEF Row
    <3>2. x.log[r[2]] = call[c].log[r[2]] /\ r[2] <= Len(x.log)
      BY <1>4, <1>5, <2>1, <2>3
    <3> QED
      BY <1>2, <2>3, <3>1, <3>2
  <2>4. CASE r[1] = c /\ r[2] = Len(call[c].log) + 1
    <3>1. r = Row(c) /\ x.log[r[2]][2] \in Paid /\ r[2] <= Len(x.log)
      BY <1>3, <1>5, <2>1, <2>4 DEF Row
    <3> QED
      BY <1>2, <2>4, <3>1
  <2>5. CASE r[1] = c /\ r[2] > Len(call[c].log) + 1
    <3>1. r # Row(c) /\ ~(r[2] <= Len(x.log)) /\ ~(r[2] <= Len(call[c].log))
      BY <1>4, <1>5, <2>1, <2>5 DEF Row
    <3> QED
      BY <1>2, <2>5, <3>1
  <2> QED
    BY <1>4, <2>1, <2>2, <2>3, <2>4, <2>5
<1>8. Row(c)[1] = c /\ Row(c)[2] = Len(call[c].log) + 1
  BY DEF Row
<1>9. Row(c) \notin Answered
  BY <1>4, <1>8 DEF Answered
<1> DEFINE Due(r) == Kind(r[1]) = "judge" /\ r[2] <= Len(call[r[1]].log)
                     /\ call[r[1]].log[r[2]][2] \in Paid
<1>10. Answered = {r \in Calls \X (1..JudgeCalls) : Due(r)}
  BY DEF Answered, JudgeCalls, Paid
<1>11. Answered' = {r \in Calls \X (1..JudgeCalls) : Due(r)'}
  BY DEF Answered, JudgeCalls, Paid
<1>12. ASSUME NEW r \in Calls \X (1..JudgeCalls)
       PROVE  Due(r)' <=> Due(r) \/ r = Row(c)
  <2>1. r[1] \in Calls
    OBVIOUS
  <2>2. Kind(r[1])' = Kind(r[1])
    BY <1>1, <2>1
  <2>3. CASE Kind(r[1]) = "judge"
    BY <1>7, <2>2, <2>3
  <2>4. CASE Kind(r[1]) # "judge"
    BY <1>8, <2>2, <2>4
  <2> QED
    BY <2>3, <2>4
<1> HIDE DEF Due
<1>13. Answered' = Answered \cup {Row(c)}
  BY <1>6, <1>10, <1>11, <1>12
<1> QED
  BY <1>9, <1>13

LEMMA CallMoves ==
    ASSUME GatewayIInv, NEW c \in Calls, NEW x \in CallRec,
           call' = [call EXCEPT ![c] = x], CallOK(x), RowsOK'
    PROVE  GatewayIInv'
<1>1. call' \in [Calls -> CallRec]
  BY DEF GatewayIInv
<1>2. ASSUME NEW d \in Calls PROVE CallOK(call'[d])
  <2>1. CASE d = c
    BY <2>1 DEF GatewayIInv
  <2>2. CASE d # c
    BY <2>2 DEF GatewayIInv
  <2> QED
    BY <2>1, <2>2
<1> QED
  BY <1>1, <1>2 DEF GatewayIInv

(* A call moves on without a row, and a call of the judge that is not over *)
(* finds the worker up.                                                    *)
LEMMA QuietMoves ==
    ASSUME GatewayIInv, NEW c \in Calls, NEW x \in CallRec,
           call' = [call EXCEPT ![c] = x], x.route = call[c].route, CallOK(x),
           \/ Kind(c) # "judge"
           \/ x.log = call[c].log
           \/ \E o \in Outcomes \ Paid : x.log = Append(call[c].log, <<call[c].step, o>>),
           Kind(c) = "judge" /\ x.pc \in {"wait", "backoff"} => worker = "up",
           UNCHANGED usage
    PROVE  GatewayIInv'
<1>1. call \in [Calls -> CallRec]
  BY DEF GatewayIInv
<1>2. Answered' = Answered
  BY <1>1, AnsweredSame
<1>3. ASSUME worker # "up", NEW d \in Calls, Kind(d)' = "judge"
      PROVE  call'[d].pc \in {"idle", "done"}
  <2>1. Kind(d) = "judge"
    BY <1>1, <1>3 DEF Kind
  <2>2. CASE d = c
    <3>1. call'[d] = x /\ x.pc \in {"idle", "wait", "backoff", "done"}
      BY <1>1, <2>2 DEF CallRec
    <3> QED
      BY <1>3, <2>1, <2>2, <3>1
  <2>3. CASE d # c
    BY <1>1, <1>3, <2>1, <2>3 DEF GatewayIInv, RowsOK
  <2> QED
    BY <2>2, <2>3
<1>4. RowsOK'
  BY <1>2, <1>3 DEF GatewayIInv, RowsOK, usage
<1> QED
  BY <1>4, CallMoves

(* The judge is given an answer: its row goes onto the queue.              *)
LEMMA PaidMoves ==
    ASSUME GatewayIInv, NEW c \in Calls, NEW x \in CallRec,
           call' = [call EXCEPT ![c] = x], x.route = call[c].route, CallOK(x),
           Kind(c) = "judge", Len(call[c].log) + 1 <= JudgeCalls, worker = "up",
           \E o \in Paid : x.log = Append(call[c].log, <<call[c].step, o>>),
           pending' = pending \cup {Row(c)}, UNCHANGED <<batch, stored, lost, worker>>
    PROVE  GatewayIInv'
<1>1. call \in [Calls -> CallRec]
  BY DEF GatewayIInv
<1>2. Answered' = Answered \cup {Row(c)}
  BY <1>1, AnsweredMore
<1>3. IsFiniteSet(pending')
  BY FS_AddElement DEF GatewayIInv, RowsOK
<1>4. RowsOK'
  BY <1>2, <1>3 DEF GatewayIInv, RowsOK
<1> QED
  BY <1>4, CallMoves

LEMMA GatewayInitIInv == GatewayInit => GatewayIInv
<1> SUFFICES ASSUME GatewayInit PROVE GatewayIInv
  OBVIOUS
<1>1. <<>> \in Seq(Nat \X Outcomes) /\ Len(<<>>) = 0 /\ DOMAIN <<>> = {}
  BY EmptySeq
<1>2. MaxRetries \in Nat /\ JudgeRetries \in Nat
  BY GatewayAssumption
<1>3. 0 <= JudgeCalls
  BY <1>2 DEF JudgeCalls
<1>4. ASSUME NEW r \in Routes
      PROVE  NewCall(r) \in CallRec /\ CallOK(NewCall(r))
  <2>1. NewCall(r) \in CallRec
    BY <1>1 DEF NewCall, CallRec
  <2>2. KindOf(r) = "chain" => r.chain \in Nat /\ 1 <= r.chain
    BY RouteKinds
  <2>3. 0 <= 0 * (MaxRetries + 1) + 0
    BY <1>2
  <2> QED
    BY <1>1, <1>2, <1>3, <2>1, <2>2, <2>3
       DEF CallOK, ChainOK, JudgeOK, OnceOK, NewCall
<1>5. ASSUME NEW c \in Calls
      PROVE  /\ call[c] \in CallRec /\ CallOK(call[c])
             /\ Len(call[c].log) = 0 /\ call[c].pc = "idle"
  <2>1. PICK r \in Routes : call[c] = NewCall(r)
    BY DEF GatewayInit
  <2> QED
    BY <1>1, <1>4, <2>1 DEF NewCall
<1>6. Answered = {}
  BY <1>5 DEF Answered
<1>7. call \in [Calls -> CallRec]
  BY <1>5 DEF GatewayInit
<1> QED
  BY <1>5, <1>6, <1>7, FS_EmptySet DEF GatewayIInv, RowsOK, GatewayInit

LEMMA BeginCallIInv ==
    ASSUME GatewayIInv, NEW c \in Calls, Begin(c)
    PROVE  GatewayIInv'
<1> DEFINE x == [call[c] EXCEPT !.pc = "wait"]
<1>1. call \in [Calls -> CallRec] /\ call[c] \in CallRec /\ CallOK(call[c])
  BY DEF GatewayIInv
<1>2. /\ x \in CallRec /\ x.route = call[c].route /\ x.pc = "wait"
      /\ x.log = call[c].log /\ x.step = call[c].step
      /\ x.attempt = call[c].attempt /\ x.round = call[c].round
      /\ x.out = call[c].out
  BY <1>1 DEF CallRec
<1>3. call[c].pc = "idle" /\ call' = [call EXCEPT ![c] = x] /\ UNCHANGED usage
      /\ (Kind(c) = "judge" => worker = "up")
  BY <1>1 DEF Begin
<1> HIDE DEF x
<1>4. CallOK(x)
  BY <1>1, <1>2, <1>3 DEF CallOK, ChainOK, JudgeOK, OnceOK
<1> QED
  BY <1>2, <1>3, <1>4, QuietMoves

(* A call that asks once ends with what it was told.                       *)
LEMMA OnceEnds ==
    ASSUME GatewayIInv, NEW c \in Calls, Kind(c) \in {"single", "stream"},
           call[c].pc = "wait", NEW o \in Outcomes,
           NEW out \in {"ok", "raised", "cut"}, End(c, o, out), UNCHANGED usage
    PROVE  GatewayIInv'
<1>1. call \in [Calls -> CallRec] /\ call[c] \in CallRec /\ CallOK(call[c])
  BY DEF GatewayIInv
<1>2. PICK x \in CallRec :
           /\ call' = [call EXCEPT ![c] = x]
           /\ x.route = call[c].route /\ x.pc = "done" /\ x.log = Logged(c, o)
  BY <1>1, EndRec
<1>3. KindOf(x.route) \in {"single", "stream"} /\ KindOf(call[c].route) = KindOf(x.route)
  BY <1>2, KindIs
<1>4. Len(x.log) <= 1
  <2>1. call[c].log = <<>>
    BY <1>1, <1>3 DEF CallOK, OnceOK
  <2>2. Len(<<>>) = 0
    OBVIOUS
  <2> QED
    BY <1>1, <1>2, <2>1, <2>2, LoggedType
<1>5. CallOK(x)
  BY <1>2, <1>3, <1>4 DEF CallOK, OnceOK
<1> QED
  BY <1>2, <1>5, QuietMoves

LEMMA OnceIInv ==
    ASSUME GatewayIInv, NEW c \in Calls, AnswerSingle(c) \/ EndStream(c)
    PROVE  GatewayIInv'
<1>1. CASE AnswerSingle(c)
  <2>1. PICK reply \in Replies :
           LET o == Outcome(c, reply) IN End(c, o, IF o = "ok" THEN "ok" ELSE "raised")
    BY <1>1 DEF AnswerSingle
  <2>2. Outcome(c, reply) \in Outcomes
    BY OutcomeType
  <2> QED
    BY <1>1, <2>1, <2>2, OnceEnds DEF AnswerSingle
<1>2. CASE EndStream(c)
  <2>1. PICK reply \in Replies :
           LET o == Outcome(c, reply) IN
           End(c, o, IF o = "ok" THEN "ok"
                     ELSE IF call[c].chunks > 0 THEN "cut" ELSE "raised")
    BY <1>2 DEF EndStream
  <2>2. Outcome(c, reply) \in Outcomes
    BY OutcomeType
  <2> QED
    BY <1>2, <2>1, <2>2, OnceEnds DEF EndStream
<1> QED
  BY <1>1, <1>2

(* Steps of a call that log nothing.                                       *)
LEMMA SilentIInv ==
    ASSUME GatewayIInv, NEW c \in Calls, ResolveOnly(c) \/ Chunk(c) \/ BackOff(c)
    PROVE  GatewayIInv'
<1>1. call \in [Calls -> CallRec] /\ call[c] \in CallRec /\ CallOK(call[c])
  BY DEF GatewayIInv
<1>2. CASE ResolveOnly(c)
  <2> DEFINE x == [call[c] EXCEPT !.pc = "done", !.out = "attribute_error"]
  <2>1. /\ x \in CallRec /\ x.route = call[c].route /\ x.pc = "done"
        /\ x.log = call[c].log
    BY <1>1 DEF CallRec
  <2>2. call' = [call EXCEPT ![c] = x]
    BY <1>1, <1>2 DEF ResolveOnly
  <2>3. KindOf(call[c].route) = "single" /\ UNCHANGED usage
    BY <1>2, KindIs DEF ResolveOnly
  <2> HIDE DEF x
  <2>4. CallOK(x)
    BY <1>1, <2>1, <2>3 DEF CallOK, OnceOK
  <2> QED
    BY <2>1, <2>2, <2>3, <2>4, QuietMoves
<1>3. CASE Chunk(c)
  <2> DEFINE x == [call[c] EXCEPT !.chunks = @ + 1]
  <2>1. call[c].chunks + 1 \in Nat
    BY <1>1 DEF CallRec
  <2>2. /\ x \in CallRec /\ x.route = call[c].route /\ x.pc = call[c].pc
        /\ x.log = call[c].log
    BY <1>1, <2>1 DEF CallRec
  <2>3. call' = [call EXCEPT ![c] = x]
    BY <1>1, <1>3 DEF Chunk
  <2>4. KindOf(call[c].route) = "stream" /\ Kind(c) = "stream" /\ UNCHANGED usage
    BY <1>3, KindIs DEF Chunk
  <2> HIDE DEF x
  <2>5. CallOK(x)
    BY <1>1, <2>2, <2>4 DEF CallOK, OnceOK
  <2> QED
    BY <2>2, <2>3, <2>4, <2>5, QuietMoves
<1>4. CASE BackOff(c)
  <2> DEFINE x == [call[c] EXCEPT !.pc = "wait"]
  <2>1. /\ x \in CallRec /\ x.route = call[c].route /\ x.pc = "wait"
        /\ x.log = call[c].log /\ x.attempt = call[c].attempt
        /\ x.round = call[c].round
    BY <1>1 DEF CallRec
  <2>2. call[c].pc = "backoff" /\ call' = [call EXCEPT ![c] = x] /\ UNCHANGED usage
    BY <1>1, <1>4 DEF BackOff
  <2> HIDE DEF x
  <2>3. KindOf(call[c].route) = "judge" /\ Kind(c) = "judge"
    <3>1. KindOf(call[c].route) \in {"judge", "stream", "chain", "single"}
      BY <1>1, RouteKinds DEF CallRec
    <3> QED
      BY <1>1, <2>2, <3>1, KindIs DEF CallOK, ChainOK, OnceOK
  <2>4. worker = "up"
    BY <2>2, <2>3 DEF GatewayIInv, RowsOK
  <2>5. CallOK(x)
    BY <1>1, <2>1, <2>2, <2>3 DEF CallOK, JudgeOK
  <2> QED
    BY <2>1, <2>2, <2>4, <2>5, QuietMoves
<1> QED
  BY <1>2, <1>3, <1>4

(* One step of a chain has been asked: it is where the log says, and after *)
(* a failure that calls for the next step all of them have failed so far.  *)
LEMMA WalkIInv ==
    ASSUME GatewayIInv, NEW c \in Calls, Kind(c) = "chain", call[c].pc = "wait",
           NEW o \in Outcomes, Walk(c, o), UNCHANGED usage
    PROVE  GatewayIInv'
<1>1. call \in [Calls -> CallRec] /\ call[c] \in CallRec /\ CallOK(call[c])
  BY DEF GatewayIInv
<1>2. KindOf(call[c].route) = "chain" /\ call[c].route.chain \in Nat
  BY <1>1, KindIs, RouteKinds DEF CallRec
<1>3. ChainOK(call[c])
  BY <1>1, <1>2 DEF CallOK
<1>4. /\ call[c].step \in Nat \ {0} /\ call[c].step <= call[c].route.chain
      /\ call[c].log \in Seq(Nat \X Outcomes) /\ Len(call[c].log) = call[c].step - 1
      /\ Logged(c, o) = Append(call[c].log, <<call[c].step, o>>)
      /\ Len(Logged(c, o)) = call[c].step
  BY <1>1, <1>3, LoggedType DEF ChainOK, CallRec
<1>5. ASSUME NEW out \in {"ok", "raised", "exhausted"}, End(c, o, out)
      PROVE  GatewayIInv'
  <2>1. PICK x \in CallRec :
           /\ call' = [call EXCEPT ![c] = x]
           /\ x.route = call[c].route /\ x.pc = "done" /\ x.log = Logged(c, o)
           /\ x.step = call[c].step /\ x.out = out
    BY <1>1, <1>5, EndRec
  <2>2. CallOK(x)
    BY <1>2, <1>4, <2>1 DEF CallOK, ChainOK
  <2> QED
    BY <2>1, <2>2, QuietMoves
<1>6. CASE o \in Triggers /\ call[c].step < call[c].route.chain
  <2>1. Again(c, o, "wait", call[c].step + 1, 0, 0)
    BY <1>6 DEF Walk, Triggers
  <2>2. PICK x \in CallRec :
           /\ call' = [call EXCEPT ![c] = x]
           /\ x.route = call[c].route /\ x.pc = "wait" /\ x.log = Logged(c, o)
           /\ x.step = call[c].step + 1 /\ x.out = call[c].out
    <3>1. call[c].step + 1 \in Nat \ {0}
      BY <1>4
    <3> QED
      BY <1>1, <2>1, <3>1, AgainRec
  <2>3. \A i \in DOMAIN x.log : x.log[i][2] \in Triggers
    <3> SUFFICES ASSUME NEW i \in DOMAIN x.log
                 PROVE  x.log[i][2] \in Triggers
      OBVIOUS
    <3>1. <<call[c].step, o>> \in Nat \X Outcomes
      BY <1>4
    <3>2. DOMAIN x.log = 1..call[c].step /\ DOMAIN call[c].log = 1..(call[c].step - 1)
      BY <1>4, <2>2, LenProperties DEF CallRec
    <3>3. CASE i = call[c].step
      <4>1. x.log[i] = <<call[c].step, o>>
        BY <1>4, <2>2, <3>1, <3>3, AppendProperties
      <4> QED
        BY <1>6, <4>1
    <3>4. CASE i # call[c].step
      <4>1. i \in 1..Len(call[c].log)
        BY <1>4, <3>2, <3>4
      <4>2. x.log[i] = call[c].log[i]
        BY <1>4, <2>2, <3>1, <4>1, AppendProperties
      <4> QED
        BY <1>3, <1>4, <3>2, <4>1, <4>2 DEF ChainOK
    <3> QED
      BY <3>3, <3>4
  <2>4. call[c].out = "none"
    BY <1>3 DEF ChainOK
  <2>5. Len(x.log) = x.step - 1 /\ x.step <= x.route.chain /\ Len(x.log) <= x.route.chain
    BY <1>2, <1>4, <1>6, <2>2
  <2>6. ChainOK(x)
    BY <2>2, <2>3, <2>4, <2>5 DEF ChainOK
  <2>7. CallOK(x)
    BY <1>2, <2>2, <2>6 DEF CallOK
  <2> QED
    BY <2>2, <2>7, QuietMoves
<1>7. CASE ~(o \in Triggers /\ call[c].step < call[c].route.chain)
  <2>1. \E out \in {"ok", "raised", "exhausted"} : End(c, o, out)
    <3>1. CASE o = "ok"
      BY <3>1 DEF Walk, Triggers
    <3>2. CASE o \in Triggers
      BY <1>7, <3>2 DEF Walk, Triggers
    <3>3. CASE o # "ok" /\ o \notin Triggers
      BY <3>3 DEF Walk
    <3> QED
      BY <3>1, <3>2, <3>3
  <2> QED
    BY <1>5, <2>1
<1> QED
  BY <1>6, <1>7

LEMMA ChainIInv ==
    ASSUME GatewayIInv, NEW c \in Calls, AnswerChain(c) \/ TimeOutStep(c)
    PROVE  GatewayIInv'
<1>1. "timeout" \in Outcomes
  BY DEF Outcomes
<1> QED
  BY <1>1, OutcomeType, WalkIInv DEF AnswerChain, TimeOutStep

-----------------------------------------------------------------------------
(* The two loops of the judge.                                             *)

LEMMA RoundsLeft ==
    ASSUME NEW n \in Nat, n <= JudgeRetries
    PROVE  /\ n * (MaxRetries + 1) \in Nat
           /\ (n + 1) * (MaxRetries + 1) = n * (MaxRetries + 1) + MaxRetries + 1
           /\ n * (MaxRetries + 1) + MaxRetries + 1 <= JudgeCalls
<1>1. MaxRetries \in Nat /\ JudgeRetries \in Nat
  BY GatewayAssumption
<1> DEFINE k == MaxRetries + 1
           d == JudgeRetries - n
<1>2. k \in Nat /\ d \in Nat /\ JudgeRetries + 1 = (n + 1) + d
  BY <1>1
<1> HIDE DEF k, d
<1>3. n * k \in Nat /\ d * k \in Nat
  BY <1>2
<1>4. (n + 1) * k = n * k + k
  BY <1>2
<1>5. k * ((n + 1) + d) = n * k + k + d * k
  BY <1>2
<1> QED
  BY <1>1, <1>2, <1>3, <1>4, <1>5 DEF JudgeCalls, k

(* A round that has failed leaves room for the attempts of the next one.   *)
LEMMA RoundFailedOK ==
    ASSUME GatewayIInv, NEW c \in Calls, Kind(c) = "judge",
           call[c].pc \in {"wait", "backoff"}, NEW o \in Outcomes, RoundFailed(c, o)
    PROVE  \E x \in CallRec :
              /\ call' = [call EXCEPT ![c] = x]
              /\ x.route = call[c].route /\ x.log = Logged(c, o) /\ CallOK(x)
<1>1. call \in [Calls -> CallRec] /\ call[c] \in CallRec /\ CallOK(call[c])
  BY DEF GatewayIInv
<1>2. KindOf(call[c].route) = "judge" /\ JudgeOK(call[c])
  BY <1>1, KindIs DEF CallOK
<1>3. /\ MaxRetries \in Nat /\ JudgeRetries \in Nat
      /\ call[c].round \in Nat /\ call[c].attempt \in Nat
  BY <1>1, GatewayAssumption DEF CallRec
<1>4. /\ call[c].round * (MaxRetries + 1) \in Nat
      /\ (call[c].round + 1) * (MaxRetries + 1)
            = call[c].round * (MaxRetries + 1) + MaxRetries + 1
      /\ call[c].round * (MaxRetries + 1) + MaxRetries + 1 <= JudgeCalls
  BY <1>2, <1>3, RoundsLeft DEF JudgeOK
<1>5. /\ Len(Logged(c, o)) \in Nat
      /\ Len(Logged(c, o)) <= call[c].round * (MaxRetries + 1) + MaxRetries + 1
  <2>1. /\ Len(call[c].log) \in Nat
        /\ Len(Logged(c, o)) \in {Len(call[c].log), Len(call[c].log) + 1}
    BY <1>1, LoggedType
  <2>2. Len(call[c].log) <= call[c].round * (MaxRetries + 1) + call[c].attempt
        /\ call[c].attempt <= MaxRetries
    BY <1>2 DEF JudgeOK
  <2> DEFINE paid == call[c].round * (MaxRetries + 1)
             n == Len(call[c].log)
  <2>3. paid \in Nat /\ n <= paid + call[c].attempt /\ n \in Nat
    BY <1>4, <2>1, <2>2
  <2>4. Len(Logged(c, o)) \in {n, n + 1}
    BY <2>1
  <2> HIDE DEF Logged, paid, n
  <2>5. Len(Logged(c, o)) \in Nat /\ Len(Logged(c, o)) <= paid + MaxRetries + 1
    BY <1>3, <2>2, <2>3, <2>4
  <2> QED
    BY <2>5 DEF paid
<1>6. CASE call[c].round < JudgeRetries
  <2>1. Again(c, o, "wait", 1, 0, call[c].round + 1)
    BY <1>6 DEF RoundFailed
  <2>2. PICK x \in CallRec :
           /\ call' = [call EXCEPT ![c] = x]
           /\ x.route = call[c].route /\ x.log = Logged(c, o)
           /\ x.attempt = 0 /\ x.round = call[c].round + 1
    BY <1>1, <1>3, <2>1, AgainRec
  <2>3. Len(x.log) <= x.round * (MaxRetries + 1) + x.attempt /\ Len(x.log) <= JudgeCalls
    BY <1>3, <1>4, <1>5, <2>2 DEF JudgeCalls
  <2>4. CallOK(x)
    BY <1>2, <1>3, <1>6, <2>2, <2>3 DEF CallOK, JudgeOK
  <2> QED
    BY <2>2, <2>4
<1>7. CASE ~(call[c].round < JudgeRetries)
  <2>1. End(c, o, "judge_failure")
    BY <1>7 DEF RoundFailed
  <2>2. PICK x \in CallRec :
           /\ call' = [call EXCEPT ![c] = x]
           /\ x.route = call[c].route /\ x.log = Logged(c, o) /\ x.pc = "done"
           /\ x.attempt = call[c].attempt /\ x.round = call[c].round
    BY <1>1, <2>1, EndRec
  <2>3. Len(x.log) <= JudgeCalls
    BY <1>3, <1>4, <1>5, <2>2 DEF JudgeCalls
  <2>4. CallOK(x)
    BY <1>2, <2>2, <2>3 DEF CallOK, JudgeOK
  <2> QED
    BY <2>2, <2>4
<1> QED
  BY <1>6, <1>7

LEMMA RetryOK ==
    ASSUME GatewayIInv, NEW c \in Calls, Kind(c) = "judge", call[c].pc = "wait",
           NEW o \in Outcomes, Retry(c, o)
    PROVE  \E x \in CallRec :
              /\ call' = [call EXCEPT ![c] = x]
              /\ x.route = call[c].route /\ x.log = Logged(c, o) /\ CallOK(x)
<1>1. call \in [Calls -> CallRec] /\ call[c] \in CallRec /\ CallOK(call[c])
  BY DEF GatewayIInv
<1>2. KindOf(call[c].route) = "judge" /\ JudgeOK(call[c])
  BY <1>1, KindIs DEF CallOK
<1>3. /\ MaxRetries \in Nat /\ JudgeRetries \in Nat
      /\ call[c].round \in Nat /\ call[c].attempt \in Nat
  BY <1>1, GatewayAssumption DEF CallRec
<1>4. CASE RoundFailed(c, o)
  BY <1>4, RoundFailedOK
<1>5. CASE /\ call[c].attempt < MaxRetries
           /\ Again(c, o, "backoff", 1, call[c].attempt + 1, call[c].round)
  <2>1. PICK x \in CallRec :
           /\ call' = [call EXCEPT ![c] = x]
           /\ x.route = call[c].route /\ x.log = Logged(c, o)
           /\ x.attempt = call[c].attempt + 1 /\ x.round = call[c].round
    BY <1>1, <1>3, <1>5, AgainRec
  <2>2. /\ call[c].round * (MaxRetries + 1) \in Nat
        /\ call[c].round * (MaxRetries + 1) + MaxRetries + 1 <= JudgeCalls
    BY <1>2, <1>3, RoundsLeft DEF JudgeOK
  <2>3. Len(x.log) = Len(call[c].log) + 1 /\ Len(call[c].log) \in Nat
    BY <1>1, <2>1, LoggedType
  <2>4. Len(call[c].log) <= call[c].round * (MaxRetries + 1) + call[c].attempt
    BY <1>2 DEF JudgeOK
  <2>5. JudgeCalls \in Nat
    BY <1>3 DEF JudgeCalls
  <2> DEFINE m == call[c].round * (MaxRetries + 1)
             len == Len(call[c].log)
  <2>6. /\ Len(x.log) <= x.round * (MaxRetries + 1) + x.attempt
        /\ Len(x.log) <= JudgeCalls
    <3>1. x.round * (MaxRetries + 1) = m
      BY <2>1
    <3>2. m \in Nat /\ m + MaxRetries + 1 <= JudgeCalls /\ len <= m + call[c].attempt
      BY <2>2, <2>4
    <3>3. Len(x.log) = len + 1 /\ len \in Nat
      BY <2>3
    <3> HIDE DEF m, len
    <3>4. len + 1 <= m + (call[c].attempt + 1) /\ len + 1 <= JudgeCalls
      BY <1>3, <1>5, <2>5, <3>2, <3>3
    <3> QED
      BY <2>1, <3>1, <3>3, <3>4
  <2>7. CallOK(x)
    BY <1>2, <1>3, <1>5, <2>1, <2>6 DEF CallOK, JudgeOK
  <2> QED
    BY <2>1, <2>7
<1> QED
  BY <1>4, <1>5 DEF Retry

LEMMA JudgeUp ==
    ASSUME GatewayIInv, NEW c \in Calls, Kind(c) = "judge",
           call[c].pc \in {"wait", "backoff"}
    PROVE  worker = "up"
BY DEF GatewayIInv, RowsOK

LEMMA TimeOutRoundIInv ==
    ASSUME GatewayIInv, NEW c \in Calls, TimeOutRound(c)
    PROVE  GatewayIInv'
<1>1. /\ Kind(c) = "judge" /\ call[c].pc \in {"wait", "backoff"}
      /\ RoundFailed(c, "timeout") /\ UNCHANGED usage
  BY DEF TimeOutRound
<1>2. "timeout" \in Outcomes \ Paid
  BY DEF Outcomes, Paid
<1>3. PICK x \in CallRec :
           /\ call' = [call EXCEPT ![c] = x]
           /\ x.route = call[c].route /\ x.log = Logged(c, "timeout") /\ CallOK(x)
  BY <1>1, <1>2, RoundFailedOK
<1>4. \/ x.log = call[c].log
      \/ \E o \in Outcomes \ Paid : x.log = Append(call[c].log, <<call[c].step, o>>)
  BY <1>2, <1>3 DEF Logged
<1> QED
  BY <1>1, <1>3, <1>4, JudgeUp, QuietMoves

LEMMA AnswerJudgeIInv ==
    ASSUME GatewayIInv, NEW c \in Calls, AnswerJudge(c)
    PROVE  GatewayIInv'
<1>1. Kind(c) = "judge" /\ call[c].pc = "wait" /\ worker = "up"
      /\ UNCHANGED <<batch, stored, lost, worker>>
  BY JudgeUp DEF AnswerJudge
<1>2. call \in [Calls -> CallRec] /\ call[c] \in CallRec /\ CallOK(call[c])
  BY DEF GatewayIInv
<1>3. PICK reply \in Replies :
           LET o == Outcome(c, reply) IN
           IF o # "ok" THEN Retry(c, o) /\ UNCHANGED pending
           ELSE /\ End(c, "ok", "ok") \/ RoundFailed(c, "malformed")
                /\ pending' = pending \cup {Row(c)}
  BY DEF AnswerJudge
<1>4. CASE Outcome(c, reply) # "ok"
  <2>1. Outcome(c, reply) \in Outcomes \ Paid
    BY <1>4, OutcomeType DEF Paid
  <2>2. Retry(c, Outcome(c, reply)) /\ UNCHANGED pending
    BY <1>3, <1>4
  <2>3. PICK x \in CallRec :
           /\ call' = [call EXCEPT ![c] = x] /\ x.route = call[c].route
           /\ x.log = Logged(c, Outcome(c, reply)) /\ CallOK(x)
    BY <1>1, <2>1, <2>2, RetryOK
  <2>4. x.log = Append(call[c].log, <<call[c].step, Outcome(c, reply)>>)
    BY <1>1, <2>3 DEF Logged
  <2> QED
    BY <1>1, <2>1, <2>2, <2>3, <2>4, QuietMoves DEF usage
<1>5. CASE Outcome(c, reply) = "ok"
  <2>1. pending' = pending \cup {Row(c)}
    BY <1>3, <1>5
  <2>2. PICK o \in Paid, x \in CallRec :
           /\ call' = [call EXCEPT ![c] = x] /\ x.route = call[c].route
           /\ x.log = Logged(c, o) /\ CallOK(x)
    <3>1. "ok" \in Outcomes /\ "malformed" \in Outcomes /\ Paid = {"ok", "malformed"}
      BY DEF Outcomes, Paid
    <3>2. CASE RoundFailed(c, "malformed")
      BY <1>1, <3>1, <3>2, RoundFailedOK
    <3>3. CASE End(c, "ok", "ok")
      <4>1. PICK x \in CallRec :
               /\ call' = [call EXCEPT ![c] = x] /\ x.route = call[c].route
               /\ x.pc = "done" /\ x.log = Logged(c, "ok")
               /\ x.attempt = call[c].attempt /\ x.round = call[c].round
        BY <1>2, <3>1, <3>3, EndRec
      <4>2. KindOf(call[c].route) = "judge" /\ JudgeOK(call[c])
        BY <1>1, <1>2, KindIs DEF CallOK
      <4>3. Len(x.log) <= JudgeCalls
        <5>1. call[c].round \in Nat /\ call[c].attempt \in Nat /\ MaxRetries \in Nat
              /\ JudgeRetries \in Nat
          BY <1>2, GatewayAssumption DEF CallRec
        <5>2. /\ call[c].round * (MaxRetries + 1) \in Nat
              /\ call[c].round * (MaxRetries + 1) + MaxRetries + 1 <= JudgeCalls
          BY <4>2, <5>1, RoundsLeft DEF JudgeOK
        <5>5. JudgeCalls \in Nat
          BY <5>1 DEF JudgeCalls
        <5>3. Len(x.log) = Len(call[c].log) + 1 /\ Len(call[c].log) \in Nat
          BY <1>1, <1>2, <3>1, <4>1, LoggedType
        <5>4. /\ Len(call[c].log) <= call[c].round * (MaxRetries + 1) + call[c].attempt
              /\ call[c].attempt <= MaxRetries
          BY <1>1, <4>2 DEF JudgeOK
        <5> DEFINE paid == call[c].round * (MaxRetries + 1)
                   n == Len(call[c].log)
        <5>6. /\ paid \in Nat /\ paid + MaxRetries + 1 <= JudgeCalls
              /\ Len(x.log) = n + 1 /\ n \in Nat /\ n <= paid + call[c].attempt
          BY <5>2, <5>3, <5>4
        <5> HIDE DEF paid, n
        <5> QED
          BY <5>1, <5>4, <5>5, <5>6
      <4>4. CallOK(x)
        BY <4>1, <4>2, <4>3 DEF CallOK, JudgeOK
      <4> QED
        BY <3>1, <4>1, <4>4
    <3> QED
      BY <1>3, <1>5, <3>2, <3>3
  <2>3. x.log = Append(call[c].log, <<call[c].step, o>>)
    BY <1>1, <2>2 DEF Logged
  <2>4. Len(call[c].log) + 1 <= JudgeCalls
    <3>1. o \in Outcomes
      BY DEF Outcomes, Paid
    <3>2. Len(x.log) = Len(call[c].log) + 1
      BY <1>1, <1>2, <2>2, <3>1, LoggedType
    <3>3. JudgeOK(x)
      BY <1>1, <2>2, KindIs DEF CallOK
    <3> QED
      BY <3>2, <3>3 DEF JudgeOK
  <2> QED
    BY <1>1, <2>1, <2>2, <2>3, <2>4, PaidMoves
<1> QED
  BY <1>4, <1>5

LEMMA WorkerIInv ==
    ASSUME GatewayIInv, Stop \/ Insert
    PROVE  GatewayIInv'
<1>1. call' = call
  BY DEF Stop, Insert
<1>2. Answered' = Answered /\ \A c \in Calls : Kind(c)' = Kind(c)
  BY <1>1 DEF Answered, Kind
<1>3. CASE Stop
  BY <1>1, <1>2, <1>3, FS_EmptySet DEF Stop, GatewayIInv, RowsOK
<1>4. CASE Insert
  <2>1. /\ batch' = {} /\ worker' = "down" /\ pending' = {}
        /\ \/ stored' = batch /\ lost' = {}
           \/ stored' = {} /\ lost' = batch
        /\ Answered = batch
    <3>1. pending = {} /\ stored = {} /\ lost = {} /\ Answered = batch
      BY <1>4 DEF Insert, GatewayIInv, RowsOK
    <3>2. /\ batch' = {} /\ worker' = "down" /\ pending' = pending
          /\ \/ stored' = stored \cup batch /\ lost' = lost
             \/ lost' = lost \cup batch /\ stored' = stored
      BY <1>4 DEF Insert
    <3>3. {} \cup batch = batch
      OBVIOUS
    <3> QED
      BY <3>1, <3>2, <3>3
  <2> QED
    BY <1>1, <1>2, <1>4, <2>1, FS_EmptySet DEF Insert, GatewayIInv, RowsOK
<1> QED
  BY <1>3, <1>4

LEMMA GatewayNextIInv == GatewayIInv /\ [GatewayNext]_gatewayVars => GatewayIInv'
<1> SUFFICES ASSUME GatewayIInv, [GatewayNext]_gatewayVars PROVE GatewayIInv'
  OBVIOUS
<1>1. ASSUME NEW c \in Calls,
             Begin(c) \/ Answers(c) \/ TimeOutStep(c) \/ TimeOutRound(c) \/ Chunk(c)
      PROVE  GatewayIInv'
  BY <1>1, BeginCallIInv, OnceIInv, SilentIInv, ChainIInv, TimeOutRoundIInv,
     AnswerJudgeIInv DEF Answers
<1>2. CASE Stop \/ Insert
  BY <1>2, WorkerIInv
<1>3. CASE UNCHANGED gatewayVars
  BY <1>3 DEF gatewayVars, GatewayIInv, RowsOK, Answered, Kind
<1> QED
  BY <1>1, <1>2, <1>3 DEF GatewayNext

LEMMA GatewayInductive == GatewaySpec => []GatewayIInv
BY GatewayInitIInv, GatewayNextIInv, PTL DEF GatewaySpec

(* Retries do not multiply, for any chain and any numbers of retries: the  *)
(* judge's two loops make no more calls than their product, a chain one    *)
(* for each step, and everything else one.                                 *)
THEOREM RetriesBounded == GatewaySpec => []CallsBounded
<1>1. GatewayIInv => CallsBounded
  <2> SUFFICES ASSUME GatewayIInv, NEW c \in Calls
               PROVE  Len(call[c].log) <=
                          CASE Kind(c) = "chain" -> call[c].route.chain
                            [] Kind(c) = "judge" -> (MaxRetries + 1) * (JudgeRetries + 1)
                            [] OTHER -> 1
    BY DEF CallsBounded
  <2>1. CallOK(call[c]) /\ Kind(c) = KindOf(call[c].route)
    BY KindIs DEF GatewayIInv
  <2>2. Kind(c) \in {"judge", "stream", "chain", "single"}
    BY <2>1, RouteKinds DEF GatewayIInv, CallRec
  <2>3. CASE Kind(c) = "chain"
    BY <2>1, <2>3 DEF CallOK, ChainOK
  <2>4. CASE Kind(c) = "judge"
    BY <2>1, <2>4 DEF CallOK, JudgeOK, JudgeCalls
  <2>5. CASE Kind(c) \in {"stream", "single"}
    BY <2>1, <2>5 DEF CallOK, OnceOK
  <2> QED
    BY <2>2, <2>3, <2>4, <2>5
<1> QED
  BY <1>1, GatewayInductive, PTL

(* Every answer the judge was given, understood or not, has exactly one    *)
(* usage row, and the row is in exactly one place, also while the worker   *)
(* stops and when its last insert fails.                                   *)
THEOREM EveryAnswerIsAccounted == GatewaySpec => []UsageConserved
<1>1. GatewayIInv => UsageConserved
  <2> SUFFICES ASSUME GatewayIInv
               PROVE  Cardinality(Answered) = Cardinality(pending) + Cardinality(batch)
                          + Cardinality(stored) + Cardinality(lost)
    BY DEF GatewayIInv, RowsOK, UsageConserved
  <2>1. Cardinality({}) = 0
    BY FS_EmptySet
  <2>2. Cardinality(Answered) \in Nat
    <3>1. IsFiniteSet(Answered)
      BY FS_Union DEF GatewayIInv, RowsOK
    <3> QED
      BY <3>1, FS_CardinalityType
  <2>3. CASE worker = "up"
    <3>1. Answered = pending /\ batch = {} /\ stored = {} /\ lost = {}
      BY <2>3 DEF GatewayIInv, RowsOK
    <3> QED
      BY <2>1, <2>2, <3>1
  <2>4. CASE worker = "flush"
    <3>1. Answered = batch /\ pending = {} /\ stored = {} /\ lost = {}
      BY <2>4 DEF GatewayIInv, RowsOK
    <3> QED
      BY <2>1, <2>2, <3>1
  <2>5. CASE worker = "down" /\ lost = {}
    <3>1. Answered = stored /\ pending = {} /\ batch = {} /\ lost = {}
      BY <2>5 DEF GatewayIInv, RowsOK
    <3> QED
      BY <2>1, <2>2, <3>1
  <2>6. CASE worker = "down" /\ stored = {}
    <3>1. Answered = lost /\ pending = {} /\ batch = {} /\ stored = {}
      BY <2>6 DEF GatewayIInv, RowsOK
    <3> QED
      BY <2>1, <2>2, <3>1
  <2> QED
    BY <2>3, <2>4, <2>5, <2>6 DEF GatewayIInv, RowsOK
<1> QED
  BY <1>1, GatewayInductive, PTL

-----------------------------------------------------------------------------
(* The chain implements FirstAnswer.                                       *)

ResultOf(c) ==
    IF c \notin Chained THEN 0
    ELSE CASE call[c].out = "none" -> 0
           [] call[c].out = "ok" -> call[c].step
           [] call[c].out = "exhausted" -> -1
           [] OTHER -> -2

LEMMA CountTo ==
    ASSUME NEW n \in Nat
    PROVE  Cardinality(1..n) = n
<1>1. Cardinality(1..n) = IF 1 > n THEN 0 ELSE n - 1 + 1
  BY FS_Interval
<1> QED
  BY <1>1

LEMMA FailuresSoFar ==
    ASSUME GatewayIInv, NEW c \in Calls, Kind(c) = "chain",
           call[c].pc \in {"idle", "wait"}
    PROVE  Failures(c) = call[c].step - 1
<1>1. call[c] \in CallRec /\ ChainOK(call[c])
  BY KindIs DEF GatewayIInv, CallOK
<1>2. /\ DOMAIN call[c].log = 1..Len(call[c].log) /\ Len(call[c].log) \in Nat
      /\ Len(call[c].log) = call[c].step - 1
  BY <1>1, LenProperties DEF CallRec, ChainOK
<1>3. {i \in DOMAIN call[c].log : call[c].log[i][2] \in Triggers} = 1..Len(call[c].log)
  BY <1>1, <1>2 DEF ChainOK
<1>4. Cardinality(1..Len(call[c].log)) = Len(call[c].log)
  BY <1>2, CountTo
<1> QED
  BY <1>2, <1>3, <1>4 DEF Failures

(* The provider that is asked adds a failure or not.                       *)
LEMMA OneMoreFailure ==
    ASSUME GatewayIInv, NEW c \in Calls, Kind(c) = "chain", call[c].pc = "wait",
           NEW o \in Outcomes, call'[c].log = Logged(c, o)
    PROVE  Failures(c)' = IF o \in Triggers THEN call[c].step ELSE call[c].step - 1
<1>1. call \in [Calls -> CallRec] /\ call[c] \in CallRec /\ ChainOK(call[c])
  BY KindIs DEF GatewayIInv, CallOK
<1> DEFINE n == Len(call[c].log)
           l == Append(call[c].log, <<call[c].step, o>>)
           S == {i \in DOMAIN l : l[i][2] \in Triggers}
<1>2. /\ DOMAIN call[c].log = 1..n /\ n \in Nat /\ n = call[c].step - 1
      /\ call[c].step \in Nat /\ call[c].log \in Seq(Nat \X Outcomes)
      /\ <<call[c].step, o>> \in Nat \X Outcomes
  BY <1>1, LenProperties DEF CallRec, ChainOK
<1>3. /\ l \in Seq(Nat \X Outcomes) /\ Len(l) = n + 1
      /\ \A i \in 1..n : l[i] = call[c].log[i]
      /\ l[n + 1] = <<call[c].step, o>>
  BY <1>2, AppendProperties
<1>4. DOMAIN l = 1..(n + 1)
  BY <1>3, LenProperties
<1>5. \A i \in 1..n : l[i][2] \in Triggers
  BY <1>1, <1>2, <1>3 DEF ChainOK
<1>6. call'[c].log = l
  BY <1>1 DEF Logged
<1> HIDE DEF l, n
<1>7. Failures(c)' = Cardinality(S)
  BY <1>6 DEF Failures
<1> HIDE DEF S
<1>8. CASE o \in Triggers
  <2>1. S = 1..(n + 1)
    BY <1>2, <1>3, <1>4, <1>5, <1>8 DEF S
  <2>2. Cardinality(1..(n + 1)) = n + 1
    BY <1>2, CountTo
  <2> QED
    BY <1>2, <1>7, <1>8, <2>1, <2>2
<1>9. CASE o \notin Triggers
  <2>1. S = 1..n
    BY <1>2, <1>3, <1>4, <1>5, <1>9 DEF S
  <2>2. Cardinality(1..n) = n
    BY <1>2, CountTo
  <2> QED
    BY <1>2, <1>7, <1>9, <2>1, <2>2
<1> QED
  BY <1>8, <1>9

(* A step of one call is a step of that request only, and only what it     *)
(* does to the log, the step and the result of a chain is seen.            *)
LEMMA OneRequest ==
    ASSUME GatewayIInv, NEW c \in Calls,
           \A d \in Calls : d # c => call'[d] = call[d],
           call'[c].route = call[c].route
    PROVE  /\ Chained' = Chained
           /\ \A d \in Calls : call'[d].route.chain = call[d].route.chain
           /\ \A d \in Calls : d # c => Failures(d)' = Failures(d)
<1>1. \A d \in Calls : call'[d].route = call[d].route
  OBVIOUS
<1>2. \A d \in Calls : Kind(d)' = Kind(d)
  BY <1>1 DEF Kind
<1> QED
  BY <1>1, <1>2 DEF Chained, Failures

LEMMA NoNews ==
    ASSUME GatewayIInv, NEW c \in Calls,
           \A d \in Calls : d # c => call'[d] = call[d],
           call'[c].route = call[c].route,
           \/ c \notin Chained
           \/ /\ call'[c].log = call[c].log /\ call'[c].out = call[c].out
              /\ call'[c].step = call[c].step
    PROVE  UNCHANGED Promise!vars
<1>1. /\ Chained' = Chained
      /\ \A d \in Calls : call'[d].route.chain = call[d].route.chain
      /\ \A d \in Calls : d # c => Failures(d)' = Failures(d)
  BY OneRequest
<1>2. ASSUME NEW d \in Calls, d \in Chained
      PROVE  /\ Failures(d)' = Failures(d)
             /\ call'[d].out = call[d].out /\ call'[d].step = call[d].step
  BY <1>1, <1>2 DEF Failures
<1>3. [d \in Calls |-> call[d].route.chain]' = [d \in Calls |-> call[d].route.chain]
  BY <1>1
<1>4. [d \in Calls |-> IF d \in Chained THEN Failures(d) ELSE 0]'
      = [d \in Calls |-> IF d \in Chained THEN Failures(d) ELSE 0]
  BY <1>1, <1>2
<1>5. [d \in Calls |-> ResultOf(d)]' = [d \in Calls |-> ResultOf(d)]
  BY <1>1, <1>2 DEF ResultOf
<1> QED
  BY <1>3, <1>4, <1>5 DEF Promise!vars, ResultOf

(* Asking one step of a chain, as the promise sees it: the other requests  *)
(* are left alone, the step that stands is the one after those that have   *)
(* failed, and what it answers decides what becomes of the request.        *)
LEMMA WalkSeen ==
    ASSUME GatewayIInv, NEW c \in Calls, Kind(c) = "chain", call[c].pc = "wait",
           NEW o \in Outcomes, Walk(c, o)
    PROVE  /\ Chained' = Chained /\ c \in Chained
           /\ \A d \in Calls : call'[d].route.chain = call[d].route.chain
           /\ \A d \in Calls : d # c => /\ Failures(d)' = Failures(d)
                                        /\ ResultOf(d)' = ResultOf(d)
           /\ call[c].step \in Nat /\ call[c].route.chain \in Nat
           /\ call[c].step <= call[c].route.chain
           /\ Failures(c) = call[c].step - 1 /\ ResultOf(c) = 0
           /\ \/ /\ o = "ok" /\ Failures(c)' = call[c].step - 1
                 /\ ResultOf(c)' = call[c].step
              \/ /\ o \in Triggers /\ call[c].step < call[c].route.chain
                 /\ Failures(c)' = call[c].step /\ ResultOf(c)' = 0
              \/ /\ o \in Triggers /\ call[c].step = call[c].route.chain
                 /\ Failures(c)' = call[c].step /\ ResultOf(c)' = -1
              \/ /\ o \notin Triggers /\ Failures(c)' = call[c].step - 1
                 /\ ResultOf(c)' = -2
<1>1. call \in [Calls -> CallRec] /\ call[c] \in CallRec /\ ChainOK(call[c])
  BY KindIs DEF GatewayIInv, CallOK
<1>2. /\ call[c].step \in Nat /\ call[c].step <= call[c].route.chain
      /\ call[c].out = "none" /\ call[c].route.chain \in Nat
  <2>1. call[c].step \in Nat /\ call[c].route \in Routes
    BY <1>1 DEF CallRec
  <2>2. call[c].route.chain \in Nat
    BY <2>1, KindIs, RouteKinds
  <2> QED
    BY <1>1, <2>1, <2>2 DEF ChainOK
<1>3. Failures(c) = call[c].step - 1 /\ c \in Chained /\ ResultOf(c) = 0
  BY <1>2, FailuresSoFar DEF Chained, ResultOf
<1>4. "ok" \notin Triggers
  BY DEF Triggers
<1>5. ASSUME NEW out \in {"ok", "raised", "exhausted"}, End(c, o, out)
      PROVE  /\ \A d \in Calls : d # c => call'[d] = call[d]
             /\ call'[c].route = call[c].route /\ call'[c].log = Logged(c, o)
             /\ call'[c].out = out /\ call'[c].step = call[c].step
  BY <1>1, <1>5 DEF End, CallRec
<1>6. ASSUME Again(c, o, "wait", call[c].step + 1, 0, 0)
      PROVE  /\ \A d \in Calls : d # c => call'[d] = call[d]
             /\ call'[c].route = call[c].route /\ call'[c].log = Logged(c, o)
             /\ call'[c].out = "none"
  BY <1>1, <1>2, <1>6 DEF Again, CallRec
<1>7. ASSUME \A d \in Calls : d # c => call'[d] = call[d],
             call'[c].route = call[c].route, call'[c].log = Logged(c, o)
      PROVE  /\ Chained' = Chained
             /\ \A d \in Calls : call'[d].route.chain = call[d].route.chain
             /\ \A d \in Calls : d # c => /\ Failures(d)' = Failures(d)
                                          /\ ResultOf(d)' = ResultOf(d)
             /\ Failures(c)' = IF o \in Triggers THEN call[c].step
                               ELSE call[c].step - 1
  <2>1. /\ Chained' = Chained
        /\ \A d \in Calls : call'[d].route.chain = call[d].route.chain
        /\ \A d \in Calls : d # c => Failures(d)' = Failures(d)
    BY <1>7, OneRequest
  <2>2. \A d \in Calls : d # c => ResultOf(d)' = ResultOf(d)
    BY <1>7, <2>1 DEF ResultOf
  <2>3. Failures(c)' = IF o \in Triggers THEN call[c].step ELSE call[c].step - 1
    BY <1>7, OneMoreFailure
  <2> QED
    BY <2>1, <2>2, <2>3
<1>8. CASE o = "ok"
  <2>1. End(c, o, "ok")
    BY <1>8 DEF Walk, Triggers
  <2>2. /\ \A d \in Calls : d # c => call'[d] = call[d]
        /\ call'[c].route = call[c].route /\ call'[c].log = Logged(c, o)
        /\ call'[c].out = "ok" /\ call'[c].step = call[c].step
    BY <1>5, <2>1
  <2>3. ResultOf(c)' = call[c].step
    BY <1>3, <1>7, <2>2 DEF ResultOf
  <2> QED
    BY <1>2, <1>3, <1>4, <1>7, <1>8, <2>2, <2>3
<1>9. CASE o \in Triggers /\ call[c].step < call[c].route.chain
  <2>1. Again(c, o, "wait", call[c].step + 1, 0, 0)
    BY <1>9 DEF Walk, Triggers
  <2>2. ResultOf(c)' = 0
    BY <1>3, <1>6, <1>7, <2>1 DEF ResultOf
  <2> QED
    BY <1>2, <1>3, <1>6, <1>7, <1>9, <2>1, <2>2
<1>10. CASE o \in Triggers /\ ~(call[c].step < call[c].route.chain)
  <2>1. End(c, o, "exhausted")
    BY <1>10 DEF Walk, Triggers
  <2>2. /\ \A d \in Calls : d # c => call'[d] = call[d]
        /\ call'[c].route = call[c].route /\ call'[c].log = Logged(c, o)
        /\ call'[c].out = "exhausted"
    BY <1>5, <2>1
  <2>3. ResultOf(c)' = -1
    BY <1>3, <1>7, <2>2 DEF ResultOf
  <2>4. call[c].step = call[c].route.chain
    BY <1>2, <1>10
  <2> QED
    BY <1>2, <1>3, <1>7, <1>10, <2>2, <2>3, <2>4
<1>11. CASE o # "ok" /\ o \notin Triggers
  <2>1. End(c, o, "raised")
    BY <1>11 DEF Walk
  <2>2. /\ \A d \in Calls : d # c => call'[d] = call[d]
        /\ call'[c].route = call[c].route /\ call'[c].log = Logged(c, o)
        /\ call'[c].out = "raised"
    BY <1>5, <2>1
  <2>3. ResultOf(c)' = -2
    BY <1>3, <1>7, <2>2 DEF ResultOf
  <2> QED
    BY <1>2, <1>3, <1>7, <1>11, <2>2, <2>3
<1> QED
  BY <1>8, <1>9, <1>10, <1>11

(* ... which is a step of the promise: the step's answer is the request's, *)
(* its failure moves the request on or ends it, its error refuses it.      *)
LEMMA WalkKeepsPromise ==
    ASSUME GatewayIInv, NEW c \in Calls, Kind(c) = "chain", call[c].pc = "wait",
           NEW o \in Outcomes, Walk(c, o)
    PROVE  Promise!Next
<1> DEFINE n == call[c].step
           chains == [d \in Calls |-> call[d].route.chain]
           fails == [d \in Calls |-> IF d \in Chained THEN Failures(d) ELSE 0]
           results == [d \in Calls |-> ResultOf(d)]
<1>1. /\ Chained' = Chained /\ c \in Chained
      /\ \A d \in Calls : call'[d].route.chain = call[d].route.chain
      /\ \A d \in Calls : d # c => /\ Failures(d)' = Failures(d)
                                   /\ ResultOf(d)' = ResultOf(d)
  BY WalkSeen
<1>2. n \in Nat /\ chains[c] \in Nat /\ n <= chains[c]
  BY WalkSeen
<1>3. fails[c] = n - 1 /\ results[c] = 0 /\ n = fails[c] + 1
  BY WalkSeen
<1>4. chains' = chains
  BY <1>1
<1>5. fails' = [fails EXCEPT ![c] = Failures(c)']
  BY <1>1
<1>6. results' = [results EXCEPT ![c] = ResultOf(c)']
  BY <1>1
<1>7. CASE o = "ok" /\ Failures(c)' = n - 1 /\ ResultOf(c)' = n
  <2>1. fails' = fails /\ results' = [results EXCEPT ![c] = fails[c] + 1]
    BY <1>3, <1>5, <1>6, <1>7
  <2>2. fails[c] < chains[c]
    BY <1>2, <1>3
  <2> HIDE DEF n
  <2>3. Promise!Answer(c)
    BY <1>3, <1>4, <2>1, <2>2 DEF Promise!Answer, ResultOf
  <2> QED
    BY <2>3 DEF Promise!Next
<1>8. CASE n < chains[c] /\ Failures(c)' = n /\ ResultOf(c)' = 0
  <2>1. fails' = [fails EXCEPT ![c] = fails[c] + 1] /\ results' = results
    BY <1>3, <1>5, <1>6, <1>8
  <2>2. fails[c] + 1 < chains[c]
    BY <1>3, <1>8
  <2> HIDE DEF n
  <2>3. Promise!Fail(c)
    BY <1>3, <1>4, <2>1, <2>2 DEF Promise!Fail, ResultOf
  <2> QED
    BY <2>3 DEF Promise!Next
<1>9. CASE n = chains[c] /\ Failures(c)' = n /\ ResultOf(c)' = -1
  <2>1. fails' = [fails EXCEPT ![c] = fails[c] + 1]
        /\ results' = [results EXCEPT ![c] = -1]
    BY <1>3, <1>5, <1>6, <1>9
  <2>2. fails[c] + 1 = chains[c]
    BY <1>3, <1>9
  <2> HIDE DEF n
  <2>3. Promise!GiveUp(c)
    BY <1>3, <1>4, <2>1, <2>2 DEF Promise!GiveUp, ResultOf
  <2> QED
    BY <2>3 DEF Promise!Next
<1>10. CASE Failures(c)' = n - 1 /\ ResultOf(c)' = -2
  <2>1. fails' = fails /\ results' = [results EXCEPT ![c] = -2]
    BY <1>3, <1>5, <1>6, <1>10
  <2> HIDE DEF n
  <2>2. Promise!Refuse(c)
    BY <1>3, <1>4, <2>1 DEF Promise!Refuse, ResultOf
  <2> QED
    BY <2>2 DEF Promise!Next
<1> QED
  BY <1>7, <1>8, <1>9, <1>10, WalkSeen

(* Every step of the gateway is a step of the promise or is not seen by    *)
(* it: only the answer of a chain's step is, and its timeout.              *)
LEMMA StepKeepsPromise ==
    ASSUME GatewayIInv, [GatewayNext]_gatewayVars
    PROVE  [Promise!Next]_(Promise!vars)
<1>1. call \in [Calls -> CallRec]
  BY DEF GatewayIInv
<1>2. ASSUME UNCHANGED call
      PROVE  UNCHANGED Promise!vars
  BY <1>2 DEF Promise!vars, Chained, Kind, Failures
<1>3. ASSUME NEW c \in Calls, AnswerChain(c) \/ TimeOutStep(c)
      PROVE  Promise!Next
  <2>1. "timeout" \in Outcomes
    BY DEF Outcomes
  <2>2. PICK o \in Outcomes : Walk(c, o)
    BY <1>3, <2>1, OutcomeType DEF AnswerChain, TimeOutStep
  <2>3. Kind(c) = "chain" /\ call[c].pc = "wait"
    BY <1>3 DEF AnswerChain, TimeOutStep
  <2> QED
    BY <2>2, <2>3, WalkKeepsPromise
<1>4. ASSUME NEW c \in Calls, Kind(c) # "chain",
             \A d \in Calls : d # c => call'[d] = call[d],
             call'[c].route = call[c].route
      PROVE  UNCHANGED Promise!vars
  BY <1>4, NoNews DEF Chained
<1>5. ASSUME NEW c \in Calls, NEW o, NEW out, End(c, o, out)
      PROVE  /\ \A d \in Calls : d # c => call'[d] = call[d]
             /\ call'[c].route = call[c].route
  BY <1>1, <1>5 DEF End, CallRec
<1>6. ASSUME NEW c \in Calls, NEW o, NEW pc, NEW step, NEW attempt, NEW round,
             Again(c, o, pc, step, attempt, round)
      PROVE  /\ \A d \in Calls : d # c => call'[d] = call[d]
             /\ call'[c].route = call[c].route
  BY <1>1, <1>6 DEF Again, CallRec
<1>7. ASSUME NEW c \in Calls, NEW o, RoundFailed(c, o)
      PROVE  /\ \A d \in Calls : d # c => call'[d] = call[d]
             /\ call'[c].route = call[c].route
  BY <1>5, <1>6, <1>7 DEF RoundFailed
<1>8. ASSUME NEW c \in Calls, Begin(c) \/ BackOff(c) \/ Chunk(c)
      PROVE  UNCHANGED Promise!vars
  <2>1. /\ \A d \in Calls : d # c => call'[d] = call[d]
        /\ call'[c].route = call[c].route /\ call'[c].log = call[c].log
        /\ call'[c].out = call[c].out /\ call'[c].step = call[c].step
    BY <1>1, <1>8 DEF Begin, BackOff, Chunk, CallRec
  <2> QED
    BY <2>1, NoNews
<1>9. ASSUME NEW c \in Calls, ResolveOnly(c)
      PROVE  UNCHANGED Promise!vars
  <2>1. /\ \A d \in Calls : d # c => call'[d] = call[d]
        /\ call'[c].route = call[c].route
    BY <1>1, <1>9 DEF ResolveOnly, CallRec
  <2> QED
    BY <1>4, <1>9, <2>1 DEF ResolveOnly
<1>10. ASSUME NEW c \in Calls, AnswerSingle(c) \/ EndStream(c)
       PROVE  UNCHANGED Promise!vars
  <2>1. \E o, out : End(c, o, out)
    BY <1>10 DEF AnswerSingle, EndStream
  <2>2. Kind(c) # "chain"
    BY <1>10 DEF AnswerSingle, EndStream
  <2> QED
    BY <1>4, <1>5, <2>1, <2>2
<1>11. ASSUME NEW c \in Calls, AnswerJudge(c) \/ TimeOutRound(c)
       PROVE  UNCHANGED Promise!vars
  <2>1. \/ \E o, out : End(c, o, out)
        \/ \E o : RoundFailed(c, o)
        \/ \E o, pc, step, attempt, round : Again(c, o, pc, step, attempt, round)
    <3>1. CASE TimeOutRound(c)
      BY <3>1 DEF TimeOutRound
    <3>2. CASE AnswerJudge(c)
      BY <3>2 DEF AnswerJudge, Retry
    <3> QED
      BY <1>11, <3>1, <3>2
  <2>2. Kind(c) # "chain"
    BY <1>11 DEF AnswerJudge, TimeOutRound
  <2>3. /\ \A d \in Calls : d # c => call'[d] = call[d]
        /\ call'[c].route = call[c].route
    BY <1>5, <1>6, <1>7, <2>1
  <2> QED
    BY <1>4, <2>2, <2>3
<1>12. CASE Stop \/ Insert \/ UNCHANGED gatewayVars
  BY <1>2, <1>12 DEF Stop, Insert, gatewayVars
<1>13. CASE \E c \in Calls : Begin(c) \/ Answers(c) \/ TimeOutStep(c)
                             \/ TimeOutRound(c) \/ Chunk(c)
  BY <1>3, <1>8, <1>9, <1>10, <1>11, <1>13 DEF Answers
<1> QED
  BY <1>12, <1>13 DEF GatewayNext

LEMMA PromiseBegins == GatewayInit => Promise!Init
<1> SUFFICES ASSUME GatewayInit
             PROVE  Promise!Init
  OBVIOUS
<1>1. GatewayIInv
  BY GatewayInitIInv
<1>2. ASSUME NEW c \in Calls
      PROVE  call[c].route.chain \in Nat /\ call[c].log = <<>> /\ call[c].out = "none"
  <2>1. PICK r \in Routes : call[c] = NewCall(r)
    BY <1>2 DEF GatewayInit
  <2>2. r.chain \in Nat
    BY RouteKinds
  <2> QED
    BY <2>1, <2>2 DEF NewCall
<1>3. ASSUME NEW c \in Calls, c \in Chained
      PROVE  Failures(c) = 0
  <2>1. Kind(c) = "chain" /\ call[c].pc = "idle" /\ call[c].step = 1
    BY <1>3 DEF Chained, GatewayInit, NewCall
  <2> QED
    BY <1>1, <2>1, FailuresSoFar
<1>4. \A c \in Calls : ResultOf(c) = 0
  BY <1>2 DEF ResultOf
<1> QED
  BY <1>2, <1>3, <1>4 DEF Promise!Init, ResultOf

(* KeepsPromise: FallbackResolver.ainvoke implements FirstAnswer for every *)
(* chain, of whatever length and dialects, and every order of answers,     *)
(* failures and timeouts of any number of requests: the steps are asked in *)
(* order, the first answer is the result, it is given up only when every   *)
(* step has failed, and nobody is asked once there is a result.            *)
THEOREM ChainKeepsPromise == GatewaySpec => KeepsPromise
<1>1. GatewayInit => Promise!Init
  BY PromiseBegins
<1>2. GatewayIInv /\ [GatewayNext]_gatewayVars => [Promise!Next]_(Promise!vars)
  BY StepKeepsPromise
<1> QED
  BY <1>1, <1>2, GatewayInductive, PTL DEF KeepsPromise, GatewaySpec, Promise!Spec

-----------------------------------------------------------------------------
(* The tenant's configuration and its audit log, for any number of         *)
(* administrators, providers and requests.                                 *)

Values == Keys \cup Models \cup Providers \cup {NULL, "True", "False"}

Entry ==
    [provider : Providers, field : Fields \cup {"deleted"}, old : Values,
     new : Values, at : Nat]

AdminRec ==
    [pc : {"idle", "key", "write", "invalidate"},
     op : {"post", "patch", "delete", NULL}, provider : Providers \cup {NULL},
     payload : Posts \cup Patches \cup {NULL}, old : TenantLLMConfig \cup {NULL},
     oldKey : Values, at : Nat]

(* The audit entries account for a row.                                    *)
Covered(p, r) == \A f \in Fields : \E e \in EntriesOf(p, f) : e.new = Shown(r)[f]

(* The entry of a field that LatestValue finds.                            *)
IsNewest(e, p, f) == e \in EntriesOf(p, f) /\ \A d \in EntriesOf(p, f) : d.at <= e.at

Working(a) == admin[a].pc \in {"key", "write"}

(* Entries of one time are those of one transaction, which writes a field  *)
(* once.                                                                   *)
LogOK ==
    /\ \A e \in audit : e.at < clock
    /\ \A e, d \in audit :
          e.provider = d.provider /\ e.field = d.field /\ e.at = d.at => e = d
    /\ \A p \in Providers, f \in Fields :
          EntriesOf(p, f) # {} => \E e \in audit : IsNewest(e, p, f)

(* What a request that has read its row goes by: the row it copied is      *)
(* accounted for, and so is the key it looked up.                          *)
Copied(s) ==
    /\ s.op \in {"post", "patch", "delete"} /\ s.provider \in Providers
    /\ s.op = "post" => s.payload \in Posts
    /\ s.op = "patch" => s.payload \in Patches
    /\ s.op # "post" => s.old # NULL /\ s.pc = "write"
    /\ s.old # NULL => Covered(s.provider, s.old)
    /\ s.pc = "write" /\ s.op = "post" =>
          s.oldKey = NULL \/ \E e \in EntriesOf(s.provider, "key") : e.new = s.oldKey

(* While nobody else has worked on its provider the copy is the row and    *)
(* everything in the log is older.                                         *)
Alone(s) ==
    /\ s.old = rows[s.provider]
    /\ \A e \in audit : e.provider = s.provider => e.at < s.at
    /\ s.pc = "write" /\ s.op = "post" => s.oldKey = LatestValue(s.provider, "key")

AdminsOK ==
    /\ \A a \in Admins : Working(a) =>
          /\ Copied(admin[a])
          /\ admin[a].at < clock /\ \A e \in audit : e.at # admin[a].at
          /\ admin[a].provider \notin raced => Alone(admin[a])
    /\ \A a, b \in Admins : Working(a) /\ Working(b) /\ a # b =>
          /\ admin[a].at # admin[b].at
          /\ admin[a].provider = admin[b].provider => admin[a].provider \in raced

ConfigType ==
    /\ rows \in [Providers -> TenantLLMConfig \cup {NULL}]
    /\ audit \subseteq Entry
    /\ admin \in [Admins -> AdminRec]
    /\ clock \in Nat

ConfigIInv == ConfigType /\ LogOK /\ AdminsOK /\ AuditCovers /\ AuditExactUnlessRaced

LEMMA ConfigInitIInv == ConfigInit => ConfigIInv
<1> SUFFICES ASSUME ConfigInit
             PROVE  ConfigIInv
  OBVIOUS
<1>1. IdleAdmin \in AdminRec
  BY DEF IdleAdmin, AdminRec, Values
<1>2. ConfigType /\ \A a \in Admins : ~Working(a)
  BY <1>1 DEF ConfigInit, ConfigType, Working, IdleAdmin
<1>3. \A p, f : EntriesOf(p, f) = {}
  BY DEF ConfigInit, EntriesOf
<1>4. LogOK
  BY <1>3 DEF ConfigInit, LogOK
<1>5. AuditCovers /\ AuditExactUnlessRaced
  BY DEF ConfigInit, AuditCovers, AuditExactUnlessRaced
<1> QED
  BY <1>2, <1>4, <1>5 DEF ConfigIInv, AdminsOK

(* The newest of a set of entries is found whichever way it is chosen.     *)
LEMMA NewestIs ==
    ASSUME NEW S, \A d \in S : d.at \in Nat,
           \A d, e \in S : d.at = e.at => d = e,
           NEW e \in S, \A d \in S : d.at <= e.at
    PROVE  (CHOOSE x \in S : \A d \in S : d.at <= x.at) = e
<1> DEFINE x == CHOOSE x \in S : \A d \in S : d.at <= x.at
<1>1. x \in S /\ \A d \in S : d.at <= x.at
  OBVIOUS
<1> HIDE DEF x
<1>2. x.at <= e.at /\ e.at <= x.at /\ x.at \in Nat /\ e.at \in Nat
  BY <1>1
<1>3. x.at = e.at
  BY <1>2
<1>4. x = e
  BY <1>1, <1>3
<1> QED
  BY <1>4 DEF x

LEMMA LatestIs ==
    ASSUME ConfigType, LogOK, NEW p \in Providers, NEW f \in Fields, NEW e \in audit,
           IsNewest(e, p, f)
    PROVE  LatestValue(p, f) = e.new
<1>1. e \in EntriesOf(p, f) /\ \A d \in EntriesOf(p, f) : d.at <= e.at
  BY DEF IsNewest
<1>2. \A d \in EntriesOf(p, f) : d.at \in Nat
  BY DEF ConfigType, Entry, EntriesOf
<1>3. \A d, x \in EntriesOf(p, f) : d.at = x.at => d = x
  BY DEF LogOK, EntriesOf
<1>4. (CHOOSE x \in EntriesOf(p, f) : \A d \in EntriesOf(p, f) : d.at <= x.at) = e
  BY <1>1, <1>2, <1>3, NewestIs
<1> QED
  BY <1>1, <1>4 DEF LatestValue

(* What the upsert looks up is the new value of an entry, or nothing.      *)
LEMMA LatestRecorded ==
    ASSUME ConfigType, LogOK, NEW p \in Providers, NEW f \in Fields
    PROVE  /\ LatestValue(p, f) = NULL
              \/ \E e \in EntriesOf(p, f) : e.new = LatestValue(p, f)
           /\ LatestValue(p, f) \in Values
<1>1. CASE EntriesOf(p, f) = {}
  BY <1>1 DEF LatestValue, Values
<1>2. CASE EntriesOf(p, f) # {}
  <2>1. PICK e \in audit : IsNewest(e, p, f)
    BY <1>2 DEF LogOK
  <2>2. LatestValue(p, f) = e.new /\ e \in EntriesOf(p, f)
    BY <2>1, LatestIs DEF IsNewest
  <2>3. e.new \in Values
    BY DEF ConfigType, Entry
  <2> QED
    BY <2>2, <2>3
<1> QED
  BY <1>1, <1>2

-----------------------------------------------------------------------------
(* Steps that write no row and no entry.                                   *)

LEMMA LogKept ==
    ASSUME ConfigIInv, UNCHANGED <<rows, audit>>, clock' \in {clock, clock + 1}
    PROVE  /\ LogOK' /\ AuditCovers' /\ clock' \in Nat
           /\ \A p, f : EntriesOf(p, f)' = EntriesOf(p, f)
           /\ \A p, f : LatestValue(p, f)' = LatestValue(p, f)
           /\ raced \subseteq raced' => AuditExactUnlessRaced'
<1>1. \A p, f : EntriesOf(p, f)' = EntriesOf(p, f)
  BY DEF EntriesOf
<1>2. ASSUME NEW p, NEW f
      PROVE  LatestValue(p, f)' = LatestValue(p, f)
  <2>1. EntriesOf(p, f)' = EntriesOf(p, f)
    BY <1>1
  <2> QED
    BY <2>1 DEF LatestValue
<1>3. clock \in Nat /\ clock' \in Nat /\ clock <= clock'
  BY DEF ConfigIInv, ConfigType
<1>4. \A e \in audit : e.at \in Nat /\ e.at < clock
  BY DEF ConfigIInv, ConfigType, Entry, LogOK
<1>5. \A e \in audit' : e.at < clock'
  BY <1>3, <1>4
<1>6. \A e, p, f : IsNewest(e, p, f) => IsNewest(e, p, f)'
  BY <1>1 DEF IsNewest
<1>7. LogOK'
  BY <1>1, <1>5, <1>6 DEF ConfigIInv, LogOK
<1>8. AuditCovers'
  BY <1>1 DEF ConfigIInv, AuditCovers
<1>9. ASSUME raced \subseteq raced'
      PROVE  AuditExactUnlessRaced'
  BY <1>1, <1>2, <1>9 DEF ConfigIInv, AuditExactUnlessRaced
<1> QED
  BY <1>1, <1>2, <1>3, <1>7, <1>8, <1>9

(* ... and after which nobody works that did not work before.              *)
LEMMA RestIInv ==
    ASSUME ConfigIInv, UNCHANGED <<rows, audit, raced>>, clock' \in {clock, clock + 1},
           admin' \in [Admins -> AdminRec],
           \A b \in Admins : Working(b)' => admin'[b] = admin[b]
    PROVE  ConfigIInv'
<1>1. /\ LogOK' /\ AuditCovers' /\ clock' \in Nat /\ AuditExactUnlessRaced'
      /\ \A p, f : EntriesOf(p, f)' = EntriesOf(p, f)
      /\ \A p, f : LatestValue(p, f)' = LatestValue(p, f)
  BY LogKept
<1>2. ConfigType'
  BY <1>1 DEF ConfigIInv, ConfigType
<1>3. \A b \in Admins : Working(b)' => Working(b)
  BY DEF Working
<1>4. ASSUME NEW b \in Admins, Working(b)'
      PROVE  /\ Copied(admin[b])' /\ (admin[b].at < clock)'
             /\ (\A e \in audit : e.at # admin[b].at)'
             /\ (admin[b].provider \notin raced => Alone(admin[b]))'
  <2>1. /\ Copied(admin[b]) /\ admin[b].at < clock
        /\ \A e \in audit : e.at # admin[b].at
        /\ admin[b].provider \notin raced => Alone(admin[b])
    BY <1>3, <1>4 DEF ConfigIInv, AdminsOK
  <2>2. admin'[b] = admin[b]
    BY <1>4
  <2>3. Copied(admin[b])'
    BY <1>1, <2>1, <2>2 DEF Copied, Covered
  <2>4. (admin[b].provider \notin raced => Alone(admin[b]))'
    BY <1>1, <2>1, <2>2 DEF Alone
  <2>5. admin[b].at \in Nat /\ clock \in Nat
    BY DEF ConfigIInv, ConfigType, AdminRec
  <2>6. admin[b].at < clock'
    BY <2>1, <2>5
  <2> QED
    BY <2>1, <2>2, <2>3, <2>4, <2>6
<1>5. ASSUME NEW b \in Admins, NEW d \in Admins, Working(b)', Working(d)', b # d
      PROVE  /\ (admin[b].at # admin[d].at)'
             /\ (admin[b].provider = admin[d].provider => admin[b].provider \in raced)'
  BY <1>3, <1>5 DEF ConfigIInv, AdminsOK
<1>6. AdminsOK'
  BY <1>4, <1>5 DEF AdminsOK
<1> QED
  BY <1>1, <1>2, <1>6 DEF ConfigIInv

(* A request that begins copies a row that is accounted for, and is later  *)
(* than every entry; whoever works on the same provider is noticed.        *)
LEMMA BeginOnIInv ==
    ASSUME ConfigIInv, NEW a \in Admins, NEW op \in {"post", "patch", "delete"},
           NEW p \in Providers, NEW payload, BeginOn(a, op, p, payload),
           op = "post" => payload \in Posts,
           op = "patch" => payload \in Patches /\ rows[p] # NULL,
           op = "delete" => payload = NULL /\ rows[p] # NULL
    PROVE  ConfigIInv'
<1> DEFINE s == [pc |-> IF op = "post" THEN "key" ELSE "write", op |-> op,
                 provider |-> p, payload |-> payload, old |-> rows[p],
                 oldKey |-> NULL, at |-> clock]
<1>1. /\ clock \in Nat /\ clock + 1 \in Nat /\ rows[p] \in TenantLLMConfig \cup {NULL}
      /\ admin \in [Admins -> AdminRec]
  BY DEF ConfigIInv, ConfigType
<1>2. s \in AdminRec
  BY <1>1 DEF AdminRec, Values
<1>3. /\ admin' = [admin EXCEPT ![a] = s]
      /\ clock' = clock + 1 /\ UNCHANGED <<rows, audit>> /\ raced \subseteq raced'
      /\ (\E o \in Admins \ {a} : admin[o].provider = p) => p \in raced'
  BY DEF BeginOn, tables
<1>4. /\ s.op = op /\ s.provider = p /\ s.payload = payload /\ s.old = rows[p]
      /\ s.at = clock /\ s.pc \in {"key", "write"}
      /\ op # "post" => s.pc = "write"
      /\ op = "post" => s.pc = "key"
  OBVIOUS
<1> HIDE DEF s
<1>5. /\ admin' \in [Admins -> AdminRec] /\ admin'[a] = s
      /\ \A b \in Admins : b # a => admin'[b] = admin[b]
  BY <1>1, <1>2, <1>3
<1>6. /\ LogOK' /\ AuditCovers' /\ clock' \in Nat /\ AuditExactUnlessRaced'
      /\ \A q, f : EntriesOf(q, f)' = EntriesOf(q, f)
      /\ \A q, f : LatestValue(q, f)' = LatestValue(q, f)
  BY <1>1, <1>3, LogKept
<1>7. ConfigType'
  BY <1>3, <1>5, <1>6 DEF ConfigIInv, ConfigType
<1>8. \A e \in audit : e.at < clock /\ e.at \in Nat
  BY DEF ConfigIInv, ConfigType, Entry, LogOK
<1>9. ASSUME NEW b \in Admins, b # a, Working(b)'
      PROVE  /\ Copied(admin[b])' /\ (admin[b].at < clock)'
             /\ (\A e \in audit : e.at # admin[b].at)'
             /\ (admin[b].provider \notin raced => Alone(admin[b]))'
             /\ admin[b].at < clock
  <2>1. admin'[b] = admin[b] /\ Working(b)
    BY <1>5, <1>9 DEF Working
  <2>2. /\ Copied(admin[b]) /\ admin[b].at < clock
        /\ \A e \in audit : e.at # admin[b].at
        /\ admin[b].provider \notin raced => Alone(admin[b])
    BY <2>1 DEF ConfigIInv, AdminsOK
  <2>3. Copied(admin[b])'
    BY <1>6, <2>1, <2>2 DEF Copied, Covered
  <2>4. (admin[b].provider \notin raced => Alone(admin[b]))'
    BY <1>3, <1>6, <2>1, <2>2 DEF Alone
  <2>5. admin[b].at \in Nat
    BY <1>1 DEF AdminRec
  <2>6. admin[b].at < clock'
    BY <1>1, <1>3, <2>2, <2>5
  <2> QED
    BY <1>3, <2>1, <2>2, <2>3, <2>4, <2>6
<1>10. /\ Copied(admin[a])' /\ (admin[a].at < clock)'
       /\ (\A e \in audit : e.at # admin[a].at)'
       /\ (admin[a].provider \notin raced => Alone(admin[a]))'
  <2>1. rows[p] # NULL => Covered(p, rows[p])
    BY DEF ConfigIInv, AuditCovers, Covered
  <2>2. Copied(admin[a])'
    <3>1. /\ admin'[a].op = op /\ admin'[a].provider = p /\ admin'[a].payload = payload
          /\ admin'[a].old = rows[p] /\ admin'[a].pc \in {"key", "write"}
          /\ op # "post" => admin'[a].pc = "write"
          /\ op = "post" => admin'[a].pc = "key"
      BY <1>4, <1>5
    <3>2. (admin[a].old # NULL => Covered(admin[a].provider, admin[a].old))'
      BY <1>6, <2>1, <3>1 DEF Covered
    <3> QED
      BY <3>1, <3>2 DEF Copied
  <2>3. (\A e \in audit : e.at # admin[a].at)' /\ (admin[a].at < clock)'
    BY <1>1, <1>3, <1>4, <1>5, <1>8
  <2>4. Alone(admin[a])'
    BY <1>3, <1>4, <1>5, <1>8 DEF Alone
  <2> QED
    BY <2>2, <2>3, <2>4
<1>11. ASSUME NEW b \in Admins, b # a, Working(b)'
       PROVE  /\ admin'[b].at # admin'[a].at
              /\ admin'[b].provider = admin'[a].provider => admin'[a].provider \in raced'
  <2>1. admin[b].at \in Nat /\ admin[b].at < clock
    BY <1>1, <1>9, <1>11 DEF AdminRec
  <2> QED
    BY <1>1, <1>3, <1>4, <1>5, <1>11, <2>1
<1>12. ASSUME NEW b \in Admins, NEW d \in Admins, b # a, d # a, b # d,
              Working(b)', Working(d)'
       PROVE  /\ admin'[b].at # admin'[d].at
              /\ admin'[b].provider = admin'[d].provider => admin'[b].provider \in raced'
  <2>1. admin'[b] = admin[b] /\ admin'[d] = admin[d]
    BY <1>5, <1>12
  <2>2. Working(b) /\ Working(d)
    BY <1>12, <2>1 DEF Working
  <2> QED
    BY <1>3, <1>12, <2>1, <2>2 DEF ConfigIInv, AdminsOK
<1>13. \A b, d \in Admins : Working(b)' /\ Working(d)' /\ b # d =>
          /\ admin'[b].at # admin'[d].at
          /\ admin'[b].provider = admin'[d].provider => admin'[b].provider \in raced'
  BY <1>11, <1>12
<1>14. AdminsOK'
  BY <1>9, <1>10, <1>13 DEF AdminsOK
<1> QED
  BY <1>6, <1>7, <1>14 DEF ConfigIInv

LEMMA ReadLatestKeyIInv ==
    ASSUME ConfigIInv, NEW a \in Admins, ReadLatestKey(a)
    PROVE  ConfigIInv'
<1> DEFINE s == [admin[a] EXCEPT !.pc = "write",
                                 !.oldKey = LatestValue(admin[a].provider, "key")]
<1>1. /\ admin[a].pc = "key" /\ admin' = [admin EXCEPT ![a] = s]
      /\ UNCHANGED <<rows, audit, clock, raced>>
  BY DEF ReadLatestKey, tables
<1>2. admin \in [Admins -> AdminRec] /\ admin[a] \in AdminRec
  BY DEF ConfigIInv, ConfigType
<1>3. Working(a)
  BY <1>1 DEF Working
<1>4. /\ Copied(admin[a]) /\ admin[a].at < clock /\ \A e \in audit : e.at # admin[a].at
      /\ admin[a].provider \notin raced => Alone(admin[a])
  BY <1>3 DEF ConfigIInv, AdminsOK
<1>5. admin[a].op = "post" /\ admin[a].provider \in Providers
  BY <1>1, <1>4 DEF Copied
<1> DEFINE k == LatestValue(admin[a].provider, "key")
<1>6. /\ k \in Values
      /\ k = NULL \/ \E e \in EntriesOf(admin[a].provider, "key") : e.new = k
  BY <1>5, LatestRecorded DEF ConfigIInv, Fields
<1>7. /\ s \in AdminRec /\ s.op = "post" /\ s.provider = admin[a].provider
      /\ s.payload = admin[a].payload /\ s.old = admin[a].old /\ s.at = admin[a].at
      /\ s.oldKey = k /\ s.pc = "write"
  <2> HIDE DEF k
  <2>1. [admin[a] EXCEPT !.pc = "write", !.oldKey = k] \in AdminRec
    BY <1>2, <1>6 DEF AdminRec
  <2> QED
    BY <1>2, <1>5, <2>1 DEF AdminRec, k
<1>8. Copied(s) /\ (s.provider \notin raced => Alone(s))
  <2> HIDE DEF s, k
  <2>1. s.old # NULL => Covered(s.provider, s.old)
    BY <1>4, <1>7 DEF Copied
  <2>3. s.oldKey = NULL \/ \E e \in EntriesOf(s.provider, "key") : e.new = s.oldKey
    BY <1>6, <1>7
  <2>4. s.payload \in Posts /\ s.provider \in Providers
    BY <1>4, <1>5, <1>7 DEF Copied
  <2>5. Copied(s)
    BY <1>7, <2>1, <2>3, <2>4 DEF Copied
  <2>2. s.provider \notin raced => Alone(s)
    BY <1>4, <1>7 DEF Alone, k
  <2> QED
    BY <2>2, <2>5
<1> HIDE DEF s, k

<1>9. /\ LogOK' /\ AuditCovers' /\ clock' \in Nat /\ AuditExactUnlessRaced'
      /\ \A q, f : EntriesOf(q, f)' = EntriesOf(q, f)
      /\ \A q, f : LatestValue(q, f)' = LatestValue(q, f)
  BY <1>1, LogKept
<1>10. /\ admin' \in [Admins -> AdminRec] /\ admin'[a] = s
       /\ \A b \in Admins : b # a => admin'[b] = admin[b]
  BY <1>1, <1>2, <1>7
<1>11. ConfigType'
  BY <1>1, <1>9, <1>10 DEF ConfigIInv, ConfigType
<1>12. \A b \in Admins : /\ Working(b)' => Working(b)
                         /\ admin'[b].at = admin[b].at
                         /\ admin'[b].provider = admin[b].provider
  BY <1>3, <1>7, <1>10 DEF Working
<1>13. ASSUME NEW b \in Admins, Working(b)'
       PROVE  /\ Copied(admin[b])' /\ (admin[b].at < clock)'
              /\ (\A e \in audit : e.at # admin[b].at)'
              /\ (admin[b].provider \notin raced => Alone(admin[b]))'
  <2>1. /\ Copied(admin'[b]) /\ admin[b].at < clock
        /\ \A e \in audit : e.at # admin[b].at
        /\ admin'[b].provider \notin raced => Alone(admin'[b])
    <3>1. CASE b = a
      BY <1>4, <1>8, <1>10, <3>1
    <3>2. CASE b # a
      BY <1>10, <1>12, <1>13, <3>2 DEF ConfigIInv, AdminsOK
    <3> QED
      BY <3>1, <3>2
  <2>2. Copied(admin[b])'
    BY <1>9, <2>1 DEF Copied, Covered
  <2>3. (admin[b].provider \notin raced => Alone(admin[b]))'
    BY <1>1, <1>9, <2>1 DEF Alone
  <2> QED
    BY <1>1, <1>12, <2>1, <2>2, <2>3
<1>14. AdminsOK'
  BY <1>1, <1>12, <1>13 DEF ConfigIInv, AdminsOK
<1> QED
  BY <1>9, <1>11, <1>14 DEF ConfigIInv

-----------------------------------------------------------------------------
(* The writes.  N is what a transaction of time t adds to the log of p.    *)

LEMMA EntriesGrow ==
    ASSUME NEW p, NEW N, \A e \in N : e.provider = p,
           \A d, e \in N : d.field = e.field => d = e, audit' = audit \cup N
    PROVE  /\ \A q, f : q # p \/ (\A e \in N : e.field # f) =>
                 /\ EntriesOf(q, f)' = EntriesOf(q, f)
                 /\ LatestValue(q, f)' = LatestValue(q, f)
           /\ \A n \in N : EntriesOf(p, n.field)' = EntriesOf(p, n.field) \cup {n}
<1>1. ASSUME NEW q, NEW f, q # p \/ (\A e \in N : e.field # f)
      PROVE  /\ EntriesOf(q, f)' = EntriesOf(q, f)
             /\ LatestValue(q, f)' = LatestValue(q, f)
  <2>1. EntriesOf(q, f)' = EntriesOf(q, f)
    BY <1>1 DEF EntriesOf
  <2> QED
    BY <2>1 DEF LatestValue
<1>2. ASSUME NEW n \in N
      PROVE  EntriesOf(p, n.field)' = EntriesOf(p, n.field) \cup {n}
  BY <1>2 DEF EntriesOf
<1> QED
  BY <1>1, <1>2

LEMMA LogGrows ==
    ASSUME ConfigIInv, NEW p \in Providers, NEW t \in Nat, t < clock,
           \A e \in audit : e.at # t,
           NEW N, N \subseteq Entry, \A e \in N : e.provider = p /\ e.at = t,
           \A d, e \in N : d.field = e.field => d = e,
           audit' = audit \cup N, clock' = clock
    PROVE  LogOK' /\ audit' \subseteq Entry
<1>1. audit \subseteq Entry /\ LogOK
  BY DEF ConfigIInv, ConfigType
<1>2. \A e \in audit' : e.at < clock'
  BY <1>1 DEF LogOK
<1>3. \A d, e \in audit' :
         d.provider = e.provider /\ d.field = e.field /\ d.at = e.at => d = e
  BY <1>1 DEF LogOK
<1>4. \A q, f : q # p \/ (\A e \in N : e.field # f) => EntriesOf(q, f)' = EntriesOf(q, f)
  BY DEF EntriesOf
<1>5. ASSUME NEW q \in Providers, NEW f \in Fields, EntriesOf(q, f)' # {}
      PROVE  \E e \in audit' : IsNewest(e, q, f)'
  <2>1. CASE q # p \/ (\A e \in N : e.field # f)
    <3>1. EntriesOf(q, f)' = EntriesOf(q, f)
      BY <1>4, <2>1
    <3>2. PICK e \in audit : IsNewest(e, q, f)
      BY <1>1, <1>5, <3>1 DEF LogOK
    <3> QED
      BY <3>1, <3>2 DEF IsNewest
  <2>2. ASSUME q = p, NEW n \in N, n.field = f
        PROVE  \E e \in audit' : IsNewest(e, q, f)'
    <3>1. EntriesOf(q, f)' = EntriesOf(q, f) \cup {n} /\ n \in audit' /\ n.at = t
      BY <2>2, EntriesGrow
    <3>2. CASE EntriesOf(q, f) = {}
      BY <3>1, <3>2 DEF IsNewest
    <3>3. ASSUME NEW e \in audit, IsNewest(e, q, f)
          PROVE  \E d \in audit' : IsNewest(d, q, f)'
      <4>1. \A d \in EntriesOf(q, f) : d.at \in Nat
        BY <1>1 DEF EntriesOf, Entry
      <4>2. e \in EntriesOf(q, f) /\ e.at \in Nat /\ \A d \in EntriesOf(q, f) : d.at <= e.at
        BY <3>3, <4>1 DEF IsNewest
      <4>3. CASE e.at <= t
        <5>1. \A d \in EntriesOf(q, f) \cup {n} : d.at <= n.at
          BY <3>1, <4>1, <4>2, <4>3
        <5> QED
          BY <3>1, <5>1 DEF IsNewest
      <4>4. CASE t <= e.at
        <5>1. \A d \in EntriesOf(q, f) \cup {n} : d.at <= e.at
          BY <3>1, <4>2, <4>4
        <5> QED
          BY <3>1, <4>2, <5>1 DEF IsNewest
      <4> QED
        BY <4>2, <4>3, <4>4
    <3> QED
      BY <1>1, <3>2, <3>3 DEF LogOK
  <2> QED
    BY <2>1, <2>2
<1> QED
  BY <1>1, <1>2, <1>3, <1>5 DEF LogOK

(* A write that is later than all of p's entries becomes the newest.       *)
LEMMA LatestGrows ==
    ASSUME ConfigIInv, NEW p \in Providers, NEW t \in Nat,
           \A e \in audit : e.provider = p => e.at < t,
           NEW N, N \subseteq Entry, \A e \in N : e.provider = p /\ e.at = t,
           \A d, e \in N : d.field = e.field => d = e, audit' = audit \cup N,
           NEW n \in N
    PROVE  LatestValue(p, n.field)' = n.new
<1> DEFINE S == EntriesOf(p, n.field) \cup {n}
<1>1. EntriesOf(p, n.field)' = S
  BY EntriesGrow
<1>2. /\ \A d \in EntriesOf(p, n.field) : d \in audit /\ d \in Entry /\ d.provider = p
                                          /\ d.field = n.field /\ d.at \in Nat /\ d.at < t
      /\ n.at = t
  BY DEF ConfigIInv, ConfigType, EntriesOf, Entry
<1>3. n \in S /\ \A d \in S : d.at \in Nat /\ d.at <= n.at
  BY <1>2
<1>4. \A d, e \in S : d.at = e.at => d = e
  BY <1>2 DEF ConfigIInv, LogOK
<1> HIDE DEF S
<1>5. (CHOOSE x \in S : \A d \in S : d.at <= x.at) = n
  BY <1>3, <1>4, NewestIs
<1> QED
  BY <1>1, <1>3, <1>5 DEF LatestValue

(* The commit of request a makes r the row of its provider p: every field  *)
(* of r is the new value of an entry it writes or of one there is, the     *)
(* newest one when nobody else has worked on p; and a row that goes leaves *)
(* an entry that says so.                                                  *)
Commits(a, p, t, N, r) ==
    /\ admin[a].pc = "write" /\ p = admin[a].provider /\ t = admin[a].at
    /\ N \subseteq Entry /\ \A e \in N : e.provider = p /\ e.at = t
    /\ \A d, e \in N : d.field = e.field => d = e
    /\ r \in TenantLLMConfig \cup {NULL}
    /\ r # NULL => \A f \in Fields : \E e \in N \cup EntriesOf(p, f) :
                       e.field = f /\ e.new = Shown(r)[f]
    /\ r # NULL /\ p \notin raced => \A f \in Fields :
           \/ \E e \in N : e.field = f /\ e.new = Shown(r)[f]
           \/ (\A e \in N : e.field # f) /\ LatestValue(p, f) = Shown(r)[f]
    /\ r = NULL => \E e \in N : e.field = "deleted"
    /\ audit' = audit \cup N /\ rows' = [rows EXCEPT ![p] = r]
    /\ admin' = [admin EXCEPT ![a] = IdleAdmin] /\ UNCHANGED <<clock, raced>>

LEMMA CommitIInv ==
    ASSUME ConfigIInv, NEW a \in Admins, NEW p, NEW t, NEW N, NEW r,
           Commits(a, p, t, N, r)
    PROVE  ConfigIInv'
<1> USE DEF Commits
<1>1. /\ rows \in [Providers -> TenantLLMConfig \cup {NULL}] /\ audit \subseteq Entry
      /\ admin \in [Admins -> AdminRec] /\ clock \in Nat
  BY DEF ConfigIInv, ConfigType
<1>2. Working(a)
  BY DEF Working
<1>3. /\ Copied(admin[a]) /\ t < clock /\ \A e \in audit : e.at # t
      /\ p \notin raced => Alone(admin[a])
  BY <1>2 DEF ConfigIInv, AdminsOK
<1>4. p \in Providers /\ t \in Nat
  BY <1>1, <1>3 DEF Copied, AdminRec
<1>5. LogOK' /\ audit' \subseteq Entry
  <2>1. /\ N \subseteq Entry /\ \A e \in N : e.provider = p /\ e.at = t
        /\ \A d, e \in N : d.field = e.field => d = e
        /\ audit' = audit \cup N /\ clock' = clock
    OBVIOUS
  <2> HIDE DEF Commits
  <2> QED
    BY <1>3, <1>4, <2>1, LogGrows
<1>6. IdleAdmin \in AdminRec /\ IdleAdmin.pc = "idle"
  BY DEF IdleAdmin, AdminRec, Values
<1>7. /\ admin' \in [Admins -> AdminRec]
      /\ \A b \in Admins : Working(b)' => b # a /\ Working(b) /\ admin'[b] = admin[b]
  BY <1>1, <1>6 DEF Working
<1>8. ConfigType'
  BY <1>1, <1>4, <1>5, <1>7 DEF ConfigType
<1>9. \A q, f : q # p \/ (\A e \in N : e.field # f) =>
         EntriesOf(q, f)' = EntriesOf(q, f) /\ LatestValue(q, f)' = LatestValue(q, f)
  <2>1. \A e \in N : e.provider = p
    OBVIOUS
  <2> QED
    BY <2>1, EntriesGrow
<1>10. rows'[p] = r /\ \A q \in Providers : q # p => rows'[q] = rows[q]
  BY <1>1, <1>4
<1>11. \A q, f : \A e \in EntriesOf(q, f) : e \in EntriesOf(q, f)'
  BY DEF EntriesOf
<1>12. AuditCovers'
  <2> SUFFICES ASSUME NEW q \in Providers, rows'[q] # NULL, NEW f \in Fields
               PROVE  \E e \in EntriesOf(q, f)' : e.new = Shown(rows'[q])[f]
    BY DEF AuditCovers
  <2>1. CASE q # p
    BY <1>9, <1>10, <2>1 DEF ConfigIInv, AuditCovers
  <2>2. CASE q = p
    <3>1. PICK e \in N \cup EntriesOf(p, f) : e.field = f /\ e.new = Shown(r)[f]
      BY <1>10, <2>2
    <3>2. e \in EntriesOf(p, f)'
      BY <1>11, <3>1 DEF EntriesOf
    <3> QED
      BY <1>10, <2>2, <3>1, <3>2
  <2> QED
    BY <2>1, <2>2
<1>13. AuditExactUnlessRaced'
  <2> SUFFICES ASSUME NEW q \in Providers, q \notin raced
               PROVE  IF rows'[q] # NULL
                      THEN \A f \in Fields : LatestValue(q, f)' = Shown(rows'[q])[f]
                      ELSE \A e \in audit' : e.provider = q =>
                               \E d \in EntriesOf(q, "deleted")' : d.at >= e.at
    BY DEF AuditExactUnlessRaced
  <2>1. CASE q # p
    <3>1. \A e \in audit' : e.provider = q => e \in audit
      BY <2>1
    <3> QED
      BY <1>9, <1>10, <2>1, <3>1 DEF ConfigIInv, AuditExactUnlessRaced
  <2>2. CASE q = p /\ r # NULL
    <3>1. \A e \in audit : e.provider = p => e.at < t
      BY <1>3, <2>2 DEF Alone
    <3>2. \A n \in N : LatestValue(p, n.field)' = n.new
      BY <1>4, <3>1, LatestGrows
    <3>3. ASSUME NEW f \in Fields
          PROVE  LatestValue(p, f)' = Shown(r)[f]
      BY <1>9, <2>2, <3>2, <3>3
    <3> QED
      BY <1>10, <2>2, <3>3
  <2>3. CASE q = p /\ r = NULL
    <3>1. \A e \in audit : e.provider = p => e.at < t
      BY <1>3, <2>3 DEF Alone
    <3>2. PICK d \in N : d.field = "deleted"
      BY <2>3
    <3>3. d \in EntriesOf(p, "deleted")' /\ d.at = t
      BY <3>2 DEF EntriesOf
    <3>4. \A e \in audit' : e.at \in Nat
      BY <1>5 DEF Entry
    <3>5. \A e \in audit' : e.provider = p => d.at >= e.at
      BY <1>4, <3>1, <3>3, <3>4
    <3> QED
      BY <1>10, <2>3, <3>3, <3>5
  <2> QED
    BY <2>1, <2>2, <2>3
<1>14. ASSUME NEW b \in Admins, Working(b)'
       PROVE  /\ Copied(admin[b])' /\ (admin[b].at < clock)'
              /\ (\A e \in audit : e.at # admin[b].at)'
              /\ (admin[b].provider \notin raced => Alone(admin[b]))'
  <2>1. b # a /\ Working(b) /\ admin'[b] = admin[b]
    BY <1>7, <1>14
  <2>2. /\ Copied(admin[b]) /\ admin[b].at < clock
        /\ \A e \in audit : e.at # admin[b].at
        /\ admin[b].provider \notin raced => Alone(admin[b])
    BY <2>1 DEF ConfigIInv, AdminsOK
  <2>3. admin[b].at # t /\ (admin[b].provider = p => p \in raced)
    BY <1>2, <2>1 DEF ConfigIInv, AdminsOK
  <2>4. Copied(admin[b])'
    <3>1. admin[b].old # NULL => Covered(admin[b].provider, admin[b].old)'
      BY <1>11, <2>1, <2>2 DEF Copied, Covered
    <3>2. admin[b].pc = "write" /\ admin[b].op = "post" =>
             \/ admin[b].oldKey = NULL
             \/ \E e \in EntriesOf(admin[b].provider, "key")' : e.new = admin[b].oldKey
      BY <1>11, <2>1, <2>2 DEF Copied
    <3> QED
      BY <2>1, <2>2, <3>1, <3>2 DEF Copied, Covered
  <2>5. (admin[b].provider \notin raced => Alone(admin[b]))'
    <3> SUFFICES ASSUME admin[b].provider \notin raced
                 PROVE  Alone(admin[b])'
      BY <2>1
    <3>1. Alone(admin[b]) /\ admin[b].provider # p /\ admin[b].provider \in Providers
      BY <2>2, <2>3 DEF Copied
    <3>2. \A e \in audit' : e.provider = admin[b].provider => e \in audit
      BY <3>1
    <3> QED
      BY <1>9, <1>10, <2>1, <3>1, <3>2 DEF Alone
  <2>6. \A e \in audit' : e.at # admin[b].at
    BY <2>2, <2>3
  <2> QED
    BY <2>1, <2>2, <2>4, <2>5, <2>6
<1>15. AdminsOK'
  BY <1>7, <1>14 DEF ConfigIInv, AdminsOK
<1> QED
  BY <1>5, <1>8, <1>12, <1>13, <1>15 DEF ConfigIInv

(* What the log shows of a row.                                            *)
LEMMA ShownIs ==
    ASSUME NEW r \in TenantLLMConfig
    PROVE  /\ r # NULL /\ r.key \in Keys /\ r.key # NULL
           /\ Shown(r)["key"] = r.key /\ Shown(r)["model"] = r.model
           /\ Shown(r)["enabled"] = str(r.enabled)
           /\ \A f \in Fields : Shown(r)[f] \in Values
<1>1. r # NULL /\ r.key # NULL /\ r.key \in Keys /\ r.model \in Models \cup {NULL}
  BY ConfigAssumption DEF TenantLLMConfig
<1>2. Shown(r) = [r EXCEPT !.enabled = str(r.enabled)]
  BY <1>1 DEF Shown
<1>3. /\ Shown(r)["key"] = r.key /\ Shown(r)["model"] = r.model
      /\ Shown(r)["enabled"] = str(r.enabled)
  BY <1>2 DEF TenantLLMConfig
<1>4. str(r.enabled) \in {"True", "False"}
  BY DEF str
<1> QED
  BY <1>1, <1>3, <1>4 DEF Fields, Values

LEMMA ShownNothing == \A f \in Fields : Shown(NULL)[f] \in Values
BY DEF Shown, NoRow, Values

(* _diff_upsert: at most one difference for a field, from the old value to *)
(* the new one, and one for every field that was sent and differs, or for  *)
(* all of them in an insert.                                               *)
Differs(f, ins, fs, o, k, n, sent) ==
    IF f = "key" THEN sent /\ (ins \/ k # n["key"]) ELSE f \in fs /\ (ins \/ o[f] # n[f])

DiffOK(D, ins, fs, o, k, n, sent) ==
    /\ \A d \in D : d[1] \in Fields
                    /\ d = <<d[1], IF d[1] = "key" THEN k ELSE o[d[1]], n[d[1]]>>
    /\ \A f \in Fields : (\E d \in D : d[1] = f) <=> Differs(f, ins, fs, o, k, n, sent)

LEMMA DiffIs ==
    ASSUME NEW ins \in BOOLEAN, NEW fs, fs \subseteq Fields, NEW o, NEW k, NEW n,
           NEW sent \in BOOLEAN
    PROVE  DiffOK(diff_upsert(ins, fs, o, k, n, sent), ins, fs, o, k, n, sent)
<1> DEFINE F == {f \in fs \ {"key"} : ins \/ o[f] # n[f]}
           D1 == {<<f, o[f], n[f]>> : f \in F}
           D2 == IF sent /\ (ins \/ k # n["key"]) THEN {<<"key", k, n["key"]>>} ELSE {}
<1>1. diff_upsert(ins, fs, o, k, n, sent) = D1 \cup D2
  BY DEF diff_upsert
<1>2. \A d \in D1 : /\ d[1] \in Fields /\ d[1] # "key" /\ d[1] \in F
                    /\ d = <<d[1], o[d[1]], n[d[1]]>>
  OBVIOUS
<1>3. ASSUME NEW d \in D2
      PROVE  d[1] = "key" /\ d = <<d[1], k, n[d[1]]>> /\ sent /\ (ins \/ k # n["key"])
  <2>1. sent /\ (ins \/ k # n["key"]) /\ d = <<"key", k, n["key"]>>
    OBVIOUS
  <2>2. d[1] = "key" /\ d = <<d[1], k, n[d[1]]>>
    BY <2>1
  <2> QED
    BY <2>1, <2>2
<1>4. ASSUME NEW f \in F
      PROVE  \E d \in D1 : d[1] = f
  <2> HIDE DEF F
  <2>1. <<f, o[f], n[f]>> \in D1 /\ <<f, o[f], n[f]>>[1] = f
    OBVIOUS
  <2> HIDE DEF D1
  <2> QED
    BY <2>1

<1>5. sent /\ (ins \/ k # n["key"]) => \E d \in D2 : d[1] = "key"
  OBVIOUS
<1> HIDE DEF D1, D2
<1>6. \A f \in Fields : f # "key" => (f \in F <=> f \in fs /\ (ins \/ o[f] # n[f]))
  OBVIOUS
<1> HIDE DEF F
<1>7. \A d \in D1 \cup D2 : d[1] \in Fields
                  /\ d = <<d[1], IF d[1] = "key" THEN k ELSE o[d[1]], n[d[1]]>>
  BY <1>2, <1>3 DEF Fields
<1>8. \A f \in Fields : (\E d \in D1 \cup D2 : d[1] = f) <=>
                        Differs(f, ins, fs, o, k, n, sent)
  BY <1>2, <1>3, <1>4, <1>5, <1>6 DEF Differs
<1> QED
  BY <1>1, <1>7, <1>8 DEF DiffOK

(* insert_many: one entry for each difference.                             *)
Diffs(D) ==
    /\ \A d \in D : \E f \in Fields \cup {"deleted"}, v, w \in Values : d = <<f, v, w>>
    /\ \A c, d \in D : c[1] = d[1] => c = d

Written(N, p, t, D) ==
    /\ N \subseteq Entry /\ audit' = audit \cup N
    /\ \A e \in N : e.provider = p /\ e.at = t
    /\ \A d, e \in N : d.field = e.field => d = e
    /\ \A e \in N : \E d \in D : e.field = d[1] /\ e.new = d[3]
    /\ \A d \in D : \E e \in N : e.field = d[1] /\ e.new = d[3]

LEMMA InsertMany ==
    ASSUME NEW p \in Providers, NEW t \in Nat, NEW D, Diffs(D), insert_many(p, D, t)
    PROVE  \E N : Written(N, p, t, D)
<1> DEFINE En(d) == [provider |-> p, field |-> d[1], old |-> d[2], new |-> d[3], at |-> t]
           N == {En(d) : d \in D}
<1>1. audit' = audit \cup N
  BY DEF insert_many
<1>2. ASSUME NEW d \in D
      PROVE  /\ En(d) \in Entry /\ En(d).provider = p /\ En(d).at = t
             /\ En(d).field = d[1] /\ En(d).new = d[3]
  <2>1. PICK f \in Fields \cup {"deleted"}, v \in Values, w \in Values : d = <<f, v, w>>
    BY DEF Diffs
  <2>2. d[1] = f /\ d[2] = v /\ d[3] = w
    BY <2>1
  <2> QED
    BY <2>2 DEF Entry
<1> HIDE DEF En
<1>3. \A d, e \in N : d.field = e.field => d = e
  BY <1>2 DEF Diffs
<1>4. N \subseteq Entry /\ \A e \in N : e.provider = p /\ e.at = t
  BY <1>2
<1>5. \A e \in N : \E d \in D : e.field = d[1] /\ e.new = d[3]
  BY <1>2
<1>6. \A d \in D : \E e \in N : e.field = d[1] /\ e.new = d[3]
  BY <1>2
<1> HIDE DEF N
<1> QED
  BY <1>1, <1>3, <1>4, <1>5, <1>6 DEF Written

(* What a request that writes has to go by.                                *)
LEMMA WritesFrom ==
    ASSUME ConfigIInv, NEW a \in Admins, admin[a].pc = "write"
    PROVE  /\ Copied(admin[a]) /\ admin[a].provider \in Providers
           /\ admin[a].at \in Nat /\ admin[a].old \in TenantLLMConfig \cup {NULL}
           /\ admin[a].oldKey \in Values
           /\ \A f \in Fields : Shown(admin[a].old)[f] \in Values
           /\ admin[a].provider \notin raced => Alone(admin[a])
<1>1. admin[a] \in AdminRec
  BY DEF ConfigIInv, ConfigType
<1>2. Copied(admin[a]) /\ (admin[a].provider \notin raced => Alone(admin[a]))
  BY DEF ConfigIInv, AdminsOK, Working
<1>3. /\ admin[a].provider \in Providers /\ admin[a].at \in Nat
      /\ admin[a].old \in TenantLLMConfig \cup {NULL} /\ admin[a].oldKey \in Values
  BY <1>1, <1>2 DEF Copied, AdminRec
<1>4. \A f \in Fields : Shown(admin[a].old)[f] \in Values
  BY <1>3, ShownIs, ShownNothing
<1> QED
  BY <1>2, <1>3, <1>4

LEMMA CommitPostIInv ==
    ASSUME ConfigIInv, NEW a \in Admins, CommitPost(a)
    PROVE  ConfigIInv'
<1> DEFINE s == admin[a]
           p == s.provider
           r == s.payload
           old == Shown(s.old)
           row == Shown(r)
           ins == s.old = NULL
           D == diff_upsert(ins, Fields, old, s.oldKey, row, TRUE)
<1>1. /\ s.pc = "write" /\ s.op = "post" /\ rows' = [rows EXCEPT ![p] = r]
      /\ insert_many(p, D, s.at) /\ admin' = [admin EXCEPT ![a] = IdleAdmin]
      /\ UNCHANGED <<clock, raced>>
  BY DEF CommitPost, upsert
<1>2. /\ Copied(s) /\ p \in Providers /\ s.at \in Nat /\ s.oldKey \in Values
      /\ s.old \in TenantLLMConfig \cup {NULL} /\ \A f \in Fields : old[f] \in Values
      /\ p \notin raced => Alone(s)
  BY <1>1, WritesFrom
<1>3. /\ r \in TenantLLMConfig
      /\ s.old # NULL => Covered(p, s.old)
      /\ s.oldKey = NULL \/ \E e \in EntriesOf(p, "key") : e.new = s.oldKey
  BY <1>1, <1>2, ConfigAssumption DEF Copied
<1>4. /\ r # NULL /\ row["key"] \in Keys /\ row["key"] # NULL
      /\ \A f \in Fields : row[f] \in Values
  BY <1>3, ShownIs
<1> HIDE DEF old, row, r, p, s
<1>5. /\ \A d \in D : d[1] \in Fields
               /\ d = <<d[1], IF d[1] = "key" THEN s.oldKey ELSE old[d[1]], row[d[1]]>>
      /\ \A f \in Fields : (\E d \in D : d[1] = f) <=>
               IF f = "key" THEN ins \/ s.oldKey # row["key"]
               ELSE ins \/ old[f] # row[f]
  <2> HIDE DEF D, ins
  <2>1. ins \in BOOLEAN
    BY DEF ins
  <2>2. DiffOK(D, ins, Fields, old, s.oldKey, row, TRUE)
    BY <2>1, DiffIs DEF D
  <2> QED
    BY <2>2 DEF DiffOK, Differs
<1> HIDE DEF D
<1>6. Diffs(D) /\ \A d \in D : d[3] = row[d[1]]
  <2>1. ASSUME NEW d \in D
        PROVE  /\ \E f \in Fields \cup {"deleted"}, v, w \in Values : d = <<f, v, w>>
               /\ d[3] = row[d[1]]
    <3>1. (IF d[1] = "key" THEN s.oldKey ELSE old[d[1]]) \in Values /\ row[d[1]] \in Values
      BY <1>2, <1>4, <1>5
    <3> QED
      BY <1>5, <3>1
  <2>2. \A c, d \in D : c[1] = d[1] => c = d
    BY <1>5
  <2> QED
    BY <2>1, <2>2 DEF Diffs
<1>7. PICK N : Written(N, p, s.at, D)
  BY <1>1, <1>2, <1>6, InsertMany
<1>8. ASSUME NEW f \in Fields, ins \/ (IF f = "key" THEN s.oldKey # row["key"]
                                       ELSE old[f] # row[f])
      PROVE  \E e \in N : e.field = f /\ e.new = row[f]
  BY <1>5, <1>6, <1>7, <1>8 DEF Written
<1>9. ASSUME NEW f \in Fields, ~ins, IF f = "key" THEN s.oldKey = row["key"]
                                     ELSE old[f] = row[f]
      PROVE  /\ \A e \in N : e.field # f
             /\ \E e \in EntriesOf(p, f) : e.field = f /\ e.new = row[f]
             /\ p \notin raced => LatestValue(p, f) = row[f]
  <2>1. \A e \in N : e.field # f
    BY <1>5, <1>7, <1>9 DEF Written
  <2>2. \E e \in EntriesOf(p, f) : e.new = row[f]
    BY <1>3, <1>4, <1>9 DEF Covered, old
  <2>3. p \notin raced => LatestValue(p, f) = row[f]
    <3> SUFFICES ASSUME p \notin raced
                 PROVE  LatestValue(p, f) = row[f]
      OBVIOUS
    <3>1. Alone(s) /\ s.old = rows[p] /\ rows[p] # NULL
      BY <1>2, <1>9 DEF Alone, p
    <3>2. LatestValue(p, f) = old[f]
      BY <1>2, <3>1 DEF ConfigIInv, AuditExactUnlessRaced, old
    <3>3. f = "key" => s.oldKey = LatestValue(p, "key")
      BY <1>1, <3>1 DEF Alone, p
    <3> QED
      BY <1>9, <3>2, <3>3
  <2> QED
    BY <2>1, <2>2, <2>3 DEF EntriesOf
<1>10. \A f \in Fields : \E e \in N \cup EntriesOf(p, f) : e.field = f /\ e.new = row[f]
  BY <1>8, <1>9
<1>11. p \notin raced => \A f \in Fields :
           \/ \E e \in N : e.field = f /\ e.new = row[f]
           \/ (\A e \in N : e.field # f) /\ LatestValue(p, f) = row[f]
  BY <1>8, <1>9
<1> HIDE DEF ins
<1>12. rows' = [rows EXCEPT ![p] = r] /\ p = admin[a].provider /\ s.at = admin[a].at
  BY <1>1 DEF p, s
<1>13. /\ r \in TenantLLMConfig \cup {NULL}
       /\ r # NULL => \A f \in Fields : \E e \in N \cup EntriesOf(p, f) :
                          e.field = f /\ e.new = Shown(r)[f]
       /\ r # NULL /\ p \notin raced => \A f \in Fields :
              \/ \E e \in N : e.field = f /\ e.new = Shown(r)[f]
              \/ (\A e \in N : e.field # f) /\ LatestValue(p, f) = Shown(r)[f]
       /\ r = NULL => \E e \in N : e.field = "deleted"
  BY <1>3, <1>4, <1>10, <1>11 DEF row
<1>14. admin[a].pc = "write"
  BY <1>1 DEF s
<1>15. Commits(a, p, s.at, N, r)
  BY <1>1, <1>7, <1>12, <1>13, <1>14 DEF Commits, Written
<1> QED
  BY <1>15, CommitIInv

(* The row an UPDATE leaves: the fields that were sent, and the others as  *)
(* they are.                                                               *)
LEMMA PatchedRow ==
    ASSUME NEW r \in Patches, NEW w \in TenantLLMConfig
    PROVE  LET x == [f \in Fields |-> IF f \in DOMAIN r THEN r[f] ELSE w[f]] IN
           /\ x \in TenantLLMConfig /\ DOMAIN r \subseteq {"model", "enabled"}
           /\ \A f \in Fields \ DOMAIN r : Shown(x)[f] = Shown(w)[f]
<1> DEFINE x == [f \in Fields |-> IF f \in DOMAIN r THEN r[f] ELSE w[f]]
<1>1. /\ DOMAIN r \subseteq {"model", "enabled"}
      /\ "model" \in DOMAIN r => r["model"] \in Models \cup {NULL}
      /\ "enabled" \in DOMAIN r => r["enabled"] \in BOOLEAN
  BY ConfigAssumption
<1>2. w.key \in Keys /\ w.model \in Models \cup {NULL} /\ w.enabled \in BOOLEAN
  BY DEF TenantLLMConfig
<1>3. /\ x["key"] = w.key
      /\ x["model"] = IF "model" \in DOMAIN r THEN r["model"] ELSE w.model
      /\ x["enabled"] = IF "enabled" \in DOMAIN r THEN r["enabled"] ELSE w.enabled
      /\ x = [f \in {"key", "model", "enabled"} |-> x[f]]
  BY <1>1 DEF Fields
<1> HIDE DEF x
<1>4. x \in TenantLLMConfig
  <2>1. x["key"] \in Keys /\ x["model"] \in Models \cup {NULL} /\ x["enabled"] \in BOOLEAN
    BY <1>1, <1>2, <1>3
  <2>2. x = [key |-> x["key"], model |-> x["model"], enabled |-> x["enabled"]]
    BY <1>3
  <2> QED
    BY <2>1, <2>2 DEF TenantLLMConfig
<1>5. \A f \in Fields \ DOMAIN r : Shown(x)[f] = Shown(w)[f]
  BY <1>3, <1>4, ShownIs DEF Fields
<1> QED
  BY <1>1, <1>4, <1>5 DEF x

LEMMA CommitPatchIInv ==
    ASSUME ConfigIInv, NEW a \in Admins, CommitPatch(a), rows[admin[a].provider] # NULL
    PROVE  ConfigIInv'
<1> DEFINE s == admin[a]
           p == s.provider
           w == rows[p]
           sent == DOMAIN s.payload
           r == [f \in Fields |-> IF f \in sent THEN s.payload[f] ELSE w[f]]
           old == Shown(s.old)
           row == Shown(r)
           D == diff_upsert(FALSE, sent, old, NULL, row, FALSE)
<1>1. s.pc = "write" /\ s.op = "patch"
  BY DEF CommitPatch
<1>2. /\ Copied(s) /\ p \in Providers /\ s.at \in Nat
      /\ s.old \in TenantLLMConfig \cup {NULL} /\ \A f \in Fields : old[f] \in Values
      /\ p \notin raced => Alone(s)
  BY <1>1, WritesFrom
<1>3. /\ w \in TenantLLMConfig /\ s.payload \in Patches
      /\ s.old # NULL /\ Covered(p, s.old) /\ Covered(p, w)
  BY <1>1, <1>2 DEF Copied, ConfigIInv, ConfigType, AuditCovers, Covered
<1>4. /\ r \in TenantLLMConfig /\ sent \subseteq {"model", "enabled"}
      /\ \A f \in Fields \ sent : row[f] = Shown(w)[f]
  BY <1>3, PatchedRow
<1>5. r # NULL /\ \A f \in Fields : row[f] \in Values
  BY <1>4, ShownIs
<1>6. /\ rows' = [rows EXCEPT ![p] = r] /\ rows'[p] = r
      /\ admin' = [admin EXCEPT ![a] = IdleAdmin] /\ UNCHANGED <<clock, raced>>
      /\ insert_many(p, diff_upsert(FALSE, sent, old, NULL, Shown(rows'[p]), FALSE), s.at)
  <2>1. rows' = [rows EXCEPT ![p] = r]
    BY DEF CommitPatch, update
  <2>2. rows'[p] = r
    BY <1>2, <2>1 DEF ConfigIInv, ConfigType
  <2> HIDE DEF r
  <2> QED
    BY <2>1, <2>2 DEF CommitPatch
<1>7. insert_many(p, D, s.at)
  <2> HIDE DEF r
  <2> QED
    BY <1>6
<1> HIDE DEF old, row, r, sent, w, p, s
<1>8. /\ \A d \in D : d[1] \in Fields
               /\ d = <<d[1], IF d[1] = "key" THEN NULL ELSE old[d[1]], row[d[1]]>>
      /\ \A f \in Fields : (\E d \in D : d[1] = f) <=>
               f # "key" /\ f \in sent /\ old[f] # row[f]
  <2> HIDE DEF D
  <2>1. sent \subseteq Fields
    BY <1>4 DEF Fields
  <2>2. DiffOK(D, FALSE, sent, old, NULL, row, FALSE)
    BY <2>1, DiffIs DEF D
  <2> QED
    BY <2>2 DEF DiffOK, Differs
<1> HIDE DEF D
<1>9. Diffs(D) /\ \A d \in D : d[3] = row[d[1]]
  <2>1. ASSUME NEW d \in D
        PROVE  /\ \E f \in Fields \cup {"deleted"}, v, u \in Values : d = <<f, v, u>>
               /\ d[3] = row[d[1]]
    <3>1. (IF d[1] = "key" THEN NULL ELSE old[d[1]]) \in Values /\ row[d[1]] \in Values
      BY <1>2, <1>5, <1>8 DEF Values
    <3> QED
      BY <1>8, <3>1
  <2>2. \A c, d \in D : c[1] = d[1] => c = d
    BY <1>8
  <2> QED
    BY <2>1, <2>2 DEF Diffs
<1>10. PICK N : Written(N, p, s.at, D)
  BY <1>2, <1>7, <1>9, InsertMany
<1>11. ASSUME NEW f \in Fields, f # "key", f \in sent, old[f] # row[f]
       PROVE  \E e \in N : e.field = f /\ e.new = row[f]
  BY <1>8, <1>9, <1>10, <1>11 DEF Written
<1>12. ASSUME NEW f \in Fields, ~(f # "key" /\ f \in sent /\ old[f] # row[f])
       PROVE  /\ \A e \in N : e.field # f
              /\ \E e \in EntriesOf(p, f) : e.field = f /\ e.new = row[f]
              /\ p \notin raced => LatestValue(p, f) = row[f]
  <2>1. \A e \in N : e.field # f
    BY <1>8, <1>10, <1>12 DEF Written
  <2>2. row[f] = old[f] \/ row[f] = Shown(w)[f]
    BY <1>4, <1>12
  <2>3. \E e \in EntriesOf(p, f) : e.new = row[f]
    BY <1>3, <2>2 DEF Covered, old
  <2>4. p \notin raced => LatestValue(p, f) = row[f]
    <3> SUFFICES ASSUME p \notin raced
                 PROVE  LatestValue(p, f) = row[f]
      OBVIOUS
    <3>1. s.old = w /\ w = rows[p]
      BY <1>2 DEF Alone, p, w
    <3>2. LatestValue(p, f) = Shown(w)[f]
      BY <1>2, <1>3, <3>1 DEF ConfigIInv, AuditExactUnlessRaced
    <3> QED
      BY <2>2, <3>1, <3>2 DEF old
  <2> QED
    BY <2>1, <2>3, <2>4 DEF EntriesOf
<1>13. \A f \in Fields : \E e \in N \cup EntriesOf(p, f) : e.field = f /\ e.new = row[f]
  BY <1>11, <1>12
<1>14. p \notin raced => \A f \in Fields :
           \/ \E e \in N : e.field = f /\ e.new = row[f]
           \/ (\A e \in N : e.field # f) /\ LatestValue(p, f) = row[f]
  BY <1>11, <1>12
<1>15. p = admin[a].provider /\ s.at = admin[a].at /\ admin[a].pc = "write"
  BY <1>1 DEF p, s
<1>16. Commits(a, p, s.at, N, r)
  BY <1>4, <1>5, <1>6, <1>10, <1>13, <1>14, <1>15 DEF Commits, Written, row
<1> QED
  BY <1>16, CommitIInv

LEMMA CommitDeleteIInv ==
    ASSUME ConfigIInv, NEW a \in Admins, CommitDelete(a), rows[admin[a].provider] # NULL
    PROVE  ConfigIInv'
<1> DEFINE p == admin[a].provider
           t == admin[a].at
           D == {<<"deleted", p, NULL>>}
<1>1. /\ admin[a].pc = "write" /\ rows' = [rows EXCEPT ![p] = NULL]
      /\ insert_many(p, D, t) /\ admin' = [admin EXCEPT ![a] = IdleAdmin]
      /\ UNCHANGED <<clock, raced>>
  BY DEF CommitDelete, remove
<1>2. p \in Providers /\ t \in Nat
  BY <1>1, WritesFrom
<1>3. Diffs(D) /\ \E d \in D : d[1] = "deleted"
  BY <1>2 DEF Diffs, Values
<1> HIDE DEF D
<1>4. PICK N : Written(N, p, t, D)
  BY <1>1, <1>2, <1>3, InsertMany
<1>5. \E e \in N : e.field = "deleted"
  BY <1>3, <1>4 DEF Written
<1>6. Commits(a, p, t, N, NULL)
  BY <1>1, <1>4, <1>5 DEF Commits, Written
<1> QED
  BY <1>6, CommitIInv

LEMMA CommitNothingIInv ==
    ASSUME ConfigIInv, NEW a \in Admins, CommitPatch(a) \/ CommitDelete(a),
           rows[admin[a].provider] = NULL
    PROVE  ConfigIInv'
<1>1. /\ admin' = [admin EXCEPT ![a] = IdleAdmin]
      /\ UNCHANGED <<rows, audit, clock, raced>>
  <2>1. CASE CommitPatch(a)
    BY <2>1 DEF CommitPatch, tables
  <2>2. CASE CommitDelete(a)
    BY <2>2 DEF CommitDelete, tables
  <2> QED
    BY <2>1, <2>2
<1>2. IdleAdmin \in AdminRec /\ IdleAdmin.pc = "idle"
  BY DEF IdleAdmin, AdminRec, Values
<1>3. /\ admin' \in [Admins -> AdminRec]
      /\ \A b \in Admins : Working(b)' => admin'[b] = admin[b]
  BY <1>1, <1>2 DEF ConfigIInv, ConfigType, Working
<1> QED
  BY <1>1, <1>3, RestIInv

(* The chain's handlers, the builders and the clocks of the caches.        *)
LEMMA ChainAdminIInv ==
    ASSUME ConfigIInv, NEW a \in Admins,
           UpsertChain(a) \/ DeleteChain(a) \/ PutLlmChain(a) \/ InvalidateChain(a)
    PROVE  ConfigIInv'
<1>1. admin \in [Admins -> AdminRec] /\ IdleAdmin \in AdminRec /\ IdleAdmin.pc = "idle"
  BY DEF ConfigIInv, ConfigType, IdleAdmin, AdminRec, Values
<1>2. CASE UpsertChain(a) \/ DeleteChain(a)
  <2>1. /\ admin' = [admin EXCEPT ![a].pc = "invalidate"] /\ clock' = clock + 1
        /\ UNCHANGED <<rows, audit, raced>>
    <3>1. CASE UpsertChain(a)
      BY <3>1 DEF UpsertChain
    <3>2. CASE DeleteChain(a)
      BY <3>2 DEF DeleteChain
    <3> QED
      BY <1>2, <3>1, <3>2
  <2>2. /\ admin' \in [Admins -> AdminRec]
        /\ \A b \in Admins : Working(b)' => admin'[b] = admin[b]
    BY <1>1, <2>1 DEF AdminRec, Working
  <2> QED
    BY <2>1, <2>2, RestIInv
<1>3. CASE PutLlmChain(a)
  <2>1. UNCHANGED <<rows, audit, raced, admin>> /\ clock' = clock + 1
    BY <1>3 DEF PutLlmChain, tables
  <2> QED
    BY <1>1, <2>1, RestIInv
<1>4. CASE InvalidateChain(a)
  <2>1. admin' = [admin EXCEPT ![a] = IdleAdmin] /\ UNCHANGED <<rows, audit, clock, raced>>
    BY <1>4 DEF InvalidateChain, tables
  <2>2. /\ admin' \in [Admins -> AdminRec]
        /\ \A b \in Admins : Working(b)' => admin'[b] = admin[b]
    BY <1>1, <2>1 DEF Working
  <2> QED
    BY <2>1, <2>2, RestIInv
<1> QED
  BY <1>2, <1>3, <1>4

LEMMA ConfigNextIInv == ConfigIInv /\ [ConfigNext]_configVars => ConfigIInv'
<1> SUFFICES ASSUME ConfigIInv, [ConfigNext]_configVars
             PROVE  ConfigIInv'
  OBVIOUS
<1>1. ASSUME NEW a \in Admins, PostConfig(a)
      PROVE  ConfigIInv'
  <2>1. PICK p \in Providers, r \in Posts : BeginOn(a, "post", p, r)
    BY <1>1 DEF PostConfig
  <2> QED
    BY <2>1, BeginOnIInv
<1>2. ASSUME NEW a \in Admins, PatchConfig(a)
      PROVE  ConfigIInv'
  <2>1. PICK p \in Providers, r \in Patches :
           rows[p] # NULL /\ BeginOn(a, "patch", p, r)
    BY <1>2 DEF PatchConfig
  <2> QED
    BY <2>1, BeginOnIInv
<1>3. ASSUME NEW a \in Admins, DeleteConfig(a)
      PROVE  ConfigIInv'
  <2>1. PICK p \in Providers : rows[p] # NULL /\ BeginOn(a, "delete", p, NULL)
    BY <1>3 DEF DeleteConfig
  <2> QED
    BY <2>1, BeginOnIInv
<1>4. ASSUME NEW a \in Admins, AdminStep(a)
      PROVE  ConfigIInv'
  BY <1>1, <1>2, <1>3, <1>4, ChainAdminIInv DEF AdminStep
<1>5. ASSUME NEW a \in Admins, AdminGoesOn(a)
      PROVE  ConfigIInv'
  BY <1>5, ReadLatestKeyIInv, CommitPostIInv, CommitPatchIInv, CommitDeleteIInv,
     CommitNothingIInv, ChainAdminIInv DEF AdminGoesOn
<1>6. ASSUME UNCHANGED <<rows, audit, admin, clock, raced>>
      PROVE  ConfigIInv'
  BY <1>6, RestIInv DEF ConfigIInv, ConfigType
<1>7. ASSUME NEW b \in Builders, Lookup(b) \/ BuilderGoesOn(b)
      PROVE  ConfigIInv'
  BY <1>6, <1>7 DEF Lookup, BuilderGoesOn, ReadRows, LookupChain, ReadChain,
     StoreChain, tables
<1>8. CASE Expire \/ ExpireChain \/ UNCHANGED configVars
  BY <1>6, <1>8 DEF Expire, ExpireChain, configVars, tables
<1> QED
  BY <1>4, <1>5, <1>7, <1>8 DEF ConfigNext

LEMMA ConfigInductive == ConfigSpec => []ConfigIInv
<1>1. ConfigInit => ConfigIInv
  BY ConfigInitIInv
<1>2. ConfigIInv /\ [ConfigNext]_configVars => ConfigIInv'
  BY ConfigNextIInv
<1> QED
  BY <1>1, <1>2, PTL DEF ConfigSpec

(* AuditCovers: the admin repository keeps its log with its rows: however  *)
(* many administrators work at once and in whatever order their reads and  *)
(* writes fall, each value a row holds is the new value of an entry of     *)
(* that provider and field, although each request compares with a copy it  *)
(* took before.                                                            *)
THEOREM NoUnexplainedValue == ConfigSpec => []AuditCovers
<1>1. ConfigIInv => AuditCovers
  BY DEF ConfigIInv
<1> QED
  BY <1>1, ConfigInductive, PTL

(* AuditExactUnlessRaced: the newest entries of a provider, which the      *)
(* audit pages and the key comparison of the next upsert go by, are its    *)
(* row, as long as no two requests have worked on it at once; and its      *)
(* newest entry is a deletion when it has none.                            *)
THEOREM NewestEntriesAreTheRow == ConfigSpec => []AuditExactUnlessRaced
<1>1. ConfigIInv => AuditExactUnlessRaced
  BY DEF ConfigIInv
<1> QED
  BY <1>1, ConfigInductive, PTL
=============================================================================
