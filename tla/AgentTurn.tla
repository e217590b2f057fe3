----------------------------- MODULE AgentTurn ------------------------------
(***************************************************************************)
(* One answer of the AI: SimpleResponder.respond, the agent graph it runs  *)
(* (retrieve, llm with its tool loop, escalation), the tools, and          *)
(* SuggestionService.suggest_reply, for several requests at once.          *)
(*                                                                         *)
(* Module Conversation has the tables and what staff do to them; here a    *)
(* conversation is its handler, and its history any number of messages.    *)
(* The client a turn calls is module Gateway, what is found is module      *)
(* Knowledge.                                                              *)
(***************************************************************************)
EXTENDS Integers, Sequences, FiniteSets

CONSTANTS
    Turns,               \* requests
    Convs,
    MaxToolIterations,   \* _MAX_TOOL_ITERATIONS
    MaxHistory,          \* MAX_HISTORY_MESSAGES
    BeforeSummary,       \* MAX_HISTORY_BEFORE_SUMMARY
    MaxCalls,            \* the most tool calls of one response (a bound)
    MaxLength,           \* the longest history (a bound)
    NoConv

ASSUME AgentTurnAssumption ==
    /\ {MaxToolIterations, MaxHistory, BeforeSummary, MaxCalls, MaxLength} \subseteq Nat
    /\ NoConv \notin Convs

VARIABLES
    handler,   \* who answers each conversation
    turn,      \* the local state of each request
    ctx,       \* _escalation_ctx, as each request's task sees it
    acts       \* what the tools have done: request, tool, conversation

turnVars == <<handler, turn, ctx, acts>>

Idle ==
    [pc |-> "idle", kind |-> "respond", conv |-> NoConv, seen |-> 0,
     calls |-> <<>>, iterations |-> 0,
     llm |-> 0, escalated |-> FALSE, said |-> TRUE, text |-> "none"]

TurnInit ==
    /\ handler = [c \in Convs |-> "ai"]
    /\ turn = [t \in Turns |-> Idle]
    /\ ctx = [t \in Turns |-> NoConv]
    /\ acts = {}

(* The request goes on at pc, which is "raised" once an error that nothing *)
(* catches has left it; the request ends with a text.                      *)
Go(t, pc) == turn' = [turn EXCEPT ![t].pc = pc]
Say(t, text) == turn' = [turn EXCEPT ![t].pc = "reply", ![t].text = text]

-----------------------------------------------------------------------------
(* The request.                                                            *)

(* respond: nothing is said for a conversation the AI does not handle.     *)
(* The read of the conversation is in no try.                              *)
Respond(t, c) ==
    /\ turn[t].pc = "idle"
    /\ \E pc \in {IF handler[c] = "ai" THEN "history" ELSE "done", "raised"} :
         turn' = [turn EXCEPT ![t].conv = c, ![t].pc = pc]
    /\ UNCHANGED <<handler, ctx, acts>>

(* suggest_reply.                                                          *)
Suggest(t, c) ==
    /\ turn[t].pc = "idle"
    /\ \E pc \in {"history", "raised"} :
         turn' = [turn EXCEPT ![t].conv = c, ![t].kind = "suggest", ![t].pc = pc]
    /\ UNCHANGED <<handler, ctx, acts>>

(* The latest messages, as list_messages returns them, and of those the    *)
(* ones that stay; the others are folded into a summary when there are     *)
(* more than MAX_HISTORY_BEFORE_SUMMARY.                                   *)
Kept(n) == (IF n > MaxHistory THEN n - MaxHistory + 1 ELSE 1)..n
Folded(n) ==
    LET fetched == (IF n > MaxHistory + BeforeSummary + 1
                    THEN n - MaxHistory - BeforeSummary ELSE 1)..n
    IN IF Cardinality(fetched) > BeforeSummary THEN fetched \ Kept(n) ELSE {}

(* _build_messages, and the shorter history of a suggestion.  An error of  *)
(* list_messages is not caught.                                            *)
BuildMessages(t) ==
    /\ turn[t].pc = "history"
    /\ \/ Go(t, "raised")
       \/ \E n \in 0..MaxLength :
            turn' = [turn EXCEPT ![t].seen = n,
                ![t].pc = IF turn[t].kind = "suggest" THEN "context"
                          ELSE IF Folded(n) # {} THEN "summarize" ELSE "bind"]
    /\ UNCHANGED <<handler, ctx, acts>>

(* _summarize_history: a summary, or the beginning of the transcript.      *)
SummarizeHistory(t) ==
    /\ turn[t].pc = "summarize"
    /\ turn' = [turn EXCEPT ![t].pc = "bind", ![t].llm = @ + 1]
    /\ UNCHANGED <<handler, ctx, acts>>

(* Mutant: the ids are kept in a variable of the module.                   *)
bind_escalation_context_Shared(t, c) == ctx' = [o \in Turns |-> c]

(* A context variable: each request's task has its own.                    *)
bind_escalation_context(t, c) == ctx' = [ctx EXCEPT ![t] = c]

(* The graph is built by _ensure_graph, which may raise, and only then are *)
(* the ids bound.                                                          *)
Bind(t) ==
    /\ turn[t].pc = "bind"
    /\ \/ Go(t, "raised") /\ UNCHANGED ctx
       \/ bind_escalation_context(t, turn[t].conv) /\ Go(t, "context")
    /\ UNCHANGED <<handler, acts>>

(* retrieve_node and build_context_for_query: every failure is an empty    *)
(* context; without a question a suggestion is empty.                      *)
RetrieveNode(t) ==
    /\ turn[t].pc = "context"
    /\ \/ Go(t, "first")
       \/ turn[t].kind = "suggest" /\ Say(t, "empty")
    /\ UNCHANGED <<handler, ctx, acts>>

-----------------------------------------------------------------------------
(* The model.                                                              *)

(* A tool call: of the escalate tool with or without a reason, of a search *)
(* with a knowledge base that exists or not, of an unknown tool, or one    *)
(* that is no dictionary.                                                  *)
ToolCalls == {"escalate", "escalate_blank", "search", "unknown"}
Responses == UNION {[1..n -> ToolCalls] : n \in 1..MaxCalls}

(* dispatch_tool_calls, the head of its loop.                              *)
Rounds(t, calls) ==
    IF turn[t].iterations + 1 > MaxToolIterations
    THEN [turn EXCEPT ![t].pc = "reply", ![t].text = "fallback", ![t].llm = @ + 1,
                      ![t].iterations = @ + 1]
    ELSE [turn EXCEPT ![t].pc = "tools", ![t].calls = calls,
                      ![t].iterations = @ + 1, ![t].llm = @ + 1]

(* What a call of the client can bring: a failure of any kind or no text   *)
(* is answered with FALLBACK_MESSAGE.                                      *)
ModelAnswers(t) ==
    \/ turn' = [turn EXCEPT ![t].pc = "reply", ![t].text = "answer", ![t].llm = @ + 1]
    \/ turn' = [turn EXCEPT ![t].pc = "reply", ![t].text = "fallback", ![t].llm = @ + 1]
    \/ /\ turn[t].kind = "respond"
       /\ \E calls \in Responses : turn' = Rounds(t, calls)

(* make_llm_node: the first call; a suggestion offers no tools.            *)
FirstCall(t) ==
    /\ turn[t].pc = "first"
    /\ ModelAnswers(t)
    /\ UNCHANGED <<handler, ctx, acts>>

(* Mutant: a failure in the loop ends the node without a text.             *)
NextCall_Silent(t) ==
    /\ turn[t].pc = "next"
    /\ \/ ModelAnswers(t)
       \/ Say(t, "none")
    /\ UNCHANGED <<handler, ctx, acts>>

(* The call that follows a round of tools.                                 *)
NextCall(t) ==
    /\ turn[t].pc = "next"
    /\ ModelAnswers(t)
    /\ UNCHANGED <<handler, ctx, acts>>

-----------------------------------------------------------------------------
(* The tools.                                                              *)

(* The rest of the round, and then the model again.                        *)
AfterTool(t) ==
    turn' = [turn EXCEPT ![t].calls = Tail(@),
                 ![t].pc = IF Len(turn[t].calls) = 1 THEN "next" ELSE "tools"]

(* Mutant: the round is finished after the escalation.                     *)
Escalated_GoesOn(t) ==
    turn' = [turn EXCEPT ![t].calls = Tail(@), ![t].escalated = TRUE,
                 ![t].said = Head(turn[t].calls) = "escalate",
                 ![t].pc = IF Len(turn[t].calls) = 1 THEN "escalation" ELSE "tools"]

(* A successful escalation ends the loop; the calls after it are dropped.  *)
Escalated(t) ==
    turn' = [turn EXCEPT ![t].calls = <<>>, ![t].escalated = TRUE,
                 ![t].said = Head(turn[t].calls) = "escalate",
                 ![t].pc = "escalation"]

(* escalate_to_human: the ids of the context, whoever handles the          *)
(* conversation by now.                                                    *)
EscalateTool(t) ==
    /\ turn[t].pc = "tools" /\ Head(turn[t].calls) \in {"escalate", "escalate_blank"}
    /\ IF ctx[t] = NoConv THEN AfterTool(t) /\ UNCHANGED <<handler, acts>>
       ELSE \/ /\ handler' = [handler EXCEPT ![ctx[t]] = "queue"]
               /\ acts' = acts \cup {<<t, "escalate", ctx[t]>>}
               /\ Escalated(t)
            \/ AfterTool(t) /\ UNCHANGED <<handler, acts>>
    /\ UNCHANGED ctx

(* search_internal_kb and search_multimodal_kb: a text in every case.      *)
SearchTool(t) ==
    /\ turn[t].pc = "tools" /\ Head(turn[t].calls) = "search"
    /\ acts' = IF ctx[t] = NoConv THEN acts ELSE acts \cup {<<t, "search", ctx[t]>>}
    /\ AfterTool(t)
    /\ UNCHANGED <<handler, ctx>>

(* A tool that does not exist: an error text for the model.                *)
UnknownTool(t) ==
    /\ turn[t].pc = "tools" /\ Head(turn[t].calls) = "unknown"
    /\ AfterTool(t)
    /\ UNCHANGED <<handler, ctx, acts>>

(* make_escalation_node: the reason is what the customer reads.            *)
EscalationNode(t) ==
    /\ turn[t].pc = "escalation"
    /\ Say(t, IF turn[t].said THEN "escalation" ELSE "fallback")
    /\ UNCHANGED <<handler, ctx, acts>>

(* The finally of respond, and what it returns.                            *)
Reply(t) ==
    /\ turn[t].pc = "reply"
    /\ Go(t, "done")
    /\ ctx' = [ctx EXCEPT ![t] = NoConv]
    /\ UNCHANGED <<handler, acts>>

-----------------------------------------------------------------------------
(* What goes on meanwhile: staff take a conversation or give it back.      *)
Staff(c) ==
    /\ \E h \in {"ai", "agent"} : h # handler[c] /\ handler' = [handler EXCEPT ![c] = h]
    /\ UNCHANGED <<turn, ctx, acts>>

Step(t) ==
    \/ BuildMessages(t) \/ SummarizeHistory(t) \/ Bind(t) \/ RetrieveNode(t)
    \/ FirstCall(t) \/ NextCall(t)
    \/ EscalateTool(t) \/ SearchTool(t) \/ UnknownTool(t) \/ EscalationNode(t)
    \/ Reply(t)

TurnNext ==
    \/ \E t \in Turns, c \in Convs : Respond(t, c) \/ Suggest(t, c)
    \/ \E t \in Turns : Step(t)
    \/ \E c \in Convs : Staff(c)

(* A request goes on; every provider call ends (Gateway!EveryCallEnds).    *)
TurnSpec ==
    /\ TurnInit /\ [][TurnNext]_turnVars
    /\ \A t \in Turns : WF_turnVars(Step(t))

-----------------------------------------------------------------------------
(* Properties.                                                             *)

(* However the requests interleave, the tools of a request act for its own *)
(* conversation, and no request leaves its ids behind.                     *)
OwnConversation ==
    /\ \A a \in acts : a[3] = turn[a[1]].conv
    /\ \A t \in Turns : turn[t].pc \in {"idle", "done", "raised"} => ctx[t] = NoConv

(* The customer reads that a human takes over only when the conversation   *)
(* was handed over, and once it was, the request neither runs a tool nor   *)
(* asks the model again.                                                   *)
EscalationIsLast ==
    [][\A t \in Turns :
          /\ turn'[t].text = "escalation" => <<t, "escalate", turn[t].conv>> \in acts
          /\ turn[t].escalated => /\ turn'[t].llm = turn[t].llm
                                  /\ \A a \in acts' \ acts : a[1] # t]_turnVars

(* A request asks the model at most once for a summary, once to begin with *)
(* and once after each allowed round of tools.                             *)
TurnBounded ==
    \A t \in Turns : turn[t].llm <= (IF Folded(turn[t].seen) = {} THEN 0 ELSE 1)
                                    + 1 + MaxToolIterations

(* A request that has begun ends, whatever fails, and with a text.  Only   *)
(* before it asks the model for its answer, which is the first call but    *)
(* for a summary, may it end without one: an error of list_messages or of  *)
(* _ensure_graph (simple_responder.py:217, 221) leaves respond.            *)
AskedForAnswer(t) == turn[t].llm > (IF Folded(turn[t].seen) = {} THEN 0 ELSE 1)

EveryTurnAnswered ==
    \A t \in Turns :
        (turn[t].pc = "history")
            ~> ( \/ turn[t].pc = "done" /\ turn[t].text # "none"
                 \/ turn[t].pc = "raised" /\ ~AskedForAnswer(t) )

(* simple_responder.py says of a history without a summary that "the kept  *)
(* window already covers all context".                                     *)
ContextCovered ==
    \A t \in Turns : turn[t].pc = "context" /\ turn[t].kind = "respond"
                     /\ Folded(turn[t].seen) = {} => Kept(turn[t].seen) = 1..turn[t].seen
=============================================================================
