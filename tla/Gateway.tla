------------------------------ MODULE Gateway -------------------------------
(***************************************************************************)
(* Calls to the LLM providers: LLMClient over a tenant's resolver (a chain *)
(* of steps, or one provider chosen by the model's prefix, with or without *)
(* a model override, streamed or not) and over the pinned resolver of the  *)
(* QA judge, which retries in two loops under a timeout; and the usage     *)
(* rows the judge's client keeps in memory until the worker stops.         *)
(*                                                                         *)
(* The budget around a tenant's resolver is module Budget; how a tenant's  *)
(* resolver is built is module TenantConfig.                               *)
(***************************************************************************)
EXTENDS Integers, Sequences, FiniteSets

CONSTANTS
    Calls,          \* requests to a client
    Dialects,       \* the dialect of each step of the chain
    MaxRetries,     \* max_retries of LLMClient.chat
    JudgeRetries,   \* qa_judge_max_retries
    StepTimeout,    \* whether LLM_FALLBACK_ATTEMPT_TIMEOUT_S is set
    MaxChunks       \* the most pieces of a streamed answer (a bound)

ASSUME GatewayAssumption ==
    /\ Dialects \in Seq({"openai", "anthropic"}) /\ Dialects # <<>>
    /\ MaxRetries \in Nat /\ JudgeRetries \in Nat /\ MaxChunks \in Nat
    /\ StepTimeout \in BOOLEAN

VARIABLES
    call,     \* the local state of each call
    pending,  \* UsageRecorder._pending of the judge's client
    batch,    \* the rows a flush has taken
    stored,   \* rows of llm_usage
    lost,     \* rows of a flush that failed
    worker    \* the QA worker: "up", "flush" or "down"

gatewayVars == <<call, pending, batch, stored, lost, worker>>
usage == <<pending, batch, stored, lost, worker>>

Steps == 1..Len(Dialects)

(* A client's route: the judge, or a tenant's resolver with its chain (0   *)
(* steps: prefix routing), its model override and the mode of the call.    *)
Routes ==
    [client : {"judge"}, mode : {"structured"}, chain : {0}, override : {FALSE}]
    \cup [client : {"tenant"}, mode : {"chat", "stream"},
          chain : 0..Len(Dialects), override : BOOLEAN]

NewCall(r) ==
    [route |-> r, pc |-> "idle", step |-> 1, attempt |-> 0, round |-> 0,
     log |-> <<>>, chunks |-> 0, out |-> "none"]

GatewayInit ==
    /\ call \in [Calls -> {NewCall(r) : r \in Routes}]
    /\ pending = {} /\ batch = {} /\ stored = {} /\ lost = {}
    /\ worker = "up"

-----------------------------------------------------------------------------
(* The providers: what an HTTP answer becomes.                             *)

Replies == {"ok", "not_json", "no_choices", "4xx", "429", "5xx", "network"}

StatusOutcome(reply) ==
    CASE reply = "429" -> "rate_limited"
      [] reply = "4xx" -> "invalid"
      [] reply \in {"5xx", "network"} -> "unavailable"
      [] reply = "not_json" -> "output_invalid"

(* OpenAIProvider.chat: a body without choices raises KeyError.            *)
OpenAIChat(reply) ==
    CASE reply = "ok" -> "ok" [] reply = "no_choices" -> "crash"
      [] OTHER -> StatusOutcome(reply)

(* AnthropicProvider.chat: a body without content is an empty answer.      *)
AnthropicChat(reply) ==
    IF reply \in {"ok", "no_choices"} THEN "ok" ELSE StatusOutcome(reply)

(* A stream skips lines that are not JSON and ends where the lines end: a  *)
(* body that was cut off is a complete answer.                             *)
OpenAIStream(reply) ==
    IF reply \in {"ok", "not_json", "no_choices"} THEN "ok" ELSE StatusOutcome(reply)
AnthropicStream(reply) ==
    IF reply \in {"ok", "not_json", "no_choices"} THEN "ok" ELSE StatusOutcome(reply)

Outcome(c, reply) ==
    LET openai == Dialects[call[c].step] = "openai" IN
    IF call[c].route.mode = "stream"
    THEN IF openai THEN OpenAIStream(reply) ELSE AnthropicStream(reply)
    ELSE IF openai THEN OpenAIChat(reply) ELSE AnthropicChat(reply)

-----------------------------------------------------------------------------
(* What the provider that is being asked did.                              *)
Logged(c, o) ==
    IF call[c].pc = "backoff" THEN call[c].log
    ELSE Append(call[c].log, <<call[c].step, o>>)

(* The call is over: what its caller gets.                                 *)
End(c, o, out) ==
    call' = [call EXCEPT ![c].pc = "done", ![c].log = Logged(c, o), ![c].out = out]

(* Another provider call follows, after pc.                                *)
Again(c, o, pc, step, attempt, round) ==
    call' = [call EXCEPT ![c].pc = pc, ![c].log = Logged(c, o), ![c].step = step,
                         ![c].attempt = attempt, ![c].round = round]

Kind(c) ==
    CASE call[c].route.mode = "structured" -> "judge"
      [] call[c].route.mode = "stream" -> "stream"
      [] call[c].route.mode = "chat" ->
             IF call[c].route.chain > 0 THEN "chain" ELSE "single"

(* LLMClient.chat goes through ainvoke whenever the resolver has it, which *)
(* a tenant's always does, and to its own retry loop otherwise.            *)
Begin(c) ==
    /\ call[c].pc = "idle"
    /\ Kind(c) = "judge" => worker = "up"
    /\ call' = [call EXCEPT ![c].pc = "wait"]
    /\ UNCHANGED usage

(* TenantResolverSpan.ainvoke over a prefix resolver that nothing wraps:   *)
(* it returns the provider, and reading the tokens of it raises            *)
(* AttributeError in the client.                                           *)
ResolveOnly(c) ==
    /\ call[c].pc = "wait" /\ Kind(c) = "single" /\ ~call[c].route.override
    /\ call' = [call EXCEPT ![c].pc = "done", ![c].out = "attribute_error"]
    /\ UNCHANGED usage

(* TenantModelOverrideResolver.ainvoke: the prefix's provider is asked     *)
(* once.                                                                   *)
AnswerSingle(c) ==
    /\ call[c].pc = "wait" /\ Kind(c) = "single" /\ call[c].route.override
    /\ \E reply \in Replies :
           LET o == Outcome(c, reply) IN End(c, o, IF o = "ok" THEN "ok" ELSE "raised")
    /\ UNCHANGED usage

-----------------------------------------------------------------------------
(* The fallback chain.                                                     *)

(* _FALLBACK_TRIGGERS.                                                     *)
Triggers == {"unavailable", "output_invalid", "rate_limited", "timeout"}

(* Mutant: the last step is taken for the end of the chain.                *)
Walk_Short(c, o) ==
    CASE o = "ok" -> End(c, o, "ok")
      [] o \in Triggers -> IF call[c].step + 1 < call[c].route.chain
                           THEN Again(c, o, "wait", call[c].step + 1, 0, 0)
                           ELSE End(c, o, "exhausted")
      [] OTHER -> End(c, o, "raised")

(* FallbackResolver.ainvoke: the next step after a trigger, and anything   *)
(* else leaves the loop.                                                   *)
Walk(c, o) ==
    CASE o = "ok" -> End(c, o, "ok")
      [] o \in Triggers -> IF call[c].step < call[c].route.chain
                           THEN Again(c, o, "wait", call[c].step + 1, 0, 0)
                           ELSE End(c, o, "exhausted")
      [] OTHER -> End(c, o, "raised")

AnswerChain(c) ==
    /\ call[c].pc = "wait" /\ Kind(c) = "chain"
    /\ \E reply \in Replies : Walk(c, Outcome(c, reply))
    /\ UNCHANGED usage

(* wait_for cancels the step: its answer, if there is one, goes nowhere.   *)
TimeOutStep(c) ==
    /\ StepTimeout
    /\ call[c].pc = "wait" /\ Kind(c) = "chain"
    /\ Walk(c, "timeout")
    /\ UNCHANGED usage

-----------------------------------------------------------------------------
(* The judge: JudgeClient.score around chat_with_structured_output around  *)
(* _chat_with_retry.                                                       *)

(* One round of score has failed.                                          *)
RoundFailed(c, o) ==
    IF call[c].round < JudgeRetries
    THEN Again(c, o, "wait", 1, 0, call[c].round + 1)
    ELSE End(c, o, "judge_failure")

(* Mutant: the loop counts its retries and not its attempts.               *)
Retry_OneMore(c, o) ==
    IF o \in {"unavailable", "output_invalid"} /\ call[c].attempt <= MaxRetries
    THEN Again(c, o, "backoff", 1, call[c].attempt + 1, call[c].round)
    ELSE RoundFailed(c, o)

(* _chat_with_retry: unavailable and unreadable answers are tried again    *)
(* after a pause; every other exception, and the last of these, is raised. *)
Retry(c, o) ==
    IF o \in {"unavailable", "output_invalid"} /\ call[c].attempt < MaxRetries
    THEN Again(c, o, "backoff", 1, call[c].attempt + 1, call[c].round)
    ELSE RoundFailed(c, o)

(* UsageRecorder.enqueue: one row per answer of the provider.              *)
Row(c) == <<c, Len(call[c].log) + 1>>

(* Mutant: the row is enqueued once the answer has been understood.        *)
AnswerJudge_Late(c) ==
    /\ call[c].pc = "wait" /\ Kind(c) = "judge"
    /\ \E reply \in Replies :
           LET o == Outcome(c, reply) IN
           IF o # "ok" THEN Retry(c, o) /\ UNCHANGED pending
           ELSE \/ End(c, "ok", "ok") /\ pending' = pending \cup {Row(c)}
                \/ RoundFailed(c, "malformed") /\ UNCHANGED pending
    /\ UNCHANGED <<batch, stored, lost, worker>>

(* An answer is paid for, and recorded, before it is parsed: one that does *)
(* not match the schema fails the round.                                   *)
AnswerJudge(c) ==
    /\ call[c].pc = "wait" /\ Kind(c) = "judge"
    /\ \E reply \in Replies :
           LET o == Outcome(c, reply) IN
           IF o # "ok" THEN Retry(c, o) /\ UNCHANGED pending
           ELSE /\ End(c, "ok", "ok") \/ RoundFailed(c, "malformed")
                /\ pending' = pending \cup {Row(c)}
    /\ UNCHANGED <<batch, stored, lost, worker>>

(* asyncio.sleep between two attempts.                                     *)
BackOff(c) ==
    /\ call[c].pc = "backoff"
    /\ call' = [call EXCEPT ![c].pc = "wait"]
    /\ UNCHANGED usage

(* chat_with_structured_output gives one round timeout_s, pauses included. *)
TimeOutRound(c) ==
    /\ call[c].pc \in {"wait", "backoff"} /\ Kind(c) = "judge"
    /\ RoundFailed(c, "timeout")
    /\ UNCHANGED usage

-----------------------------------------------------------------------------
(* Streams: the resolver is called for its first provider, and what that   *)
(* provider does is final; the pieces delivered before an error stay       *)
(* delivered.                                                              *)
Chunk(c) ==
    /\ call[c].pc = "wait" /\ Kind(c) = "stream" /\ call[c].chunks < MaxChunks
    /\ call' = [call EXCEPT ![c].chunks = @ + 1]
    /\ UNCHANGED usage

(* A status is known before the first piece, a broken connection is not.   *)
EndStream(c) ==
    /\ call[c].pc = "wait" /\ Kind(c) = "stream"
    /\ \E reply \in Replies :
           /\ call[c].chunks > 0 => reply \in {"ok", "not_json", "no_choices", "network"}
           /\ LET o == Outcome(c, reply) IN
              End(c, o, IF o = "ok" THEN "ok"
                        ELSE IF call[c].chunks > 0 THEN "cut" ELSE "raised")
    /\ UNCHANGED usage

-----------------------------------------------------------------------------
(* The QA worker stops when its jobs have ended, and flushes.              *)
Stop ==
    /\ worker = "up"
    /\ \A c \in Calls : Kind(c) = "judge" => call[c].pc \in {"idle", "done"}
    /\ worker' = "flush"
    /\ batch' = pending /\ pending' = {}
    /\ UNCHANGED <<call, stored, lost>>

(* The batch was taken off the queue before the insert: when that fails    *)
(* shutdown logs it, and the rows are gone.                                *)
Insert ==
    /\ worker = "flush"
    /\ \/ stored' = stored \cup batch /\ UNCHANGED lost
       \/ lost' = lost \cup batch /\ UNCHANGED stored
    /\ batch' = {}
    /\ worker' = "down"
    /\ UNCHANGED <<call, pending>>

-----------------------------------------------------------------------------
Answers(c) ==
    \/ ResolveOnly(c) \/ AnswerSingle(c) \/ AnswerChain(c) \/ AnswerJudge(c)
    \/ BackOff(c) \/ EndStream(c)

GatewayNext ==
    \/ \E c \in Calls : Begin(c) \/ Answers(c) \/ TimeOutStep(c) \/ TimeOutRound(c) \/ Chunk(c)
    \/ Stop \/ Insert

(* A provider answers or its HTTP client's timeout makes it a network      *)
(* error; a pause ends.                                                    *)
GatewaySpec ==
    /\ GatewayInit /\ [][GatewayNext]_gatewayVars
    /\ \A c \in Calls : WF_gatewayVars(Answers(c))

-----------------------------------------------------------------------------
(* Properties.                                                             *)

(* Every request of a chain gets what FirstAnswer promises, with timeouts, *)
(* late answers and every kind of failure: the steps are asked in order,   *)
(* the first answer wins, and it is given up only when all have failed.    *)
Chained == {c \in Calls : Kind(c) = "chain"}
Failures(c) == Cardinality({i \in DOMAIN call[c].log : call[c].log[i][2] \in Triggers})
Promise == INSTANCE FirstAnswer WITH
    Requests <- Calls, Pending <- 0, Exhausted <- -1, Refused <- -2,
    candidates <- [c \in Calls |-> call[c].route.chain],
    failed <- [c \in Calls |-> IF c \in Chained THEN Failures(c) ELSE 0],
    result <- [c \in Calls |->
                  IF c \notin Chained THEN 0
                  ELSE CASE call[c].out = "none" -> 0
                         [] call[c].out = "ok" -> call[c].step
                         [] call[c].out = "exhausted" -> -1
                         [] OTHER -> -2]
KeepsPromise == Promise!Spec

(* One call per step of a chain, and one for a single provider or a        *)
(* stream.  Only the judge retries, in two nested loops, and these do      *)
(* multiply: with the defaults of one retry each, four calls for a score.  *)
CallsBounded ==
    \A c \in Calls : Len(call[c].log) <=
        CASE Kind(c) = "chain" -> call[c].route.chain
          [] Kind(c) = "judge" -> (MaxRetries + 1) * (JudgeRetries + 1)
          [] OTHER -> 1

(* qa/worker.py:37 says: "max_retries=1 (default) means a single bad turn  *)
(* costs at most 2 LLM calls", and qa/judge.py:26 "up to 2 attempts total".*)
(* The code violates this: both count the outer loop only.                 *)
OuterAttemptsOnly ==
    \A c \in Calls : Kind(c) = "judge" => Len(call[c].log) <= JudgeRetries + 1

(* Every answer the judge was given, understood or not, has exactly one    *)
(* usage row, which is in one place: waiting, taken, stored or lost.       *)
Answered ==
    {r \in Calls \X (1..((MaxRetries + 1) * (JudgeRetries + 1))) :
        LET log == call[r[1]].log IN
        Kind(r[1]) = "judge" /\ r[2] <= Len(log) /\ log[r[2]][2] \in {"ok", "malformed"}}
UsageConserved ==
    /\ Answered = pending \cup batch \cup stored \cup lost
    /\ Cardinality(Answered) = Cardinality(pending) + Cardinality(batch)
                               + Cardinality(stored) + Cardinality(lost)

(* Every call that was begun ends: nothing waits for a provider for ever.  *)
EveryCallEnds == \A c \in Calls : (call[c].pc = "wait") ~> (call[c].pc = "done")

(* "LLMClient always receives a ChatResponse, never a BaseProvider"        *)
(* (tenant_model_override_resolver.py): no call fails on the attributes of *)
(* what its resolver returned.                                             *)
ReceivesResponse == \A c \in Calls : call[c].out # "attribute_error"
=============================================================================
