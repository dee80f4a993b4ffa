------------------------------ MODULE TurnLoop ------------------------------
(***************************************************************************)
(* One conversational turn of the orchestrator (rickshaw/orchestrator.py): *)
(* context and prompt, provider calls with retry, streaming and partial    *)
(* responses, the bounded tool loop, the degraded fallback, observations,  *)
(* deferred jobs and the verdict written to the trace store.               *)
(*                                                                         *)
(* The orchestrator is one thread.  Its environment is the provider (what  *)
(* it answers and how it fails), the tools (side effects, results that do  *)
(* not serialise), the callbacks (which may raise, as call_from_thread     *)
(* does once the app has stopped) and the UI thread, which may replace     *)
(* self.provider while the turn runs.                                      *)
(*                                                                         *)
(* Texts, messages and token counts are abstracted: a response is whether  *)
(* it has text, how many tool calls it asks for, and which attempt of      *)
(* which call produced it.                                                 *)
(***************************************************************************)
EXTENDS Naturals

CONSTANTS
    Providers,      \* what self.provider can be: records of ProviderKind
    MaxRetries,     \* self.max_retries
    MaxToolRounds,  \* self.max_tool_rounds
    IterationCap,   \* _HARD_ITERATION_CAP
    MaxCalls,       \* bound: tool calls in one response
    MaxEvents,      \* bound: events a stream yields before it ends or fails
    MaxSwitches     \* bound: provider replacements during the turn

ProviderKind == [local: BOOLEAN, bridged: BOOLEAN,
                 streaming: BOOLEAN, tools: BOOLEAN]

ASSUME TurnConstants ==
    /\ Providers \subseteq ProviderKind
    /\ MaxRetries \in Nat /\ MaxToolRounds \in Nat /\ IterationCap \in Nat
    /\ MaxCalls \in Nat /\ MaxEvents \in Nat /\ MaxSwitches \in Nat

VARIABLES
    pc,          \* where run_turn stands
    provider,    \* self.provider, re-read at every call and by every handler
    called,      \* the provider that the current attempt has called
    callbacks,   \* on_delta or on_event was given
    reliable,    \* no callback raises, every tool result serialises
    toolsOn,     \* tool_specs is not None
    streaming,   \* try_streaming, computed once
    attempt,     \* of the current provider call
    sawEvent,    \* the current attempt yielded a stream event
    gotText,     \* text_parts of the current attempt is not empty
    yielded,     \* stream events of the current attempt, to bound it
    exc,         \* the exception being propagated
    iterations, rounds, todo, sideEffect, made, warned, response,
    trace,       \* status of the turn's row in the trace store
    ends,        \* the terminal events stored in the trace
    result,      \* how run_turn ended
    records,     \* observations written
    jobs,        \* scoring jobs enqueued
    \* history
    calls,       \* LLMCallStart events
    shown,       \* the attempts whose text reached on_delta
    accepted,    \* the attempts whose response entered the conversation
    dispatched,  \* tool calls really dispatched
    effects,     \* those of tools with side effects (or unknown ones)
    localDown,   \* a local endpoint refused a connection
    switches,    \* provider replacements
    crossed      \* one of them while a local failure went from one handler
                 \* to the next

providerVars == <<provider, switches, crossed>>
turnVars == <<callbacks, reliable, toolsOn, streaming, called>>
callVars == <<attempt, sawEvent, gotText, yielded>>
loopVars == <<iterations, rounds, todo, sideEffect, made, warned, response>>
endVars  == <<trace, ends, result, records, jobs>>
histVars == <<calls, shown, accepted, dispatched, effects, localDown>>
vars == <<pc, providerVars, exc, turnVars, callVars, loopVars, endVars,
          histVars>>

-----------------------------------------------------------------------------
(* Failures of the wire, and the exception class each one surfaces as.     *)

\* A refused connection, a connect timeout, a connection lost while reading,
\* a read timeout, a 429 or 5xx status, any other error status.
Faults == {"refused", "connect_timeout", "broken", "read_timeout",
           "status_retryable", "status_fatal"}

Exceptions == {"ConnectError", "ConnectTimeout", "TransportError",
               "HTTPRetryable", "HTTPFatal", "RAIConnectionError",
               "RAITimeoutError", "RAIStatusError",
               "StreamError", "CallbackError", "ToolError"}

\* ProviderRuntime.generate maps everything to rickshaw_ai errors and, with
\* the bridge's max_retries=0, raises at once.
GenerateRaises(f) ==
    CASE f \in {"connect_timeout", "read_timeout"}    -> "RAITimeoutError"
      [] f \in {"refused", "broken"}                  -> "RAIConnectionError"
      [] f \in {"status_retryable", "status_fatal"}   -> "RAIStatusError"

\* An httpx call whose errors reach the orchestrator as they are.
HttpxRaises(f) ==
    CASE f = "refused"                        -> "ConnectError"
      [] f = "connect_timeout"                -> "ConnectTimeout"
      [] f \in {"broken", "read_timeout"}     -> "TransportError"
      [] f = "status_retryable"               -> "HTTPRetryable"
      [] f = "status_fatal"                   -> "HTTPFatal"

\* ProviderRuntime.stream maps the status codes only.
StreamRaises(f) ==
    IF f \in {"status_retryable", "status_fatal"}
    THEN "RAIStatusError" ELSE HttpxRaises(f)

\* The class depends on the provider that was called, and on the way it was.
Raised(f) ==
    IF ~called.bridged THEN HttpxRaises(f)
    ELSE IF streaming THEN StreamRaises(f) ELSE GenerateRaises(f)

\* _is_transient_error
Transient(e) == e \in {"ConnectError", "ConnectTimeout", "TransportError",
                       "HTTPRetryable"}

LocalFailure_HttpxOnly(e) ==
    e \in {"ConnectError", "ConnectTimeout"} /\ provider.local

\* _local_connection_error(e, self.provider) is not None
LocalFailure(e) ==
    /\ e \in {"ConnectError", "ConnectTimeout", "RAIConnectionError"}
    /\ provider.local

-----------------------------------------------------------------------------
Attempts  == (0 .. IterationCap) \X (0 .. MaxRetries)
Here      == <<iterations, attempt>>
Response  == [text: BOOLEAN, calls: 0 .. MaxCalls, src: Attempts]
NoAnswer  == [text |-> FALSE, calls |-> 0, src |-> <<0, 0>>]

PCs == {"start", "prepare", "loop", "call", "waiting", "streaming", "unwind",
        "outer", "round", "dispatch", "finish", "enqueue", "done", "degraded", "error", "ended"}

FlagsOK ==
    /\ callbacks \in BOOLEAN /\ reliable \in BOOLEAN
    /\ toolsOn \in BOOLEAN /\ streaming \in BOOLEAN
    /\ sawEvent \in BOOLEAN /\ gotText \in BOOLEAN
    /\ sideEffect \in BOOLEAN /\ warned \in BOOLEAN
    /\ localDown \in BOOLEAN /\ crossed \in BOOLEAN

DataOK ==
    /\ pc \in PCs
    /\ provider \in Providers /\ called \in Providers /\ switches \in 0 .. MaxSwitches
    /\ attempt \in 0 .. MaxRetries /\ yielded \in 0 .. MaxEvents
    /\ exc \in Exceptions \cup {"none"}
    /\ iterations \in 0 .. IterationCap /\ rounds \in 0 .. MaxToolRounds
    /\ todo \in 0 .. MaxCalls /\ made \in Nat /\ response \in Response
    /\ trace \in {"none", "in_progress", "completed", "failed"}
    /\ ends \subseteq {"TurnDone", "Error"}
    /\ result \in {"none", "answer", "degraded", "raised"}
    /\ records \in 0 .. 1 /\ jobs \in 0 .. 1
    /\ calls \in Nat /\ shown \subseteq Attempts /\ accepted \subseteq Attempts
    /\ dispatched \in Nat /\ effects \in Nat

\* Every variable keeps its type; the attempt, the iterations and the rounds
\* keep their bounds.
TypeOK == FlagsOK /\ DataOK

Init ==
    /\ pc = "start" /\ provider \in Providers /\ called = provider
    /\ switches = 0 /\ crossed = FALSE /\ exc = "none"
    /\ callbacks \in BOOLEAN /\ reliable \in BOOLEAN
    /\ toolsOn = FALSE /\ streaming = FALSE
    /\ attempt = 0 /\ sawEvent = FALSE /\ gotText = FALSE /\ yielded = 0
    /\ iterations = 0 /\ rounds = 0 /\ todo = 0 /\ sideEffect = FALSE
    /\ made = 0 /\ warned = FALSE /\ response = NoAnswer
    /\ trace = "none" /\ ends = {} /\ result = "none"
    /\ records = 0 /\ jobs = 0
    /\ calls = 0 /\ shown = {} /\ accepted = {}
    /\ dispatched = 0 /\ effects = 0 /\ localDown = FALSE

-----------------------------------------------------------------------------
(* Emission: on_event first, then the trace store.  A callback that raises *)
(* keeps the event out of the trace.                                       *)

CallbackRaises == ~reliable /\ callbacks

\* An exception leaves the current frame for the handlers of run_turn.
Throw(e) == exc' = e /\ pc' = "unwind"

\* TurnStart, then start_trace.
StartTurn ==
    /\ pc = "start"
    /\ \/ pc' = "prepare" /\ trace' = "in_progress"
       \/ CallbackRaises /\ pc' = "error" /\ UNCHANGED trace
    /\ UNCHANGED <<providerVars, exc, turnVars, callVars, loopVars, ends,
                   result, records, jobs, histVars>>

\* ContextStart, assemble_context, ContextDone, capabilities, the prompt and
\* PromptBuilt.  Anything that raises here (a callback, the embedder, the
\* store) fails the turn.
Prepare ==
    /\ pc = "prepare"
    /\ \/ pc' = "loop" /\ toolsOn' = provider.tools
       \/ pc' = "error" /\ UNCHANGED toolsOn
    /\ UNCHANGED <<providerVars, exc, callbacks, reliable, streaming, called,
                   callVars, loopVars, endVars, histVars>>

\* _run_llm_loop asks the provider, which may be another one by now, for its
\* capabilities again.
StartLoop ==
    /\ pc = "loop"
    /\ pc' = "call"
    /\ streaming' = (callbacks /\ provider.streaming)
    /\ UNCHANGED <<providerVars, exc, callbacks, reliable, toolsOn, called,
                   callVars, loopVars, endVars, histVars>>

\* LLMCallStart, the reset of the attempt's buffers, and the call of the
\* provider of the moment.  A callback that raises here is outside the try of
\* both retry loops.
StartCall ==
    /\ pc = "call"
    /\ \/ /\ pc' = IF streaming THEN "streaming" ELSE "waiting"
          /\ calls' = calls + 1
          /\ UNCHANGED exc
       \/ CallbackRaises /\ Throw("CallbackError") /\ UNCHANGED calls
    /\ called' = provider
    /\ sawEvent' = FALSE /\ gotText' = FALSE /\ yielded' = 0
    /\ UNCHANGED <<providerVars, callbacks, reliable, toolsOn, streaming,
                   attempt, loopVars, endVars,
                   shown, accepted, dispatched, effects, localDown>>

-----------------------------------------------------------------------------
(* The end of an attempt.                                                  *)

\* The provider's answer becomes `response` and the loop goes on.
Accept(text, n) ==
    /\ response' = [text |-> text, calls |-> n, src |-> Here]
    /\ accepted' = accepted \cup {Here}
    /\ pc' = "round"
    /\ UNCHANGED exc

\* Tool calls are only in an answer when the tools were advertised.
CallCounts == IF toolsOn THEN 0 .. MaxCalls ELSE {0}

SalvageOrThrow_Discard(e, text) ==
    Throw(e) /\ UNCHANGED <<response, accepted>>

\* Text already handed to on_delta is kept as a partial response without tool
\* calls; otherwise the exception goes up.
SalvageOrThrow(e, text) ==
    IF text THEN Accept(TRUE, 0)
            ELSE Throw(e) /\ UNCHANGED <<response, accepted>>

\* Retry event, back-off and a new attempt.
Retry ==
    /\ attempt' = attempt + 1
    /\ pc' = "call"
    /\ UNCHANGED <<exc, response, accepted>>

CanRetry_Forever(e) == Transient(e)

CanRetry(e) == Transient(e) /\ attempt < MaxRetries

\* A connection refused by a local endpoint, remembered for the properties.
Observe(f, fresh) ==
    localDown' = (localDown \/ (f = "refused" /\ fresh /\ called.local))

\* provider.complete returned: LLMCallDone, emitted outside the try.
Complete ==
    /\ pc = "waiting"
    /\ \/ \E text \in BOOLEAN, n \in CallCounts : Accept(text, n)
       \/ CallbackRaises /\ Throw("CallbackError") /\ UNCHANGED <<response, accepted>>
    /\ UNCHANGED <<providerVars, turnVars, callVars, iterations, rounds,
                   todo, sideEffect, made, warned, endVars, calls, shown,
                   dispatched, effects, localDown>>

\* provider.complete raised.
CompleteFails ==
    /\ pc = "waiting"
    /\ \E f \in Faults :
         LET e == Raised(f) IN
         /\ Observe(f, TRUE)
         /\ \/ ~LocalFailure(e) /\ CanRetry(e) /\ Retry
            \/ /\ LocalFailure(e) \/ ~CanRetry(e)
               /\ Throw(e)
               /\ UNCHANGED <<attempt, response, accepted>>
            \/ /\ ~LocalFailure(e) /\ CanRetry(e) /\ CallbackRaises
               /\ Throw("CallbackError")
               /\ UNCHANGED <<attempt, response, accepted>>
    /\ UNCHANGED <<providerVars, turnVars, sawEvent, gotText, yielded,
                   iterations, rounds, todo, sideEffect, made, warned, endVars,
                   calls, shown, dispatched, effects>>

\* TextDelta: text_parts, on_delta, TurnTextDelta.  A callback that raises is
\* caught by the stream's own handler, which salvages the text.
StreamText ==
    /\ pc = "streaming" /\ yielded < MaxEvents
    /\ yielded' = yielded + 1 /\ sawEvent' = TRUE /\ gotText' = TRUE
    /\ \/ /\ shown' = shown \cup {Here}
          /\ UNCHANGED <<pc, exc, response, accepted>>
       \/ CallbackRaises /\ SalvageOrThrow("CallbackError", TRUE) /\ UNCHANGED shown
    /\ UNCHANGED <<providerVars, turnVars, attempt, iterations, rounds,
                   todo, sideEffect, made, warned, endVars, calls, dispatched,
                   effects, localDown>>

\* ThinkingDelta and the ToolCall events: no text, but no restart any more.
StreamOther ==
    /\ pc = "streaming" /\ yielded < MaxEvents
    /\ yielded' = yielded + 1 /\ sawEvent' = TRUE
    /\ \/ UNCHANGED <<pc, exc, response, accepted>>
       \/ CallbackRaises /\ SalvageOrThrow("CallbackError", gotText)
    /\ UNCHANGED <<providerVars, turnVars, attempt, gotText, iterations,
                   rounds, todo, sideEffect, made, warned, endVars, calls, shown,
                   dispatched, effects, localDown>>

\* StreamDone: LLMCallDone is emitted inside the try.
StreamDone ==
    /\ pc = "streaming"
    /\ sawEvent' = TRUE
    /\ \/ \E n \in CallCounts : Accept(gotText, n)
       \/ CallbackRaises /\ SalvageOrThrow("CallbackError", gotText)
    /\ UNCHANGED <<providerVars, turnVars, attempt, gotText, yielded,
                   iterations, rounds, todo, sideEffect, made, warned, endVars,
                   calls, shown, dispatched, effects, localDown>>

\* A StreamError event, or an iterator that ends without StreamDone.
StreamBreaks ==
    /\ pc = "streaming"
    /\ sawEvent' \in {sawEvent, TRUE}
    /\ SalvageOrThrow("StreamError", gotText)
    /\ UNCHANGED <<providerVars, turnVars, attempt, gotText, yielded,
                   iterations, rounds, todo, sideEffect, made, warned, endVars,
                   calls, shown, dispatched, effects, localDown>>

Fresh_Always == TRUE

\* A stream may be restarted only before its first event.
Fresh == ~sawEvent

\* The transport fails.  Status codes and refused connections come before any
\* event; a broken connection or a read timeout may come at any time.
StreamFails ==
    /\ pc = "streaming"
    /\ \E f \in Faults :
         LET e == Raised(f)
             local == Fresh /\ LocalFailure(e)
             again == Fresh /\ ~LocalFailure(e) /\ CanRetry(e)
         IN
         /\ sawEvent => f \in {"broken", "read_timeout"}
         /\ Observe(f, ~sawEvent)
         /\ \/ again /\ Retry
            \/ again /\ CallbackRaises /\ Throw("CallbackError")
                     /\ UNCHANGED <<attempt, response, accepted>>
            \/ local /\ Throw(e) /\ UNCHANGED <<attempt, response, accepted>>
            \/ ~local /\ ~again /\ SalvageOrThrow(e, gotText) /\ UNCHANGED attempt
    /\ UNCHANGED <<providerVars, turnVars, sawEvent, gotText, yielded,
                   iterations, rounds, todo, sideEffect, made, warned, endVars,
                   calls, shown, dispatched, effects>>

-----------------------------------------------------------------------------
(* The tool loop.                                                          *)

BudgetLeft == rounds < MaxToolRounds /\ iterations < IterationCap

\* The head of the while: the budgets, then the tool calls of the response.
Round ==
    /\ pc = "round"
    /\ IF BudgetLeft
       THEN /\ iterations' = iterations + 1
            /\ todo' = response.calls
            /\ pc' = IF response.calls = 0 THEN "finish" ELSE "dispatch"
       ELSE pc' = "finish" /\ UNCHANGED <<iterations, todo>>
    /\ sideEffect' = FALSE
    /\ UNCHANGED <<providerVars, exc, turnVars, callVars, rounds, made,
                   warned, response, endVars, histVars>>

CountedCalls == made + 1

\* One tool call: TurnToolCallStart, registry.dispatch, TurnToolCallDone and
\* the messages.  A result that does not serialise raises after the handler
\* has run, and a callback may raise before or after the dispatch.
Dispatch ==
    /\ pc = "dispatch" /\ todo > 0
    /\ \E effect \in BOOLEAN :
         \/ /\ todo' = todo - 1
            /\ made' = CountedCalls /\ dispatched' = dispatched + 1
            /\ effects' = IF effect THEN effects + 1 ELSE effects
            /\ sideEffect' = (sideEffect \/ effect)
            /\ UNCHANGED <<pc, exc>>
         \/ /\ ~reliable
            /\ \/ Throw("ToolError")
               \/ callbacks /\ Throw("CallbackError")
            /\ dispatched' = dispatched + 1
            /\ effects' = IF effect THEN effects + 1 ELSE effects
            /\ UNCHANGED <<todo, made, sideEffect>>
         \/ /\ CallbackRaises
            /\ Throw("CallbackError")
            /\ UNCHANGED <<todo, made, dispatched, effects, sideEffect>>
    /\ UNCHANGED <<providerVars, turnVars, callVars, iterations, rounds,
                   warned, response, endVars, calls, shown, accepted, localDown>>

\* The round is over: it counts if a tool had a side effect, and the
\* follow-up call starts with a fresh retry budget.
FollowUp ==
    /\ pc = "dispatch" /\ todo = 0
    /\ rounds' = IF sideEffect THEN rounds + 1 ELSE rounds
    /\ attempt' = 0
    /\ pc' = "call"
    /\ UNCHANGED <<providerVars, exc, turnVars, sawEvent, gotText, yielded,
                   iterations, todo, sideEffect, made, warned, response, endVars,
                   histVars>>

ReachesRunTurn_FirstCall == iterations = 0

\* The exception is outside the try around a follow-up call: it came from the
\* first call, or from a tool call of a round (todo > 0).
ReachesRunTurn == iterations = 0 \/ todo > 0

\* The handler around the follow-up call: a failure of what is a local server
\* now goes up, anything else ends the loop with the response there is.
CatchFollowUp ==
    /\ pc = "unwind" /\ iterations > 0 /\ todo = 0
    /\ IF LocalFailure(exc)
       THEN pc' = "outer" /\ UNCHANGED <<exc, warned>>
       ELSE pc' = "finish" /\ exc' = "none" /\ warned' = TRUE
    /\ UNCHANGED <<providerVars, turnVars, callVars, iterations, rounds, todo,
                   sideEffect, made, response, endVars, histVars>>

\* The handler of run_turn, which asks again whether the server is local.
CatchTurn ==
    /\ pc = "outer" \/ (pc = "unwind" /\ ReachesRunTurn)
    /\ exc' = "none"
    /\ IF LocalFailure(exc) THEN pc' = "error" /\ UNCHANGED warned
                            ELSE pc' = "degraded" /\ warned' = TRUE
    /\ UNCHANGED <<providerVars, turnVars, callVars, iterations, rounds, todo,
                   sideEffect, made, response, endVars, histVars>>

-----------------------------------------------------------------------------
(* The end of the turn.                                                    *)

\* The single delta of a non-streaming turn, then write_observations (which
\* may find a duplicate and write nothing) and MemoryWrite.
Finish ==
    /\ pc = "finish"
    /\ shown' = IF ~streaming /\ response.text
                THEN shown \cup {response.src} ELSE shown
    /\ \/ \E n \in (IF response.text THEN {0, 1} ELSE {0}) :
            records' = n /\ pc' = "enqueue"
       \/ records' \in (IF response.text THEN {0, 1} ELSE {0}) /\ pc' = "error"
    /\ UNCHANGED <<providerVars, exc, turnVars, callVars, loopVars, trace,
                   ends, result, jobs, calls, accepted, dispatched, effects,
                   localDown>>

\* A scoring job per record, and its JobEnqueue event.
EnqueueJobs ==
    /\ pc = "enqueue"
    /\ jobs' = records
    /\ pc' \in {"done"} \cup (IF CallbackRaises /\ records > 0 THEN {"error"} ELSE {})
    /\ UNCHANGED <<providerVars, exc, turnVars, callVars, loopVars, trace,
                   ends, result, records, histVars>>

CloseTrace_Forgotten(end, status) == ends' = ends \cup {end} /\ UNCHANGED trace

\* The terminal event, stored before finish_trace(status), which updates the
\* turn's row and so does nothing if start_trace never made one.
CloseTrace(end, status) ==
    /\ ends' = ends \cup {end}
    /\ trace' = IF trace = "none" THEN "none" ELSE status

\* TurnDone, finish_trace("completed"), return.
FinishTurn ==
    /\ pc = "done"
    /\ \/ /\ pc' = "ended" /\ result' = "answer"
          /\ CloseTrace("TurnDone", "completed")
       \/ CallbackRaises /\ pc' = "error" /\ UNCHANGED <<result, ends, trace>>
    /\ UNCHANGED <<providerVars, exc, turnVars, callVars, loopVars, records,
                   jobs, histVars>>

\* Degraded, recall, TurnDone(degraded, tool_calls_made=0),
\* finish_trace("completed"), return.  recall may raise like a callback.
Degrade ==
    /\ pc = "degraded"
    /\ \/ /\ pc' = "ended" /\ result' = "degraded" /\ made' = 0
          /\ CloseTrace("TurnDone", "completed")
       \/ pc' = "error" /\ UNCHANGED <<result, made, ends, trace>>
    /\ UNCHANGED <<providerVars, exc, turnVars, callVars, iterations, rounds,
                   todo, sideEffect, warned, response, records, jobs, histVars>>

\* The outer handler: Error, finish_trace("failed"), raise.  A callback that
\* raises again leaves the trace as it is.
FailTurn ==
    /\ pc = "error"
    /\ pc' = "ended" /\ result' = "raised"
    /\ \/ CloseTrace("Error", "failed")
       \/ CallbackRaises /\ UNCHANGED <<ends, trace>>
    /\ UNCHANGED <<providerVars, exc, turnVars, callVars, loopVars, records,
                   jobs, histVars>>

\* The UI thread replaces self.provider.
SwitchProvider ==
    /\ pc # "ended" /\ switches < MaxSwitches
    /\ provider' \in Providers \ {provider}
    /\ switches' = switches + 1
    /\ crossed' = (crossed \/ pc = "outer")
    /\ UNCHANGED <<pc, exc, turnVars, callVars, loopVars, endVars, histVars>>

\* The turn is over; the caller has its result.
Ended == pc = "ended" /\ UNCHANGED vars

Turn ==
    \/ StartTurn \/ Prepare \/ StartLoop \/ StartCall
    \/ Complete \/ CompleteFails
    \/ StreamText \/ StreamOther \/ StreamDone \/ StreamBreaks \/ StreamFails
    \/ Round \/ Dispatch \/ FollowUp \/ CatchFollowUp \/ CatchTurn
    \/ Finish \/ EnqueueJobs \/ FinishTurn \/ Degrade \/ FailTurn

Next == Turn \/ SwitchProvider \/ Ended

Spec == Init /\ [][Next]_vars

\* The orchestrator's thread runs, and every provider call ends: the HTTP
\* clients are built with a timeout.
FairSpec == Spec /\ WF_vars(Turn)
-----------------------------------------------------------------------------
(* Properties.                                                             *)

\* A turn calls the provider at most once per retry per iteration of the loop,
\* the first call included.
CallBudget == calls <= (MaxRetries + 1) * (IterationCap + 1)

\* Read-only rounds are exempt from max_tool_rounds, yet the tool calls with
\* side effects of one turn are bounded by it.
EffectBudget == effects <= MaxToolRounds * MaxCalls

\* Whatever fails and however often, a turn stays within its two budgets: the
\* retry loops nest in the tool loop, whose read-only rounds are not counted.
WithinBudgets == CallBudget /\ EffectBudget

\* The user never reads two attempts of the same provider call: a call that
\* has shown text is not retried, in streaming and non-streaming turns alike.
OneVoicePerCall == \A a, b \in shown : a[1] = b[1] => a = b

\* An answered turn accounts for everything it did: the answer's text was
\* shown, no text was shown whose response was thrown away, and the result
\* counts the tool calls that were dispatched, even when streams broke half-way
\* and follow-up calls failed.  (A delta whose callback raised was not shown.)
AnswerAccountsForText ==
    reliable /\ result = "answer" =>
        /\ shown \subseteq accepted
        /\ response.text => response.src \in shown
        /\ made = dispatched

\* The fallback to local memory replaces nothing: a turn degrades only if no
\* text was shown and no tool was dispatched, unless what broke the turn was a
\* callback or a tool's result and not the provider, or the user replaced a
\* local server that was down just between the two handlers that ask whether
\* the provider is local.
DegradedIsClean ==
    reliable /\ result = "degraded" /\ ~crossed => shown = {} /\ dispatched = 0

\* A local server that is down is reported, in the first call and in a
\* follow-up: neither the fallback nor a partial answer takes its place.  (If
\* the provider is replaced meanwhile the handlers judge the new one.)
LocalFailsFast ==
    localDown /\ switches = 0 => result \notin {"answer", "degraded"}

\* What stands in for a failed provider never covers up something that was
\* said, done or found out.
FallbacksAreClean == DegradedIsClean /\ LocalFailsFast

\* What the trace says agrees with what the caller is told, and a completed
\* turn has a scoring job for every observation; only a callback that raises,
\* on TurnStart before there is a row or on the Error event itself, can leave
\* a turn without a verdict, and then the caller gets its exception.
TraceVerdict ==
    pc = "ended" =>
      \/ trace = "completed" /\ ends = {"TurnDone"} /\ result # "raised"
                             /\ jobs = records
      \/ trace = "failed" /\ ends = {"Error"} /\ result = "raised"
      \/ trace = "in_progress" /\ ends = {} /\ result = "raised" /\ CallbackRaises
      \/ trace = "none" /\ ends \subseteq {"Error"} /\ result = "raised"
                        /\ CallbackRaises

\* Every turn ends: a model that keeps asking for read-only tools, a provider
\* that keeps failing and a stream that keeps breaking are all cut off.
TurnEnds == <>(pc = "ended")
=============================================================================
