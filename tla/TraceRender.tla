---------------------------- MODULE TraceRender ----------------------------
(***************************************************************************)
(* The trace under a turn (rickshaw/trace_render.py): the events a turn    *)
(* delivered, folded into display lines when it has ended.                 *)
(*                                                                         *)
(* The first half emits what run_turn emits, in its order; an interrupt    *)
(* leaves a prefix of it, because callbacks are delivered one by one and   *)
(* dropped once the turn is not active.  The second half is format_trace:  *)
(* one step per record, then what follows the loop.                        *)
(*                                                                         *)
(* A record is known by its position, which also is its time.  Of a text   *)
(* only matters whether it is empty; summaries and colours are left out.   *)
(***************************************************************************)
EXTENDS Naturals, Sequences, SequencesExt, FiniteSets

CONSTANTS
    MaxAttempts, \* max_retries + 1
    MaxRounds,   \* max_tool_rounds
    MaxTools,    \* bound: tool calls of one response
    MaxDeltas    \* bound: deltas of one stream

ASSUME RenderConstants ==
    /\ MaxAttempts \in Nat \ {0} /\ MaxRounds \in Nat
    /\ MaxTools \in Nat /\ MaxDeltas \in Nat

VARIABLES
    streaming, \* the turn uses the provider's stream
    phase,     \* where run_turn is
    attempt,   \* attempt of the current model call
    round,     \* tool rounds begun
    todo,      \* tool calls left of the current response
    reply,     \* the current response: which call it answers, any text?
    records,   \* the events delivered to the UI
    status,    \* "running", then what _finalize_trace is told
    at,        \* format_trace: the next record
    view,      \* format_trace: its locals
    rendered   \* format_trace has returned

turn == <<streaming, phase, attempt, round, todo, reply>>
renderVars == <<turn, records, status, at, view, rendered>>

DeltaKinds == {"text", "thinking"}
EventKinds == DeltaKinds \cup
    {"turn_start", "context_start", "context_done", "prompt_built",
     "llm_start", "llm_done", "tool_start", "tool_done", "retry", "degraded",
     "memory_write", "job_enqueue", "turn_done", "error"}
\* n tells which model call or tool call an event is about; 0 in a turn_done
\* is the fallback to local memory.
Ev(kind, n) == [kind |-> kind, n |-> n, text |-> FALSE]

Count(kind) == Cardinality({p \in DOMAIN records : records[p].kind = kind})

(***************************************************************************)
(* What a turn emits                                                       *)
(***************************************************************************)
NoReply == [n |-> 0, text |-> FALSE]
ThisCall == Count("llm_start")

\* Positions of the deltas of the model call under way.
Deltas == {p \in DOMAIN records :
              records[p].kind \in DeltaKinds /\ records[p].n = ThisCall}
Texts == {p \in Deltas : records[p].kind = "text"}
AnyText == \E p \in Texts : records[p].text

Emit(es) == records' = records \o es /\ UNCHANGED <<status, at, view, rendered>>

TurnDone(n, text) == [kind |-> "turn_done", n |-> n, text |-> text]

\* recall raises, or what builds the prompt does, or it is built.
Begin ==
    /\ phase = "start"
    /\ \/ /\ Emit(<<Ev("turn_start", 0), Ev("context_start", 0),
                    Ev("context_done", 0), Ev("prompt_built", 0)>>)
          /\ phase' = "call"
       \/ /\ \/ Emit(<<Ev("turn_start", 0), Ev("context_start", 0), Ev("error", 0)>>)
             \/ Emit(<<Ev("turn_start", 0), Ev("context_start", 0),
                       Ev("context_done", 0), Ev("error", 0)>>)
          /\ phase' = "failed"
    /\ UNCHANGED <<streaming, attempt, round, todo, reply>>

CallStart ==
    /\ phase = "call"
    /\ Emit(<<Ev("llm_start", ThisCall + 1)>>)
    /\ phase' = "answering"
    /\ UNCHANGED <<streaming, attempt, round, todo, reply>>

Delta ==
    /\ phase = "answering" /\ streaming
    /\ Cardinality(Deltas) < MaxDeltas
    /\ \E kind \in DeltaKinds, text \in BOOLEAN :
           Emit(<<[kind |-> kind, n |-> ThisCall, text |-> text]>>)
    /\ UNCHANGED turn

CallDone ==
    /\ phase = "answering"
    /\ Emit(<<Ev("llm_done", ThisCall)>>)
    /\ \E text \in BOOLEAN, tools \in 0 .. MaxTools :
         /\ streaming => text = AnyText
         /\ reply' = [n |-> ThisCall, text |-> text]
         /\ todo' = tools
         /\ phase' = IF tools > 0 /\ round < MaxRounds THEN "tools" ELSE "reply"
    /\ UNCHANGED <<streaming, attempt, round>>

\* A transient failure before any event is retried.
RetryCall ==
    /\ phase = "answering"
    /\ Deltas = {} /\ attempt < MaxAttempts
    /\ Emit(<<Ev("retry", ThisCall)>>)
    /\ attempt' = attempt + 1 /\ phase' = "call"
    /\ UNCHANGED <<streaming, round, todo, reply>>

\* A stream that breaks after text is taken for the answer.
Salvage ==
    /\ phase = "answering"
    /\ Texts # {}
    /\ reply' = [n |-> ThisCall, text |-> AnyText]
    /\ todo' = 0 /\ phase' = "reply"
    /\ UNCHANGED <<streaming, attempt, round, records, status, at, view, rendered>>

\* The fallback to local memory, whose recall may raise in its turn.
Degrade(es) ==
    \/ Emit(es \o <<Ev("degraded", 0), TurnDone(0, TRUE)>>) /\ phase' = "done"
    \/ Emit(es \o <<Ev("degraded", 0), Ev("error", 0)>>) /\ phase' = "failed"

\* A call fails for good: an error if the endpoint is a local one, else the
\* fallback to local memory (first call) or the response there is (follow-up).
CallFails ==
    /\ phase = "answering"
    /\ Texts = {}
    /\ \/ Emit(<<Ev("error", 0)>>) /\ phase' = "failed"
       \/ reply = NoReply /\ Degrade(<<>>)
       \/ /\ reply # NoReply
          /\ phase' = "reply"
          /\ UNCHANGED <<records, status, at, view, rendered>>
    /\ UNCHANGED <<streaming, attempt, round, todo, reply>>

\* One tool call; after the last one the model is called again.  A result that
\* does not serialise raises in dispatch, and a callback may raise when the tool
\* is done: both read as an unreachable provider.
ToolCall ==
    /\ phase = "tools"
    /\ LET n == Count("tool_start") + 1 IN
       \/ /\ Emit(<<Ev("tool_start", n), Ev("tool_done", n)>>)
          /\ todo' = todo - 1
          /\ IF todo > 1
             THEN UNCHANGED <<phase, round, attempt>>
             ELSE phase' = "call" /\ round' = round + 1 /\ attempt' = 1
       \/ /\ \/ Degrade(<<Ev("tool_start", n)>>)
             \/ Degrade(<<Ev("tool_start", n), Ev("tool_done", n)>>)
          /\ UNCHANGED <<attempt, round, todo>>
    /\ UNCHANGED <<streaming, reply>>

\* The answer of a call that did not stream is one delta; then observations,
\* scoring jobs and the end, unless writing the observations raises.
Reply ==
    /\ phase = "reply"
    /\ LET whole == IF ~streaming /\ reply.text
                    THEN <<[kind |-> "text", n |-> reply.n, text |-> TRUE]>>
                    ELSE <<>>
       IN \/ /\ \E jobs \in {<<>>, <<Ev("job_enqueue", 0)>>} :
                  Emit(whole \o <<Ev("memory_write", 0)>> \o jobs
                       \o <<TurnDone(reply.n, reply.text)>>)
             /\ phase' = "done"
          \/ Emit(whole \o <<Ev("error", 0)>>) /\ phase' = "failed"
    /\ UNCHANGED <<streaming, attempt, round, todo, reply>>

Running == status = "running"

Ended == phase \in {"done", "failed"}

Finish ==
    /\ Running /\ Ended
    /\ status' = IF phase = "done" THEN "completed" ELSE "failed"
    /\ UNCHANGED <<turn, records, at, view, rendered>>

\* Esc: what was delivered until then is a prefix of what the turn emits.
Interrupt ==
    /\ Running
    /\ \E n \in 0 .. Len(records) : records' = SubSeq(records, 1, n)
    /\ status' = "interrupted" /\ phase' = "cut"
    /\ attempt' = 1 /\ round' = 0 /\ todo' = 0 /\ reply' = NoReply
    /\ UNCHANGED <<streaming, at, view, rendered>>

(***************************************************************************)
(* format_trace                                                            *)
(***************************************************************************)
\* A line's sources are the records whose JSON is its raw_json, from is the
\* record that gives its timestamp (one past the last: the turn's duration).
LineOf(label, sources, from) ==
    [label |-> label, sources |-> sources, from |-> from, placeholder |-> FALSE]
Placeholder(label, from) ==
    [label |-> label, sources |-> {}, from |-> from, placeholder |-> TRUE]

Slots == {"context", "llm", "tool"}
StartOf(slot) == CASE slot = "context" -> "context_start"
                   [] slot = "llm"     -> "llm_start"
                   [] OTHER            -> "tool_start"
DoneOf(slot) == CASE slot = "context" -> "context_done"
                  [] slot = "llm"     -> "llm_done"
                  [] OTHER            -> "tool_done"

\* The label of a record that makes a line of its own.
Label(kind) == CASE kind = "prompt_built" -> "prompt"
                 [] kind = "memory_write" -> "memory"
                 [] kind = "job_enqueue"  -> "job"
                 [] OTHER                 -> kind
OwnLine == {"prompt_built", "retry", "degraded", "memory_write", "job_enqueue",
            "error"}

\* pending maps a slot to the start event in it (0: none); block holds the
\* grouped deltas; answerAt and thinkingAt are text_block_index and
\* thinking_block_index, counted from 1 (0: none seen).
View0 == [lines |-> <<>>, pending |-> [s \in Slots |-> 0], kind |-> "text",
          block |-> {}, answerAt |-> 0, thinkingAt |-> 0]

First(block) == CHOOSE p \in block : \A q \in block : p <= q

\* A block without a character is a placeholder, and keeps no raw JSON.
BlockLine(kind, block) ==
    LET label == IF kind = "text" THEN "answer" ELSE "thinking"
    IN IF \E p \in block : records[p].text
       THEN LineOf(label, block, First(block))
       ELSE Placeholder(label, First(block))

FlushDelta(v) ==
    IF v.block = {} THEN v
    ELSE [v EXCEPT
            !.lines = Append(@, BlockLine(v.kind, v.block)),
            !.answerAt = IF v.kind = "text" THEN Len(v.lines) + 1 ELSE @,
            !.thinkingAt = IF v.kind = "text" THEN @ ELSE Len(v.lines) + 1,
            !.block = {}]

FlushSlot_Always(v, slot, kind) ==
    IF v.pending[slot] = 0 THEN v
    ELSE [v EXCEPT
            !.lines = Append(@, LineOf(slot, {v.pending[slot]}, v.pending[slot])),
            !.pending[slot] = 0]

\* A start whose done is not the next event that is no delta: a line that says
\* failed or incomplete.  A pending context is left where it is.
FlushSlot(v, slot, kind) ==
    IF v.pending[slot] = 0 \/ kind = DoneOf(slot) THEN v
    ELSE [v EXCEPT
            !.lines = Append(@, LineOf(slot, {v.pending[slot]}, v.pending[slot])),
            !.pending[slot] = 0]

FlushUnmatched_Llm(v, kind) == FlushSlot(v, "llm", kind)

FlushUnmatched(v, kind) == FlushSlot(FlushSlot(v, "llm", kind), "tool", kind)

GroupDelta(v, p) ==
    LET w == IF v.block # {} /\ v.kind = records[p].kind THEN v ELSE FlushDelta(v)
    IN [w EXCEPT !.kind = records[p].kind, !.block = @ \cup {p}]

PairUp(v, slot, p) ==
    LET start == v.pending[slot]
        line == IF start # 0 THEN LineOf(slot, {start, p}, start)
                             ELSE LineOf(slot, {p}, p)
    IN [v EXCEPT !.lines = Append(@, line), !.pending[slot] = 0]

ProcessNonDelta(v, p) ==
    LET kind == records[p].kind IN
    IF \E s \in Slots : kind = StartOf(s)
    THEN LET s == CHOOSE s \in Slots : kind = StartOf(s)
         IN [v EXCEPT !.pending[s] = p]
    ELSE IF \E s \in Slots : kind = DoneOf(s)
    THEN PairUp(v, CHOOSE s \in Slots : kind = DoneOf(s), p)
    ELSE IF kind \in OwnLine
    THEN [v EXCEPT !.lines = Append(@, LineOf(Label(kind), {p}, p))]
    ELSE v

Scan ==
    /\ ~Running /\ at <= Len(records)
    /\ view' = IF records[at].kind \in DeltaKinds THEN GroupDelta(view, at)
               ELSE ProcessNonDelta(
                        FlushUnmatched(FlushDelta(view), records[at].kind), at)
    /\ at' = at + 1
    /\ UNCHANGED <<turn, records, status, rendered>>

\* The turn_done of the records (0: none), and its time, or the duration.
DonePos ==
    IF Count("turn_done") = 0 THEN 0
    ELSE First({p \in DOMAIN records : records[p].kind = "turn_done"})
DoneTime == IF DonePos = 0 THEN Len(records) + 1 ELSE DonePos

AddAnswer_NoBlock(v) ==
    IF DonePos # 0 /\ v.answerAt = 0 /\ v.thinkingAt = 0 /\ records[DonePos].text
    THEN [v EXCEPT !.lines = Append(@, LineOf("answer", {DonePos}, DonePos)),
                   !.answerAt = Len(v.lines) + 1]
    ELSE v

\* The answer of a turn without text deltas comes from its turn_done.
AddAnswer(v) ==
    IF DonePos # 0 /\ v.answerAt = 0 /\ records[DonePos].text
    THEN [v EXCEPT !.lines = Append(@, LineOf("answer", {DonePos}, DonePos)),
                   !.answerAt = Len(v.lines) + 1]
    ELSE v

\* "(none)" goes where the last answer is, and moves it on.
AddNoThinking(v) ==
    IF v.thinkingAt # 0 THEN v
    ELSE IF v.answerAt # 0
    THEN [v EXCEPT !.lines = InsertAt(@, v.answerAt,
                        Placeholder("thinking", v.lines[v.answerAt].from)),
                   !.answerAt = @ + 1]
    ELSE [v EXCEPT !.lines = Append(@, Placeholder("thinking", DoneTime))]

AddNoAnswer(v) ==
    IF v.answerAt # 0 THEN v
    ELSE [v EXCEPT !.lines = Append(@, Placeholder("answer", DoneTime))]

AddDone(v) ==
    IF DonePos = 0 THEN v
    ELSE [v EXCEPT !.lines = Append(@, LineOf("done", {DonePos}, DonePos))]

Conclude ==
    /\ ~Running /\ ~rendered /\ at = Len(records) + 1
    /\ view' = AddDone(AddNoAnswer(AddNoThinking(AddAnswer(
                    FlushUnmatched(FlushDelta(view), "none")))))
    /\ rendered' = TRUE
    /\ UNCHANGED <<turn, records, status, at>>

\* What the collapsed summary says of the turn.
Degraded == \/ DonePos # 0 /\ records[DonePos].n = 0
            \/ Count("degraded") > 0

(***************************************************************************)
(* Specification                                                           *)
(***************************************************************************)
RenderInit ==
    /\ streaming \in BOOLEAN
    /\ phase = "start" /\ attempt = 1 /\ round = 0 /\ todo = 0
    /\ reply = NoReply /\ records = <<>> /\ status = "running"
    /\ at = 1 /\ view = View0 /\ rendered = FALSE

Working ==
    \/ Begin \/ CallStart \/ Delta \/ CallDone \/ RetryCall \/ Salvage
    \/ CallFails \/ ToolCall \/ Reply

RenderNext == (Running /\ Working) \/ Finish \/ Interrupt \/ Scan \/ Conclude

RenderSpec == RenderInit /\ [][RenderNext]_renderVars

(***************************************************************************)
(* Correctness                                                             *)
(***************************************************************************)
Showing(p) == {i \in DOMAIN view.lines : p \in view.lines[i].sources}
LinesOf(label) == {i \in DOMAIN view.lines : view.lines[i].label = label}

\* "All raw event data is preserved" (trace_render.py:5): each event is the
\* source of one line, however retries, broken calls and an interrupt cut the
\* pairs and blocks apart; a turn's end is the last line, and may also have
\* brought the answer.  No event is on two lines, not even those that the
\* renderer drops: the start of the turn, a recall that was never done, and
\* deltas without a character.
EveryEventOnOneLine ==
    rendered => \A p \in DOMAIN records :
        LET e == records[p]
            recalled == \E q \in DOMAIN records :
                           q > p /\ records[q].kind = "context_done"
            leftOut == \/ e.kind = "turn_start"
                       \/ e.kind = "context_start" /\ ~recalled
                       \/ e.kind \in DeltaKinds /\ ~e.text
        IN IF e.kind = "turn_done" THEN Len(view.lines) \in Showing(p)
           ELSE /\ Cardinality(Showing(p)) <= 1
                /\ ~leftOut => Showing(p) # {}

\* A start and a done on one line belong to the same call, and a call is shown
\* as failed or incomplete only if its done never came: the slots hold one
\* event each and do not look at ids.
PairsBelongTogether ==
    rendered => \A i \in LinesOf("llm") \cup LinesOf("tool") :
        LET src == view.lines[i].sources
            slot == view.lines[i].label
        IN /\ \A p, q \in src : records[p].n = records[q].n
           /\ (\A p \in src : records[p].kind = StartOf(slot)) =>
                \A p \in src, q \in DOMAIN records :
                    ~(records[q].kind = DoneOf(slot) /\ records[q].n = records[p].n)

AnswerShown ==
    \E i \in LinesOf("answer") :
        /\ ~view.lines[i].placeholder
        /\ \/ DonePos \in view.lines[i].sources
           \/ \E p \in view.lines[i].sources : records[p].n = records[DonePos].n

\* The answer a turn ended with can be read in its trace: on a line of its own
\* text, or of the turn's end, though the renderer takes the end's text only
\* if no block of text came before, and earlier rounds, broken streams and
\* empty deltas make blocks too.  Not so when local memory stands in after a
\* round that had text: that answer is in no line.
AnswerIsReadable ==
    /\ rendered /\ DonePos # 0 /\ records[DonePos].text
    /\ Degraded => Count("text") = 0
    => AnswerShown
=============================================================================
