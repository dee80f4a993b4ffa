----------------------------- MODULE StreamParse -----------------------------
(***************************************************************************)
(* One streamed response: the three adapters' parse_stream                 *)
(* (rickshaw_ai/providers), and the bridge to the synchronous harness      *)
(* (rickshaw/providers/_bridge.py), whose thread runs the parser and puts  *)
(* its events on an unbounded queue.                                       *)
(*                                                                         *)
(* The provider sends the payloads of a message in the order its protocol  *)
(* allows; OpenAI's tool calls may interleave.  The stream may end early,  *)
(* with an error or like a complete one, and the harness may drop the      *)
(* iterator at any event.                                                  *)
(*                                                                         *)
(* The k-th fragment of block i is <<i, k>>; texts and arguments are       *)
(* sequences of fragments, and {} is the empty one.  Only complete         *)
(* arguments parse, if the model wrote valid JSON.                         *)
(***************************************************************************)
EXTENDS Naturals, Sequences, SequencesExt

CONSTANT Messages   \* the messages a provider may stream

Protocols == {"openai", "anthropic", "google"}

Block == [kind : {"text", "thinking", "redacted", "tool"}, name : STRING,
          parts : Nat, valid : BOOLEAN]

\* OpenAI's content is one string before the calls; Google sends every part
\* whole and its arguments are an object already.
ASSUME MessagesAreWellFormed ==
    \A m \in Messages :
        /\ m.proto \in Protocols /\ m.blocks \in Seq(Block)
        /\ \A i \in DOMAIN m.blocks :
             LET b == m.blocks[i] IN
             /\ b.kind = "redacted" => b.parts = 0
             /\ m.proto = "openai" => \/ b.kind = "tool"
                                      \/ b.kind = "text" /\ i = 1 /\ b.parts > 0
             /\ m.proto = "google" => b.kind \in {"text", "tool"} /\ b.valid

VARIABLES
    msg,       \* the message
    sent,      \* per block that was begun: the fragments sent
    order,     \* the blocks in the order the parser met them
    buffer,    \* per block: the fragments the parser collected
    thread,    \* the bridge's thread
    ending,    \* how the provider's stream ended
    queue,     \* from the thread to the harness
    consumer,  \* where the harness's iteration stands
    got        \* history: the events the harness was given

parser == <<sent, order, buffer>>
vars   == <<msg, parser, thread, ending, queue, consumer, got>>

Blocks  == DOMAIN msg.blocks
Kind(i) == msg.blocks[i].kind
Tools   == {i \in Blocks : Kind(i) = "tool"}
Full(i) == [k \in 1 .. msg.blocks[i].parts |-> <<i, k>>]
Sent(i) == i \in DOMAIN sent /\ sent[i] = msg.blocks[i].parts

\* The id of a call: Google has none, and its name stands in.
Id(i) == IF msg.proto = "google" THEN <<"name", msg.blocks[i].name>>
                                 ELSE <<"call", i>>

Init ==
    /\ msg \in Messages
    /\ sent = <<>> /\ order = <<>> /\ buffer = [i \in Blocks |-> <<>>]
    /\ thread = "reading" /\ ending = "open" /\ queue = <<>>
    /\ consumer = "reading" /\ got = <<>>
-----------------------------------------------------------------------------
(* The parser reads a payload.                                             *)

\* OpenAI's calls begin in the order of their index, Anthropic's and Google's
\* blocks come one after the other.
MayBegin(i) ==
    \A j \in Blocks : j < i => IF msg.proto = "openai" THEN j \in DOMAIN sent
                                                       ELSE Sent(j)

\* How many fragments come with the payload that begins a block.
First(i) ==
    CASE msg.proto = "google"    -> {msg.blocks[i].parts}
      [] msg.proto = "anthropic" -> {0}
      [] OTHER -> IF Kind(i) = "text" THEN {1}
                  ELSE {n \in {0, 1} : n <= msg.blocks[i].parts}

\* The event of a fragment.  From the second chunk of an OpenAI call on there
\* is no id, and its index stands in; Google's calls have no fragments.
Delta(i, k, first) ==
    CASE Kind(i) = "text"     -> <<[type |-> "text", part |-> <<i, k>>]>>
      [] Kind(i) = "thinking" -> <<[type |-> "thinking", part |-> <<i, k>>]>>
      [] OTHER ->
           IF msg.proto = "google" THEN <<>>
           ELSE <<[type |-> "delta", part |-> <<i, k>>,
                   id |-> IF msg.proto = "openai" /\ ~first
                          THEN <<"index", i>> ELSE Id(i)]>>

\* Where the parser collects the fragments of a block.
Key_ByName(i) ==
    CHOOSE j \in Blocks : /\ msg.blocks[j].name = msg.blocks[i].name
                          /\ \A k \in 1 .. j - 1 :
                               msg.blocks[k].name # msg.blocks[i].name

Key(i) == i

Collected_Overwritten(i, new) == IF new = <<>> THEN buffer[Key(i)] ELSE new

Collected(i, new) == buffer[Key(i)] \o new

CanPut_Bounded == Len(queue) < 2

\* The queue is unbounded.
CanPut == TRUE

Put(events) == CanPut /\ queue' = queue \o events

\* The payload that begins a block: content_block_start, the first chunk of a
\* call, a part.
Begin(i) ==
    /\ thread = "reading" /\ i \notin DOMAIN sent /\ MayBegin(i)
    /\ \E n \in First(i) :
         LET new == SubSeq(Full(i), 1, n)
             start == IF Kind(i) = "tool"
                      THEN <<[type |-> "start", id |-> Id(i)]>> ELSE <<>>
         IN /\ sent' = [j \in DOMAIN sent \cup {i} |-> IF j = i THEN n ELSE sent[j]]
            /\ buffer' = [buffer EXCEPT ![Key(i)] = Collected(i, new)]
            /\ Put(start \o FlattenSeq([k \in 1 .. n |-> Delta(i, k, TRUE)]))
    /\ order' = Append(order, i)
    /\ UNCHANGED <<msg, thread, ending, consumer, got>>

\* A payload with the next fragment of a block.
Part(i) ==
    /\ thread = "reading" /\ i \in DOMAIN sent /\ ~Sent(i)
    /\ LET k == sent[i] + 1 IN
         /\ sent' = [sent EXCEPT ![i] = k]
         /\ buffer' = [buffer EXCEPT ![Key(i)] = Collected(i, <<<<i, k>>>>)]
         /\ Put(Delta(i, k, FALSE))
    /\ UNCHANGED <<msg, order, thread, ending, consumer, got>>
-----------------------------------------------------------------------------
(* The end of the stream.                                                  *)

\* json.loads accepts the collected arguments.
Parses(i) ==
    \/ buffer[Key(i)] = <<>>
    \/ buffer[Key(i)] = Full(i) /\ msg.blocks[i].valid

Refused_Never == FALSE

\* ToolCallAssembler.finish raises on malformed arguments.
Refused == msg.proto = "openai" /\ \E i \in Tools : ~Parses(i)

\* The other parsers log malformed arguments and go on with {}.
Call(i) == [id |-> Id(i), name |-> msg.blocks[i].name,
            args |-> IF Parses(i) THEN buffer[Key(i)] ELSE <<>>]

\* What a block adds to the text of the answer, and to its calls.
TextOf(i)  == IF Kind(i) = "text" THEN buffer[Key(i)] ELSE <<>>
CallsOf(i) == IF Kind(i) = "tool" THEN <<Call(i)>> ELSE <<>>

\* The answer as the harness sees it: the text of the text blocks, the calls.
Answer == [text  |-> FlattenSeq([n \in 1 .. Len(order) |-> TextOf(order[n])]),
           calls |-> FlattenSeq([n \in 1 .. Len(order) |-> CallsOf(order[n])])]

Failure_Misnamed == <<[type |-> "exception"], [type |-> "end"]>>

\* An exception of the parser: the except, then the finally of the thread.
Failure == <<[type |-> "error"], [type |-> "end"]>>

\* The loop over the payloads is over: every call is finished, then the
\* answer is yielded, or the parser raises.
Assemble ==
    /\ thread' = "ended"
    /\ Put(IF Refused THEN Failure
           ELSE [n \in 1 .. Len(Answer.calls) |->
                    [type |-> "callend", call |-> Answer.calls[n]]]
                \o <<[type |-> "done", answer |-> Answer], [type |-> "end"]>>)

\* [DONE], message_stop, or the end of Google's stream.
Finish ==
    /\ thread = "reading" /\ \A i \in Blocks : Sent(i)
    /\ ending' = "whole"
    /\ Assemble
    /\ UNCHANGED <<msg, parser, consumer, got>>

\* The body ends early, maybe after an Anthropic error event, which the
\* parser skips: nothing tells it from a complete one.
Cut ==
    /\ thread = "reading" /\ \E i \in Blocks : ~Sent(i)
    /\ ending' = "cut"
    /\ Assemble
    /\ UNCHANGED <<msg, parser, consumer, got>>

\* An error status, a broken connection, a read timeout, a payload that is no
\* JSON.
Fail ==
    /\ thread = "reading"
    /\ ending' = "failed" /\ thread' = "ended"
    /\ Put(Failure)
    /\ UNCHANGED <<msg, parser, consumer, got>>
-----------------------------------------------------------------------------
(* The harness.                                                            *)

\* The next item of the queue: an event, the exception, or the end of the
\* iteration.  stream_events returns after StreamDone.
Take ==
    /\ consumer = "reading" /\ queue # <<>>
    /\ queue' = Tail(queue)
    /\ LET e == Head(queue) IN
         /\ consumer' = CASE e.type = "done"  -> "answered"
                          [] e.type = "error" -> "raised"
                          [] e.type = "end"   -> "silent"
                          [] OTHER            -> "reading"
         /\ got' = IF e.type \in {"error", "end"} THEN got ELSE Append(got, e)
    /\ UNCHANGED <<msg, parser, thread, ending>>

\* A callback of the turn raises, and the iterator is closed; the thread does
\* not know.
Abandon ==
    /\ consumer = "reading" /\ got # <<>>
    /\ consumer' = "abandoned"
    /\ UNCHANGED <<msg, parser, thread, ending, queue, got>>

Thread == (\E i \in Blocks : Begin(i) \/ Part(i)) \/ Finish \/ Cut \/ Fail

\* The iteration is over.
Over == consumer # "reading" /\ UNCHANGED vars

Next == Thread \/ Take \/ Abandon \/ Over

Spec == Init /\ [][Next]_vars

\* Every read of the stream ends, with its timeout if need be; the harness
\* iterates.
FairSpec == Spec /\ WF_vars(Thread) /\ WF_vars(Take)
-----------------------------------------------------------------------------
(* Properties.                                                             *)

Fragments  == Blocks \X Nat
Ids        == {Id(i) : i \in Blocks}
CallType   == [id : Ids, name : STRING, args : Seq(Fragments)]
AnswerType == [text : Seq(Fragments), calls : Seq(CallType)]

Event ==
    [type : {"text", "thinking"}, part : Fragments] \cup [type : {"start"}, id : Ids]
    \cup [type : {"delta"}, part : Fragments, id : Ids \cup {"index"} \X Blocks]
    \cup [type : {"callend"}, call : CallType] \cup [type : {"done"}, answer : AnswerType]
    \cup [type : {"error", "end"}]

\* Every variable keeps its type; every event has the fields of its kind, and
\* the arguments of a call are an object.
TypeOK ==
    /\ msg \in Messages
    /\ DOMAIN sent \subseteq Blocks /\ \A i \in DOMAIN sent : sent[i] \in Nat
    /\ order \in Seq(Blocks) /\ buffer \in [Blocks -> Seq(Fragments)]
    /\ thread \in {"reading", "ended"}
    /\ ending \in {"open", "whole", "cut", "failed"}
    /\ consumer \in {"reading", "answered", "raised", "silent", "abandoned"}
    /\ queue \in Seq(Event) /\ got \in Seq(Event)

\* What parse_response makes of the same message, malformed arguments being
\* replaced by {}.
Generated ==
    [text  |-> FlattenSeq([i \in Blocks |-> IF Kind(i) = "text" THEN Full(i) ELSE <<>>]),
     calls |-> FlattenSeq([i \in Blocks |->
                   IF Kind(i) = "tool"
                   THEN <<[id |-> Id(i), name |-> msg.blocks[i].name,
                           args |-> IF msg.blocks[i].valid THEN Full(i) ELSE <<>>]>>
                   ELSE <<>>])]

Final == Last(got).answer

\* "The terminal StreamDone carries the same GenerateResult that a
\* non-streaming generate() would return": a message that was streamed to its
\* end gives the harness the same text and the same calls, however the
\* fragments of its calls were interleaved, unless its arguments are malformed.
StreamMatchesGenerate ==
    ending = "whole" /\ (\A i \in Tools : msg.blocks[i].valid) =>
        /\ consumer # "raised"
        /\ consumer = "answered" => Final = Generated

\* The fragments of text and the finished calls that events show.
Texts(es) == FlattenSeq([n \in 1 .. Len(es) |->
                 IF es[n].type = "text" THEN <<es[n].part>> ELSE <<>>])
Ended(es) == FlattenSeq([n \in 1 .. Len(es) |->
                 IF es[n].type = "callend" THEN <<es[n].call>> ELSE <<>>])

\* The answer is what was streamed, also of a stream that was cut: its text is
\* the text shown so far, its calls are the calls that were finished, and each
\* of them was announced.
AnswerIsWhatWasShown ==
    consumer = "answered" =>
        /\ Final.text = Texts(got)
        /\ Final.calls = Ended(got)
        /\ \A c \in ToSet(Final.calls) :
             \E e \in ToSet(got) : e.type = "start" /\ e.id = c.id

\* A tool of an OpenAI-compatible provider never runs on half of its
\* arguments, nor on {} in their place: a call of the answer has all its
\* arguments, or the stream was cut before the first fragment.
HalfCallsAreRefused ==
    consumer = "answered" /\ msg.proto = "openai" =>
        \A n \in 1 .. Len(Final.calls) :
            LET i == CHOOSE j \in Tools : Id(j) = Final.calls[n].id
            IN Final.calls[n].args = Full(i) \/ sent[i] = 0

\* The harness is not left waiting, and its iteration never just stops: it ends
\* with the answer or an exception, unless the harness walks away.  A thread
\* whose harness has gone reads its stream to the end: it is never blocked by
\* what nobody takes.
StreamEnds ==
    /\ consumer = "reading" ~> consumer \in {"answered", "raised", "abandoned"}
    /\ thread = "reading" ~> thread = "ended"
=============================================================================
