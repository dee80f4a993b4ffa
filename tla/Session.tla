------------------------------ MODULE Session ------------------------------
(***************************************************************************)
(* A conversation that may change its model at every turn                  *)
(* (rickshaw_ai/session.py), over the runtime that sends its requests      *)
(* (rickshaw_ai/providers/base.py, factory.py).                            *)
(*                                                                         *)
(* The history is kept once; each request is a copy of it, made for the    *)
(* provider it goes to.  A call is appended in two parts, the input before *)
(* the request and the reply after it, and may end between the two.        *)
(*                                                                         *)
(* Of a message the model keeps who wrote it, its thinking and its image.  *)
(* One program uses the session, one call at a time.                       *)
(***************************************************************************)
EXTENDS Naturals, Sequences, SequencesExt, FiniteSets

CONSTANTS
    Models,
    ProviderOf,  \* the provider of each model
    Vision,      \* models that take images
    Thinks,      \* providers whose replies hold thinking
    MaxRetries,  \* RetryPolicy.max_retries
    MaxMessages, \* bound: length of a history
    NoModel

ASSUME SessionConstants ==
    /\ Vision \subseteq Models /\ NoModel \notin Models
    /\ DOMAIN ProviderOf = Models
    /\ MaxRetries \in Nat /\ MaxMessages \in Nat

VARIABLES
    messages, \* Session.messages
    total,    \* usage.total
    perModel, \* usage.per_model
    call,     \* the call under way
    saved,    \* the last dump
    said      \* what was said, as the program and the models said it

vars == <<messages, total, perModel, call, saved, said>>

Thinkings == {"none", "signed", "unsigned", "redacted"}

\* image: an input image of its own, or one inside a tool's result.
Message == [role : {"user", "assistant", "tool"}, by : Models \cup {NoModel},
            thinking : Thinkings, image : {"none", "input", "inner"}]
Stages == {"idle", "auth", "posted", "reading"}

User(image) == [role |-> "user", by |-> NoModel, thinking |-> "none", image |-> image]
ToolResult(image) == [User(image) EXCEPT !.role = "tool"]
Answered(m, thinking) == [role |-> "assistant", by |-> m, thinking |-> thinking,
                          image |-> "none"]

NoCall == [stage |-> "idle", model |-> NoModel, streams |-> FALSE, attempt |-> 0,
           request |-> <<>>]
Idle == call.stage = "idle"

\* Replies of m's provider to this history.
Foreign(msg, m) == msg.by # NoModel /\ ProviderOf[msg.by] # ProviderOf[m]

(***************************************************************************)
(* A turn                                                                  *)
(***************************************************************************)
\* _prepare_for: signatures stay with their provider, redacted thinking does
\* not leave it.
PrepareOne(msg, m) ==
    [msg EXCEPT !.thinking =
        CASE Foreign(msg, m) /\ @ = "signed"   -> "unsigned"
          [] Foreign(msg, m) /\ @ = "redacted" -> "none"
          [] OTHER -> @]

Prepare(history, m) == [i \in DOMAIN history |-> PrepareOne(history[i], m)]

\* Blocks inside a tool's result are not looked at.
Refused(history, m) ==
    m \notin Vision /\ \E i \in DOMAIN history : history[i].image = "input"

Asked_InPlace(m, inputs) == Prepare(messages \o inputs, m)

\* The history with the input; the blocks in it are not touched.
Asked(m, inputs) == messages \o inputs

\* run or stream: the input is appended first, and stays when the request
\* cannot be made.
Ask(m, streams, inputs) ==
    /\ Idle
    /\ Len(messages) + Len(inputs) < MaxMessages
    /\ messages' = Asked(m, inputs) /\ said' = said \o inputs
    /\ call' = IF Refused(messages', m) THEN NoCall
               ELSE [NoCall EXCEPT !.stage = "auth", !.model = m,
                        !.streams = streams, !.request = Prepare(messages', m)]
    /\ UNCHANGED <<total, perModel, saved>>

\* Every attempt resolves its credential anew and posts the same body.
Post ==
    /\ call.stage = "auth"
    /\ call' = [call EXCEPT !.stage = "posted"]
    /\ UNCHANGED <<messages, total, perModel, saved, said>>

MayRetry == ~call.streams /\ call.attempt < MaxRetries

\* A retryable failure of a call that does not stream.
Retry ==
    /\ call.stage = "posted" /\ MayRetry
    /\ call' = [call EXCEPT !.stage = "auth", !.attempt = @ + 1]
    /\ UNCHANGED <<messages, total, perModel, saved, said>>

OpenStream ==
    /\ call.stage = "posted" /\ call.streams
    /\ call' = [call EXCEPT !.stage = "reading"]
    /\ UNCHANGED <<messages, total, perModel, saved, said>>

\* Any other failure, a stream that breaks, a reader that leaves it.
GiveUp ==
    /\ ~Idle
    /\ call' = NoCall
    /\ UNCHANGED <<messages, total, perModel, saved, said>>

AddUsage_Set(m) == [perModel EXCEPT ![m] = 1]

\* SessionUsage.add, with the usage of a reply as the unit.
AddUsage(m) == [perModel EXCEPT ![m] = @ + 1]

\* The response, or the stream's StreamDone before its reader sees it.
Reply ==
    /\ call.stage = IF call.streams THEN "reading" ELSE "posted"
    /\ \E thinking \in IF ProviderOf[call.model] \in Thinks
                       THEN {"none", "signed", "redacted"} ELSE {"none"} :
         /\ messages' = Append(messages, Answered(call.model, thinking))
         /\ said' = Append(said, Answered(call.model, thinking))
    /\ total' = total + 1 /\ perModel' = AddUsage(call.model)
    /\ call' = NoCall
    /\ UNCHANGED saved

\* The program answers a tool call of the last reply.
AddToolResult ==
    /\ Idle /\ messages # <<>> /\ Last(messages).role = "assistant"
    /\ Len(messages) < MaxMessages
    /\ \E image \in {"none", "inner"} :
         /\ messages' = Append(messages, ToolResult(image))
         /\ said' = Append(said, ToolResult(image))
    /\ UNCHANGED <<total, perModel, call, saved>>

(***************************************************************************)
(* Persistence                                                             *)
(***************************************************************************)
Snapshot == [messages |-> messages, total |-> total, perModel |-> perModel,
             said |-> said]

Dump ==
    /\ saved' = Snapshot
    /\ UNCHANGED <<messages, total, perModel, call, said>>

\* A new session from the last dump, in place of this one: its program died,
\* or goes back.
Load ==
    /\ messages' = saved.messages /\ said' = saved.said
    /\ total' = saved.total /\ perModel' = saved.perModel
    /\ call' = NoCall
    /\ UNCHANGED saved

(***************************************************************************)
(* Specification                                                           *)
(***************************************************************************)
Init ==
    /\ messages = <<>> /\ said = <<>>
    /\ total = 0 /\ perModel = [m \in Models |-> 0]
    /\ call = NoCall /\ saved = Snapshot

\* No input continues the history there is.
Next ==
    \/ \E m \in Models, streams \in BOOLEAN,
          inputs \in {<<>>, <<User("none")>>, <<User("input")>>} :
              Ask(m, streams, inputs)
    \/ Post \/ Retry \/ OpenStream \/ GiveUp \/ Reply
    \/ AddToolResult \/ Dump \/ Load

Spec == Init /\ [][Next]_vars

(***************************************************************************)
(* Correctness                                                             *)
(***************************************************************************)
\* Every variable keeps its type.
TypeOK ==
    /\ messages \in Seq(Message) /\ said \in Seq(Message)
    /\ Len(messages) <= MaxMessages
    /\ total \in Nat /\ perModel \in [Models -> Nat]
    /\ call \in [stage : Stages, model : Models \cup {NoModel}, streams : BOOLEAN,
                 attempt : 0 .. MaxRetries, request : Seq(Message)]
    /\ saved.messages \in Seq(Message)

\* A handoff loses nothing and gives nothing away: whatever models, failures
\* and restarts came before, a request has every message in its place, the
\* provider's own ones verbatim, no signature or redacted thinking of another,
\* all readable thinking, and images of the user only for a model that sees
\* (docs/rickshaw-ai-package.prompt.md:513 and 521).
RequestsFit ==
    ~Idle =>
        /\ Len(call.request) = Len(said)
        /\ \A i \in DOMAIN said :
             LET sent == call.request[i]
                 own == ~Foreign(said[i], call.model)
             IN /\ own => sent = said[i]
                /\ ~own => sent.thinking \notin {"signed", "redacted"}
                /\ said[i].thinking \in {"signed", "unsigned"} => sent.thinking # "none"
                /\ sent.role = said[i].role /\ sent.image = said[i].image
                /\ sent.image = "input" => call.model \in Vision

\* all and each are the usage of a history: its replies, and those of each model.
UsageOf(history, all, each) ==
    /\ all = Cardinality({i \in DOMAIN history : history[i].by # NoModel})
    /\ \A m \in Models :
         each[m] = Cardinality({i \in DOMAIN history : history[i].by = m})

\* The usage is that of the replies in the history, in all and by model: calls
\* that failed, were retried or left early add nothing, and a restart goes back
\* with both.
UsageMatchesReplies == UsageOf(messages, total, perModel)
=============================================================================
