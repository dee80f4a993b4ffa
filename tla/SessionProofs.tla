--------------------------- MODULE SessionProofs ---------------------------
(***************************************************************************)
(* What is proved of Session, for any models, providers and bounds.        *)
(***************************************************************************)
EXTENDS Session, FiniteSetTheorems, TLAPS

\* The length of a history has a bound that a reply can still meet.
Bounded ==
    /\ ~Idle => Len(messages) < MaxMessages
    /\ saved.total \in Nat /\ saved.perModel \in [Models -> Nat]
    /\ saved.said \in Seq(Message) /\ Len(saved.messages) <= MaxMessages
    /\ ~Idle => call.model \in Models

\* The history is what was said, and a request is made from all of it.
Kept == messages = said /\ saved.messages = saved.said
Requested ==
    ~Idle => /\ call.request = Prepare(messages, call.model)
             /\ ~Refused(messages, call.model)

SInv == TypeOK /\ Bounded /\ Kept /\ Requested

LEMMA Sequences ==
  ASSUME NEW S PROVE <<>> \in Seq(S) /\ \A x \in S : <<x>> \in Seq(S)
OBVIOUS

Calls == [stage : Stages, model : Models \cup {NoModel}, streams : BOOLEAN,
          attempt : 0 .. MaxRetries, request : Seq(Message)]

LEMMA MessageTypes ==
  /\ \A image \in {"none", "input", "inner"} :
       User(image) \in Message /\ ToolResult(image) \in Message
  /\ \A m \in Models, t \in Thinkings : Answered(m, t) \in Message
  /\ NoCall \in Calls
BY SessionConstants, Sequences DEF Calls, User, ToolResult, Answered, NoCall, Message, Thinkings, Stages

LEMMA PreparedType ==
  ASSUME NEW h \in Seq(Message), NEW m \in Models
  PROVE  Prepare(h, m) \in Seq(Message) /\ Len(Prepare(h, m)) = Len(h)
<1>1. \A msg \in Message : PrepareOne(msg, m) \in Message
  BY DEF PrepareOne, Message, Thinkings
<1>2. Prepare(h, m) \in [1 .. Len(h) -> Message]
  BY <1>1 DEF Prepare
<1>3. QED
  BY <1>2

LEMMA AskKeeps ==
  ASSUME SInv, NEW m \in Models, NEW streams \in BOOLEAN,
         NEW inputs \in {<<>>, <<User("none")>>, <<User("input")>>},
         Ask(m, streams, inputs)
  PROVE  SInv'
<1> DEFINE h == messages \o inputs
<1>1. inputs \in Seq(Message)
  <2>1. User("none") \in Message /\ User("input") \in Message
    BY MessageTypes
  <2> HIDE DEF h
  <2>2. QED
    BY <2>1, Sequences
<1>2. h \in Seq(Message) /\ Len(h) = Len(messages) + Len(inputs)
  BY <1>1 DEF SInv, TypeOK
<1>3. messages' = h /\ said' = h
  BY DEF Ask, Asked, SInv, Kept
<1>4. Len(h) < MaxMessages
  BY <1>2 DEF Ask
<1>5. Prepare(h, m) \in Seq(Message)
  BY <1>2, PreparedType
<1> HIDE DEF h
<1>6. CASE Refused(h, m)
  <2>1. call' = NoCall
    BY <1>3, <1>6 DEF Ask
  <2>2. QED
    <3>1. call' \in Calls /\ call'.stage = "idle"
      BY <2>1, MessageTypes DEF NoCall
    <3>2. Len(messages') <= MaxMessages
      BY <1>2, <1>3, <1>4, SessionConstants
    <3>3. QED
      BY <3>1, <3>2, <1>2, <1>3
         DEF SInv, TypeOK, Bounded, Kept, Requested, Idle, Ask, Calls
<1>7. CASE ~Refused(h, m)
  <2>1. call' = [NoCall EXCEPT !.stage = "auth", !.model = m,
                     !.streams = streams, !.request = Prepare(h, m)]
    BY <1>3, <1>7 DEF Ask
  <2>2. /\ call' = [stage |-> "auth", model |-> m, streams |-> streams,
                    attempt |-> 0, request |-> Prepare(h, m)]
        /\ call' \in Calls
    <3> DEFINE rec == [stage |-> "auth", model |-> m, streams |-> streams,
                       attempt |-> 0, request |-> Prepare(h, m)]
    <3>1. call' = rec
      BY <2>1 DEF NoCall
    <3>2. m \in Models \cup {NoModel} /\ 0 \in 0 .. MaxRetries
      BY SessionConstants
    <3>3. rec \in Calls
      BY <3>2, <1>5, Zenon DEF Calls, Stages
    <3>4. QED
      BY <3>1, <3>3
  <2>3. call'.model = m /\ call'.request = Prepare(h, m)
    BY <2>2
  <2>4. Len(messages') < MaxMessages /\ Len(messages') <= MaxMessages
    BY <1>2, <1>3, <1>4, SessionConstants
  <2>5. QED
    BY <2>2, <2>3, <2>4, <1>2, <1>3, <1>7
       DEF SInv, TypeOK, Bounded, Kept, Requested, Ask, Calls
<1>8. QED
  BY <1>6, <1>7

LEMMA StepKeeps ==
  ASSUME SInv, Post \/ Retry \/ OpenStream \/ GiveUp \/ Dump \/ Load
  PROVE  SInv'
<1> USE SessionConstants
    DEF SInv, TypeOK, Bounded, Kept, Requested, Idle, Stages
<1>1. CASE Post
  BY <1>1 DEF Post
<1>2. CASE Retry
  <2>1. call.attempt + 1 \in 0 .. MaxRetries
    BY <1>2 DEF Retry, MayRetry
  <2>2. call' \in Calls /\ call'.stage = "auth"
        /\ call'.model = call.model /\ call'.request = call.request
    BY <1>2, <2>1 DEF Retry, Calls
  <2>3. QED
    BY <1>2, <2>2 DEF Retry, Calls
<1>3. CASE OpenStream
  BY <1>3 DEF OpenStream
<1>4. CASE GiveUp
  BY <1>4, MessageTypes DEF GiveUp, NoCall
<1>5. CASE Dump
  BY <1>5 DEF Dump, Snapshot
<1>6. CASE Load
  BY <1>6, MessageTypes DEF Load, NoCall
<1>7. QED
  BY <1>1, <1>2, <1>3, <1>4, <1>5, <1>6

\* A message at the end of the history.
LEMMA AppendKeeps ==
  ASSUME SInv, NEW msg \in Message, Len(messages) < MaxMessages,
         messages' = Append(messages, msg), said' = Append(said, msg)
  PROVE  /\ messages' \in Seq(Message) /\ said' \in Seq(Message)
         /\ Len(messages') <= MaxMessages /\ messages' = said'
BY SessionConstants DEF SInv, TypeOK, Kept

LEMMA ReplyKeeps == ASSUME SInv, Reply PROVE SInv'
<1>1. ~Idle /\ call.model \in Models
  BY DEF Reply, Idle, SInv, Bounded
<1>2. PICK t \in Thinkings :
        /\ messages' = Append(messages, Answered(call.model, t))
        /\ said' = Append(said, Answered(call.model, t))
  BY DEF Reply, Thinkings
<1>3. Answered(call.model, t) \in Message
  BY <1>1, MessageTypes
<1>4. /\ messages' \in Seq(Message) /\ said' \in Seq(Message)
      /\ Len(messages') <= MaxMessages /\ messages' = said'
  BY <1>1, <1>2, <1>3, AppendKeeps DEF SInv, Bounded
<1>5. total' \in Nat /\ perModel' \in [Models -> Nat]
  BY <1>1 DEF Reply, AddUsage, SInv, TypeOK
<1>6. call' = NoCall /\ saved' = saved
  BY DEF Reply
<1>7. QED
  <2>1. call' \in Calls /\ call'.stage = "idle"
    BY <1>6, MessageTypes DEF NoCall
  <2>2. QED
    BY <1>4, <1>5, <1>6, <2>1
       DEF SInv, TypeOK, Bounded, Kept, Requested, Idle, Calls

LEMMA ToolResultKeeps == ASSUME SInv, AddToolResult PROVE SInv'
<1>1. PICK image \in {"none", "inner"} :
        /\ messages' = Append(messages, ToolResult(image))
        /\ said' = Append(said, ToolResult(image))
  BY DEF AddToolResult
<1>2. ToolResult(image) \in Message
  BY MessageTypes
<1>3. /\ messages' \in Seq(Message) /\ said' \in Seq(Message)
      /\ Len(messages') <= MaxMessages /\ messages' = said'
  BY <1>1, <1>2, AppendKeeps DEF AddToolResult
<1>4. QED
  BY <1>3 DEF AddToolResult, SInv, TypeOK, Bounded, Kept, Requested, Idle

LEMMA SInductive == SInv /\ [Next]_vars => SInv'
<1> SUFFICES ASSUME SInv, [Next]_vars PROVE SInv'
  OBVIOUS
<1>1. ASSUME NEW m \in Models, NEW streams \in BOOLEAN,
             NEW inputs \in {<<>>, <<User("none")>>, <<User("input")>>},
             Ask(m, streams, inputs)
      PROVE  SInv'
  BY <1>1, AskKeeps
<1>2. CASE Post \/ Retry \/ OpenStream \/ GiveUp \/ Dump \/ Load
  BY <1>2, StepKeeps
<1>3. CASE Reply
  BY <1>3, ReplyKeeps
<1>4. CASE AddToolResult
  BY <1>4, ToolResultKeeps
<1>5. CASE UNCHANGED vars
  BY <1>5 DEF vars, SInv, TypeOK, Bounded, Kept, Requested, Idle
<1>6. QED
  BY <1>1, <1>2, <1>3, <1>4, <1>5 DEF Next

LEMMA SInitial == Init => SInv
<1> SUFFICES ASSUME Init PROVE SInv
  OBVIOUS
<1>1. call \in Calls /\ call.stage = "idle"
  BY MessageTypes DEF Init, NoCall
<1>2. messages \in Seq(Message) /\ said \in Seq(Message)
  BY Sequences DEF Init
<1>3. Len(messages) <= MaxMessages
  BY SessionConstants DEF Init
<1>4. QED
  BY <1>1, <1>2, <1>3
     DEF Init, SInv, TypeOK, Bounded, Kept, Requested, Idle, Snapshot, Calls

LEMMA SInvariant == Spec => []SInv
BY SInitial, SInductive, PTL DEF Spec

\* Every variable of a session keeps its type, and the history its bound.
THEOREM TypeCorrect == Spec => []TypeOK
<1>1. SInv => TypeOK
  BY DEF SInv
<1>2. QED
  BY <1>1, SInvariant, PTL

\* Every request fits the provider it goes to and loses no message, whatever
\* models, failures, retries and restarts came before.
THEOREM RequestsFitHolds == Spec => []RequestsFit
<1>1. SInv => RequestsFit
  <2> SUFFICES ASSUME SInv, ~Idle PROVE RequestsFit
    BY DEF RequestsFit
  <2>1. /\ call.model \in Models /\ said \in Seq(Message)
        /\ call.request = Prepare(said, call.model)
        /\ ~Refused(said, call.model)
    BY DEF SInv, Bounded, Kept, Requested, TypeOK
  <2>2. Len(call.request) = Len(said)
    BY <2>1, PreparedType
  <2>3. ASSUME NEW i \in DOMAIN said
        PROVE  LET sent == call.request[i]
                   own == ~Foreign(said[i], call.model)
               IN /\ own => sent = said[i]
                  /\ ~own => sent.thinking \notin {"signed", "redacted"}
                  /\ said[i].thinking \in {"signed", "unsigned"} =>
                         sent.thinking # "none"
                  /\ sent.role = said[i].role /\ sent.image = said[i].image
                  /\ sent.image = "input" => call.model \in Vision
    <3>1. said[i] \in Message
      BY <2>1
    <3>2. call.request[i] = PrepareOne(said[i], call.model)
      BY <2>1 DEF Prepare
    <3>3. said[i].image = "input" => call.model \in Vision
      BY <2>1 DEF Refused
    <3>4. QED
      BY <3>1, <3>2, <3>3 DEF PrepareOne, Message, Thinkings
  <2>4. QED
    BY <2>2, <2>3 DEF RequestsFit
<1>2. QED
  BY <1>1, SInvariant, PTL

(***************************************************************************)
(* The usage                                                               *)
(***************************************************************************)
\* The usage is that of the history, here and in the dump a restart goes back to.
Counted ==
    /\ UsageMatchesReplies
    /\ UsageOf(saved.messages, saved.total, saved.perModel)

\* Messages that no model wrote, at the end of a history, change no usage.
LEMMA NoReplyNoUsage ==
  ASSUME NEW h \in Seq(Message), NEW g \in Seq(Message), NEW all, NEW each,
         UsageOf(h, all, each), Len(h) <= Len(g),
         \A i \in 1 .. Len(g) :
            IF i <= Len(h) THEN g[i] = h[i] ELSE g[i].by = NoModel
  PROVE  UsageOf(g, all, each)
<1>1. {i \in DOMAIN g : g[i].by # NoModel} = {i \in DOMAIN h : h[i].by # NoModel}
  OBVIOUS
<1>2. ASSUME NEW m \in Models
      PROVE  {i \in DOMAIN g : g[i].by = m} = {i \in DOMAIN h : h[i].by = m}
  BY SessionConstants
<1>3. QED
  BY <1>1, <1>2 DEF UsageOf

\* One more reply of m adds one to m and to the total, and to no other model.
LEMMA ReplyCounts ==
  ASSUME NEW h \in Seq(Message), NEW msg \in Message, msg.by \in Models,
         NEW all, NEW each \in [Models -> Nat], UsageOf(h, all, each)
  PROVE  UsageOf(Append(h, msg), all + 1, [each EXCEPT ![msg.by] = @ + 1])
<1> DEFINE g == Append(h, msg)
           n == Len(h) + 1
           By(m) == {i \in DOMAIN h : h[i].by = m}
           All == {i \in DOMAIN h : h[i].by # NoModel}
<1>1. /\ DOMAIN g = DOMAIN h \cup {n} /\ n \notin DOMAIN h /\ g[n] = msg
      /\ \A i \in DOMAIN h : g[i] = h[i]
  OBVIOUS
<1>2. IsFiniteSet(DOMAIN h)
  <2>1. DOMAIN h = 1 .. Len(h) /\ Len(h) \in Int /\ 1 \in Int
    OBVIOUS
  <2>2. QED
    BY <2>1, FS_Interval
<1>3. IsFiniteSet(All) /\ \A m : IsFiniteSet(By(m))
  <2>1. All \in SUBSET DOMAIN h /\ \A m : By(m) \in SUBSET DOMAIN h
    OBVIOUS
  <2>2. QED
    BY <1>2, <2>1, FS_Subset
<1>4. Cardinality({i \in DOMAIN g : g[i].by # NoModel}) = all + 1
  <2>1. {i \in DOMAIN g : g[i].by # NoModel} = All \cup {n}
    BY <1>1, SessionConstants
  <2>2. n \notin All
    BY <1>1
  <2>3. Cardinality(All \cup {n}) = Cardinality(All) + 1
    BY <1>3, <2>2, FS_AddElement
  <2>4. QED
    BY <2>1, <2>3 DEF UsageOf
<1>5. ASSUME NEW m \in Models
      PROVE  Cardinality({i \in DOMAIN g : g[i].by = m})
               = [each EXCEPT ![msg.by] = @ + 1][m]
  <2>1. CASE m = msg.by
    <3>1. {i \in DOMAIN g : g[i].by = m} = By(m) \cup {n}
      BY <1>1, <2>1
    <3>2. n \notin By(m)
      BY <1>1
    <3>3. Cardinality(By(m) \cup {n}) = Cardinality(By(m)) + 1
      <4> DEFINE B == By(m)
      <4>1. IsFiniteSet(B) /\ n \notin B
        BY <1>3, <3>2
      <4> HIDE DEF B, n
      <4>2. Cardinality(B \cup {n}) = Cardinality(B) + 1
        BY <4>1, FS_AddElement
      <4>3. QED
        BY <4>2 DEF B
    <3>4. QED
      BY <2>1, <3>1, <3>3 DEF UsageOf
  <2>2. CASE m # msg.by
    <3>1. {i \in DOMAIN g : g[i].by = m} = By(m)
      BY <1>1, <2>2
    <3>2. QED
      BY <2>2, <3>1 DEF UsageOf
  <2>3. QED
    BY <2>1, <2>2
<1>6. QED
  BY <1>4, <1>5 DEF UsageOf

LEMMA CountedInductive == SInv /\ Counted /\ [Next]_vars => Counted'
<1> SUFFICES ASSUME SInv, Counted, [Next]_vars PROVE Counted'
  OBVIOUS
<1> DEFINE Now == UsageOf(messages', total', perModel')
<1>0. messages \in Seq(Message) /\ perModel \in [Models -> Nat]
  BY DEF SInv, TypeOK
<1>1. ASSUME NEW m \in Models, NEW streams \in BOOLEAN,
             NEW inputs \in {<<>>, <<User("none")>>, <<User("input")>>},
             Ask(m, streams, inputs)
      PROVE  Counted'
  <2>1. /\ inputs \in Seq(Message)
        /\ \A i \in 1 .. Len(inputs) : inputs[i].by = NoModel
    <3>1. /\ User("none") \in Message /\ User("input") \in Message
          /\ User("none").by = NoModel /\ User("input").by = NoModel
      BY MessageTypes DEF User
    <3>2. ASSUME NEW msg \in Message, msg.by = NoModel, inputs = <<msg>>
          PROVE  /\ inputs \in Seq(Message)
                 /\ \A i \in 1 .. Len(inputs) : inputs[i].by = NoModel
      BY <3>2
    <3>3. CASE inputs = <<>>
      BY <3>3
    <3>4. QED
      BY <3>1, <3>2, <3>3
  <2>2. /\ messages' = messages \o inputs
        /\ total' = total /\ perModel' = perModel /\ saved' = saved
    BY <1>1 DEF Ask, Asked
  <2>3. /\ messages' \in Seq(Message) /\ Len(messages) <= Len(messages')
        /\ \A i \in 1 .. Len(messages') :
              IF i <= Len(messages) THEN messages'[i] = messages[i]
              ELSE messages'[i].by = NoModel
    BY <1>0, <2>1, <2>2
  <2>4. UsageOf(messages', total, perModel)
    BY <1>0, <2>3, NoReplyNoUsage DEF Counted, UsageMatchesReplies
  <2>5. QED
    BY <2>2, <2>4 DEF Counted, UsageMatchesReplies
<1>2. CASE Reply
  <2>1. ~Idle /\ call.model \in Models
    BY <1>2 DEF Reply, Idle, SInv, Bounded
  <2>2. PICK t \in Thinkings :
             messages' = Append(messages, Answered(call.model, t))
    BY <1>2 DEF Reply, Thinkings
  <2>3. /\ Answered(call.model, t) \in Message
        /\ Answered(call.model, t).by = call.model
    BY <2>1, MessageTypes DEF Answered
  <2>4. UsageOf(messages', total + 1, AddUsage(call.model))
    BY <1>0, <2>1, <2>2, <2>3, ReplyCounts
       DEF AddUsage, Counted, UsageMatchesReplies
  <2>5. QED
    BY <1>2, <2>4 DEF Reply, Counted, UsageMatchesReplies
<1>3. CASE AddToolResult
  <2>1. PICK image \in {"none", "inner"} :
             messages' = Append(messages, ToolResult(image))
    BY <1>3 DEF AddToolResult
  <2>2. /\ ToolResult(image) \in Message
        /\ ToolResult(image).by = NoModel
    BY MessageTypes DEF ToolResult, User
  <2>3. /\ messages' \in Seq(Message) /\ Len(messages) <= Len(messages')
        /\ \A i \in 1 .. Len(messages') :
              IF i <= Len(messages) THEN messages'[i] = messages[i]
              ELSE messages'[i].by = NoModel
    BY <1>0, <2>1, <2>2
  <2>4. UsageOf(messages', total, perModel)
    BY <1>0, <2>3, NoReplyNoUsage DEF Counted, UsageMatchesReplies
  <2>5. QED
    BY <1>3, <2>4 DEF AddToolResult, Counted, UsageMatchesReplies
<1>4. CASE Post \/ Retry \/ OpenStream \/ GiveUp \/ UNCHANGED vars
  BY <1>4 DEF Post, Retry, OpenStream, GiveUp, vars, Counted, UsageMatchesReplies
<1>5. CASE Dump
  BY <1>5 DEF Dump, Snapshot, Counted, UsageMatchesReplies
<1>6. CASE Load
  BY <1>6 DEF Load, Counted, UsageMatchesReplies
<1>7. QED
  BY <1>1, <1>2, <1>3, <1>4, <1>5, <1>6 DEF Next

\* The usage of a session is that of the replies in its history, whatever
\* calls failed, were retried or left early, and after every restart.
THEOREM UsageMatchesRepliesHolds == Spec => []UsageMatchesReplies
<1>1. Init => Counted
  <2> SUFFICES ASSUME Init PROVE Counted
    OBVIOUS
  <2>1. DOMAIN messages = {}
    BY DEF Init
  <2>2. /\ {i \in DOMAIN messages : messages[i].by # NoModel} = {}
        /\ \A m \in Models : {i \in DOMAIN messages : messages[i].by = m} = {}
    BY <2>1
  <2>3. UsageOf(messages, total, perModel)
    BY <2>2, FS_EmptySet DEF UsageOf, Init
  <2>4. QED
    BY <2>3 DEF Counted, UsageMatchesReplies, Init, Snapshot
<1>2. Counted => UsageMatchesReplies
  BY DEF Counted
<1>3. QED
  BY <1>1, <1>2, CountedInductive, SInvariant, PTL DEF Spec
=============================================================================
