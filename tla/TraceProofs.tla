---------------------------- MODULE TraceProofs ----------------------------
(***************************************************************************)
(* The trace of a turn: the store that keeps its rows, and the renderer    *)
(* that shows its events.  The two share no state; the second part begins  *)
(* at Event.                                                               *)
(***************************************************************************)
EXTENDS TraceStore, TraceRender, FiniteSetTheorems, WellFoundedInduction, TLAPS


Entries == Item \cup {Flush, Pill}

\* What queue.put and queue.get do to a sequence.
LEMMA Sequences ==
  ASSUME NEW S, NEW s \in Seq(S)
  PROVE  /\ Len(s) \in Nat /\ \A i \in DOMAIN s : s[i] \in S
         /\ \A x \in S : /\ Append(s, x) \in Seq(S)
                         /\ Len(Append(s, x)) = Len(s) + 1
                         /\ Append(s, x)[Len(s) + 1] = x
                         /\ \A i \in 1 .. Len(s) : Append(s, x)[i] = s[i]
         /\ s # <<>> => /\ Head(s) \in S /\ Head(s) = s[1] /\ Len(s) > 0
                        /\ Tail(s) \in Seq(S) /\ Len(Tail(s)) = Len(s) - 1
                        /\ \A i \in 1 .. Len(s) - 1 : Tail(s)[i] = s[i + 1]
OBVIOUS

LEMMA Kinds ==
  /\ \A n : KindOf(n) \in {"start", "emit", "finish"}
  /\ KindOf(2) = "start" /\ KindOf(Calls) = "finish"
  /\ \A n \in Nat : /\ KindOf(n) = "start" => n = 2
                    /\ KindOf(n) = "finish" => n = Calls
BY TraceConstants DEF KindOf

\* Items are told from the flush item and the pill by their kind.
LEMMA Tags == /\ \A x \in Item : x.kind \in {"start", "emit", "finish"}
              /\ \A x \in Item : x # Flush /\ x # Pill
              /\ Flush # Pill /\ Flush.kind = "flush" /\ Pill.kind = "stop"
BY DEF Item, Flush, Pill

LEMMA ItemType ==
  ASSUME TypeOK, NEW t \in Turns, call[t] <= Calls
  PROVE  ItemOf(t) \in Item
<1>1. call[t] \in 1 .. Calls
  BY TraceConstants DEF TypeOK
<1>2. QED
  BY <1>1, Kinds DEF ItemOf, Item

\* The calls under way, and the thread between its test of _closed and its put.
StepOK == \A t \in Turns : step[t] = "put" => call[t] <= Calls

LEMMA ExecuteType ==
  ASSUME TypeOK, NEW x \in Item
  PROVE  /\ Execute(x) \in Rows /\ SeqAfter(x) \in [Turns -> Nat]
<1>1. /\ x.kind \in {"start", "emit", "finish"} /\ x.turn \in Turns
      /\ x.n \in 1 .. Calls
  BY DEF Item
<1>2. /\ written.status \in [Turns -> {"absent", "in_progress", "finished"}]
      /\ written.events \in SUBSET [turn : Turns, seq : Nat, n : 1 .. Calls]
      /\ seqs \in [Turns -> Nat]
      /\ written = [status |-> written.status, events |-> written.events]
  BY DEF TypeOK, Rows
<1>3. [turn |-> x.turn, seq |-> seqs[x.turn], n |-> x.n]
         \in [turn : Turns, seq : Nat, n : 1 .. Calls]
  BY <1>1, <1>2
<1>4. CASE x.kind = "start"
  BY <1>1, <1>2, <1>4 DEF Execute, SeqAfter, Rows
<1>5. CASE x.kind = "emit"
  BY <1>1, <1>2, <1>3, <1>5 DEF Execute, SeqAfter, Rows
<1>6. CASE x.kind = "finish"
  BY <1>1, <1>2, <1>6 DEF Execute, SeqAfter, Rows
<1>7. QED
  BY <1>1, <1>4, <1>5, <1>6

\* While the worker is busy it holds an item of a turn or the flush item.
BusyOK == worker = "busy" => item # Pill

TypeInv == TypeOK /\ StepOK /\ BusyOK

LEMMA PutType ==
  ASSUME TypeOK, NEW x \in Entries, Put(x)
  PROVE  queue' \in Seq(Entries) /\ Len(queue') <= MaxQueue
<1>1. queue \in Seq(Entries) /\ Len(queue) <= MaxQueue /\ MaxQueue \in Nat
  BY TraceConstants DEF TypeOK, Entries
<1>2. QED
  BY <1>1, Sequences DEF Put

LEMMA TypeInductive == TypeInv /\ [Next]_vars => TypeInv'
<1> SUFFICES ASSUME TypeInv, [Next]_vars PROVE TypeInv'
  OBVIOUS
<1> USE TraceConstants DEF TypeInv, callers, threads, rows, history
<1>1. ASSUME NEW t \in Turns, Check(t) PROVE TypeInv'
  <2>1. call[t] \in 1 .. Calls
    BY <1>1 DEF Check, TypeOK
  <2>2. /\ call' \in [Turns -> 1 .. Calls + 1]
        /\ step' \in [Turns -> {"check", "put"}]
    <3>1. CASE closed
      <4>1. call' = [call EXCEPT ![t] = call[t] + 1] /\ step' = step
        BY <1>1, <3>1 DEF Check
      <4>2. call \in [Turns -> 1 .. Calls + 1] /\ call[t] + 1 \in 1 .. Calls + 1
        BY <1>1, <2>1 DEF TypeOK
      <4>3. QED
        BY <4>1, <4>2 DEF TypeOK
    <3>2. CASE ~closed
      BY <1>1, <3>2 DEF Check, TypeOK
    <3>3. QED
      BY <3>1, <3>2
  <2>3. StepOK'
    BY <1>1, <2>1 DEF Check, TypeOK, StepOK
  <2>4. QED
    BY <1>1, <2>2, <2>3 DEF Check, TypeOK, BusyOK
<1>2. ASSUME NEW t \in Turns, Record(t) PROVE TypeInv'
  <2>1. call[t] \in 1 .. Calls /\ ItemOf(t) \in Item
    BY <1>2, ItemType DEF Record, StepOK, TypeOK
  <2>2. queue' \in Seq(Entries) /\ Len(queue') <= MaxQueue
    BY <1>2, <2>1, PutType DEF Record, Entries
  <2>3. call' \in [Turns -> 1 .. Calls + 1] /\ step' \in [Turns -> {"check", "put"}]
        /\ StepOK'
    BY <1>2, <2>1 DEF Record, TypeOK, StepOK
  <2>4. QED
    BY <1>2, <2>1, <2>2, <2>3 DEF Record, TypeOK, BusyOK, Entries
<1>3. CASE Connect
  BY <1>3 DEF Connect, TypeOK, StepOK, BusyOK
<1>4. CASE Take
  <2>1. queue' \in Seq(Entries) /\ Len(queue') <= MaxQueue /\ item' \in Entries
    BY <1>4, Sequences DEF Take, TypeOK, Entries
  <2>2. QED
    BY <1>4, <2>1 DEF Take, TypeOK, StepOK, BusyOK, Entries
<1>5. CASE Write
  <2>1. item \in Item
    BY <1>5, Tags DEF Write, BusyOK, TypeOK
  <2>2. Execute(item) \in Rows /\ SeqAfter(item) \in [Turns -> Nat]
    BY <2>1, ExecuteType
  <2>3. /\ written' \in Rows /\ durable' \in Rows /\ seqs' \in [Turns -> Nat]
        /\ dropped' \subseteq Item
    BY <1>5, <2>1, <2>2 DEF Write, TypeOK
  <2>4. worker' = "idle" /\ failures' \in 0 .. MaxFailures
    BY <1>5 DEF Write, TypeOK, Fails, Succeeds, AfterFailure
  <2>5. QED
    BY <1>5, <2>3, <2>4 DEF Write, TypeOK, StepOK, BusyOK
<1>6. CASE HandleFlush
  <2>1. worker' = "idle" /\ failures' \in 0 .. MaxFailures
    BY <1>6 DEF HandleFlush, TypeOK, Fails, Succeeds, AfterFailure
  <2>2. durable' \in Rows /\ flush' \in {"idle", "put", "waiting", "true"}
    BY <1>6 DEF HandleFlush, TypeOK, FlushCommits
  <2>3. QED
    BY <1>6, <2>1, <2>2 DEF HandleFlush, TypeOK, StepOK, BusyOK
<1>7. CASE StartFlush
  BY <1>7 DEF StartFlush, TypeOK, StepOK, BusyOK
<1>8. CASE PutFlush
  <2>1. queue' \in Seq(Entries) /\ Len(queue') <= MaxQueue
    BY <1>8, PutType DEF PutFlush, Entries
  <2>2. QED
    BY <1>8, <2>1 DEF PutFlush, TypeOK, StepOK, BusyOK, Entries
<1>9. CASE Close
  BY <1>9 DEF Close, CloseFirst, TypeOK, StepOK, BusyOK
<1>10. CASE PutPill
  <2>1. queue' \in Seq(Entries) /\ Len(queue') <= MaxQueue
    BY <1>10, PutType DEF PutPill, Entries
  <2>2. QED
    BY <1>10, <2>1 DEF PutPill, TypeOK, StepOK, BusyOK, Entries
<1>11. CASE Join
  BY <1>11 DEF Join, TypeOK, StepOK, BusyOK
<1>12. CASE Exit
  BY <1>12 DEF Exit, TypeOK, StepOK, BusyOK
<1>13. CASE UNCHANGED vars
  BY <1>13 DEF vars, TypeOK, StepOK, BusyOK
<1>14. QED
  BY <1>1, <1>2, <1>3, <1>4, <1>5, <1>6, <1>7, <1>8, <1>9, <1>10, <1>11, <1>12,
     <1>13 DEF Next, Worker, Turn, Main, Quiet

LEMMA TypeInitial == Init => TypeInv
<1> SUFFICES ASSUME Init PROVE TypeInv
  OBVIOUS
<1>1. queue \in Seq(Entries) /\ Len(queue) <= MaxQueue
  BY TraceConstants DEF Init
<1>2. written \in Rows
  BY DEF Init, Rows
<1>3. closed \in BOOLEAN /\ exited \in BOOLEAN
  BY Zenon DEF Init
<1>4. item \in Entries /\ seqs \in [Turns -> Nat]
  BY DEF Init, Entries
<1>5. /\ call \in [Turns -> 1 .. Calls + 1] /\ step \in [Turns -> {"check", "put"}]
      /\ failures \in 0 .. MaxFailures
  BY TraceConstants DEF Init
<1>6. StepOK /\ BusyOK
  BY DEF Init, StepOK, BusyOK
<1>7. TypeOK
  BY <1>1, <1>2, <1>3, <1>4, <1>5 DEF Init, TypeOK, Entries
<1>8. QED
  BY <1>6, <1>7 DEF TypeInv

LEMMA TypeAlways == Spec => []TypeInv
BY TypeInitial, TypeInductive, PTL DEF Spec

\* Every variable of the store and of its callers keeps its type, and the queue
\* its bound, whatever fails.
THEOREM TypeCorrect == Spec => []TypeOK
<1>1. TypeInv => TypeOK
  BY DEF TypeInv
<1>2. QED
  BY <1>1, TypeAlways, PTL

-----------------------------------------------------------------------------
(* The line before the database: what waits in the queue and what the      *)
(* worker has in hand.                                                     *)

Waits(x) == \E i \in DOMAIN queue : queue[i] = x
Held(x)  == worker = "busy" /\ item = x

\* The records that are still to be written.
Ahead == {x \in Item : Waits(x) \/ Held(x)}

\* A turn's records stand in the line in the order of its calls.
LineInv ==
    /\ \A i, j \in DOMAIN queue :
         i < j /\ queue[i] \in Item /\ queue[j] \in Item
               /\ queue[i].turn = queue[j].turn => queue[i].n < queue[j].n
    /\ worker = "busy" /\ item \in Item =>
         \A i \in DOMAIN queue :
            queue[i] \in Item /\ queue[i].turn = item.turn => item.n < queue[i].n

\* The m-th record of turn t.
At(t, m) == [kind |-> KindOf(m), turn |-> t, n |-> m]

\* A turn has sent records it has got to, without a gap: once close has made a
\* call return early, the turn sends nothing more.
SentInv ==
    /\ Ahead \subseteq sent
    /\ \A x \in sent : x.kind = KindOf(x.n) /\ x.n < call[x.turn]
    /\ \A t \in Turns : step[t] = "put" \/ ~closed =>
         \A m \in 1 .. Calls : m < call[t] => At(t, m) \in sent
    /\ \A x \in sent, m \in 1 .. Calls : m < x.n => At(x.turn, m) \in sent

LEMMA SentType ==
  ASSUME TypeInv
  PROVE  /\ sent \subseteq Item /\ kept \subseteq Item /\ promised \subseteq Item
         /\ dropped \subseteq Item
         /\ \A x \in Item : x.turn \in Turns /\ x.n \in 1 .. Calls /\ x.n \in Nat
         /\ \A t \in Turns : call[t] \in 1 .. Calls + 1 /\ call[t] \in Nat
         /\ queue \in Seq(Entries) /\ DOMAIN queue = 1 .. Len(queue)
         /\ Len(queue) \in Nat
BY TraceConstants DEF TypeInv, TypeOK, Item, Entries

LEMMA PutMoves ==
  ASSUME TypeInv, NEW x \in Entries, Put(x), UNCHANGED <<worker, item>>
  PROVE  /\ DOMAIN queue' = 1 .. Len(queue) + 1 /\ queue'[Len(queue) + 1] = x
         /\ \A i \in DOMAIN queue : queue'[i] = queue[i]
         /\ \A y : Waits(y)' <=> Waits(y) \/ y = x
         /\ Ahead' = IF x \in Item THEN Ahead \cup {x} ELSE Ahead
<1>1. /\ DOMAIN queue' = 1 .. Len(queue) + 1 /\ queue'[Len(queue) + 1] = x
      /\ \A i \in DOMAIN queue : queue'[i] = queue[i]
      /\ DOMAIN queue = 1 .. Len(queue) /\ Len(queue) \in Nat
  <2>1. queue' = Append(queue, x) /\ queue \in Seq(Entries)
    BY SentType DEF Put
  <2>2. QED
    BY <2>1, Sequences
<1>2. \A y : Waits(y)' <=> Waits(y) \/ y = x
  BY <1>1 DEF Waits
<1>3. \A y : Held(y)' <=> Held(y)
  BY DEF Held
<1>4. QED
  BY <1>1, <1>2, <1>3 DEF Ahead

LEMMA TakeMoves ==
  ASSUME TypeInv, LineInv, Take
  PROVE  /\ \A y : Waits(y) <=> Waits(y)' \/ y = item'
         /\ item' = queue[1] /\ Len(queue) > 0
         /\ DOMAIN queue' = 1 .. Len(queue) - 1
         /\ \A i \in DOMAIN queue' : queue'[i] = queue[i + 1]
         /\ Ahead' = Ahead /\ LineInv'
<1>1. /\ item' = queue[1] /\ Len(queue) > 0 /\ Len(queue) \in Nat
      /\ DOMAIN queue = 1 .. Len(queue) /\ DOMAIN queue' = 1 .. Len(queue) - 1
      /\ \A i \in DOMAIN queue' : queue'[i] = queue[i + 1]
      /\ worker = "idle"
  <2>1. queue # <<>> /\ queue \in Seq(Entries) /\ item' = Head(queue)
        /\ queue' = Tail(queue) /\ worker = "idle"
    BY SentType DEF Take
  <2>2. QED
    BY <2>1, Sequences
<1>2. \A y : Waits(y) <=> Waits(y)' \/ y = item'
  <2>1. \A i \in DOMAIN queue : i = 1 \/ i - 1 \in DOMAIN queue'
    BY <1>1
  <2>2. \A i \in DOMAIN queue' : i + 1 \in DOMAIN queue
    BY <1>1
  <2>3. \A i \in DOMAIN queue : i = 1 \/ queue'[i - 1] = queue[i]
    BY <1>1, <2>1
  <2>4. 1 \in DOMAIN queue
    BY <1>1
  <2>5. QED
    BY <1>1, <2>1, <2>2, <2>3, <2>4 DEF Waits
<1>3. worker' = IF item' = Pill THEN "stopped" ELSE "busy"
  BY DEF Take
<1>4. \A y \in Item : Held(y)' <=> y = item'
  BY <1>3, Tags DEF Held
<1>5. \A y : ~Held(y)
  BY <1>1 DEF Held
<1>6. Ahead' = Ahead
  BY <1>2, <1>4, <1>5 DEF Ahead
<1>7. \A i, j \in DOMAIN queue' :
        i < j /\ queue'[i] \in Item /\ queue'[j] \in Item
              /\ queue'[i].turn = queue'[j].turn => queue'[i].n < queue'[j].n
  <2>1. \A i, j \in DOMAIN queue' : i + 1 \in DOMAIN queue /\ j + 1 \in DOMAIN queue
             /\ (i < j => i + 1 < j + 1)
    BY <1>1
  <2>2. QED
    BY <1>1, <2>1 DEF LineInv
<1>8. \A i \in DOMAIN queue' :
        item' \in Item /\ queue'[i] \in Item /\ queue'[i].turn = item'.turn
           => item'.n < queue'[i].n
  <2>1. \A i \in DOMAIN queue' : i + 1 \in DOMAIN queue /\ 1 < i + 1
             /\ 1 \in DOMAIN queue
    BY <1>1
  <2>2. QED
    BY <1>1, <2>1 DEF LineInv
<1>9. LineInv'
  BY <1>7, <1>8 DEF LineInv
<1>10. QED
  BY <1>1, <1>2, <1>6, <1>9

LEMMA WriteMoves ==
  ASSUME TypeInv, LineInv, Write
  PROVE  /\ item \in Ahead /\ Ahead' = Ahead \ {item} /\ LineInv'
         /\ \A y : Waits(y)' <=> Waits(y)
         /\ \A y : ~Held(y)'
<1>1. item \in Item /\ worker = "busy" /\ worker' # "busy" /\ UNCHANGED queue
  BY Tags DEF Write, TypeInv, BusyOK, TypeOK, Fails, Succeeds, AfterFailure
<1>2. \A y : Waits(y)' <=> Waits(y)
  BY <1>1 DEF Waits
<1>3. \A y : ~Held(y)'
  BY <1>1 DEF Held
<1>4. \A y : Held(y) <=> y = item
  BY <1>1 DEF Held
<1>5. ~Waits(item)
  <2>1. \A i \in DOMAIN queue : queue[i] = item => item.n < item.n
    BY <1>1 DEF LineInv
  <2>2. item.n \in Nat
    BY <1>1, SentType
  <2>3. QED
    BY <2>1, <2>2 DEF Waits
<1>6. Ahead' = Ahead \ {item} /\ item \in Ahead
  BY <1>1, <1>2, <1>3, <1>4, <1>5 DEF Ahead
<1>7. LineInv'
  BY <1>1 DEF LineInv
<1>8. QED
  BY <1>2, <1>3, <1>6, <1>7

LEMMA FlushMoves ==
  ASSUME TypeInv, LineInv, HandleFlush
  PROVE  /\ item = Flush /\ Ahead' = Ahead /\ LineInv'
         /\ \A y : Waits(y)' <=> Waits(y)
         /\ \A y : ~Held(y)'
<1>1. item = Flush /\ worker = "busy" /\ worker' # "busy" /\ UNCHANGED queue
  BY Tags DEF HandleFlush, TypeInv, BusyOK, TypeOK, Fails, Succeeds, AfterFailure
<1>2. \A y : Waits(y)' <=> Waits(y)
  BY <1>1 DEF Waits
<1>3. \A y : ~Held(y)'
  BY <1>1 DEF Held
<1>4. \A y \in Item : ~Held(y)
  BY <1>1, Tags DEF Held
<1>5. Ahead' = Ahead
  BY <1>2, <1>3, <1>4 DEF Ahead
<1>6. LineInv'
  BY <1>1 DEF LineInv
<1>7. QED
  BY <1>1, <1>2, <1>3, <1>5, <1>6

\* Calls that do not touch the queue, and the start of the worker.
Aside == \/ \E t \in Turns : Check(t)
         \/ Connect \/ StartFlush \/ Close \/ Join \/ Exit \/ UNCHANGED vars

LEMMA AsideMoves ==
  ASSUME LineInv, Aside
  PROVE  /\ Ahead' = Ahead /\ LineInv'
         /\ \A y : Waits(y)' <=> Waits(y)
         /\ \A y : Held(y)' <=> Held(y)
         /\ UNCHANGED <<sent, dropped, promised, written, durable, seqs, failures>>
<1>1. /\ UNCHANGED <<queue, item, sent, dropped, promised>>
      /\ worker' = worker \/ (worker # "busy" /\ worker' # "busy")
      /\ UNCHANGED <<written, durable, seqs, failures>>
  BY DEF Aside, Check, Connect, StartFlush, Close, Join, Exit, vars, callers,
     threads, history, rows
<1>2. \A y : Waits(y)' <=> Waits(y)
  BY <1>1 DEF Waits
<1>3. \A y : Held(y)' <=> Held(y)
  BY <1>1 DEF Held
<1>4. Ahead' = Ahead
  BY <1>2, <1>3 DEF Ahead
<1>5. LineInv'
  BY <1>1 DEF LineInv
<1>6. QED
  BY <1>1, <1>2, <1>3, <1>4, <1>5

\* A flush item or a pill does not change what is to be written.
LEMMA MarkMoves ==
  ASSUME TypeInv, LineInv, NEW x \in {Flush, Pill}, Put(x),
         UNCHANGED <<worker, item>>
  PROVE  /\ Ahead' = Ahead /\ LineInv'
         /\ \A y : Waits(y)' <=> Waits(y) \/ y = x
         /\ \A y : Held(y)' <=> Held(y)
<1>1. x \in Entries /\ x \notin Item
  BY Tags DEF Entries
<1>2. /\ Ahead' = Ahead /\ \A y : Waits(y)' <=> Waits(y) \/ y = x
      /\ DOMAIN queue' = 1 .. Len(queue) + 1 /\ queue'[Len(queue) + 1] = x
      /\ \A i \in DOMAIN queue : queue'[i] = queue[i]
  BY <1>1, PutMoves
<1>3. \A y : Held(y)' <=> Held(y)
  BY DEF Held
<1>4. \A i \in DOMAIN queue' :
        queue'[i] \in Item => i \in DOMAIN queue /\ queue'[i] = queue[i]
  BY <1>1, <1>2, SentType
<1>5. LineInv'
  BY <1>4 DEF LineInv
<1>6. QED
  BY <1>2, <1>3, <1>5

LEMMA RecordMoves ==
  ASSUME TypeInv, LineInv, SentInv, NEW t \in Turns, Record(t)
  PROVE  /\ ItemOf(t) = At(t, call[t]) /\ ItemOf(t) \in Item
         /\ ItemOf(t) \notin sent /\ sent' = sent \cup {ItemOf(t)}
         /\ Ahead' = Ahead \cup {ItemOf(t)}
         /\ call[t] \in 1 .. Calls /\ call' = [call EXCEPT ![t] = call[t] + 1]
         /\ \A x \in sent : x.turn = t => x.n < ItemOf(t).n
         /\ \A y : Waits(y)' <=> Waits(y) \/ y = ItemOf(t)
         /\ \A y : Held(y)' <=> Held(y)
         /\ UNCHANGED <<written, durable, seqs, failures, dropped, promised, kept>>
         /\ LineInv'
<1> DEFINE it == ItemOf(t)
<1>1. it = At(t, call[t]) /\ it.turn = t /\ it.n = call[t]
  BY DEF ItemOf, At
<1>2. call[t] \in 1 .. Calls /\ it \in Item
  BY ItemType, SentType DEF Record, TypeInv, StepOK
<1>3. \A x \in sent : x.turn = t => x.n < it.n
  BY <1>1 DEF SentInv
<1>4. it \notin sent
  BY <1>1, <1>2, <1>3
<1>5. /\ sent' = sent \cup {it} /\ call' = [call EXCEPT ![t] = call[t] + 1]
      /\ UNCHANGED <<worker, item>> /\ Put(it)
      /\ UNCHANGED <<written, durable, seqs, failures, dropped, promised, kept>>
  BY DEF Record, rows
<1>6. it \in Entries
  BY <1>2 DEF Entries
<1>7. /\ Ahead' = Ahead \cup {it} /\ \A y : Waits(y)' <=> Waits(y) \/ y = it
      /\ DOMAIN queue' = 1 .. Len(queue) + 1 /\ queue'[Len(queue) + 1] = it
      /\ \A i \in DOMAIN queue : queue'[i] = queue[i]
  BY <1>2, <1>5, <1>6, PutMoves
<1>8. \A y : Held(y)' <=> Held(y)
  BY <1>5 DEF Held
<1>9. \A i \in DOMAIN queue : queue[i] \in Item /\ queue[i].turn = t
                               => queue[i].n < it.n
  <2>1. \A i \in DOMAIN queue : queue[i] \in Item => queue[i] \in sent
    BY DEF SentInv, Ahead, Waits
  <2>2. QED
    BY <2>1, <1>3
<1>10. worker = "busy" /\ item \in Item /\ item.turn = t => item.n < it.n
  BY <1>3 DEF SentInv, Ahead, Held
<1>11. \A i \in DOMAIN queue' :
         \/ i \in DOMAIN queue /\ queue'[i] = queue[i]
         \/ i = Len(queue) + 1 /\ queue'[i] = it
  <2>1. Len(queue) \in Nat /\ DOMAIN queue = 1 .. Len(queue)
    BY SentType
  <2>2. \A i \in DOMAIN queue' : i \in DOMAIN queue \/ i = Len(queue) + 1
    BY <1>7, <2>1
  <2>3. QED
    BY <1>7, <2>2
<1>12. \A i \in DOMAIN queue : i < Len(queue) + 1
  BY SentType
<1>13. LineInv'
  <2>1. \A i, j \in DOMAIN queue' :
          i < j /\ queue'[i] \in Item /\ queue'[j] \in Item
                /\ queue'[i].turn = queue'[j].turn => queue'[i].n < queue'[j].n
    <3> SUFFICES ASSUME NEW i \in DOMAIN queue', NEW j \in DOMAIN queue', i < j,
                        queue'[i] \in Item, queue'[j] \in Item,
                        queue'[i].turn = queue'[j].turn
                 PROVE  queue'[i].n < queue'[j].n
      OBVIOUS
    <3>1. i \in DOMAIN queue /\ queue'[i] = queue[i]
      BY <1>7, <1>11, SentType
    <3>2. CASE j \in DOMAIN queue /\ queue'[j] = queue[j]
      BY <3>1, <3>2 DEF LineInv
    <3>3. CASE queue'[j] = it
      BY <3>1, <3>3, <1>1, <1>9
    <3>4. QED
      BY <1>11, <3>2, <3>3
  <2>2. worker' = "busy" /\ item' \in Item =>
          \A i \in DOMAIN queue' :
             queue'[i] \in Item /\ queue'[i].turn = item'.turn
                => item'.n < queue'[i].n
    BY <1>1, <1>5, <1>10, <1>11 DEF LineInv
  <2>3. QED
    BY <2>1, <2>2 DEF LineInv
<1>14. QED
  BY <1>1, <1>2, <1>3, <1>4, <1>5, <1>7, <1>8, <1>13

LEMMA LineInductive ==
  TypeInv /\ LineInv /\ SentInv /\ [Next]_vars => LineInv' /\ SentInv'
<1> SUFFICES ASSUME TypeInv, LineInv, SentInv, [Next]_vars
             PROVE  LineInv' /\ SentInv'
  OBVIOUS
<1>1. ASSUME NEW t \in Turns, Check(t) PROVE LineInv' /\ SentInv'
  <2>1. Aside
    BY <1>1 DEF Aside
  <2>2. Ahead' = Ahead /\ LineInv' /\ sent' = sent
    BY <2>1, AsideMoves
  <2>3. closed' = closed
    BY <1>1 DEF Check
  <2>4. \A u \in Turns : call[u] <= call'[u]
    BY <1>1, SentType DEF Check, TypeInv, TypeOK
  <2>5. \A x \in sent' : x.kind = KindOf(x.n) /\ x.n < call'[x.turn]
    <3>1. \A u \in Turns : call[u] \in Nat /\ call'[u] \in Nat
      <4>1. call'[t] = call[t] \/ call'[t] = call[t] + 1
        BY <1>1 DEF Check, TypeInv, TypeOK
      <4>2. \A u \in Turns : u # t => call'[u] = call[u]
        BY <1>1 DEF Check, TypeInv, TypeOK
      <4>3. QED
        BY <4>1, <4>2, SentType
    <3>2. \A x \in sent : x.turn \in Turns /\ x.n \in Nat
                          /\ x.kind = KindOf(x.n) /\ x.n < call[x.turn]
      BY SentType DEF SentInv
    <3>3. QED
      BY <2>2, <2>4, <3>1, <3>2
  <2>6. \A u \in Turns : (step'[u] = "put" \/ ~closed') =>
            (step[u] = "put" \/ ~closed) /\ call'[u] = call[u]
    BY <1>1, <2>3 DEF Check, TypeInv, TypeOK
  <2>7. QED
    BY <2>2, <2>5, <2>6 DEF SentInv
<1>2. ASSUME NEW t \in Turns, Record(t) PROVE LineInv' /\ SentInv'
  <2> DEFINE it == ItemOf(t)
  <2>1. /\ it = At(t, call[t]) /\ it \in Item /\ sent' = sent \cup {it}
        /\ Ahead' = Ahead \cup {it} /\ LineInv'
        /\ call[t] \in 1 .. Calls /\ call' = [call EXCEPT ![t] = call[t] + 1]
    BY <1>2, RecordMoves
  <2>2. Ahead' \subseteq sent'
    BY <2>1 DEF SentInv
  <2>3. it.kind = KindOf(it.n) /\ it.turn = t /\ it.n = call[t]
    BY <2>1 DEF At
  <2>4. call \in [Turns -> 1 .. Calls + 1] /\ Calls \in Nat
    BY TraceConstants DEF TypeInv, TypeOK
  <2>5. \A x \in sent' : x.kind = KindOf(x.n) /\ x.n < call'[x.turn]
    BY <2>1, <2>3, <2>4, SentType DEF SentInv
  <2>6. \A m \in 1 .. Calls : m < call[t] => At(t, m) \in sent
    BY <1>2 DEF Record, SentInv
  <2>7. \A u \in Turns : step'[u] = "put" \/ ~closed' =>
          \A m \in 1 .. Calls : m < call'[u] => At(u, m) \in sent'
    <3> SUFFICES ASSUME NEW u \in Turns, step'[u] = "put" \/ ~closed',
                        NEW m \in 1 .. Calls, m < call'[u]
                 PROVE  At(u, m) \in sent'
      OBVIOUS
    <3>1. CASE u = t
      <4>1. m < call[t] \/ m = call[t]
        BY <2>1, <2>4, <3>1
      <4>2. QED
        BY <4>1, <2>1, <2>6, <3>1
    <3>2. CASE u # t
      <4>1. /\ call'[u] = call[u] /\ step'[u] = step[u] /\ closed' = closed
        BY <1>2, <2>1, <2>4, <3>2 DEF Record, TypeInv, TypeOK
      <4>2. QED
        BY <4>1, <2>1 DEF SentInv
    <3>3. QED
      BY <3>1, <3>2
  <2>8. \A x \in sent', m \in 1 .. Calls : m < x.n => At(x.turn, m) \in sent'
    BY <2>1, <2>3, <2>6 DEF SentInv
  <2>9. QED
    BY <2>1, <2>2, <2>5, <2>7, <2>8 DEF SentInv
<1>3. CASE Take
  <2>1. Ahead' = Ahead /\ LineInv'
    BY <1>3, TakeMoves
  <2>2. UNCHANGED <<sent, call, step, closed>>
    BY <1>3 DEF Take, threads, history
  <2>3. QED
    BY <2>1, <2>2 DEF SentInv
<1>4. CASE Write
  <2>1. Ahead' \subseteq Ahead /\ LineInv'
    BY <1>4, WriteMoves
  <2>2. UNCHANGED <<sent, call, step, closed>>
    BY <1>4 DEF Write, threads
  <2>3. QED
    BY <2>1, <2>2 DEF SentInv
<1>5. CASE HandleFlush
  <2>1. Ahead' = Ahead /\ LineInv'
    BY <1>5, FlushMoves
  <2>2. UNCHANGED <<sent, call, step, closed>>
    BY <1>5 DEF HandleFlush, callers, history
  <2>3. QED
    BY <2>1, <2>2 DEF SentInv
<1>6. CASE PutFlush \/ PutPill
  <2>1. Ahead' = Ahead /\ LineInv'
    BY <1>6, MarkMoves DEF PutFlush, PutPill
  <2>2. UNCHANGED <<sent, call, step, closed>>
    BY <1>6 DEF PutFlush, PutPill, callers, history
  <2>3. QED
    BY <2>1, <2>2 DEF SentInv
<1>7. CASE Connect \/ StartFlush \/ Close \/ Join \/ Exit \/ UNCHANGED vars
  <2>1. Ahead' = Ahead /\ LineInv'
    BY <1>7, AsideMoves DEF Aside
  <2>2. UNCHANGED <<sent, call, step>> /\ (~closed' => ~closed)
    BY <1>7 DEF Connect, StartFlush, Close, CloseFirst, Join, Exit, vars, callers,
       threads, history
  <2>3. QED
    BY <2>1, <2>2 DEF SentInv
<1>8. QED
  BY <1>1, <1>2, <1>3, <1>4, <1>5, <1>6, <1>7 DEF Next, Worker, Turn, Main, Quiet

LEMMA LineInitial == Init => LineInv /\ SentInv
BY DEF Init, LineInv, SentInv, Ahead, Waits, Held

-----------------------------------------------------------------------------
(* The rows the worker's connection sees.                                  *)

\* The rows r hold what item x asked for.
Has(r, x) ==
    CASE x.kind = "emit"   -> \E e \in r.events : e.turn = x.turn /\ e.n = x.n
      [] x.kind = "start"  -> r.status[x.turn] # "absent"
      [] x.kind = "finish" -> r.status[x.turn] = "finished"

\* Turn t has sent its verdict, and nothing of it is still to be written.
Through(t) == At(t, Calls) \in sent /\ \A y \in Ahead : y.turn # t

\* Everything sent is in the line, in the rows, or rejected.
Placed == \A x \in sent : x \in Ahead \/ Has(written, x) \/ Rejected(x)

\* The rows hold only what was sent and has left the line.
Grounded ==
    /\ \A e \in written.events :
         /\ KindOf(e.n) = "emit" /\ At(e.turn, e.n) \in sent
         /\ \A y \in Ahead : y.turn = e.turn => e.n < y.n
    /\ \A t \in Turns :
         /\ written.status[t] # "absent" => At(t, 2) \in sent \ Ahead
         /\ written.status[t] = "finished" => Through(t)

\* The counter of a turn is above the numbers given, until the turn is through.
Counted == \A e \in written.events : e.seq < seqs[e.turn] \/ Through(e.turn)

Ordered == \A e, f \in written.events :
               e.turn = f.turn => (e.seq < f.seq <=> e.n < f.n)

RowInv == Placed /\ Grounded /\ Counted /\ Ordered

LEMMA RowTypes ==
  ASSUME TypeInv
  PROVE  /\ \A e \in written.events : e.turn \in Turns /\ e.seq \in Nat
                                       /\ e.n \in Nat /\ e.n \in 1 .. Calls
         /\ seqs \in [Turns -> Nat] /\ \A t \in Turns : seqs[t] \in Nat
         /\ written.status \in [Turns -> {"absent", "in_progress", "finished"}]
         /\ durable.status \in [Turns -> {"absent", "in_progress", "finished"}]
         /\ written.events \in SUBSET [turn : Turns, seq : Nat, n : 1 .. Calls]
         /\ written = [status |-> written.status, events |-> written.events]
BY TraceConstants DEF TypeInv, TypeOK, Rows

\* An item that was sent is the record its turn and number name.
LEMMA Named ==
  ASSUME TypeInv, SentInv, NEW x \in sent
  PROVE  /\ x = At(x.turn, x.n) /\ x.kind = KindOf(x.n)
         /\ x.kind = "start" => x.n = 2
         /\ x.kind = "finish" => x.n = Calls
<1>1. x \in Item /\ x.kind = KindOf(x.n)
  BY SentType DEF SentInv
<1>2. x = At(x.turn, x.n)
  BY <1>1 DEF Item, At
<1>3. QED
  BY <1>1, <1>2, Kinds, SentType

LEMMA RecordRows ==
  ASSUME TypeInv, LineInv, SentInv, RowInv, NEW t \in Turns, Record(t)
  PROVE  RowInv'
<1> DEFINE it == ItemOf(t)
<1>1. /\ it = At(t, call[t]) /\ it \in Item /\ it \notin sent
      /\ sent' = sent \cup {it} /\ Ahead' = Ahead \cup {it}
      /\ call[t] \in 1 .. Calls /\ \A x \in sent : x.turn = t => x.n < it.n
      /\ UNCHANGED <<written, seqs, dropped>>
  BY RecordMoves
<1>2. it.turn = t /\ it.n = call[t]
  BY <1>1 DEF At
<1>3. \A u \in Turns : Through(u) => Through(u)'
  <2> SUFFICES ASSUME NEW u \in Turns, Through(u) PROVE Through(u)'
    OBVIOUS
  <2>1. CASE u = t
    <3>1. At(t, Calls) \in sent /\ At(t, Calls).n = Calls /\ At(t, Calls).turn = t
      BY <2>1 DEF Through, At
    <3>2. QED
      BY <1>1, <1>2, <3>1, TraceConstants
  <2>2. CASE u # t
    BY <1>1, <1>2, <2>2 DEF Through
  <2>3. QED
    BY <2>1, <2>2
<1>4. Placed'
  BY <1>1 DEF RowInv, Placed, Has, Rejected
<1>5. Grounded'
  <2>1. \A e \in written.events : At(e.turn, e.n) \in sent
    BY DEF RowInv, Grounded
  <2>2. \A e \in written.events : e.turn = t => e.n < it.n
    BY <1>1, <2>1 DEF At
  <2>3. QED
    BY <1>1, <1>2, <1>3, <2>2 DEF RowInv, Grounded
<1>6. Counted'
  BY <1>1, <1>3, RowTypes DEF RowInv, Counted
<1>7. Ordered'
  BY <1>1 DEF RowInv, Ordered
<1>8. QED
  BY <1>4, <1>5, <1>6, <1>7 DEF RowInv

\* The worker holds the first record of its turn in the line.
LEMMA HeldFirst ==
  ASSUME TypeInv, LineInv, SentInv, Write
  PROVE  /\ item \in Item /\ item \in Ahead /\ item \in sent
         /\ Ahead' = Ahead \ {item}
         /\ \A y \in Ahead' : y.turn = item.turn => item.n < y.n
         /\ UNCHANGED <<item, sent, promised, kept>>
<1>1. /\ item \in Ahead /\ Ahead' = Ahead \ {item}
      /\ UNCHANGED <<item, sent, promised, kept>>
      /\ item \in Item
  BY WriteMoves DEF Write, Ahead
<1>2. worker = "busy"
  BY DEF Write
<1>3. \A y \in Ahead' : y \in Item /\ Waits(y)
  BY <1>1, <1>2 DEF Ahead, Held
<1>4. \A y \in Ahead' : y.turn = item.turn => item.n < y.n
  BY <1>1, <1>2, <1>3 DEF LineInv, Waits
<1>5. QED
  BY <1>1, <1>4 DEF SentInv

LEMMA ThroughKept ==
  ASSUME Ahead' \subseteq Ahead, sent' = sent, NEW t, Through(t)
  PROVE  Through(t)'
BY DEF Through

\* A verdict that leaves the line leaves nothing behind.
LEMMA VerdictThrough ==
  ASSUME TypeInv, LineInv, SentInv, Write, item.kind = "finish"
  PROVE  Through(item.turn)'
<1>1. item = At(item.turn, Calls) /\ item.n = Calls
  BY HeldFirst, Named
<1>2. \A y \in Ahead' : y.n \in 1 .. Calls
  BY SentType, HeldFirst DEF Ahead
<1>3. \A y \in Ahead' : y.turn # item.turn
  <2>1. \A y \in Ahead' : y.turn = item.turn => item.n < y.n
    BY HeldFirst
  <2>2. QED
    BY <1>1, <1>2, <2>1, TraceConstants
<1>4. QED
  BY <1>1, <1>3, HeldFirst DEF Through

LEMMA EmitRows ==
  ASSUME TypeInv, LineInv, SentInv, RowInv, Write, item.kind = "emit",
         written' = Execute(item), seqs' = SeqAfter(item), dropped' = dropped
  PROVE  RowInv'
<1> DEFINE t == item.turn
           new == [turn |-> t, seq |-> seqs[t], n |-> item.n]
<1>1. /\ t \in Turns /\ item.n \in Nat /\ item \in sent /\ item \in Ahead
      /\ Ahead' = Ahead \ {item} /\ sent' = sent /\ item' = item
      /\ \A y \in Ahead' : y.turn = t => item.n < y.n
      /\ item = At(t, item.n) /\ KindOf(item.n) = "emit"
  BY HeldFirst, SentType, Named
<1>2. /\ written'.events = written.events \cup {new}
      /\ written'.status = written.status
      /\ seqs' = [seqs EXCEPT ![t] = seqs[t] + 1]
  BY RowTypes DEF Execute, SeqAfter
<1>3. new.turn = t /\ new.n = item.n /\ new.seq = seqs[t] /\ seqs[t] \in Nat
  BY <1>1, RowTypes
<1>4. \A e \in written.events : e.turn = t => e.n < item.n /\ e.seq < seqs[t]
  <2>1. ~Through(t)
    BY <1>1 DEF Through
  <2>2. QED
    BY <1>1, <2>1 DEF RowInv, Grounded, Counted
<1>5. Placed'
  <2> SUFFICES ASSUME NEW x \in sent
               PROVE  x \in Ahead' \/ Has(written', x) \/ Rejected(x)'
    BY <1>1 DEF Placed
  <2>1. Rejected(x) => Rejected(x)'
    BY DEF Rejected
  <2>2. x = item => Has(written', x)
    BY <1>2, <1>3 DEF Has
  <2>3. Has(written, x) => Has(written', x)
    <3>1. x.kind \in {"start", "emit", "finish"}
      BY SentType, Tags
    <3>2. QED
      BY <1>2, <3>1 DEF Has
  <2>4. QED
    BY <1>1, <2>1, <2>2, <2>3 DEF RowInv, Placed
<1>6. Grounded'
  <2>1. \A u \in Turns : Through(u) => Through(u)'
    BY <1>1, ThroughKept
  <2>2. QED
    BY <1>1, <1>2, <1>3, <2>1 DEF RowInv, Grounded
<1>7. Counted'
  <2>1. \A e \in written.events : e.seq < seqs'[e.turn] \/ Through(e.turn)'
    <3> SUFFICES ASSUME NEW e \in written.events
                 PROVE  e.seq < seqs'[e.turn] \/ Through(e.turn)'
      OBVIOUS
    <3>1. CASE e.turn = t
      BY <1>2, <1>3, <1>4, <3>1, RowTypes
    <3>2. CASE e.turn # t
      BY <1>1, <1>2, <3>2, RowTypes, ThroughKept DEF RowInv, Counted
    <3>3. QED
      BY <3>1, <3>2
  <2>2. new.seq < seqs'[new.turn]
    BY <1>1, <1>2, <1>3, RowTypes
  <2>3. QED
    BY <1>2, <2>1, <2>2 DEF Counted
<1>8. Ordered'
  <2> SUFFICES ASSUME NEW e \in written'.events, NEW f \in written'.events,
                      e.turn = f.turn
               PROVE  e.seq < f.seq <=> e.n < f.n
    BY DEF Ordered
  <2>1. CASE e = new /\ f = new
    BY <1>1, <1>3, <2>1
  <2>2. CASE e = new /\ f \in written.events
    BY <1>1, <1>3, <1>4, <2>2, RowTypes
  <2>3. CASE e \in written.events /\ f = new
    BY <1>1, <1>3, <1>4, <2>3, RowTypes
  <2>4. CASE e \in written.events /\ f \in written.events
    BY <2>4 DEF RowInv, Ordered
  <2>5. QED
    BY <1>2, <2>1, <2>2, <2>3, <2>4
<1>9. QED
  BY <1>5, <1>6, <1>7, <1>8 DEF RowInv

LEMMA StartRows ==
  ASSUME TypeInv, LineInv, SentInv, RowInv, Write, item.kind = "start",
         written' = Execute(item), seqs' = SeqAfter(item), dropped' = dropped
  PROVE  RowInv'
<1> DEFINE t == item.turn
<1>1. /\ t \in Turns /\ item \in sent /\ item \in Ahead
      /\ Ahead' = Ahead \ {item} /\ sent' = sent /\ item = At(t, 2)
      /\ item' = item
  BY HeldFirst, SentType, Named
<1>2. /\ written'.events = written.events
      /\ written'.status = [written.status EXCEPT ![t] = "in_progress"]
      /\ seqs' = seqs
  BY RowTypes DEF Execute, SeqAfter
<1>3. written.status[t] # "finished"
  BY <1>1 DEF RowInv, Grounded, Through
<1>4. \A u \in Turns : Through(u) => Through(u)'
  BY <1>1, ThroughKept
<1>5. Placed'
  <2> SUFFICES ASSUME NEW x \in sent
               PROVE  x \in Ahead' \/ Has(written', x) \/ Rejected(x)'
    BY <1>1 DEF Placed
  <2>1. Rejected(x) => Rejected(x)'
    BY DEF Rejected
  <2>2. x = item => Has(written', x)
    BY <1>1, <1>2, RowTypes DEF Has
  <2>3. Has(written, x) => Has(written', x)
    <3>1. x.turn \in Turns /\ x.kind \in {"start", "emit", "finish"}
      BY SentType, Tags
    <3>2. written'.status[x.turn] = IF x.turn = t THEN "in_progress"
                                    ELSE written.status[x.turn]
      BY <1>1, <1>2, <3>1, RowTypes
    <3>3. QED
      BY <1>2, <1>3, <3>1, <3>2 DEF Has
  <2>4. QED
    BY <1>1, <2>1, <2>2, <2>3 DEF RowInv, Placed
<1>6. Grounded'
  <2>1. \A u \in Turns :
          /\ written'.status[u] # "absent" => At(u, 2) \in sent \ Ahead'
          /\ written'.status[u] = "finished" => Through(u)'
    <3> SUFFICES ASSUME NEW u \in Turns
                 PROVE  /\ written'.status[u] # "absent" => At(u, 2) \in sent \ Ahead'
                        /\ written'.status[u] = "finished" => Through(u)'
      OBVIOUS
    <3>1. CASE u = t
      BY <1>1, <1>2, <3>1, RowTypes
    <3>2. CASE u # t
      BY <1>1, <1>2, <1>4, <3>2, RowTypes DEF RowInv, Grounded
    <3>3. QED
      BY <3>1, <3>2
  <2>2. QED
    BY <1>1, <1>2, <2>1 DEF RowInv, Grounded
<1>7. Counted'
  BY <1>2, <1>4, RowTypes DEF RowInv, Counted
<1>8. Ordered'
  BY <1>2 DEF RowInv, Ordered
<1>9. QED
  BY <1>5, <1>6, <1>7, <1>8 DEF RowInv

LEMMA FinishRows ==
  ASSUME TypeInv, LineInv, SentInv, RowInv, Write, item.kind = "finish",
         written' = Execute(item), seqs' = SeqAfter(item), dropped' = dropped
  PROVE  RowInv'
<1> DEFINE t == item.turn
<1>1. /\ t \in Turns /\ item \in sent /\ item \in Ahead /\ item.n = Calls
      /\ Ahead' = Ahead \ {item} /\ sent' = sent /\ item = At(t, Calls)
      /\ item' = item
  BY HeldFirst, SentType, Named
<1>2. /\ written'.events = written.events
      /\ written'.status = [written.status EXCEPT ![t] =
             IF written.status[t] = "absent" THEN "absent" ELSE "finished"]
      /\ seqs' = [seqs EXCEPT ![t] = 0]
  BY RowTypes DEF Execute, SeqAfter
<1>3. Through(t)' /\ \A u \in Turns : Through(u) => Through(u)'
  BY <1>1, VerdictThrough, ThroughKept
<1>4. written.status[t] = "absent" => Rejected(item)
  <2>1. At(t, 2) \in sent /\ At(t, 2).kind = "start" /\ At(t, 2).turn = t
        /\ At(t, 2) # item
    <3>1. 2 \in 1 .. Calls /\ 2 < item.n
      BY <1>1, TraceConstants
    <3>2. At(t, 2) \in sent
      BY <1>1, <3>1 DEF SentInv
    <3>3. QED
      BY <3>2, Kinds DEF At
  <2>2. At(t, 2) \notin Ahead
    BY <1>1, <1>3, <2>1 DEF Through
  <2>3. Has(written, At(t, 2)) => written.status[t] # "absent"
    BY <2>1 DEF Has
  <2>4. Rejected(At(t, 2)) => At(t, 2) \in dropped
    BY <2>1 DEF Rejected
  <2>5. QED
    BY <2>1, <2>2, <2>3, <2>4 DEF RowInv, Placed, Rejected
<1>5. Placed'
  <2> SUFFICES ASSUME NEW x \in sent
               PROVE  x \in Ahead' \/ Has(written', x) \/ Rejected(x)'
    BY <1>1 DEF Placed
  <2>1. Rejected(x) => Rejected(x)'
    BY DEF Rejected
  <2>2. x = item => Has(written', x) \/ Rejected(x)'
    BY <1>1, <1>2, <1>4, <2>1, RowTypes DEF Has
  <2>3. Has(written, x) => Has(written', x)
    <3>1. x.turn \in Turns /\ x.kind \in {"start", "emit", "finish"}
      BY SentType, Tags
    <3>2. \/ written'.status[x.turn] = written.status[x.turn]
          \/ written.status[x.turn] # "absent" /\ written'.status[x.turn] = "finished"
      BY <1>1, <1>2, <3>1, RowTypes
    <3>3. QED
      BY <1>2, <3>1, <3>2 DEF Has
  <2>4. QED
    BY <1>1, <2>1, <2>2, <2>3 DEF RowInv, Placed
<1>6. Grounded'
  <2>1. \A u \in Turns :
          /\ written'.status[u] # "absent" => At(u, 2) \in sent \ Ahead'
          /\ written'.status[u] = "finished" => Through(u)'
    <3> SUFFICES ASSUME NEW u \in Turns
                 PROVE  /\ written'.status[u] # "absent" => At(u, 2) \in sent \ Ahead'
                        /\ written'.status[u] = "finished" => Through(u)'
      OBVIOUS
    <3>1. CASE u = t
      BY <1>1, <1>2, <1>3, <3>1, RowTypes DEF RowInv, Grounded
    <3>2. CASE u # t
      BY <1>1, <1>2, <1>3, <3>2, RowTypes DEF RowInv, Grounded
    <3>3. QED
      BY <3>1, <3>2
  <2>2. QED
    BY <1>1, <1>2, <2>1 DEF RowInv, Grounded
<1>7. Counted'
  <2> SUFFICES ASSUME NEW e \in written.events
               PROVE  e.seq < seqs'[e.turn] \/ Through(e.turn)'
    BY <1>2 DEF Counted
  <2>1. CASE e.turn = t
    BY <1>1, <1>3, <2>1 DEF Through
  <2>2. CASE e.turn # t
    BY <1>2, <1>3, <2>2, RowTypes DEF RowInv, Counted
  <2>3. QED
    BY <2>1, <2>2
<1>8. Ordered'
  BY <1>2 DEF RowInv, Ordered
<1>9. QED
  BY <1>5, <1>6, <1>7, <1>8 DEF RowInv

LEMMA DroppedRows ==
  ASSUME TypeInv, LineInv, SentInv, RowInv, Write, written' = written,
         seqs' = IF item.kind = "emit" THEN SeqAfter(item) ELSE seqs,
         dropped' = dropped \cup {item}
  PROVE  RowInv'
<1>1. /\ item.turn \in Turns /\ item \in sent /\ sent' = sent
      /\ Ahead' = Ahead \ {item}
  BY HeldFirst, SentType
<1>2. \A u \in Turns : Through(u) => Through(u)'
  BY <1>1, ThroughKept
<1>3. \A u \in Turns : seqs[u] <= seqs'[u] /\ seqs'[u] \in Nat
  BY <1>1, RowTypes DEF SeqAfter
<1>4. Placed'
  BY <1>1 DEF RowInv, Placed, Rejected
<1>5. Grounded'
  BY <1>1, <1>2 DEF RowInv, Grounded
<1>6. Counted'
  BY <1>2, <1>3, RowTypes DEF RowInv, Counted
<1>7. Ordered'
  BY DEF RowInv, Ordered
<1>8. QED
  BY <1>4, <1>5, <1>6, <1>7 DEF RowInv

LEMMA SameRows ==
  ASSUME RowInv, Ahead' = Ahead, UNCHANGED <<sent, dropped, written, seqs>>
  PROVE  RowInv'
<1>1. \A t : Through(t)' <=> Through(t)
  BY DEF Through
<1>2. QED
  BY <1>1 DEF RowInv, Placed, Has, Rejected, Grounded, Counted, Ordered

\* What a write does: it is executed or dropped, and committed or not.
LEMMA WriteEffects ==
  ASSUME Write
  PROVE  /\ \/ /\ written' = Execute(item) /\ seqs' = SeqAfter(item)
               /\ dropped' = dropped
            \/ /\ written' = written /\ dropped' = dropped \cup {item}
               /\ seqs' = IF item.kind = "emit" THEN SeqAfter(item) ELSE seqs
         /\ durable' = written' \/ durable' = durable
         /\ UNCHANGED <<flush, closer, promised, kept, sent, queue>>
BY DEF Write, threads

LEMMA RowInductive ==
  TypeInv /\ LineInv /\ SentInv /\ RowInv /\ [Next]_vars => RowInv'
<1> SUFFICES ASSUME TypeInv, LineInv, SentInv, RowInv, [Next]_vars PROVE RowInv'
  OBVIOUS
<1>1. ASSUME NEW t \in Turns, Record(t) PROVE RowInv'
  BY <1>1, RecordRows
<1>2. CASE Take
  <2>1. Ahead' = Ahead
    BY <1>2, TakeMoves
  <2>2. UNCHANGED <<sent, dropped, written, seqs>>
    BY <1>2 DEF Take, history, rows
  <2>3. QED
    BY <2>1, <2>2, SameRows
<1>3. CASE Write
  <2>1. item.kind \in {"start", "emit", "finish"}
    BY <1>3, HeldFirst, Tags
  <2>2. QED
    BY <1>3, <2>1, WriteEffects, EmitRows, StartRows, FinishRows, DroppedRows
<1>4. CASE HandleFlush
  <2>1. Ahead' = Ahead
    BY <1>4, FlushMoves
  <2>2. UNCHANGED <<sent, dropped, written, seqs>>
    BY <1>4 DEF HandleFlush, history
  <2>3. QED
    BY <2>1, <2>2, SameRows
<1>5. CASE PutFlush \/ PutPill
  <2>1. Ahead' = Ahead
    BY <1>5, MarkMoves DEF PutFlush, PutPill
  <2>2. UNCHANGED <<sent, dropped, written, seqs>>
    BY <1>5 DEF PutFlush, PutPill, history, rows
  <2>3. QED
    BY <2>1, <2>2, SameRows
<1>6. CASE Aside
  BY <1>6, AsideMoves, SameRows
<1>7. QED
  BY <1>1, <1>2, <1>3, <1>4, <1>5, <1>6
     DEF Next, Worker, Turn, Main, Quiet, Aside

LEMMA RowInitial == Init => RowInv
BY DEF Init, RowInv, Placed, Grounded, Counted, Ordered, Has

-----------------------------------------------------------------------------
(* The committed rows: the rows of some earlier moment.                    *)

\* Rows are never taken back: INSERT OR REPLACE is not run on a finished trace.
Within(r, s) ==
    /\ r.events \subseteq s.events
    /\ \A t \in Turns :
         /\ r.status[t] # "absent" => s.status[t] # "absent"
         /\ r.status[t] = "finished" => s.status[t] = "finished"

LEMMA WithinHas ==
  ASSUME NEW r, NEW s, Within(r, s), NEW x \in Item, Has(r, x)
  PROVE  Has(s, x)
<1>1. x.kind \in {"start", "emit", "finish"} /\ x.turn \in Turns
  BY Tags DEF Item
<1>2. QED
  BY <1>1 DEF Within, Has

LEMMA WrittenGrows ==
  ASSUME TypeInv, LineInv, SentInv, RowInv, [Next]_vars
  PROVE  Within(written, written')
<1>1. CASE UNCHANGED written
  BY <1>1 DEF Within
<1>2. CASE Write /\ written' = Execute(item)
  <2> DEFINE t == item.turn
  <2>1. /\ t \in Turns /\ item.kind \in {"start", "emit", "finish"} /\ item \in Ahead
    BY <1>2, HeldFirst, Tags, SentType
  <2>2. written.status[t] # "finished"
    BY <2>1 DEF RowInv, Grounded, Through
  <2>3. written.events \subseteq written'.events
    BY <1>2, <2>1, RowTypes DEF Execute
  <2>4. \/ UNCHANGED written.status
        \/ /\ item.kind = "start"
           /\ written'.status = [written.status EXCEPT ![t] = "in_progress"]
        \/ /\ item.kind = "finish"
           /\ written'.status = [written.status EXCEPT ![t] =
                IF written.status[t] = "absent" THEN "absent" ELSE "finished"]
    BY <1>2, <2>1, RowTypes DEF Execute
  <2>5. \A u \in Turns :
          \/ written'.status[u] = written.status[u]
          \/ written.status[u] # "finished" /\ written'.status[u] # "absent"
    BY <2>1, <2>2, <2>4, RowTypes
  <2>6. QED
    BY <2>3, <2>5 DEF Within
<1>3. QED
  BY <1>1, <1>2, WriteEffects DEF Next, Worker, Turn, Main, Quiet, Check, Record,
     Connect, Take, HandleFlush, StartFlush, PutFlush, Close, PutPill, Join, Exit,
     vars, rows

\* The rows of a finished trace hold every event, or it was dropped.
Complete(r) ==
    \A t \in Turns : r.status[t] = "finished" =>
        \A n \in 1 .. Calls : KindOf(n) = "emit" =>
            Has(r, At(t, n)) \/ At(t, n) \in dropped

LEMMA WrittenComplete ==
  ASSUME TypeInv, SentInv, RowInv
  PROVE  Complete(written)
<1> SUFFICES ASSUME NEW t \in Turns, written.status[t] = "finished",
                    NEW n \in 1 .. Calls, KindOf(n) = "emit"
             PROVE  Has(written, At(t, n)) \/ At(t, n) \in dropped
  BY DEF Complete
<1>1. At(t, Calls) \in sent /\ \A y \in Ahead : y.turn # t
  BY DEF RowInv, Grounded, Through
<1>2. At(t, Calls).n = Calls /\ At(t, Calls).turn = t
      /\ At(t, n).turn = t /\ At(t, n).kind = "emit"
  BY DEF At
<1>3. n < Calls
  BY Kinds, TraceConstants
<1>4. At(t, n) \in sent
  BY <1>1, <1>2, <1>3 DEF SentInv
<1>5. QED
  BY <1>1, <1>2, <1>4 DEF RowInv, Placed, Rejected

BaseInv == TypeInv /\ LineInv /\ SentInv /\ RowInv

LEMMA BaseAlways == Spec => [](BaseInv /\ Complete(written))
<1>1. Init => BaseInv
  BY TypeInitial, LineInitial, RowInitial DEF BaseInv
<1>2. BaseInv /\ [Next]_vars => BaseInv'
  BY TypeInductive, LineInductive, RowInductive DEF BaseInv
<1>3. BaseInv => Complete(written)
  BY WrittenComplete DEF BaseInv
<1>4. QED
  BY <1>1, <1>2, <1>3, PTL DEF Spec

DurableInv == Within(durable, written) /\ Complete(durable)

\* A commit makes durable what the connection sees, and nothing else does.
LEMMA Commits ==
  ASSUME [Next]_vars
  PROVE  /\ durable' = durable \/ durable' = written'
         /\ dropped \subseteq dropped'
BY WriteEffects DEF Next, Worker, Turn, Main, Quiet, Check, Record,
   Connect, Take, HandleFlush, FlushCommits, StartFlush, PutFlush, Close, PutPill,
   Join, Exit, vars, rows, history

LEMMA DurableInductive ==
  ASSUME BaseInv, DurableInv, [Next]_vars, Complete(written)'
  PROVE  DurableInv'
<1> USE DEF BaseInv
<1>1. CASE durable' = durable
  <2>1. Within(durable, written')
    BY WrittenGrows DEF DurableInv, Within
  <2>2. QED
    BY <1>1, <2>1, Commits DEF DurableInv, Complete
<1>2. CASE durable' = written'
  <2>1. Within(written', written')
    BY DEF Within
  <2>2. QED
    BY <1>2, <2>1 DEF DurableInv, Complete
<1>3. QED
  BY <1>1, <1>2, Commits

StoreInv == BaseInv /\ DurableInv

LEMMA StoreAlways == Spec => []StoreInv
<1>1. Init => DurableInv
  BY DEF Init, DurableInv, Within, Complete
<1>2. BaseInv /\ Complete(written)' /\ DurableInv /\ [Next]_vars => DurableInv'
  BY DurableInductive
<1>3. QED
  BY <1>1, <1>2, BaseAlways, PTL DEF Spec, StoreInv

\* The committed events of a turn have distinct numbers in the order they were
\* emitted, however the turns interleave and whatever was dropped.
THEOREM EventsInOrderHolds == Spec => []EventsInOrder
<1>1. StoreInv => EventsInOrder
  BY DEF StoreInv, BaseInv, RowInv, Ordered, DurableInv, Within, EventsInOrder
<1>2. QED
  BY <1>1, StoreAlways, PTL

\* A trace that reads finished holds every event whose write did not fail.
THEOREM VerdictIsCompleteHolds == Spec => []VerdictIsComplete
<1>1. StoreInv => VerdictIsComplete
  <2> SUFFICES ASSUME StoreInv, NEW t \in Turns, durable.status[t] = "finished",
                      NEW n \in 1 .. Calls, KindOf(n) = "emit"
               PROVE  LET x == [kind |-> "emit", turn |-> t, n |-> n]
                      IN  Stored(x) \/ x \in dropped
    BY DEF VerdictIsComplete
  <2>1. At(t, n) = [kind |-> "emit", turn |-> t, n |-> n]
    BY DEF At
  <2>2. Has(durable, At(t, n)) \/ At(t, n) \in dropped
    BY DEF StoreInv, DurableInv, Complete
  <2>3. QED
    BY <2>1, <2>2 DEF Has, Stored
<1>2. QED
  BY <1>1, StoreAlways, PTL

-----------------------------------------------------------------------------
(* The flush item and the pill: marks in the line that what was put before *)
(* them must be ahead of.                                                  *)

\* In the queue q, nothing of S stands behind a mark m.
Behind(q, m, S) ==
    \A k, i \in DOMAIN q : q[k] = m /\ k <= i => q[i] \notin S

\* q holds nothing of S.
Free(q, S) == \A i \in DOMAIN q : q[i] \notin S

LEMMA BehindAppend ==
  ASSUME NEW q, NEW r, NEW len \in Nat, NEW m, NEW S,
         DOMAIN q = 1 .. len, DOMAIN r = 1 .. len + 1,
         \A i \in DOMAIN q : r[i] = q[i], r[len + 1] \notin S
  PROVE  /\ Behind(q, m, S) => Behind(r, m, S)
         /\ Free(q, S) => Free(r, S)
<1>1. \A i \in DOMAIN r : i = len + 1 \/ i \in DOMAIN q
  OBVIOUS
<1>2. \A i \in DOMAIN r : r[i] \in S => i \in DOMAIN q /\ r[i] = q[i]
  BY <1>1
<1>3. Free(q, S) => Free(r, S)
  BY <1>2 DEF Free
<1>4. ASSUME Behind(q, m, S), NEW k \in DOMAIN r, NEW i \in DOMAIN r, r[k] = m,
             k <= i, r[i] \in S
      PROVE  FALSE
  <2>1. i \in DOMAIN q /\ r[i] = q[i]
    BY <1>2, <1>4
  <2>2. k \in DOMAIN q
    BY <2>1, <1>4
  <2>3. QED
    BY <1>4, <2>1, <2>2 DEF Behind
<1>5. QED
  BY <1>3, <1>4 DEF Behind

LEMMA BehindTail ==
  ASSUME NEW q, NEW r, NEW len \in Nat, len > 0, NEW m, NEW S,
         DOMAIN q = 1 .. len, DOMAIN r = 1 .. len - 1,
         \A i \in DOMAIN r : r[i] = q[i + 1]
  PROVE  /\ Behind(q, m, S) => Behind(r, m, S)
         /\ Behind(q, m, S) /\ q[1] = m => Free(r, S)
         /\ Free(q, S) => Free(r, S)
<1>1. \A i \in DOMAIN r : i + 1 \in DOMAIN q /\ 1 \in DOMAIN q /\ 1 <= i + 1
  OBVIOUS
<1>2. \A k, i \in DOMAIN r : k <= i => k + 1 <= i + 1
  OBVIOUS
<1>3. QED
  BY <1>1, <1>2 DEF Behind, Free

\* How the queue changes in a step.
LEMMA QueueMoves ==
  ASSUME StoreInv, [Next]_vars
  PROVE  \/ queue' = queue
         \/ Take
         \/ \E t \in Turns : Record(t)
         \/ PutFlush
         \/ PutPill
BY DEF Next, Worker, Turn, Main, Quiet, Check, Connect, Write, HandleFlush,
   StartFlush, Close, Join, Exit, vars, threads

\* Whatever S holds that was sent stays ahead of the mark when something that is
\* not in S is put, and the head leaves.
LEMMA MarkKept ==
  ASSUME StoreInv, [Next]_vars, NEW m, NEW S,
         \A t \in Turns : Record(t) => ItemOf(t) \notin S,
         Flush \notin S, Pill \notin S
  PROVE  /\ Behind(queue, m, S) => Behind(queue', m, S)
         /\ Free(queue, S) => Free(queue', S)
         /\ Take /\ Behind(queue, m, S) /\ item' = m => Free(queue', S)
<1> USE DEF StoreInv, BaseInv
<1>1. CASE queue' = queue /\ ~Take
  BY <1>1
<1>2. CASE Take
  BY <1>2, TakeMoves, BehindTail, SentType
<1>3. ASSUME NEW x \in Entries, Put(x), UNCHANGED <<worker, item>>, x \notin S
      PROVE  /\ Behind(queue, m, S) => Behind(queue', m, S)
             /\ Free(queue, S) => Free(queue', S)
  <2>1. /\ DOMAIN queue = 1 .. Len(queue) /\ Len(queue) \in Nat
        /\ DOMAIN queue' = 1 .. Len(queue) + 1 /\ queue'[Len(queue) + 1] = x
        /\ \A i \in DOMAIN queue : queue'[i] = queue[i]
    BY <1>3, PutMoves, SentType
  <2>2. QED
    BY <1>3, <2>1, BehindAppend
<1>4. ASSUME NEW t \in Turns, Record(t)
      PROVE  /\ Behind(queue, m, S) => Behind(queue', m, S)
             /\ Free(queue, S) => Free(queue', S)
  <2>1. ItemOf(t) \in Entries
    BY <1>4, RecordMoves DEF Entries
  <2>2. Put(ItemOf(t)) /\ UNCHANGED <<worker, item>> /\ ItemOf(t) \notin S
    BY <1>4 DEF Record
  <2>3. QED
    BY <1>3, <2>1, <2>2
<1>5. ASSUME PutFlush
      PROVE  /\ Behind(queue, m, S) => Behind(queue', m, S)
             /\ Free(queue, S) => Free(queue', S)
  <2>1. Put(Flush) /\ UNCHANGED <<worker, item>> /\ Flush \in Entries
    BY <1>5 DEF PutFlush, Entries
  <2>2. QED
    BY <1>3, <2>1
<1>6. ASSUME PutPill
      PROVE  /\ Behind(queue, m, S) => Behind(queue', m, S)
             /\ Free(queue, S) => Free(queue', S)
  <2>1. Put(Pill) /\ UNCHANGED <<worker, item>> /\ Pill \in Entries
    BY <1>6 DEF PutPill, Entries
  <2>2. QED
    BY <1>3, <2>1
<1>7. ~Take \/ (~PutFlush /\ ~PutPill /\ \A t \in Turns : ~Record(t))
  BY DEF Take, PutFlush, PutPill, Record, threads, callers, history
<1>8. QED
  BY <1>1, <1>2, <1>4, <1>5, <1>6, <1>7, QueueMoves

\* Rows that are there stay there.
LEMMA StoredKept ==
  ASSUME StoreInv, [Next]_vars, NEW x \in Item, Stored(x)
  PROVE  Stored(x)'
<1>1. Has(durable, x) /\ (Stored(x)' <=> Has(durable', x))
  BY DEF Stored, Has
<1>2. Within(durable, durable')
  BY WrittenGrows, Commits DEF StoreInv, BaseInv, DurableInv, Within
<1>3. QED
  BY <1>1, <1>2, WithinHas

-----------------------------------------------------------------------------
(* flush().                                                                *)

FlushInv ==
    /\ promised \subseteq sent
    /\ flush \in {"idle", "put"} =>
         promised = {} /\ ~Waits(Flush) /\ ~Held(Flush)
    /\ Behind(queue, Flush, promised)
    /\ Held(Flush) => Free(queue, promised)
    /\ FlushDurable

\* A step that leaves the flush alone keeps its promise.
LEMMA PromiseKept ==
  ASSUME StoreInv, FlushInv, [Next]_vars, promised' = promised,
         flush' = "true" => flush = "true"
  PROVE  FlushDurable'
<1> SUFFICES ASSUME flush' = "true", NEW x \in promised
             PROVE  Stored(x)' \/ Rejected(x)'
  BY DEF FlushDurable
<1>1. x \in Item /\ (Stored(x) \/ Rejected(x))
  BY SentType DEF FlushInv, FlushDurable, StoreInv, BaseInv
<1>2. Rejected(x) => Rejected(x)'
  BY Commits DEF Rejected
<1>3. QED
  BY <1>1, <1>2, StoredKept

LEMMA FlushInductive == StoreInv /\ FlushInv /\ [Next]_vars => FlushInv'
<1> SUFFICES ASSUME StoreInv, FlushInv, [Next]_vars PROVE FlushInv'
  OBVIOUS
<1> USE DEF StoreInv, BaseInv
<1>1. promised \subseteq Item /\ Flush \notin promised /\ Pill \notin promised
  BY SentType, Tags
<1>2. \A t \in Turns : Record(t) => ItemOf(t) \notin promised
  BY RecordMoves DEF FlushInv
<1>3. /\ Behind(queue, Flush, promised) => Behind(queue', Flush, promised)
      /\ Free(queue, promised) => Free(queue', promised)
      /\ Take /\ Behind(queue, Flush, promised) /\ item' = Flush
           => Free(queue', promised)
  BY <1>1, <1>2, MarkKept
<1>4. ASSUME NEW t \in Turns, Record(t) PROVE FlushInv'
  <2>1. /\ UNCHANGED promised /\ sent \subseteq sent' /\ flush' = flush
        /\ \A y : Waits(y)' <=> Waits(y) \/ y = ItemOf(t)
        /\ Held(Flush)' <=> Held(Flush)
        /\ ItemOf(t) # Flush
    BY <1>4, RecordMoves, Tags DEF Record
  <2>2. FlushDurable'
    BY <2>1, PromiseKept
  <2>3. QED
    BY <1>3, <2>1, <2>2 DEF FlushInv
<1>5. CASE Take
  <2>1. /\ UNCHANGED <<promised, sent, flush>> /\ worker = "idle"
        /\ \A y : Waits(y) <=> Waits(y)' \/ y = item'
    BY <1>5, TakeMoves DEF Take, threads, history
  <2>2. Held(Flush)' => item' = Flush
    BY DEF Held
  <2>3. FlushDurable'
    BY <2>1, PromiseKept
  <2>4. QED
    BY <1>3, <1>5, <2>1, <2>2, <2>3 DEF FlushInv
<1>6. CASE Write
  <2>1. /\ UNCHANGED <<promised, sent, flush, queue>>
        /\ \A y : Waits(y)' <=> Waits(y)
        /\ ~Held(Flush)'
    BY <1>6, WriteMoves, WriteEffects
  <2>2. FlushDurable'
    BY <2>1, PromiseKept
  <2>3. QED
    BY <2>1, <2>2 DEF FlushInv
<1>7. CASE HandleFlush
  <2>1. /\ UNCHANGED <<promised, sent, queue, dropped, written>> /\ Held(Flush)
        /\ ~Held(Flush)' /\ item = Flush
    BY <1>7, FlushMoves DEF HandleFlush, history, Held
  <2>2. flush \notin {"idle", "put"} /\ flush' \notin {"idle", "put"}
    BY <1>7, <2>1 DEF FlushInv, HandleFlush
  <2>3. CASE flush' = flush
    BY <2>1, <2>2, <2>3, PromiseKept DEF FlushInv
  <2>4. CASE durable' = written
    <3>1. \A x \in promised : x \notin Ahead
      BY <1>1, <2>1, Tags DEF FlushInv, Free, Ahead, Waits, Held
    <3>2. \A x \in promised : Has(written, x) \/ Rejected(x)
      BY <3>1 DEF FlushInv, RowInv, Placed
    <3>3. \A x \in promised : Has(written, x) => Stored(x)'
      BY <2>4 DEF Has, Stored
    <3>4. FlushDurable'
      BY <2>1, <3>2, <3>3 DEF FlushDurable, Rejected
    <3>5. QED
      BY <2>1, <2>2, <3>4 DEF FlushInv
  <2>5. QED
    BY <1>7, <2>3, <2>4 DEF HandleFlush, FlushCommits
<1>8. CASE PutFlush
  <2>1. /\ flush = "put" /\ flush' = "waiting" /\ promised' = sent /\ sent' = sent
        /\ ~Waits(Flush) /\ ~Held(Flush) /\ Put(Flush)
        /\ UNCHANGED <<worker, item>> /\ Flush \in Entries
    BY <1>8 DEF PutFlush, FlushInv, Entries
  <2>2. /\ DOMAIN queue = 1 .. Len(queue) /\ Len(queue) \in Nat
        /\ DOMAIN queue' = 1 .. Len(queue) + 1 /\ queue'[Len(queue) + 1] = Flush
        /\ \A i \in DOMAIN queue : queue'[i] = queue[i]
    BY <2>1, PutMoves, SentType
  <2>3. \A i \in DOMAIN queue : queue[i] # Flush
    BY <2>1 DEF Waits
  <2>4. Behind(queue, Flush, sent)
    BY <2>3 DEF Behind
  <2>5. Flush \notin sent
    BY SentType, Tags
  <2>6. Behind(queue', Flush, promised')
    BY <2>1, <2>2, <2>4, <2>5, BehindAppend
  <2>7. ~Held(Flush)' /\ FlushDurable'
    BY <2>1 DEF Held, FlushDurable
  <2>8. QED
    BY <2>1, <2>6, <2>7 DEF FlushInv
<1>9. CASE PutPill
  <2>1. /\ UNCHANGED <<promised, sent, flush>>
        /\ \A y : Waits(y)' <=> Waits(y) \/ y = Pill
        /\ \A y : Held(y)' <=> Held(y)
    BY <1>9, MarkMoves DEF PutPill, history
  <2>2. FlushDurable'
    BY <2>1, PromiseKept
  <2>3. QED
    BY <1>3, <2>1, <2>2, Tags DEF FlushInv
<1>10. CASE StartFlush
  <2>1. /\ UNCHANGED <<promised, sent, queue, worker, item>> /\ promised = {}
        /\ ~Waits(Flush) /\ ~Held(Flush)
    BY <1>10 DEF StartFlush, history, FlushInv
  <2>2. QED
    BY <2>1 DEF FlushInv, FlushDurable, Behind, Free, Waits, Held
<1>11. CASE Connect \/ Close \/ Join \/ Exit \/ UNCHANGED vars
            \/ \E t \in Turns : Check(t)
  <2>1. /\ UNCHANGED <<promised, sent, queue, flush>>
        /\ \A y : Waits(y)' <=> Waits(y)
        /\ \A y : Held(y)' <=> Held(y)
    BY <1>11, AsideMoves DEF Aside, Connect, Close, Join, Exit, Check, vars,
       threads, history
  <2>2. FlushDurable'
    BY <2>1, PromiseKept
  <2>3. QED
    BY <2>1, <2>2 DEF FlushInv
<1>12. QED
  BY <1>4, <1>5, <1>6, <1>7, <1>8, <1>9, <1>10, <1>11
     DEF Next, Worker, Turn, Main, Quiet

\* When a flush that was waited for answers True, everything put before it is
\* committed, unless its own write failed.
THEOREM FlushDurableHolds == Spec => []FlushDurable
<1>1. Init => FlushInv
  BY DEF Init, FlushInv, FlushDurable, Waits, Held, Behind, Free
<1>2. FlushInv => FlushDurable
  BY DEF FlushInv
<1>3. QED
  BY <1>1, <1>2, FlushInductive, StoreAlways, PTL DEF Spec

-----------------------------------------------------------------------------
(* close().                                                                *)

\* What was recorded before close stays ahead of the pill, and a turn whose call
\* got through after it has sent its last.
PillInv ==
    /\ kept \subseteq sent
    /\ closer = "open" => ~closed /\ kept = {}
    /\ closer # "open" => closed
    /\ closer \in {"open", "pill"} => ~Waits(Pill) /\ worker # "stopped"
    /\ Behind(queue, Pill, kept)
    /\ worker = "stopped" => Free(queue, kept)

\* Without a failure everything is committed at once.
CommitInv == failures = 0 => durable = written /\ dropped = {}

LateInv ==
    closer # "open" =>
        /\ \A x \in sent \ kept : step[x.turn] = "check"
        /\ \A x, y \in sent \ kept : x.turn = y.turn => x = y

LEMMA PillInductive == StoreInv /\ PillInv /\ [Next]_vars => PillInv'
<1> SUFFICES ASSUME StoreInv, PillInv, [Next]_vars PROVE PillInv'
  OBVIOUS
<1> USE DEF StoreInv, BaseInv
<1>1. kept \subseteq Item /\ Flush \notin kept /\ Pill \notin kept
  BY SentType, Tags
<1>2. \A t \in Turns : Record(t) => ItemOf(t) \notin kept
  BY RecordMoves DEF PillInv
<1>3. /\ Behind(queue, Pill, kept) => Behind(queue', Pill, kept)
      /\ Free(queue, kept) => Free(queue', kept)
      /\ Take /\ Behind(queue, Pill, kept) /\ item' = Pill => Free(queue', kept)
  BY <1>1, <1>2, MarkKept
<1>4. CASE Close
  <2>1. /\ closer = "open" /\ closer' = "pill" /\ closed' /\ kept' = sent
        /\ UNCHANGED <<sent, worker, queue>>
    BY <1>4 DEF Close, CloseFirst
  <2>2. ~Waits(Pill) /\ worker # "stopped"
    BY <2>1 DEF PillInv
  <2>3. QED
    BY <2>1, <2>2 DEF PillInv, Behind, Waits
<1>5. CASE PutPill
  <2>1. /\ closer = "pill" /\ closer' = "join" /\ Pill \in Entries /\ Put(Pill)
        /\ UNCHANGED <<worker, item, closed, kept, sent>>
    BY <1>5 DEF PutPill, history, Entries
  <2>2. QED
    BY <1>3, <2>1 DEF PillInv
<1>6. CASE Take
  <2>1. /\ UNCHANGED <<sent, kept, closer, closed>> /\ worker = "idle"
        /\ worker' = IF item' = Pill THEN "stopped" ELSE "busy"
        /\ \A y : Waits(y) <=> Waits(y)' \/ y = item'
    BY <1>6, TakeMoves DEF Take, threads, history
  <2>2. QED
    BY <1>3, <1>6, <2>1 DEF PillInv
<1>7. ASSUME NEW t \in Turns, Record(t) PROVE PillInv'
  <2>1. /\ UNCHANGED <<kept, closer, closed, worker>> /\ sent \subseteq sent'
        /\ \A y : Waits(y)' <=> Waits(y) \/ y = ItemOf(t)
        /\ ItemOf(t) # Pill
    BY <1>7, RecordMoves, Tags DEF Record
  <2>2. QED
    BY <1>3, <2>1 DEF PillInv
<1>8. CASE PutFlush
  <2>1. /\ UNCHANGED <<kept, closer, closed, worker, sent>>
        /\ \A y : Waits(y)' <=> Waits(y) \/ y = Flush
    BY <1>8, MarkMoves DEF PutFlush
  <2>2. QED
    BY <1>3, <2>1, Tags DEF PillInv
<1>9. CASE Write \/ HandleFlush \/ Connect
  <2>1. /\ UNCHANGED <<kept, closer, closed, sent, queue>>
        /\ worker # "stopped" /\ worker' # "stopped"
    BY <1>9 DEF Write, HandleFlush, Connect, Fails, Succeeds, AfterFailure, history,
       threads
  <2>2. QED
    BY <2>1 DEF PillInv, Waits
<1>10. CASE Join
  <2>1. /\ UNCHANGED <<kept, closed, sent, queue, worker>> /\ closer = "join"
        /\ closer' \notin {"open", "pill"}
    BY <1>10 DEF Join, history
  <2>2. QED
    BY <2>1 DEF PillInv, Waits
<1>11. CASE StartFlush \/ Exit \/ UNCHANGED vars \/ \E t \in Turns : Check(t)
  <2>1. UNCHANGED <<kept, closed, sent, queue, worker, closer>>
    BY <1>11 DEF StartFlush, Exit, vars, Check, threads, history
  <2>2. QED
    BY <2>1 DEF PillInv, Waits
<1>12. QED
  BY <1>4, <1>5, <1>6, <1>7, <1>8, <1>9, <1>10, <1>11
     DEF Next, Worker, Turn, Main, Quiet

LEMMA CommitInductive == StoreInv /\ CommitInv /\ [Next]_vars => CommitInv'
<1> SUFFICES ASSUME StoreInv, CommitInv, [Next]_vars, failures' = 0
             PROVE  durable' = written' /\ dropped' = {}
  BY DEF CommitInv
<1>1. failures \in Nat
  BY DEF StoreInv, BaseInv, TypeInv, TypeOK
<1>2. CASE Write
  <2>1. ~Fails
    BY <1>1 DEF Fails
  <2>2. QED
    BY <1>2, <2>1 DEF Write, Succeeds, CommitInv
<1>3. CASE HandleFlush
  <2>1. ~Fails
    BY <1>1 DEF Fails
  <2>2. QED
    BY <1>3, <2>1 DEF HandleFlush, FlushCommits, Succeeds, CommitInv, history
<1>4. CASE UNCHANGED <<failures, durable, written, dropped>>
  BY <1>4 DEF CommitInv
<1>5. QED
  BY <1>2, <1>3, <1>4 DEF Next, Worker, Turn, Main, Quiet, Check, Record, Connect,
     Take, StartFlush, PutFlush, Close, PutPill, Join, Exit, vars, rows, history

LEMMA LateInductive ==
  StoreInv /\ PillInv /\ LateInv /\ [Next]_vars => LateInv'
<1> SUFFICES ASSUME StoreInv, PillInv, LateInv, [Next]_vars PROVE LateInv'
  OBVIOUS
<1> USE DEF StoreInv, BaseInv
<1>1. ASSUME NEW t \in Turns, Record(t) PROVE LateInv'
  <2>1. /\ sent' = sent \cup {ItemOf(t)} /\ UNCHANGED <<kept, closer>>
        /\ step[t] = "put" /\ step' = [step EXCEPT ![t] = "check"]
        /\ ItemOf(t).turn = t
    <3>1. sent' = sent \cup {ItemOf(t)} /\ kept' = kept
      BY <1>1, RecordMoves
    <3>2. closer' = closer /\ step[t] = "put" /\ step' = [step EXCEPT ![t] = "check"]
      BY <1>1 DEF Record
    <3>3. ItemOf(t).turn = t
      BY DEF ItemOf
    <3>4. QED
      BY <3>1, <3>2, <3>3
  <2>2. \A x \in sent : x.turn \in Turns
    BY SentType
  <2>3. step \in [Turns -> {"check", "put"}]
    BY DEF TypeInv, TypeOK
  <2>4. closer # "open" => \A x \in sent \ kept : x.turn # t
    BY <2>1 DEF LateInv
  <2>5. closer # "open" => \A x \in sent' \ kept : step'[x.turn] = "check"
    BY <2>1, <2>2, <2>3 DEF LateInv
  <2>6. QED
    BY <2>1, <2>4, <2>5 DEF LateInv
<1>2. ASSUME NEW t \in Turns, Check(t) PROVE LateInv'
  <2>1. UNCHANGED <<sent, kept, closer>> /\ (closer # "open" => step' = step)
    BY <1>2 DEF Check, history, PillInv
  <2>2. QED
    BY <2>1 DEF LateInv
<1>3. CASE Close
  BY <1>3 DEF Close, LateInv
<1>4. CASE PutPill \/ Join
  <2>1. UNCHANGED <<sent, kept, step>> /\ closer # "open"
    BY <1>4 DEF PutPill, Join, callers, history
  <2>2. QED
    BY <2>1 DEF LateInv
<1>5. CASE UNCHANGED <<sent, kept, step, closer>>
  BY <1>5 DEF LateInv
<1>6. QED
  BY <1>1, <1>2, <1>3, <1>4, <1>5 DEF Next, Worker, Turn, Main, Quiet, Connect,
     Take, Write, HandleFlush, StartFlush, PutFlush, Exit, vars, threads, callers,
     history

\* close is orderly: what was recorded before it is durable once the thread has
\* ended, unless writes failed, and of each turn at most one call slips in after.
THEOREM CloseIsOrderlyHolds == Spec => []CloseIsOrderly
<1>1. Init => PillInv /\ CommitInv /\ LateInv
  BY DEF Init, PillInv, CommitInv, LateInv, Waits, Behind, Free
<1>2. StoreInv /\ PillInv /\ CommitInv /\ LateInv => CloseIsOrderly
  <2> SUFFICES ASSUME StoreInv, PillInv, CommitInv, LateInv PROVE CloseIsOrderly
    OBVIOUS
  <2>1. ASSUME worker = "stopped", failures = 0, NEW x \in kept PROVE Stored(x)
    <3>1. x \in sent /\ x \notin Ahead
      BY <2>1 DEF PillInv, Free, Ahead, Waits, Held
    <3>2. Has(written, x) \/ Rejected(x)
      BY <3>1 DEF StoreInv, BaseInv, RowInv, Placed
    <3>3. QED
      BY <2>1, <3>2 DEF CommitInv, Rejected, Has, Stored
  <2>2. QED
    BY <2>1 DEF CloseIsOrderly, LateInv
<1>3. QED
  BY <1>1, <1>2, PillInductive, CommitInductive, LateInductive, StoreAlways, PTL
     DEF Spec

(***************************************************************************)
(* The rendering of a trace, whatever prefix of a turn's events it is made *)
(* of, for any number of attempts, rounds, tool calls and deltas.          *)
(***************************************************************************)
Event == [kind : EventKinds, n : Nat, text : BOOLEAN]

\* Slots that a model call or a tool call fills.
CallSlots == {"llm", "tool"}

CountIn(r, kind) == Cardinality({p \in DOMAIN r : r[p].kind = kind})

\* There are only deltas between p and a.
OnlyDeltas(r, p, a) == \A q \in p + 1 .. a - 1 : r[q].kind \in DeltaKinds

(***************************************************************************)
(* What holds of the events of a turn.  Each part looks back from an event *)
(* only, so it holds of what an interrupt leaves.                          *)
(***************************************************************************)
OnceInATurn(r) ==
    \A p, q \in 1 .. Len(r) :
        r[p].kind = r[q].kind /\ r[p].kind \in {"context_start", "turn_done"} => p = q

\* The calls have numbers of their own.
Numbered(r) ==
    \A slot \in CallSlots : \A p, q \in 1 .. Len(r) :
        /\ r[p].kind = StartOf(slot) /\ r[q].kind = StartOf(slot) /\ r[p].n = r[q].n
        => p = q

\* Call n of the slot began before a, with only deltas since.
BegunAt(r, slot, n, a) ==
    \E p \in 1 .. a - 1 :
        r[p].kind = StartOf(slot) /\ r[p].n = n /\ OnlyDeltas(r, p, a)

Begun(r) ==
    \A slot \in CallSlots : \A q \in 1 .. Len(r) :
        r[q].kind = DoneOf(slot) => BegunAt(r, slot, r[q].n, q)

\* A turn that ends with an answer of its own has told its text.
ToldBefore(r, n, a) ==
    \E p \in 1 .. a - 1 : r[p].kind = "text" /\ r[p].text /\ r[p].n = n

Told(r) ==
    \A q \in 1 .. Len(r) :
        r[q].kind = "turn_done" /\ r[q].n # 0 /\ r[q].text => ToldBefore(r, r[q].n, q)

Grammar(r) == r \in Seq(Event) /\ OnceInATurn(r) /\ Numbered(r) /\ Begun(r) /\ Told(r)

(***************************************************************************)
(* The turn that is running, and what it has emitted so far.               *)
(***************************************************************************)
CallsCounted(r) ==
    \A slot \in CallSlots : \A p \in 1 .. Len(r) :
        r[p].kind = StartOf(slot) => r[p].n <= CountIn(r, StartOf(slot))

Lacks(r, kind) == \A p \in 1 .. Len(r) : r[p].kind # kind

\* The turn has not ended.
GoingOn(r) ==
    Grammar(r) /\ CallsCounted(r) /\ Lacks(r, "turn_done")

TurnInv ==
    /\ reply \in [n : Nat, text : BOOLEAN] /\ CallsCounted(records)
    /\ phase = "start" => records = <<>>
    /\ phase # "done" => Lacks(records, "turn_done")
    /\ phase = "answering" => BegunAt(records, "llm", ThisCall, Len(records) + 1)
    /\ streaming /\ reply.text => ToldBefore(records, reply.n, Len(records) + 1)

(***************************************************************************)
(* What holds of the view when the records before a have been taken.       *)
(***************************************************************************)
Labels == EventKinds \cup {"context", "llm", "tool", "answer", "thinking", "prompt",
                           "memory", "job", "done"}
Line == [label : Labels, sources : SUBSET Nat, from : Nat, placeholder : BOOLEAN]
View == [lines : Seq(Line), pending : [Slots -> Nat], kind : DeltaKinds,
         block : SUBSET Nat, answerAt : Nat, thinkingAt : Nat]

Never(lines, p) == \A i \in 1 .. Len(lines) : p \notin lines[i].sources
Once(lines, p) ==
    \E i \in 1 .. Len(lines) :
        /\ p \in lines[i].sources
        /\ \A j \in 1 .. Len(lines) : p \in lines[j].sources => j = i

Seen(r, kind, p, a) == \E q \in p + 1 .. a - 1 : r[q].kind = kind

Outside == {"turn_start", "turn_done"}
AtOnce == OwnLine \cup {"context_done", "llm_done", "tool_done"}

\* Where an event is: held back, or on one line.
Kept(r, v, p, a) ==
    LET kind == r[p].kind IN
    /\ kind \in Outside => Never(v.lines, p)
    /\ kind \in DeltaKinds =>
         IF p \in v.block THEN Never(v.lines, p)
         ELSE Once(v.lines, p) \/ (~r[p].text /\ Never(v.lines, p))
    /\ \A slot \in Slots : kind = StartOf(slot) =>
         IF v.pending[slot] = p THEN Never(v.lines, p) ELSE Once(v.lines, p)
    /\ kind = "context_start" => (v.pending["context"] = p <=> ~Seen(r, "context_done", p, a))
    /\ kind \in AtOnce => Once(v.lines, p)

\* A line of calls shows one call, and says it failed only if it did.
PairLine(r, line) ==
    line.label \in CallSlots =>
        /\ \A p, q \in line.sources : r[p].n = r[q].n
        /\ (\A p \in line.sources : r[p].kind = StartOf(line.label)) =>
              \A p \in line.sources, q \in 1 .. Len(r) :
                  ~(r[q].kind = DoneOf(line.label) /\ r[q].n = r[p].n)

\* Text is on a line that reads as an answer.
TextLine(r, line) ==
    \A p \in line.sources :
        r[p].kind = "text" => line.label = "answer" /\ ~line.placeholder

GoodLine(r, line, a) ==
    line.sources \subseteq 1 .. a - 1 /\ PairLine(r, line) /\ TextLine(r, line)

LinesInv(r, v, a) == \A i \in 1 .. Len(v.lines) : GoodLine(r, v.lines[i], a)

HeldInv(r, v, a) ==
    /\ \A p \in v.block : p \in 1 .. a - 1 /\ r[p].kind = v.kind
    /\ \A slot \in Slots : v.pending[slot] # 0 =>
          v.pending[slot] \in 1 .. a - 1 /\ r[v.pending[slot]].kind = StartOf(slot)

AnswerInv(r, v, a) ==
    /\ v.answerAt <= Len(v.lines)
    /\ v.answerAt # 0 => \E p \in 1 .. a - 1 : r[p].kind = "text"

Core(r, v, a) ==
    /\ v \in View /\ LinesInv(r, v, a) /\ HeldInv(r, v, a) /\ AnswerInv(r, v, a)
    /\ \A p \in 1 .. a - 1 : Kept(r, v, p, a)

\* The start in a slot is the last event that is no delta.
SlotInv(r, v, slot, a) ==
    \A p \in 1 .. a - 1 :
        r[p].kind = StartOf(slot) => (v.pending[slot] = p <=> OnlyDeltas(r, p, a))

ViewInv(r, v, a) ==
    Core(r, v, a) /\ \A slot \in CallSlots : SlotInv(r, v, slot, a)

(***************************************************************************)
(* What holds of the lines that format_trace returns.                      *)
(***************************************************************************)
Final(r, lines, p) ==
    LET kind == r[p].kind
        done == Seen(r, "context_done", p, Len(r) + 1) IN
    /\ kind = "turn_start" => Never(lines, p)
    /\ kind \in DeltaKinds => Once(lines, p) \/ (~r[p].text /\ Never(lines, p))
    /\ kind = "context_start" => IF done THEN Once(lines, p) ELSE Never(lines, p)
    /\ kind \in AtOnce \cup {"llm_start", "tool_start"} => Once(lines, p)

FinalLines(r, lines) ==
    /\ lines \in Seq(Line)
    /\ \A p \in 1 .. Len(r) : Final(r, lines, p)
    /\ \A i \in 1 .. Len(lines) : PairLine(r, lines[i]) /\ TextLine(r, lines[i])

\* The end of the turn is on the last line.
EndLast(r, lines) ==
    \A q \in 1 .. Len(r) :
        r[q].kind = "turn_done" => Len(lines) > 0 /\ q \in lines[Len(lines)].sources

\* A line reads as the answer of a turn that ended at q.
AnswerLine(r, line, q) ==
    /\ line.label = "answer" /\ ~line.placeholder
    /\ q \in line.sources \/ \E p \in line.sources : r[p].n = r[q].n

Readable(r, lines) ==
    \A q \in 1 .. Len(r) :
        /\ r[q].kind = "turn_done" /\ r[q].text
        /\ r[q].n = 0 => \A p \in 1 .. Len(r) : r[p].kind # "text"
        => \E i \in 1 .. Len(lines) : AnswerLine(r, lines[i], q)

Rendered(r, lines) == FinalLines(r, lines) /\ EndLast(r, lines) /\ Readable(r, lines)

RenderInv ==
    /\ Grammar(records) /\ at \in 1 .. Len(records) + 1
    /\ Running => TurnInv /\ at = 1 /\ view = View0 /\ ~rendered
    /\ ~rendered => ViewInv(records, view, at)
    /\ rendered => at = Len(records) + 1 /\ Rendered(records, view.lines)

(***************************************************************************)
(* Events emitted.                                                         *)
(***************************************************************************)
LEMMA KindFacts ==
  /\ StartOf("context") = "context_start" /\ DoneOf("context") = "context_done"
  /\ StartOf("llm") = "llm_start" /\ DoneOf("llm") = "llm_done"
  /\ StartOf("tool") = "tool_start" /\ DoneOf("tool") = "tool_done"
  /\ CallSlots \subseteq Slots /\ DeltaKinds = {"text", "thinking"}
BY DEF StartOf, DoneOf, CallSlots, Slots, DeltaKinds

LEMMA CountType ==
  ASSUME NEW r \in Seq(Event), NEW kind
  PROVE  CountIn(r, kind) \in Nat
<1> DEFINE S == {p \in DOMAIN r : r[p].kind = kind}
<1>1. IsFiniteSet(1 .. Len(r)) /\ S \subseteq 1 .. Len(r)
  BY FS_Interval
<1>2. IsFiniteSet(S)
  BY <1>1, FS_Subset
<1>3. QED
  BY <1>2, FS_CardinalityType DEF CountIn

LEMMA CountAppend ==
  ASSUME NEW r \in Seq(Event), NEW e \in Event, NEW kind
  PROVE  CountIn(Append(r, e), kind) =
            IF e.kind = kind THEN CountIn(r, kind) + 1 ELSE CountIn(r, kind)
<1> DEFINE s == Append(r, e)
           S == {p \in DOMAIN r : r[p].kind = kind}
           T == {p \in DOMAIN s : s[p].kind = kind}
<1>1. /\ DOMAIN s = 1 .. Len(r) + 1 /\ s[Len(r) + 1] = e
      /\ \A p \in 1 .. Len(r) : s[p] = r[p]
      /\ DOMAIN r = 1 .. Len(r) /\ Len(r) \in Nat
  OBVIOUS
<1>2. IsFiniteSet(1 .. Len(r)) /\ S \subseteq 1 .. Len(r)
  BY FS_Interval
<1>3. IsFiniteSet(S) /\ Len(r) + 1 \notin S
  BY <1>2, FS_Subset
<1>4. T = IF e.kind = kind THEN S \cup {Len(r) + 1} ELSE S
  <2> HIDE DEF s
  <2>. QED BY <1>1
<1>5. Cardinality(T) = IF e.kind = kind THEN Cardinality(S) + 1 ELSE Cardinality(S)
  BY <1>3, <1>4, FS_AddElement
<1>6. QED
  BY <1>5 DEF CountIn

\* An event may follow the events r of a turn.
Follows(r, e) ==
    /\ e.kind \in {"context_start", "turn_done"} => Lacks(r, e.kind)
    /\ \A slot \in CallSlots :
         /\ e.kind = StartOf(slot) =>
              \A p \in 1 .. Len(r) : r[p].kind = StartOf(slot) => r[p].n # e.n
         /\ e.kind = DoneOf(slot) => BegunAt(r, slot, e.n, Len(r) + 1)
    /\ e.kind = "turn_done" /\ e.n # 0 /\ e.text => ToldBefore(r, e.n, Len(r) + 1)

\* What was said of the events before a is said of them in a longer trace.
LEMMA SameBefore ==
  ASSUME NEW r, NEW s, NEW a \in Nat, \A p \in 1 .. a - 1 : s[p] = r[p]
  PROVE  \A n : /\ ToldBefore(r, n, a) <=> ToldBefore(s, n, a)
               /\ \A slot : BegunAt(r, slot, n, a) <=> BegunAt(s, slot, n, a)
<1>1. ASSUME NEW n PROVE ToldBefore(r, n, a) <=> ToldBefore(s, n, a)
  BY DEF ToldBefore
<1>2. ASSUME NEW p \in 1 .. a - 1
      PROVE  OnlyDeltas(r, p, a) <=> OnlyDeltas(s, p, a)
  BY DEF OnlyDeltas
<1>3. ASSUME NEW n, NEW slot
      PROVE  BegunAt(r, slot, n, a) <=> BegunAt(s, slot, n, a)
  BY <1>2 DEF BegunAt
<1>4. QED
  BY <1>1, <1>3

LEMMA Extend ==
  ASSUME NEW r, Grammar(r), NEW e \in Event, Follows(r, e)
  PROVE  Grammar(Append(r, e))
<1> DEFINE s == Append(r, e)
           m == Len(r) + 1
<1>1. /\ s \in Seq(Event) /\ Len(s) = m /\ m \in Nat \ {0} /\ s[m] = e
      /\ \A p \in 1 .. m - 1 : s[p] = r[p]
      /\ Len(r) = m - 1
  BY Sequences DEF Grammar
<1> HIDE DEF s, m
<1>2. OnceInATurn(s)
  BY <1>1 DEF Grammar, OnceInATurn, Follows, Lacks
<1>3. Numbered(s)
  BY <1>1 DEF Grammar, Numbered, Follows
<1>4. ASSUME NEW slot \in CallSlots, NEW q \in 1 .. m, s[q].kind = DoneOf(slot)
      PROVE  BegunAt(s, slot, s[q].n, q)
  <2>1. BegunAt(r, slot, s[q].n, q)
    BY <1>1, <1>4 DEF Grammar, Begun, Follows
  <2>2. \A p \in 1 .. q - 1 : s[p] = r[p]
    BY <1>1
  <2>3. q \in Nat
    BY <1>1
  <2>4. QED
    BY <2>1, <2>2, <2>3, SameBefore
<1>5. ASSUME NEW q \in 1 .. m, s[q].kind = "turn_done", s[q].n # 0, s[q].text
      PROVE  ToldBefore(s, s[q].n, q)
  <2>1. ToldBefore(r, s[q].n, q)
    BY <1>1, <1>5 DEF Grammar, Told, Follows
  <2>2. \A p \in 1 .. q - 1 : s[p] = r[p]
    BY <1>1
  <2>3. q \in Nat
    BY <1>1
  <2>4. QED
    BY <2>1, <2>2, <2>3, SameBefore
<1>6. QED
  BY <1>1, <1>2, <1>3, <1>4, <1>5 DEF Grammar, Begun, Told, s

LEMMA Prefix ==
  ASSUME NEW r, Grammar(r), NEW n \in 0 .. Len(r)
  PROVE  Grammar(SubSeq(r, 1, n)) /\ Len(SubSeq(r, 1, n)) = n
<1> DEFINE s == SubSeq(r, 1, n)
<1>1. /\ s \in Seq(Event) /\ Len(s) = n /\ \A p \in 1 .. n : s[p] = r[p]
      /\ n \in Nat /\ 1 .. n \subseteq 1 .. Len(r)
  BY DEF Grammar
<1> HIDE DEF s
<1>2. OnceInATurn(s) /\ Numbered(s)
  BY <1>1 DEF Grammar, OnceInATurn, Numbered
<1>3. ASSUME NEW slot \in CallSlots, NEW q \in 1 .. n, s[q].kind = DoneOf(slot)
      PROVE  BegunAt(s, slot, s[q].n, q)
  <2>1. BegunAt(r, slot, s[q].n, q)
    BY <1>1, <1>3 DEF Grammar, Begun
  <2>2. \A p \in 1 .. q - 1 : s[p] = r[p]
    BY <1>1
  <2>3. q \in Nat
    BY <1>1
  <2>4. QED
    BY <2>1, <2>2, <2>3, SameBefore
<1>4. ASSUME NEW q \in 1 .. n, s[q].kind = "turn_done", s[q].n # 0, s[q].text
      PROVE  ToldBefore(s, s[q].n, q)
  <2>1. ToldBefore(r, s[q].n, q)
    BY <1>1, <1>4 DEF Grammar, Told
  <2>2. \A p \in 1 .. q - 1 : s[p] = r[p]
    BY <1>1
  <2>3. q \in Nat
    BY <1>1
  <2>4. QED
    BY <2>1, <2>2, <2>3, SameBefore
<1>5. QED
  BY <1>1, <1>2, <1>3, <1>4 DEF Grammar, Begun, Told, s

\* Emitting events one after the other.
LEMMA Longer ==
  ASSUME NEW r \in Seq(Event), NEW s \in Seq(Event), NEW e \in Event
  PROVE  /\ s \o <<e>> \in Seq(Event) /\ r \o (s \o <<e>>) = Append(r \o s, e)
         /\ s \o <<>> = s /\ <<>> \o s = s
OBVIOUS

LEMMA One ==
  ASSUME NEW r \in Seq(Event), NEW a \in Event
  PROVE  <<a>> \in Seq(Event) /\ r \o <<a>> = Append(r, a)
OBVIOUS

LEMMA Two ==
  ASSUME NEW r \in Seq(Event), NEW a \in Event, NEW b \in Event
  PROVE  <<a, b>> \in Seq(Event) /\ r \o <<a, b>> = Append(Append(r, a), b)
OBVIOUS

LEMMA Three ==
  ASSUME NEW r \in Seq(Event), NEW a \in Event, NEW b \in Event, NEW c \in Event
  PROVE  r \o <<a, b, c>> = Append(Append(Append(r, a), b), c)
OBVIOUS

LEMMA Four ==
  ASSUME NEW r \in Seq(Event), NEW a \in Event, NEW b \in Event, NEW c \in Event,
         NEW d \in Event
  PROVE  r \o <<a, b, c, d>> = Append(Append(Append(Append(r, a), b), c), d)
OBVIOUS

LEMMA EvType ==
  ASSUME NEW kind \in EventKinds, NEW n \in Nat
  PROVE  /\ Ev(kind, n) \in Event
         /\ Ev(kind, n).kind = kind /\ Ev(kind, n).n = n /\ Ev(kind, n).text = FALSE
BY DEF Event, Ev

LEMMA TurnDoneType ==
  ASSUME NEW n \in Nat, NEW text \in BOOLEAN
  PROVE  /\ TurnDone(n, text) \in Event
         /\ TurnDone(n, text).kind = "turn_done"
         /\ TurnDone(n, text).n = n /\ TurnDone(n, text).text = text
BY DEF Event, TurnDone, EventKinds

LEMMA Keeps ==
  ASSUME NEW r \in Seq(Event), NEW e \in Event
  PROVE  LET s == Append(r, e) IN
         /\ s \in Seq(Event)
         /\ \A n : ToldBefore(r, n, Len(r) + 1) => ToldBefore(s, n, Len(s) + 1)
         /\ e.kind \in DeltaKinds =>
              \A slot, n : BegunAt(r, slot, n, Len(r) + 1) => BegunAt(s, slot, n, Len(s) + 1)
         /\ e.kind = "text" /\ e.text => ToldBefore(s, e.n, Len(s) + 1)
         /\ \A slot : e.kind = StartOf(slot) => BegunAt(s, slot, e.n, Len(s) + 1)
<1> DEFINE s == Append(r, e)
           m == Len(r) + 1
<1>1. /\ s \in Seq(Event) /\ Len(s) = m /\ m \in Nat \ {0} /\ s[m] = e
      /\ \A p \in 1 .. m - 1 : s[p] = r[p]
      /\ Len(r) = m - 1
  BY Sequences
<1> HIDE DEF s, m
<1>2. ASSUME NEW n, ToldBefore(r, n, m) PROVE ToldBefore(s, n, m + 1)
  BY <1>1, <1>2 DEF ToldBefore
<1>3. ASSUME e.kind \in DeltaKinds, NEW slot, NEW n, BegunAt(r, slot, n, m)
      PROVE  BegunAt(s, slot, n, m + 1)
  <2>1. PICK p \in 1 .. m - 1 :
            r[p].kind = StartOf(slot) /\ r[p].n = n /\ OnlyDeltas(r, p, m)
    BY <1>3 DEF BegunAt
  <2>2. OnlyDeltas(s, p, m + 1)
    BY <1>1, <1>3, <2>1 DEF OnlyDeltas
  <2>3. QED
    BY <1>1, <2>1, <2>2 DEF BegunAt
<1>4. ASSUME e.kind = "text", e.text PROVE ToldBefore(s, e.n, m + 1)
  BY <1>1, <1>4 DEF ToldBefore
<1>5. ASSUME NEW slot, e.kind = StartOf(slot)
      PROVE  BegunAt(s, slot, e.n, m + 1)
  <2>1. OnlyDeltas(s, m, m + 1)
    BY <1>1 DEF OnlyDeltas
  <2>2. QED
    BY <1>1, <1>5, <2>1 DEF BegunAt
<1>6. QED
  BY <1>1, <1>2, <1>3, <1>4, <1>5 DEF s, m

LEMMA CountedAppend ==
  ASSUME NEW r \in Seq(Event), CallsCounted(r), NEW e \in Event,
         \A slot \in CallSlots :
            e.kind = StartOf(slot) => e.n <= CountIn(r, StartOf(slot)) + 1
  PROVE  CallsCounted(Append(r, e))
<1> DEFINE s == Append(r, e)
<1>1. /\ Len(s) = Len(r) + 1 /\ Len(r) \in Nat /\ s[Len(r) + 1] = e
      /\ \A p \in 1 .. Len(r) : s[p] = r[p] /\ r[p] \in Event
  BY Sequences
<1> HIDE DEF s
<1>2. ASSUME NEW slot \in CallSlots, NEW p \in 1 .. Len(s), s[p].kind = StartOf(slot)
      PROVE  s[p].n <= CountIn(s, StartOf(slot))
  <2>1. /\ CountIn(r, StartOf(slot)) \in Nat
        /\ CountIn(s, StartOf(slot)) = IF e.kind = StartOf(slot)
                                       THEN CountIn(r, StartOf(slot)) + 1
                                       ELSE CountIn(r, StartOf(slot))
    BY CountType, CountAppend DEF s
  <2>2. CASE p = Len(r) + 1
    BY <1>1, <1>2, <2>1, <2>2
  <2>3. CASE p \in 1 .. Len(r)
    <3>1. s[p] = r[p] /\ r[p].n <= CountIn(r, StartOf(slot)) /\ r[p].n \in Nat
      BY <1>1, <1>2, <2>3 DEF CallsCounted, Event
    <3>2. QED
      BY <2>1, <3>1
  <2>4. QED
    BY <1>1, <2>2, <2>3
<1>3. QED
  BY <1>2 DEF CallsCounted, s

\* Events that neither open nor close anything.
Plain == EventKinds \ {"context_start", "turn_done", "llm_start", "llm_done",
                       "tool_start", "tool_done"}

LEMMA PlainGoesOn ==
  ASSUME NEW r, GoingOn(r), NEW e \in Event, e.kind \in Plain
  PROVE  GoingOn(Append(r, e))
<1>1. r \in Seq(Event) /\ Follows(r, e)
  BY KindFacts DEF GoingOn, Grammar, Follows, Plain, CallSlots
<1>2. Grammar(Append(r, e))
  BY <1>1, Extend DEF GoingOn
<1>3. CallsCounted(Append(r, e))
  BY <1>1, CountedAppend, KindFacts DEF GoingOn, Plain, CallSlots
<1>4. Lacks(Append(r, e), "turn_done")
  BY <1>1, Sequences DEF GoingOn, Lacks, Plain
<1>5. QED
  BY <1>2, <1>3, <1>4 DEF GoingOn

LEMMA StartGoesOn ==
  ASSUME NEW r, GoingOn(r), NEW slot \in CallSlots
  PROVE  LET e == Ev(StartOf(slot), CountIn(r, StartOf(slot)) + 1)
             s == Append(r, e)
         IN  GoingOn(s) /\ e \in Event /\ BegunAt(s, slot, e.n, Len(s) + 1)
             /\ e.n = CountIn(s, StartOf(slot))
<1> DEFINE c == CountIn(r, StartOf(slot))
           e == Ev(StartOf(slot), c + 1)
           s == Append(r, e)
<1>1. r \in Seq(Event) /\ c \in Nat
  BY CountType DEF GoingOn, Grammar
<1>2. StartOf(slot) \in {"llm_start", "tool_start"} /\ StartOf(slot) \in EventKinds
  BY KindFacts DEF CallSlots, EventKinds
<1>3. e \in Event /\ e.kind = StartOf(slot) /\ e.n = c + 1
  <2>1. c + 1 \in Nat
    BY <1>1
  <2> HIDE DEF c
  <2>2. QED
    BY <1>2, <2>1, EvType
<1> HIDE DEF e
<1>4. Follows(r, e)
  <2>1. ASSUME NEW p \in 1 .. Len(r), r[p].kind = StartOf(slot) PROVE r[p].n # e.n
    <3>1. r[p].n <= c
      BY <2>1 DEF GoingOn, CallsCounted
    <3>2. r[p] \in Event
      BY <1>1
    <3>3. r[p].n \in Nat
      BY <3>2 DEF Event
    <3> HIDE DEF c
    <3>4. QED
      BY <1>1, <1>3, <3>1, <3>3
  <2>2. \A other \in CallSlots : e.kind = StartOf(other) => other = slot
    BY <1>3, KindFacts DEF CallSlots
  <2>3. \A other \in CallSlots : e.kind # DoneOf(other)
    BY <1>2, <1>3, KindFacts DEF CallSlots
  <2>4. QED
    BY <1>2, <1>3, <2>1, <2>2, <2>3 DEF Follows
<1>5. Grammar(s)
  BY <1>3, <1>4, Extend DEF GoingOn
<1>6. CallsCounted(s)
  <2>1. \A other \in CallSlots : e.kind = StartOf(other) => other = slot
    BY <1>3, KindFacts DEF CallSlots
  <2>2. e.n <= c + 1
    BY <1>1, <1>3
  <2>3. QED
    BY <1>1, <1>3, <2>1, <2>2, CountedAppend DEF GoingOn
<1>7. Lacks(s, "turn_done")
  BY <1>1, <1>2, <1>3, Sequences DEF GoingOn, Lacks
<1>8. BegunAt(s, slot, e.n, Len(s) + 1)
  BY <1>1, <1>3, Keeps
<1>9. e.n = CountIn(s, StartOf(slot))
  BY <1>1, <1>3, CountAppend
<1>10. QED
  BY <1>3, <1>5, <1>6, <1>7, <1>8, <1>9 DEF GoingOn, e

LEMMA DoneGoesOn ==
  ASSUME NEW r, GoingOn(r), NEW slot \in CallSlots, NEW n \in Nat,
         BegunAt(r, slot, n, Len(r) + 1)
  PROVE  Ev(DoneOf(slot), n) \in Event /\ GoingOn(Append(r, Ev(DoneOf(slot), n)))
<1> DEFINE e == Ev(DoneOf(slot), n)
<1>1. r \in Seq(Event)
  BY DEF GoingOn, Grammar
<1>2. DoneOf(slot) \in {"llm_done", "tool_done"} /\ DoneOf(slot) \in EventKinds
  BY KindFacts DEF CallSlots, EventKinds
<1>3. e \in Event /\ e.kind = DoneOf(slot) /\ e.n = n
  BY <1>2, EvType
<1> HIDE DEF e
<1>4. /\ \A other \in CallSlots : e.kind # StartOf(other)
      /\ \A other \in CallSlots : e.kind = DoneOf(other) => other = slot
  BY <1>2, <1>3, KindFacts DEF CallSlots
<1>5. Follows(r, e)
  BY <1>2, <1>3, <1>4 DEF Follows
<1>6. Grammar(Append(r, e))
  BY <1>3, <1>5, Extend DEF GoingOn
<1>7. CallsCounted(Append(r, e))
  BY <1>1, <1>3, <1>4, CountedAppend DEF GoingOn
<1>8. Lacks(Append(r, e), "turn_done")
  BY <1>1, <1>2, <1>3, Sequences DEF GoingOn, Lacks
<1>9. QED
  BY <1>3, <1>6, <1>7, <1>8 DEF GoingOn, e

LEMMA EndsTurn ==
  ASSUME NEW r, GoingOn(r), NEW n \in Nat, NEW text \in BOOLEAN,
         n # 0 /\ text => ToldBefore(r, n, Len(r) + 1)
  PROVE  LET s == Append(r, TurnDone(n, text))
         IN  Grammar(s) /\ CallsCounted(s)
<1> DEFINE e == TurnDone(n, text)
<1>1. r \in Seq(Event)
  BY DEF GoingOn, Grammar
<1>2. e \in Event /\ e.kind = "turn_done" /\ e.n = n /\ e.text = text
  BY TurnDoneType
<1> HIDE DEF e
<1>3. \A slot \in CallSlots : e.kind # StartOf(slot) /\ e.kind # DoneOf(slot)
  BY <1>2, KindFacts DEF CallSlots
<1>4. Follows(r, e)
  BY <1>2, <1>3 DEF Follows, GoingOn
<1>5. Grammar(Append(r, e)) /\ CallsCounted(Append(r, e))
  BY <1>1, <1>2, <1>3, <1>4, Extend, CountedAppend DEF GoingOn
<1>6. QED
  BY <1>5 DEF e

\* r is what a turn emitted that goes on, and told says whether it has told
\* the text of call n.
Going(r, told, n) ==
    GoingOn(r) /\ (told => ToldBefore(r, n, Len(r) + 1))

LEMMA PlainGoing ==
  ASSUME NEW r, NEW told, NEW n, Going(r, told, n), NEW e \in Event, e.kind \in Plain
  PROVE  Going(Append(r, e), told, n)
<1>1. r \in Seq(Event)
  BY DEF Going, GoingOn, Grammar
<1>2. QED
  BY <1>1, PlainGoesOn, Keeps DEF Going

LEMMA PlainEv ==
  ASSUME NEW kind \in Plain, NEW n \in Nat
  PROVE  Ev(kind, n) \in Event /\ Ev(kind, n).kind \in Plain
BY EvType DEF Plain

LEMMA StartGoing ==
  ASSUME NEW r, NEW told, NEW n, Going(r, told, n), NEW slot \in CallSlots
  PROVE  LET e == Ev(StartOf(slot), CountIn(r, StartOf(slot)) + 1)
             s == Append(r, e)
         IN  Going(s, told, n) /\ e \in Event /\ BegunAt(s, slot, e.n, Len(s) + 1)
             /\ e.n = CountIn(s, StartOf(slot))
<1>1. r \in Seq(Event)
  BY DEF Going, GoingOn, Grammar
<1>2. QED
  BY <1>1, StartGoesOn, Keeps DEF Going

LEMMA DoneGoing ==
  ASSUME NEW r, NEW told, NEW n, Going(r, told, n), NEW slot \in CallSlots,
         NEW c \in Nat, BegunAt(r, slot, c, Len(r) + 1)
  PROVE  Ev(DoneOf(slot), c) \in Event /\ Going(Append(r, Ev(DoneOf(slot), c)), told, n)
<1>1. r \in Seq(Event)
  BY DEF Going, GoingOn, Grammar
<1>2. QED
  BY <1>1, DoneGoesOn, Keeps DEF Going

LEMMA EndsTold ==
  ASSUME NEW r, NEW told, NEW k, Going(r, told, k), NEW n \in Nat, NEW text \in BOOLEAN,
         n # 0 /\ text => ToldBefore(r, n, Len(r) + 1)
  PROVE  LET s == Append(r, TurnDone(n, text))
         IN  /\ Grammar(s) /\ CallsCounted(s)
             /\ told => ToldBefore(s, k, Len(s) + 1)
<1>1. r \in Seq(Event) /\ TurnDone(n, text) \in Event
  BY TurnDoneType DEF Going, GoingOn, Grammar
<1>2. QED
  BY <1>1, EndsTurn, Keeps DEF Going

SpokeText == streaming /\ reply.text

LEMMA GoingNow ==
  ASSUME Grammar(records), TurnInv, phase # "done"
  PROVE  /\ Going(records, SpokeText, reply.n) /\ records \in Seq(Event)
         /\ reply.n \in Nat /\ reply.text \in BOOLEAN
         /\ ThisCall = CountIn(records, "llm_start") /\ ThisCall \in Nat
<1>1. records \in Seq(Event)
  BY DEF Grammar
<1>2. ThisCall = CountIn(records, "llm_start") /\ ThisCall \in Nat
  BY <1>1, CountType DEF ThisCall, Count, CountIn
<1>3. reply.n \in Nat /\ reply.text \in BOOLEAN
  BY DEF TurnInv
<1>4. QED
  BY <1>1, <1>2, <1>3 DEF Going, GoingOn, TurnInv, SpokeText

\* Enough for the invariant after a step that leaves the reply as it is.
LEMMA StillGoing ==
  ASSUME TurnInv, streaming' = streaming, reply' = reply,
         Going(records', SpokeText, reply.n), phase' # "start",
         phase' = "answering" =>
            BegunAt(records', "llm", CountIn(records', "llm_start"), Len(records') + 1)
  PROVE  Grammar(records') /\ TurnInv'
<1>1. ThisCall' = CountIn(records', "llm_start")
  BY DEF ThisCall, Count, CountIn
<1>2. QED
  BY <1>1 DEF TurnInv, Going, GoingOn, SpokeText

LEMMA BeginKeeps ==
  ASSUME Grammar(records), TurnInv, Begin
  PROVE  Grammar(records') /\ TurnInv'
<1> DEFINE a == Ev("turn_start", 0)
           b == Ev("context_start", 0)
           r1 == Append(records, a)
           r2 == Append(r1, b)
           G(r) == Going(r, SpokeText, reply.n)
<1>1. records = <<>> /\ records \in Seq(Event) /\ G(records)
  BY GoingNow DEF Begin, TurnInv
<1>2. /\ a \in Event /\ a.kind = "turn_start" /\ a.kind \in Plain
      /\ b \in Event /\ b.kind = "context_start"
  <2>1. "turn_start" \in Plain /\ "turn_start" \in EventKinds
    BY DEF EventKinds, Plain
  <2>2. "context_start" \in EventKinds
    BY DEF EventKinds
  <2>3. 0 \in Nat
    OBVIOUS
  <2>4. a \in Event /\ a.kind = "turn_start"
    BY <2>1, <2>3, EvType
  <2>5. b \in Event /\ b.kind = "context_start"
    BY <2>2, <2>3, EvType
  <2>6. QED
    BY <2>1, <2>4, <2>5
<1>c. Ev("context_done", 0) \in Event /\ Ev("context_done", 0).kind \in Plain
  BY PlainEv DEF Plain, EventKinds
<1>d. Ev("prompt_built", 0) \in Event /\ Ev("prompt_built", 0).kind \in Plain
  BY PlainEv DEF Plain, EventKinds
<1>e. Ev("error", 0) \in Event /\ Ev("error", 0).kind \in Plain
  BY PlainEv DEF Plain, EventKinds
<1> HIDE DEF a, b
<1>3. G(r1)
  BY <1>1, <1>2, PlainGoing
<1>4. r1 \in Seq(Event) /\ Lacks(r1, "context_start")
  BY <1>1, <1>2, Sequences DEF Lacks
<1> HIDE DEF r1
<1>5. Follows(r1, b)
  BY <1>2, <1>4, KindFacts DEF Follows, CallSlots
<1>6. Grammar(r2)
  BY <1>2, <1>3, <1>5, Extend DEF Going, GoingOn
<1>7. CallsCounted(r2)
  BY <1>2, <1>3, <1>4, CountedAppend, KindFacts DEF Going, GoingOn, CallSlots
<1>8. Lacks(r2, "turn_done")
  BY <1>2, <1>3, <1>4, Sequences DEF Going, GoingOn, Lacks
<1>9. G(r2) /\ r2 \in Seq(Event)
  BY <1>2, <1>3, <1>4, <1>6, <1>7, <1>8, Keeps DEF Going, GoingOn
<1>10. /\ streaming' = streaming /\ reply' = reply
       /\ phase' # "start" /\ phase' # "answering"
  BY DEF Begin
<1>11. CASE records' = records \o <<a, b, Ev("context_done", 0), Ev("prompt_built", 0)>>
  <2>1. records' = Append(Append(r2, Ev("context_done", 0)), Ev("prompt_built", 0))
    BY <1>1, <1>2, <1>c, <1>d, <1>11, Four DEF r1
  <2> HIDE DEF r2
  <2>2. G(Append(r2, Ev("context_done", 0)))
    BY <1>9, <1>c, PlainGoing
  <2>3. G(records')
    BY <1>d, <2>1, <2>2, PlainGoing
  <2> HIDE DEF G
  <2>4. QED
    BY <1>10, <2>3, StillGoing DEF G
<1>12. CASE records' = records \o <<a, b, Ev("error", 0)>>
  <2>1. records' = Append(r2, Ev("error", 0))
    BY <1>1, <1>2, <1>e, <1>12, Three DEF r1
  <2> HIDE DEF r2
  <2>3. G(records')
    BY <1>9, <1>e, <2>1, PlainGoing
  <2>4. QED
    BY <1>10, <2>3, StillGoing DEF G
<1>13. CASE records' = records \o <<a, b, Ev("context_done", 0), Ev("error", 0)>>
  <2>1. records' = Append(Append(r2, Ev("context_done", 0)), Ev("error", 0))
    BY <1>1, <1>2, <1>c, <1>e, <1>13, Four DEF r1
  <2> HIDE DEF r2
  <2>2. G(Append(r2, Ev("context_done", 0)))
    BY <1>9, <1>c, PlainGoing
  <2>3. G(records')
    BY <1>e, <2>1, <2>2, PlainGoing
  <2> HIDE DEF G
  <2>4. QED
    BY <1>10, <2>3, StillGoing DEF G
<1>14. QED
  BY <1>11, <1>12, <1>13 DEF Begin, Emit, a, b

LEMMA CallStartKeeps ==
  ASSUME Grammar(records), TurnInv, CallStart
  PROVE  Grammar(records') /\ TurnInv'
<1> DEFINE e == Ev(StartOf("llm"), CountIn(records, StartOf("llm")) + 1)
           s == Append(records, e)
<1>1. /\ Going(records, SpokeText, reply.n) /\ records \in Seq(Event)
      /\ ThisCall = CountIn(records, "llm_start")
  BY GoingNow DEF CallStart
<1>2. /\ Going(s, SpokeText, reply.n) /\ e \in Event
      /\ BegunAt(s, "llm", e.n, Len(s) + 1) /\ e.n = CountIn(s, StartOf("llm"))
  BY <1>1, StartGoing DEF CallSlots
<1>3. records' = s
  BY <1>1, <1>2, One, KindFacts DEF CallStart, Emit
<1>4. /\ streaming' = streaming /\ reply' = reply /\ phase' = "answering"
  BY DEF CallStart
<1> HIDE DEF e, s
<1>5. QED
  BY <1>2, <1>3, <1>4, StillGoing, KindFacts

LEMMA DeltaKeeps ==
  ASSUME Grammar(records), TurnInv, Delta
  PROVE  Grammar(records') /\ TurnInv'
<1>1. PICK kind \in DeltaKinds, text \in BOOLEAN :
         Emit(<<[kind |-> kind, n |-> ThisCall, text |-> text]>>)
  BY Zenon DEF Delta
<1> DEFINE e == [kind |-> kind, n |-> ThisCall, text |-> text]
<1>2. /\ Going(records, SpokeText, reply.n) /\ records \in Seq(Event)
      /\ ThisCall \in Nat /\ ThisCall = CountIn(records, "llm_start")
  BY GoingNow DEF Delta
<1>3. e \in Event /\ e.kind \in DeltaKinds /\ e.kind \in Plain /\ e.kind # "llm_start"
  BY <1>2 DEF Event, EventKinds, DeltaKinds, Plain
<1>4. records' = Append(records, e)
  BY <1>1, <1>2, <1>3, One DEF Emit
<1> HIDE DEF e
<1>5. Going(records', SpokeText, reply.n)
  BY <1>2, <1>3, <1>4, PlainGoing
<1>6. BegunAt(records, "llm", CountIn(records, "llm_start"), Len(records) + 1)
  BY <1>2 DEF Delta, TurnInv
<1>7. CountIn(records', "llm_start") = CountIn(records, "llm_start")
  BY <1>2, <1>3, <1>4, CountAppend
<1>8. BegunAt(records', "llm", CountIn(records', "llm_start"), Len(records') + 1)
  BY <1>2, <1>3, <1>4, <1>6, <1>7, Keeps
<1>9. streaming' = streaming /\ reply' = reply /\ phase' # "start"
  BY DEF Delta, turn
<1>10. QED
  BY <1>5, <1>8, <1>9, StillGoing

\* The text of the call under way is among the records.
LEMMA TextTold ==
  ASSUME AnyText, records \in Seq(Event)
  PROVE  ToldBefore(records, ThisCall, Len(records) + 1)
<1>1. PICK p \in DOMAIN records :
         records[p].kind = "text" /\ records[p].n = ThisCall /\ records[p].text
  BY DEF AnyText, Texts, Deltas
<1>2. p \in 1 .. Len(records) + 1 - 1
  OBVIOUS
<1>3. QED
  BY <1>1, <1>2 DEF ToldBefore

LEMMA CallDoneKeeps ==
  ASSUME Grammar(records), TurnInv, CallDone
  PROVE  Grammar(records') /\ TurnInv'
<1> DEFINE e == Ev(DoneOf("llm"), ThisCall)
           s == Append(records, e)
<1>1. PICK text \in BOOLEAN :
         (streaming => text = AnyText) /\ reply' = [n |-> ThisCall, text |-> text]
  BY Zenon DEF CallDone
<1>2. /\ phase # "done" /\ phase = "answering" /\ streaming' = streaming
      /\ phase' \in {"tools", "reply"} /\ records' = records \o <<Ev("llm_done", ThisCall)>>
  BY DEF CallDone, Emit
<1>3. /\ Going(records, streaming /\ text, ThisCall) /\ records \in Seq(Event)
      /\ ThisCall \in Nat
      /\ BegunAt(records, "llm", ThisCall, Len(records) + 1)
  BY <1>1, <1>2, GoingNow, TextTold DEF Going, TurnInv
<1>4. e \in Event /\ Going(s, streaming /\ text, ThisCall)
  BY <1>3, DoneGoing DEF CallSlots
<1>5. records' = s
  BY <1>2, <1>3, <1>4, One, KindFacts
<1> HIDE DEF e, s
<1>6. reply' \in [n : Nat, text : BOOLEAN] /\ reply'.n = ThisCall /\ reply'.text = text
  BY <1>1, <1>3
<1>7. QED
  BY <1>2, <1>4, <1>5, <1>6 DEF TurnInv, Going, GoingOn

LEMMA RetryCallKeeps ==
  ASSUME Grammar(records), TurnInv, RetryCall
  PROVE  Grammar(records') /\ TurnInv'
<1> DEFINE e == Ev("retry", ThisCall)
<1>1. /\ phase = "answering" /\ streaming' = streaming /\ reply' = reply
      /\ phase' = "call" /\ records' = records \o <<e>>
  BY DEF RetryCall, Emit
<1>2. /\ Going(records, SpokeText, reply.n) /\ records \in Seq(Event)
      /\ ThisCall \in Nat
  BY <1>1, GoingNow
<1>3. e \in Event /\ e.kind \in Plain
  <2>1. "retry" \in Plain
    BY DEF Plain, EventKinds
  <2>2. ThisCall \in Nat
    BY <1>2
  <2>3. QED
    BY <2>1, <2>2, PlainEv
<1> HIDE DEF e
<1>4. Going(records', SpokeText, reply.n)
  BY <1>1, <1>2, <1>3, One, PlainGoing
<1>5. QED
  BY <1>1, <1>4, StillGoing

LEMMA SalvageKeeps ==
  ASSUME Grammar(records), TurnInv, Salvage
  PROVE  Grammar(records') /\ TurnInv'
<1>1. /\ phase = "answering" /\ streaming' = streaming /\ phase' = "reply"
      /\ records' = records /\ reply' = [n |-> ThisCall, text |-> AnyText]
  BY DEF Salvage
<1>2. /\ Going(records, SpokeText, reply.n) /\ records \in Seq(Event)
      /\ ThisCall \in Nat
  BY <1>1, GoingNow
<1>3. AnyText => ToldBefore(records, ThisCall, Len(records) + 1)
  BY <1>2, TextTold
<1>4. AnyText \in BOOLEAN
  BY DEF AnyText
<1>5. reply' \in [n : Nat, text : BOOLEAN] /\ reply'.n = ThisCall /\ reply'.text = AnyText
  BY <1>1, <1>2, <1>4
<1>6. QED
  BY <1>1, <1>2, <1>3, <1>5 DEF TurnInv, Going, GoingOn

LEMMA PlainKinds ==
  {"error", "degraded", "memory_write", "job_enqueue", "text"} \subseteq Plain
BY DEF Plain, EventKinds, DeltaKinds

\* The fallback to local memory.
LEMMA DegradeKeeps ==
  ASSUME NEW r, Going(r, SpokeText, reply.n), TurnInv,
         streaming' = streaming, reply' = reply,
         \/ /\ records' = r \o <<Ev("degraded", 0), TurnDone(0, TRUE)>>
            /\ phase' = "done"
         \/ /\ records' = r \o <<Ev("degraded", 0), Ev("error", 0)>>
            /\ phase' = "failed"
  PROVE  Grammar(records') /\ TurnInv'
<1> DEFINE e == Ev("degraded", 0)
           f == Ev("error", 0)
           s == Append(r, e)
<1>1. e \in Event /\ e.kind \in Plain /\ TurnDone(0, TRUE) \in Event
      /\ f \in Event /\ f.kind \in Plain
  BY PlainKinds, PlainEv, TurnDoneType
<1>2. r \in Seq(Event)
  BY DEF Going, GoingOn, Grammar
<1> HIDE DEF e, f
<1>3. Going(s, SpokeText, reply.n)
  BY <1>1, PlainGoing
<1>4. CASE records' = r \o <<Ev("degraded", 0), TurnDone(0, TRUE)>> /\ phase' = "done"
  <2>1. records' = Append(s, TurnDone(0, TRUE))
    BY <1>1, <1>2, <1>4, Two DEF e
  <2> HIDE DEF s
  <2>2. /\ Grammar(records') /\ CallsCounted(records')
        /\ SpokeText => ToldBefore(records', reply.n, Len(records') + 1)
    BY <1>3, <2>1, EndsTold
  <2>3. QED
    BY <1>4, <2>2 DEF TurnInv, SpokeText
<1>5. CASE records' = r \o <<Ev("degraded", 0), Ev("error", 0)>> /\ phase' = "failed"
  <2>1. records' = Append(s, f)
    BY <1>1, <1>2, <1>5, Two DEF e, f
  <2> HIDE DEF s
  <2>2. Going(records', SpokeText, reply.n)
    BY <1>1, <1>3, <2>1, PlainGoing
  <2>3. QED
    BY <1>5, <2>2, StillGoing
<1>6. QED
  BY <1>4, <1>5 DEF e, f

LEMMA CallFailsKeeps ==
  ASSUME Grammar(records), TurnInv, CallFails
  PROVE  Grammar(records') /\ TurnInv'
<1>1. phase = "answering" /\ streaming' = streaming /\ reply' = reply
  BY DEF CallFails
<1>2. Going(records, SpokeText, reply.n) /\ records \in Seq(Event)
  BY <1>1, GoingNow
<1>3. CASE Emit(<<Ev("error", 0)>>) /\ phase' = "failed"
  <2>1. Ev("error", 0) \in Event /\ Ev("error", 0).kind \in Plain
    BY PlainKinds, PlainEv
  <2>2. records' = Append(records, Ev("error", 0))
    BY <1>2, <1>3, <2>1, One DEF Emit
  <2>3. Going(records', SpokeText, reply.n)
    BY <1>2, <2>1, <2>2, PlainGoing
  <2>4. QED
    BY <1>1, <1>3, <2>3, StillGoing
<1>4. CASE Degrade(<<>>)
  <2>1. \/ /\ records' = records \o (<<>> \o <<Ev("degraded", 0), TurnDone(0, TRUE)>>)
           /\ phase' = "done"
        \/ /\ records' = records \o (<<>> \o <<Ev("degraded", 0), Ev("error", 0)>>)
           /\ phase' = "failed"
    BY <1>4 DEF Degrade, Emit
  <2>2. /\ <<>> \o <<Ev("degraded", 0), TurnDone(0, TRUE)>>
           = <<Ev("degraded", 0), TurnDone(0, TRUE)>>
        /\ <<>> \o <<Ev("degraded", 0), Ev("error", 0)>>
           = <<Ev("degraded", 0), Ev("error", 0)>>
    OBVIOUS
  <2>3. QED
    BY <1>1, <1>2, <2>1, <2>2, DegradeKeeps
<1>5. CASE phase' = "reply" /\ UNCHANGED <<records, status, at, view, rendered>>
  BY <1>1, <1>2, <1>5, StillGoing
<1>6. QED
  BY <1>3, <1>4, <1>5 DEF CallFails

LEMMA Regroup ==
  ASSUME NEW S, NEW q \in Seq(S), NEW r \in Seq(S), NEW s \in Seq(S)
  PROVE  q \o (r \o s) = (q \o r) \o s
OBVIOUS

LEMMA ToolCallKeeps ==
  ASSUME Grammar(records), TurnInv, ToolCall
  PROVE  Grammar(records') /\ TurnInv'
<1> DEFINE n == Count("tool_start") + 1
           a == Ev("tool_start", n)
           b == Ev("tool_done", n)
           r == Append(records, a)
<1>1. /\ phase = "tools" /\ streaming' = streaming /\ reply' = reply
      /\ \/ /\ Emit(<<a, b>>)
            /\ phase' \in {"tools", "call"}
         \/ Degrade(<<a>>)
         \/ Degrade(<<a, b>>)
  BY DEF ToolCall
<1>2. Going(records, SpokeText, reply.n) /\ records \in Seq(Event)
  BY <1>1, GoingNow
<1>3. /\ a = Ev(StartOf("tool"), CountIn(records, StartOf("tool")) + 1)
      /\ b = Ev(DoneOf("tool"), a.n) /\ a.n \in Nat
  <2>1. Count("tool_start") = CountIn(records, "tool_start") /\ n \in Nat
    <3>1. Count("tool_start") = CountIn(records, "tool_start")
      BY DEF Count, CountIn
    <3>2. QED
      BY <1>2, <3>1, CountType
  <2>2. a.n = n
    BY DEF Ev
  <2> HIDE DEF n
  <2>3. a.n \in Nat /\ b = Ev(DoneOf("tool"), a.n)
    BY <2>1, <2>2, KindFacts
  <2>4. a = Ev(StartOf("tool"), CountIn(records, StartOf("tool")) + 1)
    BY <2>1, KindFacts DEF n
  <2>5. QED
    BY <2>3, <2>4
<1> HIDE DEF a, b
<1>4. Going(r, SpokeText, reply.n) /\ a \in Event /\ BegunAt(r, "tool", a.n, Len(r) + 1)
  BY <1>2, <1>3, StartGoing DEF CallSlots
<1>5. CASE Emit(<<a, b>>) /\ phase' \in {"tools", "call"}
  <2> HIDE DEF r
  <2>1. b \in Event /\ Going(Append(r, b), SpokeText, reply.n)
    BY <1>3, <1>4, DoneGoing DEF CallSlots
  <2>2. records' = Append(r, b)
    BY <1>2, <1>4, <1>5, <2>1, Two DEF Emit, r
  <2>3. QED
    BY <1>1, <1>5, <2>1, <2>2, StillGoing
<1>6. /\ a \in Event /\ b \in Event /\ Going(Append(r, b), SpokeText, reply.n)
      /\ records \o <<a>> = r /\ records \o <<a, b>> = Append(r, b)
  <2> HIDE DEF r
  <2>1. b \in Event /\ Going(Append(r, b), SpokeText, reply.n)
    BY <1>3, <1>4, DoneGoing DEF CallSlots
  <2>2. QED
    BY <1>2, <1>4, <2>1, One, Two DEF r
<1>7. ASSUME NEW es \in Seq(Event), NEW q, records \o es = q, Going(q, SpokeText, reply.n),
             Degrade(es)
      PROVE  Grammar(records') /\ TurnInv'
  <2> DEFINE end == <<Ev("degraded", 0), TurnDone(0, TRUE)>>
             fail == <<Ev("degraded", 0), Ev("error", 0)>>
  <2>1. \/ records' = records \o (es \o end) /\ phase' = "done"
        \/ records' = records \o (es \o fail) /\ phase' = "failed"
    BY <1>7 DEF Degrade, Emit
  <2>2. end \in Seq(Event) /\ fail \in Seq(Event)
    <3>1. Ev("degraded", 0) \in Event /\ TurnDone(0, TRUE) \in Event
          /\ Ev("error", 0) \in Event
      BY PlainKinds, PlainEv, TurnDoneType
    <3>2. QED
      BY <1>2, <3>1, Two
  <2> HIDE DEF end, fail
  <2>3. /\ records \o (es \o end) = (records \o es) \o end
        /\ records \o (es \o fail) = (records \o es) \o fail
    <3>1. records \in Seq(Event) /\ es \in Seq(Event)
      BY <1>2, <1>7
    <3>2. ASSUME NEW f \in Seq(Event)
          PROVE  records \o (es \o f) = (records \o es) \o f
      BY <3>1, Regroup
    <3>3. QED
      BY <2>2, <3>2
  <2>4. \/ records' = q \o end /\ phase' = "done"
        \/ records' = q \o fail /\ phase' = "failed"
    BY <1>7, <2>1, <2>3
  <2>5. QED
    BY <1>1, <1>7, <2>4, DegradeKeeps DEF end, fail
<1>8. <<a>> \in Seq(Event) /\ <<a, b>> \in Seq(Event)
  BY <1>6
<1> HIDE DEF r
<1>9. QED
  BY <1>1, <1>4, <1>5, <1>6, <1>7, <1>8

\* What the end of a turn emits before its last event.
LEMMA ReplyGoing ==
  ASSUME Grammar(records), TurnInv, phase = "reply"
  PROVE  LET e == [kind |-> "text", n |-> reply.n, text |-> TRUE]
             spoke == ~streaming /\ reply.text
             r == IF spoke THEN Append(records, e) ELSE records
         IN  /\ e \in Event /\ r \in Seq(Event)
             /\ Going(r, reply.text, reply.n)
<1> DEFINE e == [kind |-> "text", n |-> reply.n, text |-> TRUE]
<1>1. /\ Going(records, SpokeText, reply.n) /\ records \in Seq(Event)
      /\ reply.n \in Nat /\ reply.text \in BOOLEAN
  BY GoingNow
<1>2. e \in Event /\ e.kind = "text" /\ e.text /\ e.n = reply.n
  BY <1>1 DEF Event, EventKinds, DeltaKinds
<1>3. e.kind \in Plain
  BY <1>2, PlainKinds
<1> HIDE DEF e
<1>4. GoingOn(Append(records, e)) /\ Append(records, e) \in Seq(Event)
  BY <1>1, <1>2, <1>3, PlainGoesOn DEF Going
<1>5. ToldBefore(Append(records, e), reply.n, Len(Append(records, e)) + 1)
  BY <1>1, <1>2, Keeps
<1>6. ~(~streaming /\ reply.text) => Going(records, reply.text, reply.n)
  BY <1>1 DEF Going, SpokeText
<1>7. QED
  BY <1>1, <1>2, <1>4, <1>5, <1>6 DEF Going, e

LEMMA ReplyKeeps ==
  ASSUME Grammar(records), TurnInv, Reply
  PROVE  Grammar(records') /\ TurnInv'
<1> DEFINE e == [kind |-> "text", n |-> reply.n, text |-> TRUE]
           spoke == ~streaming /\ reply.text
           whole == IF spoke THEN <<e>> ELSE <<>>
           r == IF spoke THEN Append(records, e) ELSE records
           m == Ev("memory_write", 0)
           j == Ev("job_enqueue", 0)
           x == Ev("error", 0)
           t == TurnDone(reply.n, reply.text)
<1>1. /\ phase = "reply" /\ streaming' = streaming /\ reply' = reply
      /\ \/ /\ \E jobs \in {<<>>, <<j>>} : Emit(whole \o <<m>> \o jobs \o <<t>>)
            /\ phase' = "done"
         \/ Emit(whole \o <<x>>) /\ phase' = "failed"
  BY Zenon DEF Reply
<1>2. e \in Event /\ r \in Seq(Event) /\ Going(r, reply.text, reply.n)
  BY <1>1, ReplyGoing
<1>3. records \in Seq(Event) /\ reply.n \in Nat /\ reply.text \in BOOLEAN
  BY <1>1, GoingNow
<1>4. /\ m \in Event /\ m.kind \in Plain /\ j \in Event /\ j.kind \in Plain
      /\ x \in Event /\ x.kind \in Plain
  BY PlainKinds, PlainEv
<1>5. t \in Event
  BY <1>3, TurnDoneType
<1> HIDE DEF e, m, j, x
<1>6. ASSUME NEW s, Going(s, reply.text, reply.n), records' = Append(s, t), phase' = "done"
      PROVE  Grammar(records') /\ TurnInv'
  <2>1. /\ Grammar(records') /\ CallsCounted(records')
        /\ reply.text => ToldBefore(records', reply.n, Len(records') + 1)
    BY <1>3, <1>6, EndsTold DEF Going
  <2>2. QED
    BY <1>1, <1>6, <2>1 DEF TurnInv
<1>7. whole \in Seq(Event) /\ records \o whole = r
  <2>1. CASE spoke
    BY <1>2, <1>3, <2>1, One
  <2>2. CASE ~spoke
    BY <1>3, <2>2
  <2>3. QED
    BY <2>1, <2>2
<1> HIDE DEF t, whole, r
<1>8. CASE Emit(whole \o <<x>>) /\ phase' = "failed"
  <2>1. records' = Append(r, x)
    BY <1>3, <1>4, <1>7, <1>8, Longer DEF Emit
  <2>2. Going(records', reply.text, reply.n)
    BY <1>2, <1>4, <2>1, PlainGoing
  <2>3. Going(records', SpokeText, reply.n)
    BY <2>2 DEF Going, SpokeText
  <2>4. QED
    BY <1>1, <1>8, <2>3, StillGoing
<1>9. /\ whole \o <<m>> \in Seq(Event) /\ records \o (whole \o <<m>>) = Append(r, m)
      /\ Going(Append(r, m), reply.text, reply.n)
  BY <1>2, <1>3, <1>4, <1>7, Longer, PlainGoing
<1> DEFINE wm == whole \o <<m>>
           rm == Append(r, m)
<1>10. CASE Emit(wm \o <<>> \o <<t>>) /\ phase' = "done"
  <2>1. wm \in Seq(Event) /\ records \o wm = rm /\ Going(rm, reply.text, reply.n)
    BY <1>9
  <2> HIDE DEF wm, rm
  <2>2. wm \o <<>> = wm
    BY <2>1
  <2>3. records' = Append(rm, t)
    BY <1>3, <1>5, <1>10, <2>1, <2>2, Longer DEF Emit
  <2>4. QED
    BY <1>6, <1>10, <2>1, <2>3
<1>11. CASE Emit(wm \o <<j>> \o <<t>>) /\ phase' = "done"
  <2>1. wm \in Seq(Event) /\ records \o wm = rm /\ Going(rm, reply.text, reply.n)
    BY <1>9
  <2> HIDE DEF wm, rm
  <2>2. /\ wm \o <<j>> \in Seq(Event) /\ records \o (wm \o <<j>>) = Append(rm, j)
        /\ Going(Append(rm, j), reply.text, reply.n)
    BY <1>3, <1>4, <2>1, Longer, PlainGoing
  <2> DEFINE wj == wm \o <<j>>
  <2> HIDE DEF wj
  <2>3. records' = Append(Append(rm, j), t)
    BY <1>3, <1>5, <1>11, <2>2, Longer DEF Emit, wj
  <2>4. QED
    BY <1>6, <1>11, <2>2, <2>3
<1>12. QED
  BY <1>1, <1>8, <1>10, <1>11

LEMMA TurnKeeps ==
  ASSUME Grammar(records), TurnInv, Working
  PROVE  /\ Grammar(records') /\ TurnInv'
         /\ UNCHANGED <<status, at, view, rendered>>
<1>1. UNCHANGED <<status, at, view, rendered>>
  <2>1. ASSUME Begin \/ CallStart \/ CallDone \/ RetryCall
        PROVE  UNCHANGED <<status, at, view, rendered>>
    BY <2>1 DEF Begin, CallStart, CallDone, RetryCall, Emit
  <2>2. ASSUME Delta \/ Salvage \/ Reply
        PROVE  UNCHANGED <<status, at, view, rendered>>
    BY <2>2 DEF Delta, Salvage, Reply, Emit
  <2>3. ASSUME CallFails \/ ToolCall
        PROVE  UNCHANGED <<status, at, view, rendered>>
    BY <2>3 DEF CallFails, ToolCall, Degrade, Emit
  <2>4. QED
    BY <2>1, <2>2, <2>3 DEF Working
<1>2. QED
  BY <1>1, BeginKeeps, CallStartKeeps, DeltaKeeps, CallDoneKeeps, RetryCallKeeps,
     SalvageKeeps, CallFailsKeeps, ToolCallKeeps, ReplyKeeps DEF Working

(***************************************************************************)
(* Lines added.                                                            *)
(***************************************************************************)
\* The lines s are the lines r and one more.
OneMore(r, s, line) ==
    /\ r \in Seq(Line) /\ s \in Seq(Line) /\ line \in Line /\ Len(s) = Len(r) + 1
    /\ \A i \in 1 .. Len(s) : s[i] = line \/ \E j \in 1 .. Len(r) : r[j] = s[i]
    /\ \A i \in 1 .. Len(r) : \E j \in 1 .. Len(s) : s[j] = r[i]
    /\ \E i \in 1 .. Len(s) : s[i] = line
    /\ \A p : Never(r, p) =>
            IF p \in line.sources THEN Once(s, p) ELSE Never(s, p)
    /\ \A p : p \notin line.sources /\ Once(r, p) => Once(s, p)

\* It is at k, and the others keep their order.
LEMMA OneMoreAt ==
  ASSUME NEW r \in Seq(Line), NEW s \in Seq(Line), NEW line \in Line,
         NEW k \in 1 .. Len(r) + 1, Len(s) = Len(r) + 1, s[k] = line,
         \A i \in 1 .. k - 1 : s[i] = r[i],
         \A i \in k + 1 .. Len(s) : s[i] = r[i - 1]
  PROVE  OneMore(r, s, line)
<1>1. Len(r) \in Nat /\ k \in Nat /\ k \in 1 .. Len(s)
  OBVIOUS
<1> DEFINE Old(i) == IF i < k THEN i ELSE i - 1
           New(i) == IF i < k THEN i ELSE i + 1
<1>2. \A i \in 1 .. Len(s) : i # k => Old(i) \in 1 .. Len(r) /\ r[Old(i)] = s[i]
  <2>1. ASSUME NEW i \in 1 .. Len(s), i < k
        PROVE  Old(i) \in 1 .. Len(r) /\ r[Old(i)] = s[i]
    <3>1. i \in 1 .. k - 1 /\ Old(i) = i /\ i \in 1 .. Len(r)
      BY <1>1, <2>1
    <3>2. QED
      BY <3>1
  <2>2. ASSUME NEW i \in 1 .. Len(s), i > k
        PROVE  Old(i) \in 1 .. Len(r) /\ r[Old(i)] = s[i]
    <3>1. i \in k + 1 .. Len(s) /\ Old(i) = i - 1 /\ i - 1 \in 1 .. Len(r)
      BY <1>1, <2>2
    <3>2. QED
      BY <3>1
  <2> HIDE DEF Old
  <2>3. QED
    BY <1>1, <2>1, <2>2
<1>3. \A i \in 1 .. Len(r) : New(i) \in 1 .. Len(s) /\ New(i) # k /\ s[New(i)] = r[i]
  <2>1. ASSUME NEW i \in 1 .. Len(r), i < k
        PROVE  New(i) \in 1 .. Len(s) /\ New(i) # k /\ s[New(i)] = r[i]
    <3>1. i \in 1 .. k - 1 /\ New(i) = i /\ i \in 1 .. Len(s) /\ i # k
      BY <1>1, <2>1
    <3>2. QED
      BY <3>1
  <2>2. ASSUME NEW i \in 1 .. Len(r), ~(i < k)
        PROVE  New(i) \in 1 .. Len(s) /\ New(i) # k /\ s[New(i)] = r[i]
    <3>1. i + 1 \in k + 1 .. Len(s) /\ New(i) = i + 1 /\ i + 1 \in 1 .. Len(s) /\ i + 1 # k
          /\ (i + 1) - 1 = i
      BY <1>1, <2>2
    <3>2. s[i + 1] = r[(i + 1) - 1]
      BY <3>1
    <3>3. QED
      BY <3>1, <3>2
  <2> HIDE DEF New
  <2>3. QED
    BY <1>1, <2>1, <2>2
<1>4. \A i, j \in 1 .. Len(s) : i # k /\ j # k /\ Old(i) = Old(j) => i = j
  BY <1>1
<1> HIDE DEF Old, New
<1>5. ASSUME NEW p, Never(r, p)
      PROVE  IF p \in line.sources THEN Once(s, p) ELSE Never(s, p)
  <2>1. \A i \in 1 .. Len(s) : i # k => p \notin s[i].sources
    BY <1>2, <1>5 DEF Never
  <2>2. CASE p \in line.sources
    BY <1>1, <2>1, <2>2 DEF Once
  <2>3. CASE p \notin line.sources
    BY <1>1, <2>1, <2>3 DEF Never
  <2>4. QED
    BY <2>2, <2>3
<1>6. ASSUME NEW p, p \notin line.sources, Once(r, p)
      PROVE  Once(s, p)
  <2>1. PICK i \in 1 .. Len(r) :
            /\ p \in r[i].sources
            /\ \A j \in 1 .. Len(r) : p \in r[j].sources => j = i
    BY <1>6 DEF Once
  <2>2. New(i) \in 1 .. Len(s) /\ New(i) # k /\ p \in s[New(i)].sources
    BY <1>3, <2>1
  <2>3. ASSUME NEW j \in 1 .. Len(s), p \in s[j].sources
        PROVE  j = New(i)
    <3>1. j # k
      BY <1>6, <2>3
    <3>2. Old(j) = i
      BY <1>2, <2>1, <2>3, <3>1
    <3>3. Old(New(i)) = i
      BY <1>2, <2>1, <2>2
    <3>4. QED
      BY <1>4, <2>2, <3>1, <3>2, <3>3
  <2>4. QED
    BY <2>2, <2>3 DEF Once
<1>7. \A i \in 1 .. Len(s) : s[i] = line \/ \E j \in 1 .. Len(r) : r[j] = s[i]
  BY <1>2
<1>8. \A i \in 1 .. Len(r) : \E j \in 1 .. Len(s) : s[j] = r[i]
  BY <1>3
<1>9. \E i \in 1 .. Len(s) : s[i] = line
  BY <1>1
<1>10. QED
  BY <1>5, <1>6, <1>7, <1>8, <1>9 DEF OneMore

LEMMA Appended ==
  ASSUME NEW r \in Seq(Line), NEW line \in Line
  PROVE  OneMore(r, Append(r, line), line)
<1> DEFINE s == Append(r, line)
<1>1. /\ s \in Seq(Line) /\ Len(s) = Len(r) + 1 /\ s[Len(r) + 1] = line
      /\ Len(r) \in Nat /\ \A i \in 1 .. Len(r) : s[i] = r[i]
  BY Sequences
<1> HIDE DEF s
<1>2. /\ Len(r) + 1 \in 1 .. Len(r) + 1
      /\ \A i \in 1 .. (Len(r) + 1) - 1 : s[i] = r[i]
      /\ \A i \in (Len(r) + 1) + 1 .. Len(s) : s[i] = r[i - 1]
  BY <1>1
<1>3. QED
  BY <1>1, <1>2, OneMoreAt DEF s

LEMMA Joined ==
  ASSUME NEW S, NEW x \in Seq(S), NEW y \in Seq(S)
  PROVE  /\ x \o y \in Seq(S) /\ Len(x \o y) = Len(x) + Len(y)
         /\ \A i \in 1 .. Len(x) : (x \o y)[i] = x[i]
         /\ \A i \in Len(x) + 1 .. Len(x) + Len(y) : (x \o y)[i] = y[i - Len(x)]
OBVIOUS

LEMMA Inserted ==
  ASSUME NEW r \in Seq(Line), NEW line \in Line, NEW k \in 1 .. Len(r)
  PROVE  OneMore(r, InsertAt(r, k, line), line)
<1> DEFINE x == SubSeq(r, 1, k - 1)
           y == SubSeq(r, k, Len(r))
           s == (x \o <<line>>) \o y
<1>1. /\ x \in Seq(Line) /\ Len(x) = k - 1 /\ \A i \in 1 .. k - 1 : x[i] = r[i]
      /\ y \in Seq(Line) /\ Len(y) = Len(r) - k + 1
      /\ \A i \in 1 .. Len(r) - k + 1 : y[i] = r[i + k - 1]
      /\ Len(r) \in Nat /\ k \in Nat
  OBVIOUS
<1> HIDE DEF x, y
<1> DEFINE z == x \o <<line>>
<1>2. z \in Seq(Line) /\ Len(z) = k /\ z[k] = line /\ \A i \in 1 .. k - 1 : z[i] = r[i]
  <2>1. z = Append(x, line)
    BY <1>1
  <2> HIDE DEF z
  <2>2. /\ z \in Seq(Line) /\ Len(z) = Len(x) + 1 /\ z[Len(x) + 1] = line
        /\ \A i \in 1 .. Len(x) : z[i] = x[i]
    BY <1>1, <2>1, Sequences
  <2>3. Len(x) + 1 = k /\ Len(x) = k - 1
    BY <1>1
  <2>4. z[k] = line /\ Len(z) = k
    BY <2>2, <2>3
  <2>5. \A i \in 1 .. k - 1 : z[i] = r[i]
    BY <1>1, <2>2, <2>3
  <2>6. QED
    BY <2>2, <2>4, <2>5
<1> HIDE DEF z
<1>3. /\ s \in Seq(Line) /\ Len(s) = Len(r) + 1
      /\ \A i \in 1 .. k : s[i] = z[i]
      /\ \A i \in k + 1 .. Len(r) + 1 : s[i] = y[i - k]
  <2>1. s = z \o y
    BY DEF z
  <2> HIDE DEF s
  <2>2. /\ s \in Seq(Line) /\ Len(s) = Len(z) + Len(y)
        /\ \A i \in 1 .. Len(z) : s[i] = z[i]
        /\ \A i \in Len(z) + 1 .. Len(z) + Len(y) : s[i] = y[i - Len(z)]
    <3>1. z \in Seq(Line) /\ y \in Seq(Line)
      BY <1>1, <1>2
    <3>2. QED
      BY <2>1, <3>1, Joined
  <2>3. Len(z) + Len(y) = Len(r) + 1
    BY <1>1, <1>2
  <2>4. QED
    BY <1>2, <2>2, <2>3
<1> HIDE DEF s
<1>4. \A i \in 1 .. k - 1 : s[i] = r[i]
  BY <1>1, <1>2, <1>3
<1>5. s[k] = line
  BY <1>1, <1>2, <1>3
<1>6. ASSUME NEW i \in k + 1 .. Len(s) PROVE s[i] = r[i - 1]
  <2> DEFINE j == i - k
  <2>1. j \in 1 .. Len(r) - k + 1 /\ j + k - 1 = i - 1
    BY <1>1, <1>3
  <2>2. s[i] = y[j]
    BY <1>3
  <2> HIDE DEF j
  <2>3. y[j] = r[j + k - 1]
    BY <1>1, <2>1
  <2>4. QED
    BY <2>1, <2>2, <2>3
<1>7. OneMore(r, s, line)
  <2>1. k \in 1 .. Len(r) + 1
    BY <1>1
  <2>2. QED
    BY <1>3, <1>4, <1>5, <1>6, <2>1, OneMoreAt
<1>8. QED
  BY <1>7 DEF InsertAt, s, x, y

(***************************************************************************)
(* Blocks and slots flushed.                                               *)
(***************************************************************************)
Less == {p \in Nat \X Nat : p[1] < p[2]}

LEMMA FirstOf ==
  ASSUME NEW I \in SUBSET Nat, I # {}
  PROVE  First(I) \in I
<1>1. Less = OpToRel(<, Nat)
  BY DEF OpToRel, Less
<1>2. IsWellFoundedOn(Less, Nat)
  BY <1>1, NatLessThanWellFounded
<1>3. PICK x \in I : \A y \in I : ~(<<y, x>> \in Less)
  BY <1>2, WFMin
<1>4. ASSUME NEW y \in I PROVE x <= y
  <2>1. SUFFICES ASSUME y < x PROVE FALSE
    OBVIOUS
  <2>2. <<y, x>> \in Nat \X Nat
    OBVIOUS
  <2>3. QED
    BY <1>3, <2>1, <2>2 DEF Less
<1>5. QED
  BY <1>3, <1>4 DEF First

LEMMA EventFacts ==
  ASSUME records \in Seq(Event)
  PROVE  /\ Len(records) \in Nat
         /\ \A p \in 1 .. Len(records) : /\ records[p].kind \in EventKinds
                                         /\ records[p].n \in Nat
                                         /\ records[p].text \in BOOLEAN
<1>1. Len(records) \in Nat /\ \A p \in 1 .. Len(records) : records[p] \in Event
  OBVIOUS
<1>2. QED
  BY <1>1 DEF Event

LEMMA ViewFacts ==
  ASSUME NEW v \in View
  PROVE  /\ v.lines \in Seq(Line) /\ v.pending \in [Slots -> Nat]
         /\ v.kind \in DeltaKinds /\ v.block \in SUBSET Nat
         /\ v.answerAt \in Nat /\ v.thinkingAt \in Nat /\ Len(v.lines) \in Nat
BY DEF View

\* An event stays where it is when a line is added that does not show it.
LEMMA KeptOther ==
  ASSUME NEW r, NEW v, NEW w, NEW p, NEW a, NEW line,
         Kept(r, v, p, a), OneMore(v.lines, w.lines, line), p \notin line.sources,
         p \in v.block <=> p \in w.block,
         \A slot \in Slots : v.pending[slot] = p <=> w.pending[slot] = p
  PROVE  Kept(r, w, p, a)
<1>1. /\ Never(v.lines, p) => Never(w.lines, p)
      /\ Once(v.lines, p) => Once(w.lines, p)
  BY DEF OneMore
<1>2. "context" \in Slots
  BY DEF Slots
<1>3. QED
  BY <1>1, <1>2 DEF Kept

LEMMA LinesMore ==
  ASSUME NEW r, NEW v, NEW w, NEW a, NEW line, LinesInv(r, v, a),
         OneMore(v.lines, w.lines, line), GoodLine(r, line, a)
  PROVE  LinesInv(r, w, a)
BY DEF LinesInv, OneMore

LEMMA BlockLineFacts ==
  ASSUME NEW kind \in DeltaKinds, NEW block \in SUBSET Nat, block # {}
  PROVE  LET line == BlockLine(kind, block)
             spoke == \E p \in block : records[p].text
         IN  /\ line \in Line
             /\ line.label = IF kind = "text" THEN "answer" ELSE "thinking"
             /\ spoke => line.sources = block /\ ~line.placeholder
             /\ ~spoke => line.sources = {}
<1>1. First(block) \in Nat
  BY FirstOf
<1>2. QED
  BY <1>1 DEF BlockLine, LineOf, Placeholder, Line, Labels

LEMMA FlushDeltaKeeps ==
  ASSUME records \in Seq(Event), NEW a \in 1 .. Len(records) + 1, NEW v,
         Core(records, v, a)
  PROVE  LET w == FlushDelta(v)
         IN  Core(records, w, a) /\ w.block = {} /\ w.pending = v.pending
<1> DEFINE w == FlushDelta(v)
           line == BlockLine(v.kind, v.block)
<1>1. /\ v \in View /\ LinesInv(records, v, a) /\ HeldInv(records, v, a)
      /\ AnswerInv(records, v, a) /\ \A p \in 1 .. a - 1 : Kept(records, v, p, a)
  BY DEF Core
<1>2. CASE v.block = {}
  BY <1>2 DEF FlushDelta
<1>3. CASE v.block # {}
  <2>1. /\ v.lines \in Seq(Line) /\ v.pending \in [Slots -> Nat]
        /\ v.kind \in DeltaKinds /\ v.block \in SUBSET Nat
        /\ v.answerAt \in Nat /\ v.thinkingAt \in Nat /\ Len(v.lines) \in Nat
    BY <1>1, ViewFacts
  <2> DEFINE spoke == \E p \in v.block : records[p].text
  <2>2. /\ line \in Line
        /\ line.label = IF v.kind = "text" THEN "answer" ELSE "thinking"
        /\ spoke => line.sources = v.block /\ ~line.placeholder
        /\ ~spoke => line.sources = {}
    BY <1>3, <2>1, BlockLineFacts
  <2>3. w = [v EXCEPT
            !.lines = Append(v.lines, line),
            !.answerAt = IF v.kind = "text" THEN Len(v.lines) + 1 ELSE v.answerAt,
            !.thinkingAt = IF v.kind = "text" THEN v.thinkingAt ELSE Len(v.lines) + 1,
            !.block = {}]
    BY <1>3 DEF FlushDelta
  <2> DEFINE n == IF v.kind = "text" THEN Len(v.lines) + 1 ELSE v.answerAt
             t == IF v.kind = "text" THEN v.thinkingAt ELSE Len(v.lines) + 1
  <2>n. n \in Nat /\ t \in Nat
    BY <2>1
  <2> HIDE DEF w, line, spoke
  <2>4. /\ w.lines = Append(v.lines, line) /\ w.pending = v.pending /\ w.block = {}
        /\ w.answerAt = IF v.kind = "text" THEN Len(v.lines) + 1 ELSE v.answerAt
    BY <1>1, <2>3 DEF View
  <2>5. OneMore(v.lines, w.lines, line)
    BY <2>1, <2>2, <2>4, Appended
  <2>6. Append(v.lines, line) \in Seq(Line) /\ Len(w.lines) = Len(v.lines) + 1
    BY <2>1, <2>2, <2>4, Sequences
  <2>7. w \in View
    <3>1. w = [v EXCEPT !.lines = Append(v.lines, line), !.answerAt = n,
                        !.thinkingAt = t, !.block = {}]
      BY <2>3
    <3> HIDE DEF n, t
    <3>2. QED
      BY <1>1, <2>n, <2>6, <3>1 DEF View
  <2>8. GoodLine(records, line, a)
    <3>1. line.sources \subseteq 1 .. a - 1
      BY <1>1, <2>2 DEF HeldInv
    <3>2. line.label \notin CallSlots
      BY <2>2 DEF CallSlots
    <3>3. TextLine(records, line)
      BY <1>1, <2>2 DEF HeldInv, TextLine
    <3>4. QED
      BY <3>1, <3>2, <3>3 DEF GoodLine, PairLine
  <2>9. LinesInv(records, w, a)
    BY <1>1, <2>5, <2>8, LinesMore
  <2>10. HeldInv(records, w, a)
    BY <1>1, <2>4 DEF HeldInv
  <2>11. AnswerInv(records, w, a)
    <3>1. v.kind = "text" => \E p \in 1 .. a - 1 : records[p].kind = "text"
      BY <1>1, <1>3 DEF HeldInv
    <3>2. QED
      BY <1>1, <2>1, <2>4, <2>6, <3>1 DEF AnswerInv
  <2>12. ASSUME NEW p \in 1 .. a - 1 PROVE Kept(records, w, p, a)
    <3>1. Kept(records, v, p, a)
      BY <1>1
    <3>2. CASE p \notin v.block
      <4>1. p \notin line.sources
        BY <2>2, <3>2
      <4>2. QED
        BY <2>4, <2>5, <3>1, <3>2, <4>1, KeptOther
    <3>3. CASE p \in v.block
      <4>1. records[p].kind \in DeltaKinds
        BY <1>1, <2>1, <3>3 DEF HeldInv
      <4>2. Never(v.lines, p)
        BY <3>1, <3>3, <4>1 DEF Kept
      <4>3. Once(w.lines, p) \/ (~records[p].text /\ Never(w.lines, p))
        <5>1. CASE spoke
          BY <2>2, <2>5, <3>3, <4>2, <5>1 DEF OneMore
        <5>2. CASE ~spoke
          <6>1. ~records[p].text
            BY <3>3, <5>2 DEF spoke
          <6>2. QED
            BY <2>2, <2>5, <4>2, <5>2, <6>1 DEF OneMore
        <5>3. QED
          BY <5>1, <5>2
      <4>4. /\ records[p].kind \notin Outside \cup AtOnce
            /\ records[p].kind # "context_start"
            /\ \A slot \in Slots : records[p].kind # StartOf(slot)
        BY <4>1, KindFacts DEF Outside, AtOnce, OwnLine, Slots
      <4>5. QED
        BY <2>4, <4>1, <4>3, <4>4 DEF Kept
    <3>4. QED
      BY <3>2, <3>3
  <2>13. QED
    BY <2>4, <2>7, <2>9, <2>10, <2>11, <2>12 DEF Core, w
<1>4. QED
  BY <1>2, <1>3

\* A start that only deltas follow up to a has no done, unless it is at a.
LEMMA NeverDone ==
  ASSUME Grammar(records), NEW slot \in CallSlots, NEW a \in 1 .. Len(records) + 1,
         NEW p \in 1 .. a - 1, records[p].kind = StartOf(slot),
         OnlyDeltas(records, p, a),
         a <= Len(records) => records[a].kind \notin DeltaKinds \cup {DoneOf(slot)},
         NEW q \in 1 .. Len(records), records[q].kind = DoneOf(slot),
         records[q].n = records[p].n
  PROVE  FALSE
<1>1. Len(records) \in Nat /\ p \in 1 .. Len(records) /\ DoneOf(slot) \notin DeltaKinds
  BY KindFacts DEF Grammar, CallSlots
<1>2. PICK o \in 1 .. q - 1 : /\ records[o].kind = StartOf(slot)
                              /\ records[o].n = records[q].n /\ OnlyDeltas(records, o, q)
  BY DEF Grammar, Begun, BegunAt
<1>3. o \in 1 .. Len(records)
  BY <1>1
<1>4. o = p
  BY <1>1, <1>2, <1>3 DEF Grammar, Numbered
<1>5. p < q /\ OnlyDeltas(records, p, q)
  BY <1>1, <1>2, <1>4
<1>6. CASE q < a
  <2>1. q \in p + 1 .. a - 1
    BY <1>1, <1>5, <1>6
  <2>2. QED
    BY <1>1, <2>1 DEF OnlyDeltas
<1>7. CASE q = a
  BY <1>1, <1>7
<1>8. CASE q > a
  <2>1. a \in p + 1 .. q - 1 /\ a <= Len(records)
    BY <1>1, <1>5, <1>8
  <2>2. QED
    BY <1>5, <2>1 DEF OnlyDeltas
<1>9. QED
  BY <1>1, <1>6, <1>7, <1>8

\* kind is that of the record at a, or none is left.
AtOrEnd(a, kind) ==
    a <= Len(records) => kind = records[a].kind /\ kind \notin DeltaKinds

LEMMA FlushSlotKeeps ==
  ASSUME Grammar(records), NEW a \in 1 .. Len(records) + 1, NEW v, NEW kind,
         AtOrEnd(a, kind), NEW slot \in CallSlots, Core(records, v, a), v.block = {},
         SlotInv(records, v, slot, a)
  PROVE  LET w == FlushSlot(v, slot, kind)
         IN  /\ Core(records, w, a) /\ w.block = {}
             /\ w.pending[slot] = IF kind = DoneOf(slot) THEN v.pending[slot] ELSE 0
             /\ \A other \in Slots \ {slot} : w.pending[other] = v.pending[other]
<1> DEFINE w == FlushSlot(v, slot, kind)
           p == v.pending[slot]
           line == LineOf(slot, {p}, p)
<1>1. /\ v \in View /\ LinesInv(records, v, a) /\ HeldInv(records, v, a)
      /\ AnswerInv(records, v, a) /\ \A e \in 1 .. a - 1 : Kept(records, v, e, a)
  BY DEF Core
<1>2. /\ v.lines \in Seq(Line) /\ v.pending \in [Slots -> Nat]
      /\ v.kind \in DeltaKinds /\ v.block \in SUBSET Nat
      /\ v.answerAt \in Nat /\ v.thinkingAt \in Nat /\ Len(v.lines) \in Nat
  BY <1>1, ViewFacts
<1>3. CASE p = 0 \/ kind = DoneOf(slot)
  <2>1. w = v
    BY <1>3 DEF FlushSlot
  <2>2. QED
    BY <1>3, <2>1
<1>4. CASE ~(p = 0 \/ kind = DoneOf(slot))
  <2>1. slot \in Slots /\ slot \in {"llm", "tool"} /\ p \in Nat /\ p # 0
    BY <1>2, <1>4 DEF CallSlots, Slots
  <2>2. p \in 1 .. a - 1 /\ records[p].kind = StartOf(slot)
    BY <1>1, <2>1 DEF HeldInv
  <2>3. line \in Line /\ line.label = slot /\ line.sources = {p} /\ ~line.placeholder
    BY <2>1 DEF LineOf, Line, Labels
  <2>4. w = [v EXCEPT !.lines = Append(v.lines, line), !.pending[slot] = 0]
    BY <1>4 DEF FlushSlot
  <2> HIDE DEF w, line
  <2>5. /\ w.lines = Append(v.lines, line) /\ w.pending = [v.pending EXCEPT ![slot] = 0]
        /\ w.block = v.block /\ w.answerAt = v.answerAt
    BY <1>1, <2>4 DEF View
  <2>6. /\ w.pending \in [Slots -> Nat] /\ w.pending[slot] = 0
        /\ \A other \in Slots \ {slot} : w.pending[other] = v.pending[other]
    BY <1>2, <2>1, <2>5
  <2>7. OneMore(v.lines, w.lines, line)
    BY <1>2, <2>3, <2>5, Appended
  <2>8. Append(v.lines, line) \in Seq(Line) /\ Len(w.lines) = Len(v.lines) + 1
    BY <1>2, <2>3, <2>5, Sequences
  <2>9. w \in View
    BY <1>1, <1>2, <2>1, <2>4, <2>8 DEF View
  <2>10. OnlyDeltas(records, p, a)
    BY <2>2 DEF SlotInv
  <2>11. GoodLine(records, line, a)
    <3>1. TextLine(records, line)
      BY <2>1, <2>2, <2>3, KindFacts DEF TextLine
    <3>2. a <= Len(records) => records[a].kind \notin DeltaKinds \cup {DoneOf(slot)}
      BY <1>4 DEF AtOrEnd
    <3>3. ASSUME NEW q \in 1 .. Len(records), records[q].kind = DoneOf(slot),
                 records[q].n = records[p].n
          PROVE  FALSE
      BY <2>2, <2>10, <3>2, <3>3, NeverDone
    <3>4. PairLine(records, line)
      BY <2>3, <3>3 DEF PairLine
    <3>5. QED
      BY <2>2, <2>3, <3>1, <3>4 DEF GoodLine
  <2>12. LinesInv(records, w, a)
    BY <1>1, <2>7, <2>11, LinesMore
  <2>13. HeldInv(records, w, a)
    BY <1>1, <2>5, <2>6 DEF HeldInv
  <2>14. AnswerInv(records, w, a)
    BY <1>1, <1>2, <2>5, <2>8 DEF AnswerInv
  <2>15. ASSUME NEW e \in 1 .. a - 1 PROVE Kept(records, w, e, a)
    <3>1. Kept(records, v, e, a)
      BY <1>1
    <3>2. CASE e # p
      <4>1. \A other \in Slots : v.pending[other] = e <=> w.pending[other] = e
        BY <2>1, <2>6, <3>2
      <4>2. QED
        BY <2>3, <2>5, <2>7, <3>1, <3>2, <4>1, KeptOther
    <3>3. CASE e = p
      <4>1. Never(v.lines, e)
        BY <2>1, <2>2, <3>1, <3>3 DEF Kept
      <4>2. Once(w.lines, e)
        BY <2>3, <2>7, <3>3, <4>1 DEF OneMore
      <4>3. /\ records[e].kind \notin Outside \cup AtOnce \cup DeltaKinds
            /\ records[e].kind # "context_start"
            /\ \A other \in Slots : records[e].kind = StartOf(other) => other = slot
        BY <2>1, <2>2, <3>3, KindFacts DEF Outside, AtOnce, OwnLine, Slots
      <4>4. w.pending[slot] # e
        BY <2>1, <2>6, <3>3
      <4>5. QED
        BY <4>2, <4>3, <4>4 DEF Kept
    <3>4. QED
      BY <3>2, <3>3
  <2>16. QED
    BY <1>4, <2>5, <2>6, <2>9, <2>12, <2>13, <2>14, <2>15 DEF Core, w
<1>5. QED
  BY <1>3, <1>4

LEMMA FlushUnmatchedKeeps ==
  ASSUME Grammar(records), NEW a \in 1 .. Len(records) + 1, NEW v, NEW kind,
         AtOrEnd(a, kind), ViewInv(records, v, a)
  PROVE  LET w == FlushUnmatched(FlushDelta(v), kind)
         IN  /\ Core(records, w, a) /\ w.block = {}
             /\ \A slot \in CallSlots :
                   w.pending[slot] = IF kind = DoneOf(slot) THEN v.pending[slot] ELSE 0
             /\ w.pending["context"] = v.pending["context"]
<1> DEFINE x == FlushDelta(v)
           y == FlushSlot(x, "llm", kind)
           w == FlushSlot(y, "tool", kind)
<1>1. Core(records, x, a) /\ x.block = {} /\ x.pending = v.pending
  BY FlushDeltaKeeps DEF ViewInv, Grammar
<1>2. SlotInv(records, x, "llm", a) /\ SlotInv(records, x, "tool", a)
  BY <1>1 DEF ViewInv, SlotInv, CallSlots
<1> HIDE DEF x
<1>3. /\ Core(records, y, a) /\ y.block = {}
      /\ y.pending["llm"] = IF kind = DoneOf("llm") THEN x.pending["llm"] ELSE 0
      /\ \A other \in Slots \ {"llm"} : y.pending[other] = x.pending[other]
  BY <1>1, <1>2, FlushSlotKeeps DEF CallSlots
<1>4. SlotInv(records, y, "tool", a)
  BY <1>2, <1>3 DEF SlotInv, Slots
<1> HIDE DEF y
<1>5. /\ Core(records, w, a) /\ w.block = {}
      /\ w.pending["tool"] = IF kind = DoneOf("tool") THEN y.pending["tool"] ELSE 0
      /\ \A other \in Slots \ {"tool"} : w.pending[other] = y.pending[other]
  BY <1>3, <1>4, FlushSlotKeeps DEF CallSlots
<1>6. /\ w.pending["llm"] = IF kind = DoneOf("llm") THEN v.pending["llm"] ELSE 0
      /\ w.pending["tool"] = IF kind = DoneOf("tool") THEN v.pending["tool"] ELSE 0
      /\ w.pending["context"] = v.pending["context"]
  BY <1>1, <1>3, <1>5 DEF Slots
<1> HIDE DEF w
<1>7. w = FlushUnmatched(FlushDelta(v), kind)
  BY DEF FlushUnmatched, w, x, y
<1>8. QED
  BY <1>5, <1>6, <1>7 DEF CallSlots

(***************************************************************************)
(* One record taken.                                                       *)
(***************************************************************************)
LEMMA GoodLater ==
  ASSUME NEW r, NEW v, NEW w, NEW a \in Nat \ {0}
  PROVE  /\ \A line : GoodLine(r, line, a) => GoodLine(r, line, a + 1)
         /\ LinesInv(r, v, a) => LinesInv(r, v, a + 1)
         /\ HeldInv(r, v, a) => HeldInv(r, v, a + 1)
         /\ w.answerAt = v.answerAt /\ Len(v.lines) <= Len(w.lines)
            /\ Len(v.lines) \in Nat /\ Len(w.lines) \in Nat /\ v.answerAt \in Nat
            /\ AnswerInv(r, v, a) => AnswerInv(r, w, a + 1)
<1>1. 1 .. a - 1 \subseteq 1 .. (a + 1) - 1
  OBVIOUS
<1>2. \A line : GoodLine(r, line, a) => GoodLine(r, line, a + 1)
  BY <1>1 DEF GoodLine
<1>3. QED
  BY <1>1, <1>2 DEF LinesInv, HeldInv, AnswerInv

LEMMA KeptLater ==
  ASSUME NEW r, NEW v, NEW a \in Nat, NEW p \in 1 .. a - 1, Kept(r, v, p, a),
         r[a].kind # "context_done" \/ v.pending["context"] # p
  PROVE  Kept(r, v, p, a + 1)
<1>1. Seen(r, "context_done", p, a) => Seen(r, "context_done", p, a + 1)
  BY DEF Seen
<1>2. r[a].kind # "context_done" /\ Seen(r, "context_done", p, a + 1)
      => Seen(r, "context_done", p, a)
  BY DEF Seen
<1>3. r[p].kind = "context_start" =>
         (v.pending["context"] = p <=> ~Seen(r, "context_done", p, a + 1))
  BY <1>1, <1>2 DEF Kept
<1>4. QED
  BY <1>3 DEF Kept

LEMMA KeptSame ==
  ASSUME NEW r, NEW v, NEW w, NEW p, NEW a, Kept(r, v, p, a), w.lines = v.lines,
         p \in v.block <=> p \in w.block,
         \A slot \in Slots : v.pending[slot] = p <=> w.pending[slot] = p
  PROVE  Kept(r, w, p, a)
<1>1. "context" \in Slots
  BY DEF Slots
<1>2. QED
  BY <1>1 DEF Kept

\* No line shows a record that was not taken yet.
LEMMA NotShown ==
  ASSUME NEW r, NEW v, NEW a \in Nat, LinesInv(r, v, a)
  PROVE  Never(v.lines, a)
BY DEF LinesInv, GoodLine, Never

LEMMA GroupDeltaKeeps ==
  ASSUME Grammar(records), NEW a \in 1 .. Len(records), NEW v, ViewInv(records, v, a),
         records[a].kind \in DeltaKinds
  PROVE  ViewInv(records, GroupDelta(v, a), a + 1)
<1> DEFINE x == IF v.block # {} /\ v.kind = records[a].kind THEN v ELSE FlushDelta(v)
           w == [x EXCEPT !.kind = records[a].kind, !.block = x.block \cup {a}]
<1>1. a \in Nat \ {0} /\ a \in 1 .. Len(records) + 1 /\ records \in Seq(Event)
  BY DEF Grammar
<1>2. Core(records, FlushDelta(v), a) /\ FlushDelta(v).block = {}
      /\ FlushDelta(v).pending = v.pending /\ Core(records, v, a)
  BY <1>1, FlushDeltaKeeps DEF ViewInv
<1>3. /\ Core(records, x, a) /\ x.pending = v.pending
      /\ x.block = {} \/ x.kind = records[a].kind
  BY <1>2
<1>4. GroupDelta(v, a) = w
  BY DEF GroupDelta
<1> HIDE DEF x
<1>5. /\ x \in View /\ LinesInv(records, x, a) /\ HeldInv(records, x, a)
      /\ AnswerInv(records, x, a) /\ \A p \in 1 .. a - 1 : Kept(records, x, p, a)
  BY <1>3 DEF Core
<1>6. w \in View
  BY <1>1, <1>5 DEF View
<1>7. /\ w.lines = x.lines /\ w.pending = x.pending /\ w.kind = records[a].kind
      /\ w.block = x.block \cup {a} /\ w.answerAt = x.answerAt
      /\ Len(x.lines) \in Nat /\ x.answerAt \in Nat
  BY <1>5 DEF View
<1> HIDE DEF w
<1>8. LinesInv(records, w, a + 1)
  <2>1. LinesInv(records, x, a + 1)
    BY <1>1, <1>5, GoodLater
  <2>2. QED
    BY <1>7, <2>1 DEF LinesInv
<1>9. HeldInv(records, w, a + 1)
  BY <1>1, <1>3, <1>5, <1>7 DEF HeldInv
<1>10. AnswerInv(records, w, a + 1)
  BY <1>1, <1>5, <1>7 DEF AnswerInv
<1>11. ASSUME NEW p \in 1 .. a - 1 PROVE Kept(records, w, p, a + 1)
  <2>1. Kept(records, w, p, a)
    <3>1. p # a
      BY <1>1
    <3>2. p \in x.block <=> p \in w.block
      BY <1>7, <3>1
    <3>3. QED
      BY <1>5, <1>7, <3>2, KeptSame
  <2>2. records[a].kind # "context_done"
    BY DEF DeltaKinds
  <2>3. QED
    BY <1>1, <2>1, <2>2, KeptLater
<1>12. Kept(records, w, a, a + 1)
  <2>1. Never(w.lines, a) /\ a \in w.block
    BY <1>1, <1>5, <1>7, NotShown
  <2>2. /\ records[a].kind \notin Outside \cup AtOnce /\ records[a].kind # "context_start"
        /\ \A slot \in Slots : records[a].kind # StartOf(slot)
    BY KindFacts DEF Outside, AtOnce, OwnLine, Slots
  <2>3. QED
    BY <2>1, <2>2 DEF Kept
<1>13. ASSUME NEW slot \in CallSlots PROVE SlotInv(records, w, slot, a + 1)
  <2>1. SlotInv(records, v, slot, a)
    BY DEF ViewInv
  <2>2. records[a].kind # StartOf(slot)
    BY KindFacts DEF CallSlots
  <2>3. \A p \in 1 .. a - 1 : OnlyDeltas(records, p, a) <=> OnlyDeltas(records, p, a + 1)
    BY <1>1 DEF OnlyDeltas
  <2>4. QED
    BY <1>1, <1>3, <1>7, <2>1, <2>2, <2>3 DEF SlotInv
<1>14. \A p \in 1 .. (a + 1) - 1 : Kept(records, w, p, a + 1)
  <2>1. \A p \in 1 .. (a + 1) - 1 : p \in 1 .. a - 1 \/ p = a
    BY <1>1
  <2>2. QED
    BY <1>11, <1>12, <2>1
<1>15. QED
  BY <1>4, <1>6, <1>8, <1>9, <1>10, <1>13, <1>14 DEF ViewInv, Core

\* After a record that is no delta, a slot is empty unless that record fills it.
LEMMA SlotAfter ==
  ASSUME NEW r, NEW w, NEW slot, NEW a \in Nat, r[a].kind \notin DeltaKinds,
         w.pending[slot] = IF r[a].kind = StartOf(slot) THEN a ELSE 0
  PROVE  SlotInv(r, w, slot, a + 1)
<1>1. ASSUME NEW p \in 1 .. a - 1 PROVE ~OnlyDeltas(r, p, a + 1) /\ w.pending[slot] # p
  BY <1>1 DEF OnlyDeltas
<1>2. OnlyDeltas(r, a, a + 1)
  BY DEF OnlyDeltas
<1>3. \A p \in 1 .. (a + 1) - 1 : p \in 1 .. a - 1 \/ p = a
  OBVIOUS
<1>4. QED
  BY <1>1, <1>2, <1>3 DEF SlotInv

\* The view x when the deltas and starts before a are flushed.
Flushed(x, a) ==
    /\ Core(records, x, a) /\ x.block = {}
    /\ \A slot \in CallSlots :
          records[a].kind # DoneOf(slot) => x.pending[slot] = 0

LEMMA FlushedFacts ==
  ASSUME Grammar(records), NEW a \in 1 .. Len(records), NEW x, Flushed(x, a)
  PROVE  /\ x \in View /\ LinesInv(records, x, a) /\ HeldInv(records, x, a)
         /\ AnswerInv(records, x, a) /\ \A p \in 1 .. a - 1 : Kept(records, x, p, a)
         /\ x.lines \in Seq(Line) /\ x.pending \in [Slots -> Nat]
         /\ x.answerAt \in Nat /\ Len(x.lines) \in Nat
         /\ a \in Nat \ {0} /\ x.block = {} /\ Never(x.lines, a)
         /\ records[a].kind \in EventKinds
         /\ \A p \in 1 .. (a + 1) - 1 : p \in 1 .. a - 1 \/ p = a
<1>1. a \in Nat \ {0} /\ records[a].kind \in EventKinds
  BY EventFacts DEF Grammar
<1>2. /\ x \in View /\ LinesInv(records, x, a) /\ HeldInv(records, x, a)
      /\ AnswerInv(records, x, a) /\ \A p \in 1 .. a - 1 : Kept(records, x, p, a)
      /\ x.block = {}
  BY DEF Flushed, Core
<1>3. Never(x.lines, a)
  BY <1>1, <1>2, NotShown
<1>4. QED
  BY <1>1, <1>2, <1>3, ViewFacts

LEMMA StartTaken ==
  ASSUME Grammar(records), NEW a \in 1 .. Len(records), NEW x, Flushed(x, a),
         NEW s \in Slots, records[a].kind = StartOf(s)
  PROVE  ViewInv(records, [x EXCEPT !.pending[s] = a], a + 1)
<1> DEFINE w == [x EXCEPT !.pending[s] = a]
<1>1. /\ x \in View /\ LinesInv(records, x, a) /\ HeldInv(records, x, a)
      /\ AnswerInv(records, x, a) /\ \A p \in 1 .. a - 1 : Kept(records, x, p, a)
      /\ x.lines \in Seq(Line) /\ x.pending \in [Slots -> Nat]
      /\ x.answerAt \in Nat /\ Len(x.lines) \in Nat
      /\ a \in Nat \ {0} /\ x.block = {} /\ Never(x.lines, a)
      /\ \A p \in 1 .. (a + 1) - 1 : p \in 1 .. a - 1 \/ p = a
  BY FlushedFacts
<1>2. /\ records[a].kind \notin Outside \cup AtOnce \cup DeltaKinds
      /\ \A slot \in Slots : records[a].kind # DoneOf(slot)
      /\ \A slot \in Slots : records[a].kind = StartOf(slot) <=> slot = s
      /\ records[a].kind = "context_start" => s = "context"
  BY KindFacts DEF Outside, AtOnce, OwnLine, Slots
<1>3. x.pending[s] = 0
  <2>1. CASE s \in CallSlots
    BY <1>2, <2>1, KindFacts DEF Flushed
  <2>2. CASE s \notin CallSlots
    <3>1. s = "context" /\ records[a].kind = "context_start"
      BY <2>2, KindFacts DEF CallSlots, Slots
    <3>2. SUFFICES ASSUME x.pending[s] # 0 PROVE FALSE
      OBVIOUS
    <3>3. x.pending[s] \in 1 .. a - 1 /\ records[x.pending[s]].kind = "context_start"
      BY <1>1, <3>1, <3>2, KindFacts DEF HeldInv
    <3>4. x.pending[s] \in 1 .. Len(records) /\ x.pending[s] # a
      BY <1>1, <3>3
    <3>5. QED
      BY <3>1, <3>3, <3>4 DEF Grammar, OnceInATurn
  <2>3. QED
    BY <2>1, <2>2
<1>4. w \in View /\ w.lines = x.lines /\ w.block = x.block /\ w.kind = x.kind
      /\ w.answerAt = x.answerAt /\ w.pending = [x.pending EXCEPT ![s] = a]
  BY <1>1 DEF View
<1> HIDE DEF w
<1>5. /\ w.pending \in [Slots -> Nat] /\ w.pending[s] = a
      /\ \A slot \in Slots \ {s} : w.pending[slot] = x.pending[slot]
  BY <1>1, <1>4
<1>6. LinesInv(records, w, a + 1)
  <2>1. LinesInv(records, x, a + 1)
    BY <1>1, GoodLater
  <2>2. QED
    BY <1>4, <2>1 DEF LinesInv
<1>7. HeldInv(records, w, a + 1)
  <2>1. HeldInv(records, x, a + 1)
    BY <1>1, GoodLater
  <2>2. a \in 1 .. (a + 1) - 1
    BY <1>1
  <2>3. QED
    BY <1>1, <1>4, <1>5, <2>1, <2>2 DEF HeldInv
<1>8. AnswerInv(records, w, a + 1)
  BY <1>1, <1>4 DEF AnswerInv
<1>9. ASSUME NEW p \in 1 .. a - 1 PROVE Kept(records, w, p, a + 1)
  <2>1. \A slot \in Slots : x.pending[slot] = p <=> w.pending[slot] = p
    BY <1>1, <1>3, <1>5
  <2>2. Kept(records, w, p, a)
    BY <1>1, <1>4, <2>1, KeptSame
  <2>3. records[a].kind # "context_done"
    BY <1>2 DEF AtOnce
  <2>4. QED
    BY <1>1, <2>2, <2>3, KeptLater
<1>10. Kept(records, w, a, a + 1)
  <2>1. ~Seen(records, "context_done", a, a + 1)
    BY <1>1 DEF Seen
  <2>2. Never(w.lines, a)
    BY <1>1, <1>4
  <2>3. QED
    BY <1>2, <1>5, <2>1, <2>2 DEF Kept
<1>11. ASSUME NEW slot \in CallSlots PROVE SlotInv(records, w, slot, a + 1)
  <2>1. slot \in Slots /\ records[a].kind # DoneOf(slot)
    BY <1>2, KindFacts
  <2>2. x.pending[slot] = 0
    BY <2>1 DEF Flushed
  <2>3. w.pending[slot] = IF records[a].kind = StartOf(slot) THEN a ELSE 0
    BY <1>2, <1>5, <2>1, <2>2
  <2>4. QED
    BY <1>1, <1>2, <2>3, SlotAfter
<1>12. QED
  BY <1>1, <1>4, <1>6, <1>7, <1>8, <1>9, <1>10, <1>11 DEF ViewInv, Core, w

\* The slots after a record that no slot waits for.
LEMMA SlotsEmpty ==
  ASSUME Grammar(records), NEW a \in 1 .. Len(records), NEW x, Flushed(x, a), NEW w,
         \A slot \in CallSlots : records[a].kind # DoneOf(slot) => w.pending[slot] = x.pending[slot],
         \A slot \in CallSlots : records[a].kind = DoneOf(slot) => w.pending[slot] = 0,
         records[a].kind \notin DeltaKinds,
         \A slot \in CallSlots : records[a].kind # StartOf(slot)
  PROVE  \A slot \in CallSlots : SlotInv(records, w, slot, a + 1)
<1>1. \A slot \in CallSlots : w.pending[slot] = 0
  BY DEF Flushed
<1>2. a \in Nat
  OBVIOUS
<1>3. QED
  BY <1>1, <1>2, SlotAfter

\* The start of a done call is in the slot.
LEMMA SlotHolds ==
  ASSUME Grammar(records), NEW a \in 1 .. Len(records), NEW v, NEW slot \in CallSlots,
         SlotInv(records, v, slot, a), records[a].kind = DoneOf(slot)
  PROVE  /\ v.pending[slot] \in 1 .. a - 1
         /\ records[v.pending[slot]].n = records[a].n
<1>1. PICK o \in 1 .. a - 1 : /\ records[o].kind = StartOf(slot)
                              /\ records[o].n = records[a].n /\ OnlyDeltas(records, o, a)
  BY DEF Grammar, Begun, BegunAt
<1>2. QED
  BY <1>1 DEF SlotInv

LEMMA DoneTaken ==
  ASSUME Grammar(records), NEW a \in 1 .. Len(records), NEW x, Flushed(x, a),
         NEW s \in Slots, records[a].kind = DoneOf(s),
         s \in CallSlots => /\ x.pending[s] \in 1 .. a - 1
                            /\ records[x.pending[s]].n = records[a].n
  PROVE  ViewInv(records, PairUp(x, s, a), a + 1)
<1> DEFINE o == x.pending[s]
           line == IF o # 0 THEN LineOf(s, {o, a}, o) ELSE LineOf(s, {a}, a)
           w == [x EXCEPT !.lines = Append(x.lines, line), !.pending[s] = 0]
<1>1. /\ x \in View /\ LinesInv(records, x, a) /\ HeldInv(records, x, a)
      /\ AnswerInv(records, x, a) /\ \A p \in 1 .. a - 1 : Kept(records, x, p, a)
      /\ x.lines \in Seq(Line) /\ x.pending \in [Slots -> Nat]
      /\ x.answerAt \in Nat /\ Len(x.lines) \in Nat
      /\ a \in Nat \ {0} /\ x.block = {} /\ Never(x.lines, a)
      /\ \A p \in 1 .. (a + 1) - 1 : p \in 1 .. a - 1 \/ p = a
  BY FlushedFacts
<1>2. /\ records[a].kind \notin Outside \cup DeltaKinds /\ records[a].kind \in AtOnce
      /\ \A slot \in Slots : records[a].kind # StartOf(slot)
      /\ \A slot \in Slots : records[a].kind = DoneOf(slot) => slot = s
      /\ records[a].kind # "context_start" /\ records[a].kind # "text"
      /\ records[a].kind = "context_done" <=> s = "context"
  BY KindFacts DEF Outside, AtOnce, OwnLine, Slots
<1>3. /\ o \in Nat
      /\ o # 0 => o \in 1 .. a - 1 /\ records[o].kind = StartOf(s)
  BY <1>1 DEF HeldInv
<1>4. /\ line \in Line /\ line.label = s /\ ~line.placeholder
      /\ line.sources = IF o # 0 THEN {o, a} ELSE {a}
  BY <1>1, <1>3 DEF LineOf, Line, Labels, Slots
<1>5. PairUp(x, s, a) = w
  BY DEF PairUp
<1> HIDE DEF line
<1>6. Append(x.lines, line) \in Seq(Line) /\ Len(Append(x.lines, line)) = Len(x.lines) + 1
  BY <1>1, <1>4, Sequences
<1>7. w \in View /\ w.lines = Append(x.lines, line) /\ w.block = x.block
      /\ w.answerAt = x.answerAt /\ w.pending = [x.pending EXCEPT ![s] = 0]
  BY <1>1, <1>6 DEF View
<1> HIDE DEF w
<1>8. /\ w.pending \in [Slots -> Nat] /\ w.pending[s] = 0
      /\ \A slot \in Slots \ {s} : w.pending[slot] = x.pending[slot]
  BY <1>1, <1>7
<1>9. OneMore(x.lines, w.lines, line)
  BY <1>1, <1>4, <1>7, Appended
<1>10. GoodLine(records, line, a + 1)
  <2>1. line.sources \subseteq 1 .. (a + 1) - 1
    BY <1>1, <1>3, <1>4
  <2>2. TextLine(records, line)
    <3>1. StartOf(s) # "text"
      BY KindFacts DEF Slots
    <3>2. QED
      BY <1>2, <1>3, <1>4, <3>1 DEF TextLine
  <2>3. PairLine(records, line)
    <3>1. SUFFICES ASSUME s \in CallSlots PROVE PairLine(records, line)
      BY <1>4 DEF PairLine
    <3>2. \A p, q \in line.sources : records[p].n = records[q].n
      BY <1>4, <3>1
    <3>3. a \in line.sources /\ records[a].kind # StartOf(line.label)
      BY <1>2, <1>4
    <3>4. QED
      BY <3>2, <3>3 DEF PairLine
  <2>4. QED
    BY <2>1, <2>2, <2>3 DEF GoodLine
<1>11. LinesInv(records, w, a + 1)
  <2>1. LinesInv(records, x, a + 1)
    BY <1>1, GoodLater
  <2>2. QED
    BY <1>9, <1>10, <2>1, LinesMore
<1>12. HeldInv(records, w, a + 1)
  <2>1. HeldInv(records, x, a + 1)
    BY <1>1, GoodLater
  <2>2. QED
    BY <1>1, <1>7, <1>8, <2>1 DEF HeldInv
<1>13. AnswerInv(records, w, a + 1)
  BY <1>1, <1>6, <1>7 DEF AnswerInv
<1>14. ASSUME NEW p \in 1 .. a - 1 PROVE Kept(records, w, p, a + 1)
  <2>1. p # a /\ p # 0 /\ p \in Nat
    BY <1>1
  <2>2. records[a].kind # "context_done" \/ w.pending["context"] # p
    BY <1>2, <1>8, <2>1
  <2>3. CASE p # o
    <3>1. \A slot \in Slots : x.pending[slot] = p <=> w.pending[slot] = p
      BY <1>8, <2>1, <2>3
    <3>2. p \notin line.sources
      BY <1>4, <2>1, <2>3
    <3>3. Kept(records, w, p, a)
      BY <1>1, <1>7, <1>9, <3>1, <3>2, KeptOther
    <3>4. QED
      BY <1>1, <2>2, <3>3, KeptLater
  <2>4. CASE p = o
    <3>1. records[p].kind = StartOf(s)
      BY <1>3, <2>1, <2>4
    <3>2. Never(x.lines, p)
      BY <1>1, <2>4, <3>1 DEF Kept
    <3>3. Once(w.lines, p)
      BY <1>4, <1>9, <2>1, <2>4, <3>2 DEF OneMore
    <3>4. w.pending[s] # p
      BY <1>8, <2>1
    <3>5. /\ records[p].kind \notin Outside \cup AtOnce \cup DeltaKinds
          /\ \A slot \in Slots : records[p].kind = StartOf(slot) => slot = s
          /\ records[p].kind = "context_start" => s = "context"
      BY <3>1, KindFacts DEF Outside, AtOnce, OwnLine, Slots
    <3>6. s = "context" => Seen(records, "context_done", p, a + 1)
      BY <1>1, <1>2 DEF Seen
    <3>7. QED
      BY <3>3, <3>4, <3>5, <3>6 DEF Kept
  <2>5. QED
    BY <2>3, <2>4
<1>15. Kept(records, w, a, a + 1)
  <2>1. Once(w.lines, a)
    BY <1>1, <1>4, <1>9 DEF OneMore
  <2>2. QED
    BY <1>2, <2>1 DEF Kept
<1>16. \A slot \in CallSlots : SlotInv(records, w, slot, a + 1)
  <2>1. CallSlots \subseteq Slots
    BY KindFacts
  <2>2. \A slot \in CallSlots : records[a].kind # DoneOf(slot) => w.pending[slot] = x.pending[slot]
    BY <1>8, <2>1
  <2>3. \A slot \in CallSlots : records[a].kind = DoneOf(slot) => w.pending[slot] = 0
    BY <1>2, <1>8, <2>1
  <2>4. QED
    BY <1>2, <2>1, <2>2, <2>3, SlotsEmpty
<1>17. QED
  BY <1>1, <1>5, <1>7, <1>11, <1>12, <1>13, <1>14, <1>15, <1>16 DEF ViewInv, Core

LEMMA OwnLineTaken ==
  ASSUME Grammar(records), NEW a \in 1 .. Len(records), NEW x, Flushed(x, a),
         records[a].kind \in OwnLine
  PROVE  ViewInv(records, [x EXCEPT !.lines = Append(@, LineOf(Label(records[a].kind), {a}, a))],
                 a + 1)
<1> DEFINE line == LineOf(Label(records[a].kind), {a}, a)
           w == [x EXCEPT !.lines = Append(x.lines, line)]
<1>1. /\ x \in View /\ LinesInv(records, x, a) /\ HeldInv(records, x, a)
      /\ AnswerInv(records, x, a) /\ \A p \in 1 .. a - 1 : Kept(records, x, p, a)
      /\ x.lines \in Seq(Line) /\ x.pending \in [Slots -> Nat]
      /\ x.answerAt \in Nat /\ Len(x.lines) \in Nat
      /\ a \in Nat \ {0} /\ x.block = {} /\ Never(x.lines, a)
      /\ \A p \in 1 .. (a + 1) - 1 : p \in 1 .. a - 1 \/ p = a
  BY FlushedFacts
<1>2. /\ records[a].kind \notin Outside \cup DeltaKinds /\ records[a].kind \in AtOnce
      /\ \A slot \in Slots : records[a].kind # StartOf(slot)
      /\ \A slot \in Slots : records[a].kind # DoneOf(slot)
      /\ records[a].kind # "context_start" /\ records[a].kind # "text"
      /\ records[a].kind # "context_done"
  BY KindFacts DEF Outside, AtOnce, OwnLine, Slots
<1>3. Label(records[a].kind) \in Labels \ CallSlots
  BY DEF Label, OwnLine, Labels, CallSlots, EventKinds
<1>4. line \in Line /\ line.label \notin CallSlots /\ line.sources = {a}
  BY <1>1, <1>3 DEF LineOf, Line
<1> HIDE DEF line
<1>6. Append(x.lines, line) \in Seq(Line) /\ Len(Append(x.lines, line)) = Len(x.lines) + 1
  BY <1>1, <1>4, Sequences
<1>7. w \in View /\ w.lines = Append(x.lines, line) /\ w.block = x.block
      /\ w.answerAt = x.answerAt /\ w.pending = x.pending
  BY <1>1, <1>6 DEF View
<1> HIDE DEF w
<1>9. OneMore(x.lines, w.lines, line)
  BY <1>1, <1>4, <1>7, Appended
<1>10. GoodLine(records, line, a + 1)
  BY <1>1, <1>2, <1>4 DEF GoodLine, TextLine, PairLine
<1>11. LinesInv(records, w, a + 1)
  <2>1. LinesInv(records, x, a + 1)
    BY <1>1, GoodLater
  <2>2. QED
    BY <1>9, <1>10, <2>1, LinesMore
<1>12. HeldInv(records, w, a + 1)
  <2>1. HeldInv(records, x, a + 1)
    BY <1>1, GoodLater
  <2>2. QED
    BY <1>1, <1>7, <2>1 DEF HeldInv
<1>13. AnswerInv(records, w, a + 1)
  BY <1>1, <1>6, <1>7 DEF AnswerInv
<1>14. ASSUME NEW p \in 1 .. a - 1 PROVE Kept(records, w, p, a + 1)
  <2>1. p \notin line.sources
    BY <1>1, <1>4
  <2>2. Kept(records, w, p, a)
    BY <1>1, <1>7, <1>9, <2>1, KeptOther
  <2>3. QED
    BY <1>1, <1>2, <2>2, KeptLater
<1>15. Kept(records, w, a, a + 1)
  <2>1. Once(w.lines, a)
    BY <1>1, <1>4, <1>9 DEF OneMore
  <2>2. QED
    BY <1>2, <2>1 DEF Kept
<1>16. \A slot \in CallSlots : SlotInv(records, w, slot, a + 1)
  <2>1. CallSlots \subseteq Slots
    BY KindFacts
  <2>2. QED
    BY <1>2, <1>7, <2>1, SlotsEmpty
<1>17. ViewInv(records, w, a + 1)
  BY <1>1, <1>7, <1>11, <1>12, <1>13, <1>14, <1>15, <1>16 DEF ViewInv, Core
<1>18. QED
  BY <1>17 DEF w, line

LEMMA OutsideTaken ==
  ASSUME Grammar(records), NEW a \in 1 .. Len(records), NEW x, Flushed(x, a),
         records[a].kind \in Outside
  PROVE  ViewInv(records, x, a + 1)
<1>1. /\ x \in View /\ LinesInv(records, x, a) /\ HeldInv(records, x, a)
      /\ AnswerInv(records, x, a) /\ \A p \in 1 .. a - 1 : Kept(records, x, p, a)
      /\ x.lines \in Seq(Line) /\ x.pending \in [Slots -> Nat]
      /\ x.answerAt \in Nat /\ Len(x.lines) \in Nat
      /\ a \in Nat \ {0} /\ x.block = {} /\ Never(x.lines, a)
      /\ \A p \in 1 .. (a + 1) - 1 : p \in 1 .. a - 1 \/ p = a
  BY FlushedFacts
<1>2. /\ records[a].kind \notin AtOnce \cup DeltaKinds
      /\ \A slot \in Slots : records[a].kind # StartOf(slot)
      /\ \A slot \in Slots : records[a].kind # DoneOf(slot)
      /\ records[a].kind # "context_start" /\ records[a].kind # "context_done"
  BY KindFacts DEF Outside, AtOnce, OwnLine, Slots
<1>3. LinesInv(records, x, a + 1) /\ HeldInv(records, x, a + 1)
  BY <1>1, GoodLater
<1>4. AnswerInv(records, x, a + 1)
  BY <1>1 DEF AnswerInv
<1>5. \A p \in 1 .. a - 1 : Kept(records, x, p, a + 1)
  BY <1>1, <1>2, KeptLater
<1>6. Kept(records, x, a, a + 1)
  BY <1>1, <1>2 DEF Kept
<1>7. \A slot \in CallSlots : SlotInv(records, x, slot, a + 1)
  <2>1. CallSlots \subseteq Slots
    BY KindFacts
  <2>2. QED
    BY <1>2, <2>1, SlotsEmpty
<1>8. QED
  BY <1>1, <1>3, <1>4, <1>5, <1>6, <1>7 DEF ViewInv, Core

LEMMA ScanKeeps ==
  ASSUME Grammar(records), NEW a \in 1 .. Len(records), NEW v, ViewInv(records, v, a)
  PROVE  LET kind == records[a].kind
             w == IF kind \in DeltaKinds THEN GroupDelta(v, a)
                  ELSE ProcessNonDelta(FlushUnmatched(FlushDelta(v), kind), a)
         IN  ViewInv(records, w, a + 1)
<1> DEFINE kind == records[a].kind
           x == FlushUnmatched(FlushDelta(v), kind)
<1>1. CASE kind \in DeltaKinds
  BY <1>1, GroupDeltaKeeps
<1>2. CASE kind \notin DeltaKinds
  <2>1. AtOrEnd(a, kind) /\ a \in 1 .. Len(records) + 1 /\ kind \in EventKinds
    BY <1>2, EventFacts DEF AtOrEnd, Grammar
  <2>2. /\ Core(records, x, a) /\ x.block = {}
        /\ \A slot \in CallSlots :
              x.pending[slot] = IF kind = DoneOf(slot) THEN v.pending[slot] ELSE 0
    BY <2>1, FlushUnmatchedKeeps
  <2> HIDE DEF x
  <2>3. Flushed(x, a)
    BY <2>2 DEF Flushed
  <2>4. CASE \E s \in Slots : kind = StartOf(s)
    <3> DEFINE s == CHOOSE s \in Slots : kind = StartOf(s)
    <3>1. s \in Slots /\ kind = StartOf(s)
      BY <2>4
    <3>2. ProcessNonDelta(x, a) = [x EXCEPT !.pending[s] = a]
      BY <2>4 DEF ProcessNonDelta
    <3> HIDE DEF s
    <3>3. QED
      BY <1>2, <2>3, <3>1, <3>2, StartTaken DEF x
  <2>5. CASE (\E s \in Slots : kind = DoneOf(s)) /\ ~\E s \in Slots : kind = StartOf(s)
    <3> DEFINE s == CHOOSE s \in Slots : kind = DoneOf(s)
    <3>1. s \in Slots /\ kind = DoneOf(s)
      BY <2>5
    <3>2. ProcessNonDelta(x, a) = PairUp(x, s, a)
      BY <2>5 DEF ProcessNonDelta
    <3> HIDE DEF s
    <3>3. s \in CallSlots => /\ x.pending[s] \in 1 .. a - 1
                             /\ records[x.pending[s]].n = records[a].n
      BY <2>2, <3>1, SlotHolds DEF ViewInv
    <3>4. QED
      BY <1>2, <2>3, <3>1, <3>2, <3>3, DoneTaken DEF x
  <2>6. CASE ~(\E s \in Slots : kind = DoneOf(s)) /\ ~\E s \in Slots : kind = StartOf(s)
    <3>1. ProcessNonDelta(x, a) =
            IF kind \in OwnLine
            THEN [x EXCEPT !.lines = Append(@, LineOf(Label(kind), {a}, a))]
            ELSE x
      BY <2>6 DEF ProcessNonDelta
    <3>2. CASE kind \in OwnLine
      BY <1>2, <2>3, <3>1, <3>2, OwnLineTaken DEF x
    <3>3. CASE kind \notin OwnLine
      <4>1. kind \in Outside
        BY <1>2, <2>1, <2>6, <3>3, KindFacts DEF Outside, OwnLine, EventKinds, Slots
      <4>2. QED
        BY <1>2, <2>3, <3>1, <3>3, <4>1, OutsideTaken DEF x
    <3>4. QED
      BY <3>2, <3>3
  <2>7. QED
    BY <2>4, <2>5, <2>6
<1>3. QED
  BY <1>1, <1>2

(***************************************************************************)
(* After the last record.                                                  *)
(***************************************************************************)
LEMMA EndFacts ==
  ASSUME Grammar(records)
  PROVE  /\ DonePos # 0 => /\ DonePos \in 1 .. Len(records)
                           /\ records[DonePos].kind = "turn_done"
         /\ \A q \in 1 .. Len(records) : records[q].kind = "turn_done" => q = DonePos
         /\ DonePos \in Nat /\ DoneTime \in Nat
<1> DEFINE E == {p \in DOMAIN records : records[p].kind = "turn_done"}
<1>1. /\ IsFiniteSet(1 .. Len(records)) /\ E \in SUBSET (1 .. Len(records))
      /\ Len(records) \in Nat
  BY FS_Interval DEF Grammar
<1>2. IsFiniteSet(E)
  BY <1>1, FS_Subset
<1>3. Cardinality(E) = 0 <=> E = {}
  BY <1>2, FS_EmptySet
<1>4. DonePos = IF E = {} THEN 0 ELSE First(E)
  <2>1. Count("turn_done") = Cardinality(E)
    BY DEF Count
  <2>2. DonePos = IF Count("turn_done") = 0 THEN 0 ELSE First(E)
    BY Zenon DEF DonePos
  <2> HIDE DEF E
  <2>3. QED
    BY <1>3, <2>1, <2>2
<1>5. \A q \in 1 .. Len(records) : records[q].kind = "turn_done" <=> q \in E
  BY DEF Grammar
<1> HIDE DEF E
<1>6. E # {} => First(E) \in E
  <2>1. E \in SUBSET Nat
    BY <1>1
  <2>2. QED
    BY <2>1, FirstOf
<1>7. DonePos # 0 => DonePos \in 1 .. Len(records) /\ records[DonePos].kind = "turn_done"
  BY <1>1, <1>4, <1>5, <1>6
<1>8. ASSUME NEW q \in 1 .. Len(records), records[q].kind = "turn_done"
      PROVE  q = DonePos
  <2>1. DonePos \in E
    BY <1>4, <1>5, <1>6, <1>8
  <2>2. DonePos \in 1 .. Len(records) /\ records[DonePos].kind = "turn_done"
    BY <1>1, <1>5, <2>1
  <2>3. QED
    BY <1>8, <2>2 DEF Grammar, OnceInATurn
<1>9. DonePos \in Nat /\ DoneTime \in Nat
  BY <1>1, <1>4, <1>6 DEF DoneTime
<1>10. QED
  BY <1>7, <1>8, <1>9

\* A line of the end of the turn, or a placeholder, may be added.
LEMMA FinalMore ==
  ASSUME NEW r, NEW x, NEW y, NEW line, FinalLines(r, x), OneMore(x, y, line),
         line.label \notin CallSlots,
         \A p \in line.sources : p \in 1 .. Len(r) /\ r[p].kind = "turn_done"
  PROVE  FinalLines(r, y)
<1>1. ASSUME NEW p \in 1 .. Len(r) PROVE Final(r, y, p)
  <2>1. Final(r, x, p)
    BY DEF FinalLines
  <2>2. CASE r[p].kind = "turn_done"
    BY <2>2, KindFacts DEF Final, AtOnce, OwnLine
  <2>3. CASE r[p].kind # "turn_done"
    <3>1. p \notin line.sources
      BY <2>3
    <3>2. /\ Never(x, p) => Never(y, p)
          /\ Once(x, p) => Once(y, p)
      BY <3>1 DEF OneMore
    <3>3. QED
      BY <2>1, <3>2 DEF Final
  <2>4. QED
    BY <2>2, <2>3
<1>2. PairLine(r, line) /\ TextLine(r, line)
  BY DEF PairLine, TextLine
<1>3. \A i \in 1 .. Len(y) : PairLine(r, y[i]) /\ TextLine(r, y[i])
  BY <1>2 DEF FinalLines, OneMore
<1>4. QED
  BY <1>1, <1>3 DEF FinalLines, OneMore

LEMMA ReadableMore ==
  ASSUME NEW r, NEW x, NEW y, NEW line, Readable(r, x), OneMore(x, y, line)
  PROVE  Readable(r, y)
<1>1. ASSUME NEW q \in 1 .. Len(r), \E i \in 1 .. Len(x) : AnswerLine(r, x[i], q)
      PROVE  \E i \in 1 .. Len(y) : AnswerLine(r, y[i], q)
  <2>1. PICK i \in 1 .. Len(x) : AnswerLine(r, x[i], q)
    BY <1>1
  <2>2. PICK j \in 1 .. Len(y) : y[j] = x[i]
    BY DEF OneMore
  <2>3. QED
    BY <2>1, <2>2
<1>2. QED
  BY <1>1 DEF Readable

Fine(v) ==
    v \in View /\ v.answerAt <= Len(v.lines) /\ FinalLines(records, v.lines)

\* A step that adds a line to a fine view, and may move answerAt.
LEMMA FineMore ==
  ASSUME Grammar(records), NEW v, Fine(v), NEW w, NEW line, NEW n \in Nat,
         OneMore(v.lines, w.lines, line), n <= Len(v.lines) + 1,
         w = [v EXCEPT !.lines = w.lines, !.answerAt = n],
         line.label \notin CallSlots,
         line.sources = {} \/ (DonePos # 0 /\ line.sources = {DonePos})
  PROVE  Fine(w) /\ (Readable(records, v.lines) => Readable(records, w.lines))
<1>1. w.lines \in Seq(Line) /\ Len(w.lines) = Len(v.lines) + 1
  BY DEF OneMore
<1>2. w \in View /\ w.answerAt = n
  <2> DEFINE s == w.lines
  <2>1. w = [v EXCEPT !.lines = s, !.answerAt = n] /\ s \in Seq(Line) /\ v \in View
    BY <1>1 DEF Fine
  <2> HIDE DEF s
  <2>2. QED
    BY <2>1 DEF View
<1>3. FinalLines(records, w.lines)
  BY EndFacts, FinalMore DEF Fine
<1>4. QED
  BY <1>1, <1>2, <1>3, ReadableMore DEF Fine

LEMMA PlaceholderType ==
  ASSUME NEW label \in {"answer", "thinking"}, NEW from \in Nat
  PROVE  LET line == Placeholder(label, from)
         IN  line \in Line /\ line.label \notin CallSlots /\ line.sources = {}
BY DEF Placeholder, Line, Labels, CallSlots

LEMMA AddAnswerFine ==
  ASSUME Grammar(records), NEW v, Fine(v),
         v.answerAt # 0 => \E p \in 1 .. Len(records) : records[p].kind = "text"
  PROVE  Fine(AddAnswer(v)) /\ Readable(records, AddAnswer(v).lines)
<1> DEFINE line == LineOf("answer", {DonePos}, DonePos)
           w == AddAnswer(v)
<1>1. /\ v \in View /\ v.lines \in Seq(Line) /\ Len(v.lines) \in Nat
      /\ v.answerAt \in Nat /\ Len(records) \in Nat
  BY ViewFacts DEF Fine, Grammar
<1>2. CASE DonePos # 0 /\ v.answerAt = 0 /\ records[DonePos].text
  <2>1. line \in Line /\ line.label = "answer" /\ ~line.placeholder /\ line.sources = {DonePos}
    BY EndFacts DEF LineOf, Line, Labels
  <2>2. w = [v EXCEPT !.lines = Append(v.lines, line), !.answerAt = Len(v.lines) + 1]
    BY <1>2 DEF AddAnswer
  <2> HIDE DEF w, line
  <2>3. w.lines = Append(v.lines, line)
    BY <1>1, <2>2 DEF View
  <2>4. OneMore(v.lines, w.lines, line)
    BY <1>1, <2>1, <2>3, Appended
  <2>5. Fine(w)
    <3> DEFINE n == Len(v.lines) + 1
    <3>1. n \in Nat /\ n <= Len(v.lines) + 1
      BY <1>1
    <3>2. w = [v EXCEPT !.lines = w.lines, !.answerAt = n]
      BY <2>2, <2>3
    <3>3. line.label \notin CallSlots
      BY <2>1 DEF CallSlots
    <3> HIDE DEF n
    <3>4. QED
      BY <1>2, <2>1, <2>4, <3>1, <3>2, <3>3, FineMore
  <2>6. PICK i \in 1 .. Len(w.lines) : w.lines[i] = line
    BY <2>4 DEF OneMore
  <2>7. Readable(records, w.lines)
    BY <2>1, <2>6, EndFacts DEF Readable, AnswerLine
  <2>8. QED
    BY <2>5, <2>7 DEF w
<1>3. CASE ~(DonePos # 0 /\ v.answerAt = 0 /\ records[DonePos].text)
  <2>1. w = v
    BY <1>3 DEF AddAnswer
  <2>2. ASSUME NEW q \in 1 .. Len(records), records[q].kind = "turn_done", records[q].text,
               records[q].n = 0 => \A p \in 1 .. Len(records) : records[p].kind # "text"
        PROVE  \E i \in 1 .. Len(v.lines) : AnswerLine(records, v.lines[i], q)
    <3>1. q = DonePos /\ q # 0
      BY <2>2, EndFacts
    <3>2. v.answerAt # 0
      BY <1>3, <2>2, <3>1
    <3>3. records[q].n # 0
      BY <2>2, <3>2
    <3>4. PICK p \in 1 .. q - 1 :
              records[p].kind = "text" /\ records[p].text /\ records[p].n = records[q].n
      BY <2>2, <3>3 DEF Grammar, Told, ToldBefore
    <3>5. p \in 1 .. Len(records)
      BY <1>1
    <3>6. Once(v.lines, p)
      BY <3>4, <3>5 DEF Fine, FinalLines, Final, DeltaKinds
    <3>7. PICK i \in 1 .. Len(v.lines) : p \in v.lines[i].sources
      BY <3>6 DEF Once
    <3>8. TextLine(records, v.lines[i])
      BY DEF Fine, FinalLines
    <3>9. QED
      BY <3>4, <3>7, <3>8 DEF TextLine, AnswerLine
  <2>3. Readable(records, v.lines)
    BY <2>2 DEF Readable
  <2>4. QED
    BY <2>1, <2>3
<1>4. QED
  BY <1>2, <1>3

LEMMA AddNoThinkingFine ==
  ASSUME Grammar(records), NEW v, Fine(v), Readable(records, v.lines)
  PROVE  LET w == AddNoThinking(v) IN Fine(w) /\ Readable(records, w.lines)
<1> DEFINE w == AddNoThinking(v)
<1>1. /\ v \in View /\ v.lines \in Seq(Line) /\ Len(v.lines) \in Nat
      /\ v.answerAt \in Nat /\ v.answerAt <= Len(v.lines)
  BY ViewFacts DEF Fine
<1>2. CASE v.thinkingAt # 0
  BY <1>2 DEF AddNoThinking
<1>3. CASE v.thinkingAt = 0 /\ v.answerAt # 0
  <2> DEFINE k == v.answerAt
             line == Placeholder("thinking", v.lines[k].from)
             n == k + 1
  <2>1. k \in 1 .. Len(v.lines) /\ v.lines[k] \in Line
    BY <1>1, <1>3
  <2>2. line \in Line /\ line.label \notin CallSlots /\ line.sources = {}
    <3>1. v.lines[k].from \in Nat
      BY <2>1 DEF Line
    <3>2. QED
      BY <3>1, PlaceholderType
  <2>3. w = [v EXCEPT !.lines = InsertAt(v.lines, k, line), !.answerAt = n]
    BY <1>3 DEF AddNoThinking
  <2>4. n \in Nat /\ n <= Len(v.lines) + 1
    BY <1>1
  <2> HIDE DEF w, line, k, n
  <2>5. w.lines = InsertAt(v.lines, k, line)
    BY <1>1, <2>3 DEF View
  <2>6. OneMore(v.lines, w.lines, line)
    BY <1>1, <2>1, <2>2, <2>5, Inserted
  <2>7. w = [v EXCEPT !.lines = w.lines, !.answerAt = n]
    BY <2>3, <2>5
  <2>8. QED
    BY <2>2, <2>4, <2>6, <2>7, FineMore DEF w
<1>4. CASE v.thinkingAt = 0 /\ v.answerAt = 0
  <2> DEFINE line == Placeholder("thinking", DoneTime)
  <2>1. line \in Line /\ line.label \notin CallSlots /\ line.sources = {}
    BY EndFacts, PlaceholderType
  <2>2. w = [v EXCEPT !.lines = Append(v.lines, line)]
    BY <1>4 DEF AddNoThinking
  <2> HIDE DEF w, line
  <2>3. w.lines = Append(v.lines, line)
    BY <1>1, <2>2 DEF View
  <2>4. OneMore(v.lines, w.lines, line)
    BY <1>1, <2>1, <2>3, Appended
  <2>5. w = [v EXCEPT !.lines = w.lines, !.answerAt = v.answerAt]
    BY <1>1, <2>2, <2>3 DEF View
  <2>6. v.answerAt <= Len(v.lines) + 1
    BY <1>1
  <2>7. QED
    BY <1>1, <2>1, <2>4, <2>5, <2>6, FineMore DEF w
<1>5. QED
  BY <1>2, <1>3, <1>4

LEMMA AddNoAnswerFine ==
  ASSUME Grammar(records), NEW v, Fine(v), Readable(records, v.lines)
  PROVE  LET w == AddNoAnswer(v) IN Fine(w) /\ Readable(records, w.lines)
<1> DEFINE w == AddNoAnswer(v)
           line == Placeholder("answer", DoneTime)
<1>1. /\ v \in View /\ v.lines \in Seq(Line) /\ Len(v.lines) \in Nat
      /\ v.answerAt \in Nat /\ v.answerAt <= Len(v.lines)
  BY ViewFacts DEF Fine
<1>2. CASE v.answerAt # 0
  BY <1>2 DEF AddNoAnswer
<1>3. CASE v.answerAt = 0
  <2>1. line \in Line /\ line.label \notin CallSlots /\ line.sources = {}
    BY EndFacts, PlaceholderType
  <2>2. w = [v EXCEPT !.lines = Append(v.lines, line)]
    BY <1>3 DEF AddNoAnswer
  <2> HIDE DEF w, line
  <2>3. w.lines = Append(v.lines, line)
    BY <1>1, <2>2 DEF View
  <2>4. OneMore(v.lines, w.lines, line)
    BY <1>1, <2>1, <2>3, Appended
  <2>5. w = [v EXCEPT !.lines = w.lines, !.answerAt = v.answerAt]
    BY <1>1, <2>2, <2>3 DEF View
  <2>6. v.answerAt <= Len(v.lines) + 1
    BY <1>1
  <2>7. QED
    BY <1>1, <2>1, <2>4, <2>5, <2>6, FineMore DEF w
<1>4. QED
  BY <1>2, <1>3

LEMMA AddDoneRenders ==
  ASSUME Grammar(records), NEW v, Fine(v), Readable(records, v.lines)
  PROVE  Rendered(records, AddDone(v).lines)
<1> DEFINE w == AddDone(v)
           line == LineOf("done", {DonePos}, DonePos)
<1>1. /\ v \in View /\ v.lines \in Seq(Line) /\ Len(v.lines) \in Nat
      /\ v.answerAt \in Nat /\ v.answerAt <= Len(v.lines)
  BY ViewFacts DEF Fine
<1>2. CASE DonePos = 0
  <2>1. w = v
    BY <1>2 DEF AddDone
  <2>2. EndLast(records, v.lines)
    BY <1>2, EndFacts DEF EndLast
  <2>3. QED
    BY <2>1, <2>2 DEF Rendered, Fine
<1>3. CASE DonePos # 0
  <2>1. line \in Line /\ line.label \notin CallSlots /\ line.sources = {DonePos}
    BY EndFacts DEF LineOf, Line, Labels, CallSlots
  <2>2. w = [v EXCEPT !.lines = Append(v.lines, line)]
    BY <1>3 DEF AddDone
  <2> HIDE DEF w, line
  <2>3. w.lines = Append(v.lines, line)
    BY <1>1, <2>2 DEF View
  <2>4. OneMore(v.lines, w.lines, line)
    BY <1>1, <2>1, <2>3, Appended
  <2>5. w = [v EXCEPT !.lines = w.lines, !.answerAt = v.answerAt]
    BY <1>1, <2>2, <2>3 DEF View
  <2>6. v.answerAt <= Len(v.lines) + 1
    BY <1>1
  <2>7. Fine(w) /\ Readable(records, w.lines)
    BY <1>1, <1>3, <2>1, <2>4, <2>5, <2>6, FineMore
  <2>8. Len(w.lines) = Len(v.lines) + 1 /\ w.lines[Len(v.lines) + 1] = line
    BY <1>1, <2>1, <2>3, Sequences
  <2>9. EndLast(records, w.lines)
    BY <1>1, <2>1, <2>8, EndFacts DEF EndLast
  <2>10. QED
    BY <2>7, <2>9 DEF Rendered, Fine, w
<1>4. QED
  BY <1>2, <1>3

LEMMA ConcludeRenders ==
  ASSUME Grammar(records), NEW v, ViewInv(records, v, Len(records) + 1)
  PROVE  LET w == AddDone(AddNoAnswer(AddNoThinking(AddAnswer(
                      FlushUnmatched(FlushDelta(v), "none")))))
         IN  Rendered(records, w.lines)
<1> DEFINE a == Len(records) + 1
           x == FlushUnmatched(FlushDelta(v), "none")
<1>1. Len(records) \in Nat /\ a \in 1 .. Len(records) + 1 /\ a - 1 = Len(records)
  BY DEF Grammar
<1>2. AtOrEnd(a, "none")
  BY <1>1 DEF AtOrEnd
<1>3. /\ Core(records, x, a) /\ x.block = {}
      /\ \A slot \in CallSlots :
            x.pending[slot] = IF "none" = DoneOf(slot) THEN v.pending[slot] ELSE 0
  BY <1>1, <1>2, FlushUnmatchedKeeps
<1>4. \A slot \in CallSlots : x.pending[slot] = 0
  BY <1>3, KindFacts DEF CallSlots
<1> HIDE DEF x
<1>5. ASSUME NEW p \in 1 .. Len(records) PROVE Final(records, x.lines, p)
  <2>1. Kept(records, x, p, a) /\ p # 0
    BY <1>1, <1>3 DEF Core
  <2>2. records[p].kind \in {"llm_start", "tool_start"} => Once(x.lines, p)
    <3>1. x.pending["llm"] # p /\ x.pending["tool"] # p
      BY <1>4, <2>1 DEF CallSlots
    <3>2. QED
      BY <2>1, <3>1, KindFacts DEF Kept, Slots
  <2>3. records[p].kind = "context_start" =>
           IF Seen(records, "context_done", p, a) THEN Once(x.lines, p)
                                                  ELSE Never(x.lines, p)
    BY <2>1, KindFacts DEF Kept, Slots
  <2>4. QED
    BY <1>3, <2>1, <2>2, <2>3 DEF Kept, Final, Outside
<1>6. FinalLines(records, x.lines)
  BY <1>3, <1>5, ViewFacts DEF FinalLines, Core, LinesInv, GoodLine
<1>7. Fine(x)
  BY <1>3, <1>6 DEF Fine, Core, AnswerInv
<1>8. x.answerAt # 0 => \E p \in 1 .. Len(records) : records[p].kind = "text"
  BY <1>1, <1>3 DEF Core, AnswerInv
<1> DEFINE y == AddAnswer(x)
           z == AddNoThinking(y)
           u == AddNoAnswer(z)
<1>9. Fine(y) /\ Readable(records, y.lines)
  BY <1>7, <1>8, AddAnswerFine
<1> HIDE DEF y
<1>10. Fine(z) /\ Readable(records, z.lines)
  BY <1>9, AddNoThinkingFine
<1> HIDE DEF z
<1>11. Fine(u) /\ Readable(records, u.lines)
  BY <1>10, AddNoAnswerFine
<1> HIDE DEF u
<1>12. Rendered(records, AddDone(u).lines)
  BY <1>11, AddDoneRenders
<1>13. QED
  BY <1>12 DEF u, z, y, x

(***************************************************************************)
(* The invariant, and what the trace shows.                                *)
(***************************************************************************)
LEMMA StartedView ==
  ASSUME NEW r, Len(r) \in Nat
  PROVE  ViewInv(r, View0, 1)
<1>1. /\ View0.lines = <<>> /\ View0.block = {} /\ View0.answerAt = 0
      /\ \A slot \in Slots : View0.pending[slot] = 0
  BY DEF View0
<1>2. View0 \in View
  <2>1. <<>> \in Seq(Line)
    OBVIOUS
  <2>2. QED
    BY <2>1 DEF View0, View, DeltaKinds
<1>3. 1 .. 1 - 1 = {} /\ 1 .. Len(View0.lines) = {} /\ Len(View0.lines) = 0
  BY <1>1
<1>4. QED
  BY <1>1, <1>2, <1>3 DEF ViewInv, Core, LinesInv, HeldInv, AnswerInv, SlotInv

LEMMA RenderInitial == RenderInit => RenderInv
<1> SUFFICES ASSUME RenderInit PROVE RenderInv
  OBVIOUS
<1>1. records = <<>> /\ Len(records) = 0 /\ <<>> \in Seq(Event)
  BY DEF RenderInit
<1>2. Grammar(records)
  BY <1>1 DEF Grammar, OnceInATurn, Numbered, Begun, Told
<1>3. TurnInv
  <2>1. reply \in [n : Nat, text : BOOLEAN] /\ ~reply.text
    BY DEF RenderInit, NoReply
  <2>2. CallsCounted(records) /\ Lacks(records, "turn_done")
    BY <1>1 DEF CallsCounted, Lacks
  <2>3. QED
    BY <1>1, <2>1, <2>2 DEF RenderInit, TurnInv
<1>4. ViewInv(records, view, at)
  BY <1>1, StartedView DEF RenderInit
<1>5. QED
  BY <1>1, <1>2, <1>3, <1>4 DEF RenderInit, RenderInv

LEMMA RenderInductive == RenderInv /\ [RenderNext]_renderVars => RenderInv'
<1> SUFFICES ASSUME RenderInv, [RenderNext]_renderVars PROVE RenderInv'
  OBVIOUS
<1>1. /\ Grammar(records) /\ at \in 1 .. Len(records) + 1 /\ records \in Seq(Event)
      /\ Len(records) \in Nat
  BY DEF RenderInv, Grammar
<1>2. CASE Running /\ Working
  <2>1. Grammar(records) /\ TurnInv /\ at = 1 /\ view = View0 /\ ~rendered
    BY <1>2 DEF RenderInv
  <2>2. Grammar(records') /\ TurnInv' /\ UNCHANGED <<status, at, view, rendered>>
    BY <1>2, <2>1, TurnKeeps
  <2>3. Len(records') \in Nat
    BY <2>2 DEF Grammar
  <2>4. ViewInv(records', View0, 1)
    BY <2>3, StartedView
  <2>5. QED
    BY <2>1, <2>2, <2>3, <2>4 DEF RenderInv
<1>3. CASE Finish
  <2>1. /\ UNCHANGED <<turn, records, at, view, rendered>> /\ ~Running'
    BY <1>3 DEF Finish, Running
  <2>2. QED
    BY <1>1, <2>1 DEF RenderInv
<1>4. CASE Interrupt
  <2>1. PICK n \in 0 .. Len(records) : records' = SubSeq(records, 1, n)
    BY <1>4 DEF Interrupt
  <2>2. Grammar(records') /\ Len(records') = n /\ n \in Nat
    BY <1>1, <2>1, Prefix
  <2>3. Running /\ ~Running' /\ UNCHANGED <<at, view, rendered>>
    BY <1>4 DEF Interrupt, Running
  <2>4. at = 1 /\ view = View0 /\ ~rendered
    BY <2>3 DEF RenderInv
  <2>5. ViewInv(records', View0, 1)
    BY <2>2, StartedView
  <2>6. QED
    BY <2>2, <2>3, <2>4, <2>5 DEF RenderInv
<1>5. CASE Scan
  <2>1. /\ ~Running /\ at \in 1 .. Len(records) /\ at' = at + 1
        /\ UNCHANGED <<turn, records, status, rendered>>
    BY <1>1, <1>5 DEF Scan
  <2>2. CASE rendered
    BY <1>1, <2>1, <2>2 DEF RenderInv
  <2>3. CASE ~rendered
    <3>1. ViewInv(records, view, at)
      BY <2>3 DEF RenderInv
    <3>2. view' = IF records[at].kind \in DeltaKinds THEN GroupDelta(view, at)
                  ELSE ProcessNonDelta(
                          FlushUnmatched(FlushDelta(view), records[at].kind), at)
      BY <1>5 DEF Scan
    <3>3. ViewInv(records, view', at + 1)
      BY <1>1, <2>1, <3>1, <3>2, ScanKeeps
    <3>4. ~Running' /\ at + 1 \in 1 .. Len(records) + 1
      BY <1>1, <2>1 DEF Running
    <3>5. QED
      BY <1>1, <2>1, <2>3, <3>3, <3>4 DEF RenderInv
  <2>4. QED
    BY <2>2, <2>3
<1>6. CASE Conclude
  <2>1. /\ ~Running /\ ~rendered /\ at = Len(records) + 1 /\ rendered'
        /\ UNCHANGED <<turn, records, status, at>>
    BY <1>6 DEF Conclude
  <2>2. ViewInv(records, view, Len(records) + 1)
    BY <2>1 DEF RenderInv
  <2>3. view' = AddDone(AddNoAnswer(AddNoThinking(AddAnswer(
                    FlushUnmatched(FlushDelta(view), "none")))))
    BY <1>6 DEF Conclude
  <2>4. Rendered(records, view'.lines)
    BY <1>1, <2>2, <2>3, ConcludeRenders
  <2>5. ~Running'
    BY <2>1 DEF Running
  <2>6. QED
    BY <1>1, <2>1, <2>4, <2>5 DEF RenderInv
<1>7. CASE UNCHANGED renderVars
  <2>1. UNCHANGED <<turn, records, status, at, view, rendered>>
    BY <1>7 DEF renderVars
  <2>2. /\ Running' <=> Running
        /\ TurnInv' <=> TurnInv
    BY <2>1 DEF turn, Running, TurnInv, ThisCall, Count
  <2>3. QED
    BY <1>1, <2>1, <2>2 DEF RenderInv
<1>8. QED
  BY <1>2, <1>3, <1>4, <1>5, <1>6, <1>7 DEF RenderNext

LEMMA RenderAlways == RenderSpec => []RenderInv
<1>1. QED
  BY RenderInitial, RenderInductive, PTL DEF RenderSpec

LEMMA ShowingOnce ==
  ASSUME view.lines \in Seq(Line), NEW p
  PROVE  /\ Never(view.lines, p) => Showing(p) = {}
         /\ Once(view.lines, p) => Cardinality(Showing(p)) = 1
         /\ \/ Never(view.lines, p)
            \/ Once(view.lines, p)
            => Cardinality(Showing(p)) <= 1
<1>1. DOMAIN view.lines = 1 .. Len(view.lines)
  OBVIOUS
<1>2. Never(view.lines, p) => Showing(p) = {}
  BY <1>1 DEF Never, Showing
<1>3. ASSUME Once(view.lines, p) PROVE Cardinality(Showing(p)) = 1
  <2>1. PICK i \in 1 .. Len(view.lines) :
            /\ p \in view.lines[i].sources
            /\ \A j \in 1 .. Len(view.lines) : p \in view.lines[j].sources => j = i
    BY <1>3 DEF Once
  <2>2. Showing(p) = {i}
    BY <1>1, <2>1 DEF Showing
  <2>3. QED
    BY <2>2, FS_Singleton
<1>4. ASSUME Never(view.lines, p) \/ Once(view.lines, p)
      PROVE  Cardinality(Showing(p)) <= 1
  <2>1. Cardinality(Showing(p)) \in {0, 1}
    BY <1>2, <1>3, <1>4, FS_EmptySet
  <2>2. QED
    BY <2>1
<1>5. QED
  BY <1>2, <1>3, <1>4

LEMMA ShowsEvents == RenderInv => EveryEventOnOneLine
<1> SUFFICES ASSUME RenderInv, rendered PROVE EveryEventOnOneLine
  BY DEF EveryEventOnOneLine
<1>1. /\ Grammar(records) /\ records \in Seq(Event) /\ Rendered(records, view.lines)
      /\ view.lines \in Seq(Line) /\ DOMAIN records = 1 .. Len(records)
      /\ Len(records) \in Nat
  BY DEF RenderInv, Grammar, Rendered, FinalLines
<1> DEFINE Claim(p) ==
      LET e == records[p]
          recalled == \E q \in DOMAIN records :
                         q > p /\ records[q].kind = "context_done"
          leftOut == \/ e.kind = "turn_start"
                     \/ e.kind = "context_start" /\ ~recalled
                     \/ e.kind \in DeltaKinds /\ ~e.text
      IN IF e.kind = "turn_done" THEN Len(view.lines) \in Showing(p)
         ELSE /\ Cardinality(Showing(p)) <= 1
              /\ ~leftOut => Showing(p) # {}
<1>2. ASSUME NEW p \in 1 .. Len(records) PROVE Claim(p)
  <2> DEFINE kind == records[p].kind
             done == \E q \in DOMAIN records : q > p /\ records[q].kind = "context_done"
  <2>1. Final(records, view.lines, p)
    BY <1>1 DEF Rendered, FinalLines
  <2>2. done <=> Seen(records, "context_done", p, Len(records) + 1)
    BY <1>1 DEF Seen
  <2>3. /\ Never(view.lines, p) => Showing(p) = {}
        /\ Once(view.lines, p) => Cardinality(Showing(p)) = 1
        /\ Never(view.lines, p) \/ Once(view.lines, p) => Cardinality(Showing(p)) <= 1
    BY <1>1, ShowingOnce
  <2>0. Cardinality(Showing(p)) = 1 => Showing(p) # {}
    BY FS_EmptySet
  <2>4. kind \in EventKinds
    BY <1>1, EventFacts
  <2>5. kind = "turn_done" => Len(view.lines) \in Showing(p)
    BY <1>1 DEF Rendered, EndLast, Showing
  <2>6. Claim(p) <=>
          IF kind = "turn_done" THEN Len(view.lines) \in Showing(p)
          ELSE /\ Cardinality(Showing(p)) <= 1
               /\ \/ Showing(p) # {} \/ kind = "turn_start"
                  \/ kind = "context_start" /\ ~done
                  \/ kind \in DeltaKinds /\ ~records[p].text
    OBVIOUS
  <2> HIDE DEF done, Claim
  <2>7. CASE kind = "turn_start"
    BY <2>1, <2>3, <2>6, <2>7 DEF Final
  <2>8. CASE kind = "context_start"
    BY <2>0, <2>1, <2>2, <2>3, <2>6, <2>8 DEF Final
  <2>9. CASE kind \in DeltaKinds
    BY <2>0, <2>1, <2>3, <2>6, <2>9 DEF Final, DeltaKinds
  <2>10. CASE kind = "turn_done"
    BY <2>5, <2>6, <2>10
  <2>11. CASE kind \in AtOnce \cup {"llm_start", "tool_start"}
    <3>1. Cardinality(Showing(p)) = 1 /\ kind # "turn_done"
      BY <2>1, <2>3, <2>11 DEF Final, AtOnce, OwnLine
    <3>2. QED
      BY <2>0, <2>6, <3>1
  <2>12. QED
    BY <2>4, <2>7, <2>8, <2>9, <2>10, <2>11 DEF EventKinds, AtOnce, OwnLine
<1>3. QED
  BY <1>1, <1>2 DEF EveryEventOnOneLine

LEMMA ShowsPairs == RenderInv => PairsBelongTogether
<1> SUFFICES ASSUME RenderInv, rendered PROVE PairsBelongTogether
  BY DEF PairsBelongTogether
<1>1. /\ \A i \in 1 .. Len(view.lines) : PairLine(records, view.lines[i])
      /\ view.lines \in Seq(Line) /\ records \in Seq(Event)
  BY DEF RenderInv, Rendered, FinalLines, Grammar
<1>2. DOMAIN view.lines = 1 .. Len(view.lines) /\ DOMAIN records = 1 .. Len(records)
  BY <1>1
<1>3. ASSUME NEW i \in LinesOf("llm") \cup LinesOf("tool")
      PROVE  /\ view.lines[i].label \in CallSlots /\ PairLine(records, view.lines[i])
  BY <1>1, <1>2, <1>3 DEF LinesOf, CallSlots
<1>4. QED
  BY <1>2, <1>3 DEF PairsBelongTogether, PairLine

LEMMA ShowsAnswer == RenderInv => AnswerIsReadable
<1> SUFFICES ASSUME RenderInv, rendered, DonePos # 0, records[DonePos].text,
                    Degraded => Count("text") = 0
             PROVE  AnswerShown
  BY DEF AnswerIsReadable
<1>1. /\ Grammar(records) /\ records \in Seq(Event) /\ Readable(records, view.lines)
      /\ view.lines \in Seq(Line)
  BY DEF RenderInv, Rendered, FinalLines, Grammar
<1>2. DonePos \in 1 .. Len(records) /\ records[DonePos].kind = "turn_done"
  BY <1>1, EndFacts
<1>3. ASSUME records[DonePos].n = 0, NEW p \in 1 .. Len(records),
             records[p].kind = "text"
      PROVE  FALSE
  <2> DEFINE E == {q \in DOMAIN records : records[q].kind = "text"}
  <2>1. Cardinality(E) = 0
    BY <1>3 DEF Degraded, Count
  <2>2. IsFiniteSet(1 .. Len(records)) /\ E \in SUBSET (1 .. Len(records)) /\ p \in E
    <3>1. DOMAIN records = 1 .. Len(records) /\ Len(records) \in Nat
      BY <1>1
    <3>2. p \in E /\ E \in SUBSET (1 .. Len(records))
      BY <1>3, <3>1
    <3>3. QED
      BY <3>1, <3>2, FS_Interval
  <2>3. IsFiniteSet(E)
    BY <2>2, FS_Subset
  <2> HIDE DEF E
  <2>4. QED
    BY <2>1, <2>2, <2>3, FS_EmptySet
<1>4. PICK i \in 1 .. Len(view.lines) : AnswerLine(records, view.lines[i], DonePos)
  BY <1>1, <1>2, <1>3 DEF Readable
<1>5. i \in LinesOf("answer")
  BY <1>1, <1>4 DEF LinesOf, AnswerLine
<1>6. QED
  BY <1>4, <1>5 DEF AnswerShown, AnswerLine

\* All raw event data is preserved, on one line each, whatever prefix of a
\* turn's events is rendered, and however long the turn.
THEOREM EveryEventOnOneLineHolds == RenderSpec => []EveryEventOnOneLine
<1>1. QED
  BY RenderAlways, ShowsEvents, PTL

\* A start and a done on one line are of the same call, and a call that reads
\* failed or incomplete has no done, for any number of calls and retries.
THEOREM PairsBelongTogetherHolds == RenderSpec => []PairsBelongTogether
<1>1. QED
  BY RenderAlways, ShowsPairs, PTL

\* The answer a turn ended with can be read in its trace.
THEOREM AnswerIsReadableHolds == RenderSpec => []AnswerIsReadable
<1>1. QED
  BY RenderAlways, ShowsAnswer, PTL
=============================================================================
