----------------------------- MODULE TraceStore -----------------------------
(***************************************************************************)
(* The trace store (rickshaw/trace_store.py): turn threads put what they   *)
(* record on a bounded queue, one daemon thread takes it off and writes it *)
(* to SQLite, a flush waits for the thread, and close stops it with a      *)
(* poison pill.                                                            *)
(*                                                                         *)
(* Several turns record at once: an interrupted turn's thread runs on      *)
(* beside its successor.  A call is two steps, because it looks at _closed *)
(* and only then enters a put that blocks while the queue is full.  A turn *)
(* makes the calls run_turn makes, in its order: TurnStart is emitted      *)
(* before start_trace, the terminal event before finish_trace.             *)
(*                                                                         *)
(* A write can fail in execute, or in commit, which leaves it in the open  *)
(* transaction of the connection.                                          *)
(***************************************************************************)
EXTENDS Integers, Sequences

CONSTANTS
    Turns,       \* the turns that record, one thread each
    Calls,       \* calls one turn makes on the store
    MaxQueue,    \* max_queue_size
    Closes,      \* is close() called?
    MaxFailures, \* bound: writes that fail, the database being locked
    BootFails,   \* may connecting or creating the schema raise?
    Exits        \* may the process end?

ASSUME TraceConstants ==
    /\ Calls \in Nat /\ Calls >= 4
    /\ MaxQueue \in Nat \ {0} /\ MaxFailures \in Nat
    /\ {Closes, BootFails, Exits} \subseteq BOOLEAN

VARIABLES
    queue,      \* _queue
    closed,     \* _closed
    seqs,       \* _seqs; an absent key reads as 0
    worker,     \* where _worker stands
    item,       \* what the worker took from the queue
    written,    \* the rows as the worker's connection sees them
    durable,    \* the committed rows
    call, step, \* per turn: the call it is at, and how far in it
    flush,      \* where the main thread stands in flush()
    closer,     \* where it stands in close()
    exited,     \* the process has ended
    failures,   \* writes that failed
    sent,       \* history: every item ever put
    kept,       \* history: what was put before close was called
    promised,   \* history: what was put before the flush item
    dropped     \* history: items whose write failed

callers == <<call, step>>
threads == <<call, step, flush, closer>>
rows == <<seqs, written, durable, failures>>
history == <<sent, kept, promised, dropped>>
vars == <<queue, closed, worker, item, rows, threads, exited, history>>

Item  == [kind : {"start", "emit", "finish"}, turn : Turns, n : 1 .. Calls]
Flush == [kind |-> "flush"]
Pill  == [kind |-> "stop"]

Rows == [status : [Turns -> {"absent", "in_progress", "finished"}],
         events : SUBSET [turn : Turns, seq : Nat, n : 1 .. Calls]]

\* Every variable keeps its type and the queue its bound.
TypeOK ==
    /\ queue \in Seq(Item \cup {Flush, Pill}) /\ Len(queue) <= MaxQueue
    /\ closed \in BOOLEAN /\ exited \in BOOLEAN
    /\ seqs \in [Turns -> Nat]
    /\ worker \in {"boot", "idle", "busy", "stopped", "dead"}
    /\ item \in Item \cup {Flush, Pill}
    /\ written \in Rows /\ durable \in Rows
    /\ call \in [Turns -> 1 .. Calls + 1]
    /\ step \in [Turns -> {"check", "put"}]
    /\ flush \in {"idle", "put", "waiting", "true"}
    /\ closer \in {"open", "pill", "join", "stopped", "timeout"}
    /\ failures \in 0 .. MaxFailures
    /\ {sent, kept, promised, dropped} \subseteq SUBSET Item

Init ==
    /\ queue = <<>> /\ closed = FALSE /\ exited = FALSE
    /\ seqs = [t \in Turns |-> 0]
    /\ worker = "boot" /\ item = Pill
    /\ written = [status |-> [t \in Turns |-> "absent"], events |-> {}]
    /\ durable = written
    /\ call = [t \in Turns |-> 1] /\ step = [t \in Turns |-> "check"]
    /\ flush = "idle" /\ closer = "open"
    /\ failures = 0 /\ sent = {} /\ kept = {} /\ promised = {} /\ dropped = {}
-----------------------------------------------------------------------------
(* The turn threads.                                                       *)

KindOf_VerdictFirst(n) == CASE n = 2         -> "start"
                            [] n = Calls - 1 -> "finish"
                            [] OTHER         -> "emit"

\* What a turn's n-th call is.
KindOf(n) == CASE n = 2     -> "start"
               [] n = Calls -> "finish"
               [] OTHER     -> "emit"

ItemOf(t) == [kind |-> KindOf(call[t]), turn |-> t, n |-> call[t]]

\* queue.put: waits for a free slot.
Put(x) == Len(queue) < MaxQueue /\ queue' = Append(queue, x)

\* The test of _closed: the call returns, or goes on to its put.
Check(t) ==
    /\ step[t] = "check" /\ call[t] <= Calls
    /\ IF closed
       THEN call' = [call EXCEPT ![t] = @ + 1] /\ UNCHANGED step
       ELSE step' = [step EXCEPT ![t] = "put"] /\ UNCHANGED call
    /\ UNCHANGED <<queue, closed, rows, worker, item, flush, closer, exited,
                   history>>

\* The put of start_trace, emit or finish_trace.
Record(t) ==
    /\ step[t] = "put"
    /\ Put(ItemOf(t))
    /\ sent' = sent \cup {ItemOf(t)}
    /\ call' = [call EXCEPT ![t] = @ + 1]
    /\ step' = [step EXCEPT ![t] = "check"]
    /\ UNCHANGED <<closed, rows, worker, item, flush, closer, exited, kept,
                   promised, dropped>>
-----------------------------------------------------------------------------
(* The worker.                                                             *)

Connect ==
    /\ worker = "boot"
    /\ worker' \in {"idle"} \cup (IF BootFails THEN {"dead"} ELSE {})
    /\ UNCHANGED <<queue, closed, rows, item, threads, exited, history>>

\* queue.get; None ends the thread, and its connection forgets what it did
\* not commit.
Take ==
    /\ worker = "idle" /\ queue # <<>>
    /\ item' = Head(queue)
    /\ queue' = Tail(queue)
    /\ worker' = IF item' = Pill THEN "stopped" ELSE "busy"
    /\ UNCHANGED <<closed, rows, threads, exited, history>>

SeqAfter_ResetByStart(x) ==
    [seqs EXCEPT ![x.turn] = IF x.kind = "emit" THEN @ + 1 ELSE 0]

\* _seqs once an item was written: counted by emit, popped by finish.
SeqAfter(x) ==
    [seqs EXCEPT ![x.turn] = CASE x.kind = "emit"   -> @ + 1
                               [] x.kind = "start"  -> @
                               [] x.kind = "finish" -> 0]

\* The statements of an item.  INSERT OR REPLACE makes the row anew; an
\* UPDATE of a row that does not exist changes nothing.
Execute(x) ==
    CASE x.kind = "start"  -> [written EXCEPT !.status[x.turn] = "in_progress"]
      [] x.kind = "emit"   ->
           [written EXCEPT !.events =
               @ \cup {[turn |-> x.turn, seq |-> seqs[x.turn], n |-> x.n]}]
      [] x.kind = "finish" ->
           [written EXCEPT !.status[x.turn] =
               IF @ = "absent" THEN "absent" ELSE "finished"]

AfterFailure_Dies == "stopped"

\* An exception of _handle is logged, and the loop goes on.
AfterFailure == "idle"

Fails ==
    /\ failures < MaxFailures
    /\ failures' = failures + 1
    /\ worker' = AfterFailure

Succeeds == worker' = "idle" /\ UNCHANGED failures

\* _handle of an item: it is written and committed, or the commit fails and
\* leaves it in the transaction, or the statement fails and it is dropped
\* (an emit has counted by then, a finish has not popped).
Write ==
    /\ worker = "busy" /\ item.kind # "flush"
    /\ \/ /\ written' = Execute(item) /\ seqs' = SeqAfter(item)
          /\ \/ durable' = written' /\ Succeeds
             \/ Fails /\ UNCHANGED durable
          /\ UNCHANGED dropped
       \/ /\ Fails
          /\ seqs' = IF item.kind = "emit" THEN SeqAfter(item) ELSE seqs
          /\ dropped' = dropped \cup {item}
          /\ UNCHANGED <<written, durable>>
    /\ UNCHANGED <<queue, closed, item, threads, exited, sent, kept, promised>>

FlushCommits_Skipped == UNCHANGED durable

\* The flush item commits what is still in the transaction.
FlushCommits == durable' = written

\* _handle of a flush: commit, then done.set(); if the commit raises, the
\* event is never set.
HandleFlush ==
    /\ worker = "busy" /\ item.kind = "flush"
    /\ \/ FlushCommits /\ flush' = "true" /\ Succeeds
       \/ Fails /\ UNCHANGED <<durable, flush>>
    /\ UNCHANGED <<queue, closed, seqs, item, written, callers, closer, exited,
                   history>>
-----------------------------------------------------------------------------
(* flush() and close().                                                    *)

\* The main thread is in neither call.
MainIsFree == flush \in {"idle", "true"} /\ closer \in {"open", "stopped", "timeout"}

FlushIsVacuous == closed \/ worker \in {"stopped", "dead"}

\* flush(): True at once when the store is closed or its thread is not alive.
StartFlush ==
    /\ flush = "idle" /\ MainIsFree
    /\ flush' = IF FlushIsVacuous THEN "true" ELSE "put"
    /\ UNCHANGED <<queue, closed, rows, worker, item, callers, closer, exited,
                   history>>

PutFlush ==
    /\ flush = "put"
    /\ Put(Flush)
    /\ flush' = "waiting"
    /\ promised' = sent
    /\ UNCHANGED <<closed, rows, worker, item, callers, closer, exited, sent,
                   kept, dropped>>

CloseFirst_Forgotten == UNCHANGED closed

\* _closed is set before anything else, so close's own flush returns at once.
CloseFirst == closed' = TRUE

Close ==
    /\ Closes /\ closer = "open" /\ MainIsFree
    /\ CloseFirst
    /\ closer' = "pill"
    /\ kept' = sent
    /\ UNCHANGED <<queue, rows, worker, item, callers, flush, exited, sent,
                   promised, dropped>>

PutPill ==
    /\ closer = "pill"
    /\ Put(Pill)
    /\ closer' = "join"
    /\ UNCHANGED <<closed, rows, worker, item, callers, flush, exited,
                   history>>

\* join(timeout=5): the thread has ended, or the time is over.
Join ==
    /\ closer = "join"
    /\ closer' \in {"timeout"}
           \cup (IF worker \in {"stopped", "dead"} THEN {"stopped"} ELSE {})
    /\ UNCHANGED <<queue, closed, rows, worker, item, callers, flush, exited,
                   history>>

\* main() returns once the app has ended; the daemon thread dies with the
\* process, whatever is still queued.
Exit ==
    /\ Exits /\ MainIsFree
    /\ exited' = TRUE
    /\ UNCHANGED <<queue, closed, rows, worker, item, threads, history>>

Worker == ~exited /\ (Connect \/ Take \/ Write \/ HandleFlush)

Turn(t) == ~exited /\ (Check(t) \/ Record(t))

Main == ~exited /\ (StartFlush \/ PutFlush \/ Close \/ PutPill \/ Join \/ Exit)

\* The turns have recorded everything, or the process has ended.
Quiet ==
    /\ exited \/ \A t \in Turns : call[t] > Calls
    /\ UNCHANGED vars

Next == Worker \/ Main \/ (\E t \in Turns : Turn(t)) \/ Quiet

Spec == Init /\ [][Next]_vars

\* The threads run.
FairSpec == Spec /\ WF_vars(Worker) /\ \A t \in Turns : WF_vars(Turn(t))
-----------------------------------------------------------------------------
(* Properties.                                                             *)

\* The rows an item asked for are committed.
Stored(x) ==
    CASE x.kind = "emit"   -> \E e \in durable.events : e.turn = x.turn /\ e.n = x.n
      [] x.kind = "start"  -> durable.status[x.turn] # "absent"
      [] x.kind = "finish" -> durable.status[x.turn] = "finished"

\* A write of the trace row that failed takes the later ones with it.
Rejected(x) ==
    \/ x \in dropped
    \/ x.kind = "finish" /\ \E y \in dropped : y.kind = "start" /\ y.turn = x.turn

\* get_trace orders by seq, and a turn's seq restarts when its trace
\* finishes: yet the committed events of a turn, whatever was dropped, have
\* distinct numbers in the order of emission.
EventsInOrder ==
    \A e, f \in durable.events :
        e.turn = f.turn => (e.seq < f.seq <=> e.n < f.n)

\* "Events are durable after flush returns": when a flush that was waited for
\* answers True, everything put before it is committed, unless its own write
\* failed.  (On a closed store, or one whose worker is dead, flush answers True
\* without waiting and promises nothing.)
FlushDurable ==
    flush = "true" => \A x \in promised : Stored(x) \/ Rejected(x)

\* A trace that reads finished is complete: every event of the turn, the
\* terminal one included, is committed, unless its own write failed.
VerdictIsComplete ==
    \A t \in Turns : durable.status[t] = "finished" =>
        \A n \in {m \in 1 .. Calls : KindOf(m) = "emit"} :
            LET x == [kind |-> "emit", turn |-> t, n |-> n]
            IN Stored(x) \/ x \in dropped

\* close() is orderly although it sets _closed before its flush: what was
\* recorded before it is durable when the thread has ended, unless writes
\* failed, and of each turn at most the one call under way slips in after it.
CloseIsOrderly ==
    /\ worker = "stopped" /\ failures = 0 => \A x \in kept : Stored(x)
    /\ closer # "open" => \A x, y \in sent \ kept : x.turn = y.turn => x = y

\* No thread of a turn waits for the disk for ever: every put returns, unless
\* the store was closed or its worker never came up.
RecordingReturns ==
    \A t \in Turns :
        step[t] = "put" ~> step[t] # "put" \/ closed \/ worker = "dead" \/ exited
=============================================================================
