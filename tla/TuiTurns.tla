------------------------------ MODULE TuiTurns ------------------------------
(***************************************************************************)
(* Turns in the TUI (rickshaw/tui.py): the UI thread starts, interrupts    *)
(* and finishes turns, one executor thread per turn runs the orchestrator  *)
(* and reports through call_from_thread.                                   *)
(*                                                                         *)
(* Cancelling a thread worker does not stop its thread: an interrupted     *)
(* turn runs on beside its successors, and what it still reports has to be *)
(* kept off their screen.  A turn's number is its _turn_seq.               *)
(*                                                                         *)
(* What a turn reports (a text delta, an event) is the number of the       *)
(* report within its turn.  A report is three steps: the thread looks at   *)
(* _turn_active and _turn_seq and posts, it waits, the UI thread runs the  *)
(* callback.                                                               *)
(***************************************************************************)
EXTENDS Naturals, Sequences, FiniteSets

CONSTANTS
    MaxTurns,    \* bound: turns started in a session
    MaxReports,  \* bound: reports of one turn
    Pool         \* threads of the executor

ASSUME TuiConstants == MaxTurns \in Nat /\ MaxReports \in Nat /\ Pool \in Nat \ {0}

Turns  == 1 .. MaxTurns
Status == {"completed", "failed", "interrupted"}

VARIABLES
    \* the app, owned by the UI thread
    active,         \* _turn_active
    seq,            \* _turn_seq
    current,        \* _current_user is not None: the turn has its user line
    screen,         \* the reports taken into _buffer and _current_events
    turns,          \* _turns: the trace blocks mounted in the transcript
    sessionTokens,  \* _session_tokens
    promptOn,       \* the prompt is enabled
    ctrlC,          \* _ctrl_c_pending
    exited,         \* the app has ended
    \* the turn threads
    thread,         \* per turn: where its thread is
    reported,       \* reports the turn has made
    posted,         \* the callback the thread waits for
    db,             \* the status of the turn's persisted trace
    \* history
    log,            \* every trace block ever made, /clear or not
    spent           \* usage of the completed turns

app     == <<active, seq, current, screen, turns, sessionTokens, promptOn, ctrlC>>
threads == <<thread, reported, posted, db>>
history == <<log, spent>>
vars    == <<app, exited, threads, history>>

Report == {"report", "done", "error"}
Block  == [seq : Turns, status : Status, reports : Seq(Turns \X Nat)]

\* Every variable keeps its type.
TypeOK ==
    /\ active \in BOOLEAN /\ current \in BOOLEAN /\ promptOn \in BOOLEAN
    /\ ctrlC \in BOOLEAN /\ exited \in BOOLEAN
    /\ seq \in 0 .. MaxTurns
    /\ screen \in Seq(Turns \X Nat)
    /\ turns \in Seq(Block) /\ log \in Seq(Block)
    /\ sessionTokens \in Nat /\ spent \in Nat
    /\ thread \in [Turns -> {"none", "queued", "running", "ended"}]
    /\ reported \in [Turns -> 0 .. MaxReports]
    /\ posted \in [Turns -> Report \cup {"none"}]
    /\ db \in [Turns -> {"none", "in_progress", "completed", "failed"}]

Init ==
    /\ active = FALSE /\ seq = 0 /\ current = FALSE /\ screen = <<>>
    /\ turns = <<>> /\ sessionTokens = 0 /\ promptOn = TRUE /\ ctrlC = FALSE
    /\ exited = FALSE
    /\ thread = [t \in Turns |-> "none"] /\ reported = [t \in Turns |-> 0]
    /\ posted = [t \in Turns |-> "none"] /\ db = [t \in Turns |-> "none"]
    /\ log = <<>> /\ spent = 0
-----------------------------------------------------------------------------
(* The UI thread.                                                          *)

\* Cancelling the workers of a group cancels a task that still waits for the
\* executor; a running thread runs on.
Cancelled(f) == [t \in Turns |-> IF f[t] = "queued" THEN "ended" ELSE f[t]]

\* The prompt takes input, and a message that was submitted a second time
\* before the prompt was disabled is refused.
CanSubmit == promptOn /\ ~active

\* on_prompt_area_submitted of a message, then _start_turn.  The worker is
\* exclusive in its group.
Submit ==
    /\ CanSubmit /\ seq < MaxTurns
    /\ active' = TRUE /\ seq' = seq + 1 /\ current' = TRUE
    /\ screen' = <<>> /\ promptOn' = FALSE
    /\ thread' = [Cancelled(thread) EXCEPT ![seq + 1] = "queued"]
    /\ UNCHANGED <<turns, sessionTokens, ctrlC, exited, reported, posted, db,
                   history>>

\* _finalize_trace: a block with what the turn has reported so far.
Finalize(status) ==
    LET block == [seq |-> seq, status |-> status, reports |-> screen] IN
    IF current
    THEN turns' = Append(turns, block) /\ log' = Append(log, block)
    ELSE UNCHANGED <<turns, log>>

Finish_StillActive ==
    UNCHANGED active /\ current' = FALSE /\ screen' = <<>> /\ promptOn' = TRUE

\* _finish_turn
Finish ==
    /\ active' = FALSE /\ current' = FALSE /\ screen' = <<>>
    /\ promptOn' = TRUE

\* action_interrupt, by Esc or by Ctrl+C, while a turn is active.
Interrupt ==
    /\ active
    /\ thread' = Cancelled(thread)
    /\ Finalize("interrupted")
    /\ Finish
    /\ UNCHANGED <<seq, sessionTokens, ctrlC, exited, reported, posted, db, spent>>

\* action_ctrl_c with no turn: the first tap arms, the second one quits.
CtrlC ==
    /\ ~active
    /\ IF ctrlC THEN exited' = TRUE /\ UNCHANGED ctrlC
                ELSE ctrlC' = TRUE /\ UNCHANGED exited
    /\ UNCHANGED <<active, seq, current, screen, turns, sessionTokens, promptOn,
                   threads, history>>

ResetCtrlC ==
    /\ ctrlC /\ ctrlC' = FALSE
    /\ UNCHANGED <<active, seq, current, screen, turns, sessionTokens, promptOn,
                   exited, threads, history>>

\* /clear
Clear ==
    /\ promptOn /\ turns # <<>>
    /\ turns' = <<>>
    /\ UNCHANGED <<active, seq, current, screen, sessionTokens, promptOn, ctrlC,
                   exited, threads, history>>

Mine_SeqOnly(t) == t = seq

Mine_ActiveOnly(t) == active

\* The test of every callback: the turn is still the active one.
Mine(t) == t = seq /\ active

\* The callback has run: the thread goes on, or ends with its last one.
Answer(t) ==
    /\ posted' = [posted EXCEPT ![t] = "none"]
    /\ thread' = IF posted[t] = "report" THEN thread
                 ELSE [thread EXCEPT ![t] = "ended"]

\* _append_delta and _on_turn_event
TakeReport(t) ==
    /\ posted[t] = "report"
    /\ screen' = IF Mine(t) THEN Append(screen, <<t, reported[t]>>) ELSE screen
    /\ Answer(t)
    /\ UNCHANGED <<active, seq, current, turns, sessionTokens, promptOn, ctrlC,
                   exited, reported, db, history>>

\* _turn_done adds the usage before and after the meta line.
AddUsage(u) == sessionTokens' = sessionTokens + u + u

\* _turn_done, with the usage of the result, which may be missing.
TurnDone(t) ==
    /\ posted[t] = "done"
    /\ IF Mine(t)
       THEN /\ \E u \in {0, 1} : AddUsage(u) /\ spent' = spent + u
            /\ Finalize("completed") /\ Finish
       ELSE UNCHANGED <<active, current, screen, turns, sessionTokens, promptOn,
                        history>>
    /\ Answer(t)
    /\ UNCHANGED <<seq, ctrlC, exited, reported, db>>

\* _turn_error
TurnError(t) ==
    /\ posted[t] = "error"
    /\ IF Mine(t)
       THEN Finalize("failed") /\ Finish
       ELSE UNCHANGED <<active, current, screen, turns, promptOn, log>>
    /\ Answer(t)
    /\ UNCHANGED <<seq, sessionTokens, ctrlC, exited, reported, db, spent>>
-----------------------------------------------------------------------------
(* The turn threads.                                                       *)

Running == {t \in Turns : thread[t] = "running"}

\* The executor has a thread for the turn; run_turn opens its trace.
StartThread(t) ==
    /\ thread[t] = "queued" /\ Cardinality(Running) < Pool
    /\ thread' = [thread EXCEPT ![t] = "running"]
    /\ db' = [db EXCEPT ![t] = "in_progress"]
    /\ UNCHANGED <<app, exited, reported, posted, history>>

\* run_turn calls on_delta or on_event: the thread looks whether its turn is
\* the active one and posts the callback, or drops the report.
ReportIt(t) ==
    /\ thread[t] = "running" /\ posted[t] = "none" /\ db[t] = "in_progress"
    /\ reported[t] < MaxReports
    /\ reported' = [reported EXCEPT ![t] = @ + 1]
    /\ posted' = [posted EXCEPT ![t] = IF active /\ seq = t THEN "report" ELSE "none"]
    /\ UNCHANGED <<app, exited, thread, db, history>>

Ends_Uncaught == {<<"completed", "done">>, <<"failed", "none">>}

\* The verdict run_turn gives the trace, and the callback _run_turn posts when
\* run_turn returns or raises.
Ends == {<<"completed", "done">>, <<"failed", "error">>}

\* The end of run_turn.
EndRun(t) ==
    /\ thread[t] = "running" /\ posted[t] = "none" /\ db[t] = "in_progress"
    /\ \E end \in Ends :
         /\ db' = [db EXCEPT ![t] = end[1]]
         /\ IF exited
            THEN thread' = [thread EXCEPT ![t] = "ended"] /\ UNCHANGED posted
            ELSE posted' = [posted EXCEPT ![t] = end[2]] /\ UNCHANGED thread
    /\ UNCHANGED <<app, exited, reported, history>>

\* The app ended while the thread waited: call_from_thread raises.  run_turn
\* fails its trace if the report came from within.
AbandonPost(t) ==
    /\ exited /\ posted[t] # "none"
    /\ posted' = [posted EXCEPT ![t] = "none"]
    /\ thread' = [thread EXCEPT ![t] = "ended"]
    /\ db' = [db EXCEPT ![t] = IF @ = "in_progress" THEN "failed" ELSE @]
    /\ UNCHANGED <<app, exited, reported, history>>

User == ~exited /\ (Submit \/ Interrupt \/ CtrlC \/ ResetCtrlC \/ Clear)

Callback(t) == ~exited /\ (TakeReport(t) \/ TurnDone(t) \/ TurnError(t))

Thread(t) == StartThread(t) \/ ReportIt(t) \/ EndRun(t) \/ AbandonPost(t)

\* The session is over and its threads have ended.
Over ==
    /\ exited /\ \A t \in Turns : thread[t] \in {"none", "ended"}
    /\ UNCHANGED vars

Next == User \/ (\E t \in Turns : Callback(t) \/ Thread(t)) \/ Over

Spec == Init /\ [][Next]_vars

\* The event loop runs the callbacks, the executor its threads, and every
\* turn ends (TurnLoop's TurnEnds).
FairSpec == Spec /\ \A t \in Turns : WF_vars(Callback(t)) /\ WF_vars(Thread(t))
-----------------------------------------------------------------------------
(* Properties.                                                             *)

\* The transcript never mixes turns: a block holds the reports of its own
\* turn, all from the first to the last one it saw, although threads of
\* interrupted turns go on reporting.
Faithful(reports, t) ==
    \A i \in 1 .. Len(reports) : reports[i] = <<t, i>>

NoStaleReports ==
    /\ Faithful(screen, seq)
    /\ \A i \in 1 .. Len(log) : Faithful(log[i].reports, log[i].seq)

\* The log has the block of every turn that is over, in the order of their
\* numbers: none is finished twice or forgotten, whatever arrives late.
OneBlockPerTurn ==
    /\ \A i \in 1 .. Len(log) : log[i].seq = i
    /\ Len(log) = IF active THEN seq - 1 ELSE seq

\* A block that says completed or failed agrees with the persisted trace.
BlockAgreesWithTrace ==
    \A i \in 1 .. Len(log) :
        log[i].status # "interrupted" => db[log[i].seq] = log[i].status

\* The conversation the user is promised.
Promise == INSTANCE Conversation WITH
    current <- active, log <- [i \in 1 .. Len(log) |-> log[i].status]

KeepsPromise == Promise!Spec

\* The prompt comes back, even when threads of interrupted turns occupy the
\* executor.
PromptReturns == ~promptOn ~> promptOn

\* "Accumulate authoritative session totals"
SessionTokensAuthoritative == sessionTokens = spent
=============================================================================
