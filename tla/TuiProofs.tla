----------------------------- MODULE TuiProofs -----------------------------
(***************************************************************************)
(* Proofs about the TUI: TuiTurns, for any number of turns, reports and    *)
(* threads, and, in the second half, ProviderPicker.                       *)
(***************************************************************************)
EXTENDS TuiTurns, ProviderPicker, WellFoundedInduction, TLAPS

\* The user line of a turn is there exactly while the turn is the active one.
ActiveOK == current = active /\ (active => seq \in Turns)

LEMMA Empty == ASSUME NEW S PROVE <<>> \in Seq(S)
OBVIOUS

\* Nothing on screen once a turn is over, and everything off it.
LEMMA FinishType ==
  ASSUME TypeOK, Finish
  PROVE  /\ active' \in BOOLEAN /\ current' \in BOOLEAN /\ promptOn' \in BOOLEAN
         /\ screen' \in Seq(Turns \X Nat) /\ ActiveOK'
<1>1. screen' \in Seq(Turns \X Nat)
  BY Empty DEF Finish
<1>. QED BY <1>1, Zenon DEF Finish, ActiveOK

\* A block of the active turn is a block.
LEMMA FinalizeType ==
  ASSUME TypeOK, ActiveOK, NEW s \in Status, Finalize(s)
  PROVE  turns' \in Seq(Block) /\ log' \in Seq(Block)
<1> DEFINE block == [seq |-> seq, status |-> s, reports |-> screen]
<1>1. CASE current
  <2>1. block \in Block
    BY <1>1 DEF TypeOK, ActiveOK, Block
  <2>2. turns' = Append(turns, block) /\ log' = Append(log, block)
    BY <1>1 DEF Finalize
  <2>. QED BY <2>1, <2>2 DEF TypeOK
<1>2. CASE ~current
  BY <1>2 DEF Finalize, TypeOK
<1>. QED BY <1>1, <1>2

LEMMA CancelledType ==
  ASSUME TypeOK
  PROVE  Cancelled(thread) \in [Turns -> {"none", "queued", "running", "ended"}]
BY DEF TypeOK, Cancelled

\* What an answered thread leaves behind.
LEMMA AnswerType ==
  ASSUME TypeOK, NEW t \in Turns, Answer(t)
  PROVE  /\ posted' \in [Turns -> Report \cup {"none"}]
         /\ thread' \in [Turns -> {"none", "queued", "running", "ended"}]
BY DEF TypeOK, Answer

\* A turn's verdict and its callback say the same.
LEMMA EndsType ==
  ASSUME NEW end \in Ends
  PROVE  /\ end[1] \in {"completed", "failed"} /\ end[2] \in Report
         /\ end[2] = "done" => end[1] = "completed"
         /\ end[2] = "error" => end[1] = "failed"
BY DEF Ends, Report

LEMMA TypeInductive == TypeOK /\ ActiveOK /\ [Next]_vars => TypeOK' /\ ActiveOK'
<1> SUFFICES ASSUME TypeOK, ActiveOK, [Next]_vars PROVE TypeOK' /\ ActiveOK'
  OBVIOUS
<1> USE TuiConstants
<1>1. CASE Submit
  <2>1. seq + 1 \in Turns
    BY <1>1 DEF Submit, TypeOK, Turns
  <2>2. thread' \in [Turns -> {"none", "queued", "running", "ended"}]
    BY <1>1, CancelledType DEF Submit
  <2>3. /\ active' \in BOOLEAN /\ current' \in BOOLEAN /\ promptOn' \in BOOLEAN
        /\ ActiveOK'
    BY <1>1, <2>1, Zenon DEF Submit, ActiveOK
  <2>4. screen' \in Seq(Turns \X Nat)
    BY <1>1, Empty DEF Submit
  <2>. QED BY <1>1, <2>1, <2>2, <2>3, <2>4 DEF Submit, TypeOK, Turns, history
<1>2. CASE Interrupt
  <2>1. turns' \in Seq(Block) /\ log' \in Seq(Block)
    BY <1>2, FinalizeType DEF Interrupt, Status
  <2>2. thread' \in [Turns -> {"none", "queued", "running", "ended"}]
    BY <1>2, CancelledType DEF Interrupt
  <2>. QED BY <1>2, <2>1, <2>2, FinishType DEF Interrupt, TypeOK
<1>3. CASE CtrlC
  BY <1>3 DEF CtrlC, TypeOK, ActiveOK, threads, history
<1>4. CASE ResetCtrlC
  BY <1>4 DEF ResetCtrlC, TypeOK, ActiveOK, threads, history
<1>5. CASE Clear
  BY <1>5 DEF Clear, TypeOK, ActiveOK, threads, history
<1>6. ASSUME NEW t \in Turns, TakeReport(t) PROVE TypeOK' /\ ActiveOK'
  <2>1. screen' \in Seq(Turns \X Nat)
    BY <1>6 DEF TakeReport, TypeOK
  <2>. QED BY <1>6, <2>1, AnswerType DEF TakeReport, TypeOK, ActiveOK, history
<1>7. ASSUME NEW t \in Turns, TurnDone(t) PROVE TypeOK' /\ ActiveOK'
  <2>1. CASE Mine(t)
    <3>1. turns' \in Seq(Block) /\ log' \in Seq(Block)
      BY <1>7, <2>1, FinalizeType DEF TurnDone, Status
    <3>2. sessionTokens' \in Nat /\ spent' \in Nat
      BY <1>7, <2>1 DEF TurnDone, AddUsage, TypeOK
    <3>. QED BY <1>7, <2>1, <3>1, <3>2, AnswerType, FinishType
         DEF TurnDone, TypeOK
  <2>2. CASE ~Mine(t)
    BY <1>7, <2>2, AnswerType DEF TurnDone, TypeOK, ActiveOK, history
  <2>. QED BY <2>1, <2>2
<1>8. ASSUME NEW t \in Turns, TurnError(t) PROVE TypeOK' /\ ActiveOK'
  <2>1. CASE Mine(t)
    <3>1. turns' \in Seq(Block) /\ log' \in Seq(Block)
      BY <1>8, <2>1, FinalizeType DEF TurnError, Status
    <3>. QED BY <1>8, <2>1, <3>1, AnswerType, FinishType
         DEF TurnError, TypeOK
  <2>2. CASE ~Mine(t)
    BY <1>8, <2>2, AnswerType DEF TurnError, TypeOK, ActiveOK
  <2>. QED BY <2>1, <2>2
<1>9. ASSUME NEW t \in Turns, StartThread(t) PROVE TypeOK' /\ ActiveOK'
  BY <1>9 DEF StartThread, TypeOK, ActiveOK, app, history
<1>10. ASSUME NEW t \in Turns, ReportIt(t) PROVE TypeOK' /\ ActiveOK'
  BY <1>10 DEF ReportIt, TypeOK, ActiveOK, app, history, Report
<1>11. ASSUME NEW t \in Turns, EndRun(t) PROVE TypeOK' /\ ActiveOK'
  BY <1>11, EndsType DEF EndRun, TypeOK, ActiveOK, app, history
<1>12. ASSUME NEW t \in Turns, AbandonPost(t) PROVE TypeOK' /\ ActiveOK'
  BY <1>12 DEF AbandonPost, TypeOK, ActiveOK, app, history
<1>13. CASE UNCHANGED vars
  BY <1>13 DEF vars, app, threads, history, TypeOK, ActiveOK
<1>. QED BY <1>1, <1>2, <1>3, <1>4, <1>5, <1>6, <1>7, <1>8, <1>9, <1>10, <1>11,
            <1>12, <1>13 DEF Next, User, Callback, Thread, Over

LEMMA InitialType == Init => TypeOK /\ ActiveOK
<1> SUFFICES ASSUME Init PROVE TypeOK /\ ActiveOK
  OBVIOUS
<1>1. /\ active \in BOOLEAN /\ current \in BOOLEAN /\ promptOn \in BOOLEAN
      /\ ctrlC \in BOOLEAN /\ exited \in BOOLEAN
  <2>1. active = FALSE /\ current = FALSE /\ promptOn = TRUE /\ ctrlC = FALSE
        /\ exited = FALSE
    BY Zenon DEF Init
  <2>. QED BY <2>1, Zenon
<1>3. ActiveOK
  BY DEF Init, ActiveOK
<1>2. screen \in Seq(Turns \X Nat) /\ turns \in Seq(Block) /\ log \in Seq(Block)
  BY Empty DEF Init
<1>. QED BY TuiConstants, <1>1, <1>2, <1>3 DEF Init, TypeOK

\* Every variable of the app and of its threads keeps its type.
THEOREM TypeCorrect == Spec => []TypeOK
<1>1. Init => TypeOK /\ ActiveOK
  BY InitialType
<1>2. TypeOK /\ ActiveOK /\ [Next]_vars => TypeOK' /\ ActiveOK'
  BY TypeInductive
<1>. QED BY <1>1, <1>2, PTL DEF Spec
-----------------------------------------------------------------------------
(* One block per turn.                                                     *)

EndsTurn(s) == active /\ Finalize(s) /\ Finish /\ UNCHANGED seq

\* For the log a step is one of three: a turn begins, the active one ends with
\* some status, or nothing.
LEMMA LogSteps ==
  ASSUME [Next]_vars
  PROVE  \/ Submit
         \/ \E s \in Status : EndsTurn(s)
         \/ UNCHANGED <<active, seq, log>>
<1>1. CASE Interrupt
  BY <1>1 DEF Interrupt, EndsTurn, Status
<1>2. CASE CtrlC \/ ResetCtrlC \/ Clear
  BY <1>2 DEF CtrlC, ResetCtrlC, Clear, history
<1>3. ASSUME NEW t \in Turns, TurnDone(t)
      PROVE  (\E s \in Status : EndsTurn(s)) \/ UNCHANGED <<active, seq, log>>
  BY <1>3 DEF TurnDone, Mine, EndsTurn, Status, history
<1>4. ASSUME NEW t \in Turns, TurnError(t)
      PROVE  (\E s \in Status : EndsTurn(s)) \/ UNCHANGED <<active, seq, log>>
  BY <1>4 DEF TurnError, Mine, EndsTurn, Status
<1>5. ASSUME NEW t \in Turns, TakeReport(t) \/ Thread(t)
      PROVE  UNCHANGED <<active, seq, log>>
  BY <1>5 DEF TakeReport, Thread, StartThread, ReportIt, EndRun, AbandonPost, app,
              history
<1>6. CASE UNCHANGED vars
  BY <1>6 DEF vars, app, history
<1>. QED BY <1>1, <1>2, <1>3, <1>4, <1>5, <1>6 DEF Next, User, Callback, Over

\* The active turn ends with its block in the log.
LEMMA EndEffect ==
  ASSUME TypeOK, ActiveOK, NEW s \in Status, EndsTurn(s)
  PROVE  /\ log' = Append(log, [seq |-> seq, status |-> s, reports |-> screen])
         /\ active /\ ~active' /\ seq' = seq /\ seq \in Turns
         /\ screen' = <<>>
BY DEF EndsTurn, Finalize, Finish, ActiveOK

LEMMA OneBlockInductive ==
  TypeOK /\ ActiveOK /\ OneBlockPerTurn /\ [Next]_vars => OneBlockPerTurn'
<1> SUFFICES ASSUME TypeOK, ActiveOK, OneBlockPerTurn, [Next]_vars
             PROVE  OneBlockPerTurn'
  OBVIOUS
<1>1. CASE Submit
  <2>1. ~active /\ active' /\ seq' = seq + 1 /\ log' = log
    BY <1>1 DEF Submit, CanSubmit, history
  <2>. QED BY <2>1 DEF OneBlockPerTurn, TypeOK
<1>2. ASSUME NEW s \in Status, EndsTurn(s) PROVE OneBlockPerTurn'
  <2> DEFINE block == [seq |-> seq, status |-> s, reports |-> screen]
  <2>1. log' = Append(log, block) /\ active /\ ~active' /\ seq' = seq
    BY <1>2, EndEffect
  <2>2. Len(log') = Len(log) + 1
        /\ \A i \in 1 .. Len(log') :
             log'[i] = IF i <= Len(log) THEN log[i] ELSE block
    BY <2>1 DEF TypeOK
  <2>3. Len(log) = seq - 1 /\ seq \in Nat /\ Len(log) \in Nat
    BY <2>1 DEF OneBlockPerTurn, TypeOK
  <2>4. \A i \in 1 .. Len(log') : log'[i].seq = i
    <3> TAKE i \in 1 .. Len(log')
    <3>1. CASE i <= Len(log)
      BY <2>2, <2>3, <3>1 DEF OneBlockPerTurn
    <3>2. CASE ~(i <= Len(log))
      BY <2>2, <2>3, <3>2
    <3>. QED BY <3>1, <3>2
  <2>. QED BY <2>1, <2>2, <2>3, <2>4 DEF OneBlockPerTurn
<1>3. CASE UNCHANGED <<active, seq, log>>
  BY <1>3 DEF OneBlockPerTurn
<1>. QED BY <1>1, <1>2, <1>3, LogSteps

\* The log has one block of every turn that is over, in their order.
THEOREM OneBlockPerTurnHolds == Spec => []OneBlockPerTurn
<1>1. Init => OneBlockPerTurn
  BY DEF Init, OneBlockPerTurn
<1>. QED BY <1>1, InitialType, TypeInductive, OneBlockInductive, PTL DEF Spec
-----------------------------------------------------------------------------
(* The refinement.                                                         *)

Statuses == [i \in 1 .. Len(log) |-> log[i].status]

LEMMA IsASeq ==
  ASSUME NEW S, NEW n \in Nat, NEW f \in [1 .. n -> S]
  PROVE  f \in Seq(S) /\ Len(f) = n
OBVIOUS

LEMMA Listed == ASSUME NEW S, NEW t \in Seq(S)
                PROVE  t = [i \in 1 .. Len(t) |-> t[i]]
OBVIOUS

\* A step of the app is a step of the conversation, or none.
LEMMA Refines ==
  TypeOK /\ ActiveOK /\ [Next]_vars => [Promise!Next]_<<active, Statuses>>
<1> SUFFICES ASSUME TypeOK, ActiveOK, [Next]_vars
             PROVE  [Promise!Next]_<<active, Statuses>>
  OBVIOUS
<1>1. CASE Submit
  <2>1. ~active /\ active' = TRUE /\ log' = log
    BY <1>1 DEF Submit, CanSubmit, history
  <2>. QED BY <2>1 DEF Promise!Next, Promise!Begin, Statuses
<1>2. ASSUME NEW s \in Status, EndsTurn(s) PROVE Promise!Next
  <2> DEFINE block == [seq |-> seq, status |-> s, reports |-> screen]
  <2>1. log' = Append(log, block) /\ active /\ active' = FALSE
    BY <1>2, EndEffect DEF EndsTurn, Finish
  <2>2. Len(log') = Len(log) + 1 /\ Len(log) \in Nat
        /\ \A i \in 1 .. Len(log') :
             log'[i] = IF i <= Len(log) THEN log[i] ELSE block
    BY <2>1 DEF TypeOK
  <2>3. Statuses' = Append(Statuses, s)
    <3>1. Len(Statuses) = Len(log) /\ Statuses \in Seq(Status)
      <4>1. \A i \in 1 .. Len(log) : log[i].status \in Status
        <5>1. log \in Seq(Block)
          BY DEF TypeOK
        <5>2. \A i \in 1 .. Len(log) : log[i] \in Block
          BY <5>1
        <5>. QED BY <5>2 DEF Block
      <4>2. Statuses \in [1 .. Len(log) -> Status]
        BY <4>1 DEF Statuses
      <4>. QED BY <2>2, <4>2, IsASeq
    <3>2. /\ Append(Statuses, s) \in Seq(Status)
          /\ Len(Append(Statuses, s)) = Len(log')
          /\ \A i \in 1 .. Len(log') : Append(Statuses, s)[i] = log'[i].status
      <4>1. \A i \in 1 .. Len(log) : Statuses[i] = log[i].status
        BY DEF Statuses
      <4>. HIDE DEF Statuses
      <4>. QED BY <2>2, <3>1, <4>1
    <3>3. Append(Statuses, s) = [i \in 1 .. Len(log') |-> Append(Statuses, s)[i]]
      BY <3>2, Listed
    <3>. QED BY <3>2, <3>3 DEF Statuses
  <2>. QED BY <2>1, <2>3 DEF Promise!Next, Promise!End, Statuses
<1>3. CASE UNCHANGED <<active, seq, log>>
  BY <1>3 DEF Statuses
<1>. QED BY <1>1, <1>2, <1>3, LogSteps

\* Seen by the user, the app is a conversation in which turns run one at a time
\* and each ends once.
THEOREM KeepsPromiseHolds == Spec => KeepsPromise
<1>1. Init => Promise!Init
  BY DEF Init, Promise!Init
<1>2. TypeOK /\ ActiveOK /\ [Next]_vars => [Promise!Next]_<<active, Statuses>>
  BY Refines
<1>. QED BY <1>1, <1>2, InitialType, TypeInductive, PTL
         DEF Spec, KeepsPromise, Promise!Spec, Statuses
-----------------------------------------------------------------------------
(* Late reports.                                                           *)

\* What a turn's thread has done by where it is, and by what it waits for.
ThreadOK ==
  \A t \in Turns :
     /\ t > seq => thread[t] = "none"
     /\ thread[t] = "none" => reported[t] = 0
     /\ thread[t] \in {"none", "queued"} => posted[t] = "none" /\ db[t] = "none"
     /\ posted[t] = "done" => db[t] = "completed"
     /\ posted[t] = "error" => db[t] = "failed"

\* The screen has every report of the active turn but the one on its way.
OnItsWay == IF posted[seq] = "report" THEN 1 ELSE 0

ScreenOK ==
  /\ Faithful(screen, seq)
  /\ active /\ ~exited => reported[seq] = Len(screen) + OnItsWay

Inv == TypeOK /\ ActiveOK /\ ThreadOK /\ ScreenOK

LEMMA AnswerKeeps ==
  ASSUME TypeOK, ThreadOK, NEW t \in Turns, posted[t] # "none", Answer(t),
         UNCHANGED <<reported, db>>, seq' = seq
  PROVE  ThreadOK'
BY DEF TypeOK, ThreadOK, Answer

LEMMA ThreadInductive == TypeOK /\ ThreadOK /\ [Next]_vars => ThreadOK'
<1> SUFFICES ASSUME TypeOK, ThreadOK, [Next]_vars PROVE ThreadOK'
  OBVIOUS
<1>1. CASE Submit
  <2>1. /\ seq' = seq + 1 /\ seq \in Nat /\ UNCHANGED <<reported, posted, db>>
        /\ thread' = [Cancelled(thread) EXCEPT ![seq + 1] = "queued"]
    BY <1>1 DEF Submit, TypeOK
  <2>2. \A t \in Turns : t \in Nat /\
          thread'[t] = IF t = seq + 1 THEN "queued"
                       ELSE IF thread[t] = "queued" THEN "ended" ELSE thread[t]
    BY <2>1 DEF Cancelled, Turns
  <2>. QED BY <2>1, <2>2 DEF ThreadOK
<1>2. CASE Interrupt
  BY <1>2 DEF Interrupt, Cancelled, ThreadOK
<1>3. CASE CtrlC \/ ResetCtrlC \/ Clear
  BY <1>3 DEF CtrlC, ResetCtrlC, Clear, threads, ThreadOK
<1>4. ASSUME NEW t \in Turns, TakeReport(t) \/ TurnDone(t) \/ TurnError(t)
      PROVE  ThreadOK'
  <2>1. posted[t] # "none" /\ Answer(t) /\ UNCHANGED <<reported, db>> /\ seq' = seq
    BY <1>4 DEF TakeReport, TurnDone, TurnError
  <2>. QED BY <2>1, AnswerKeeps
<1>5. ASSUME NEW t \in Turns, StartThread(t) PROVE ThreadOK'
  BY <1>5 DEF StartThread, ThreadOK, TypeOK, app
<1>6. ASSUME NEW t \in Turns, ReportIt(t) PROVE ThreadOK'
  BY <1>6 DEF ReportIt, ThreadOK, TypeOK, app
<1>7. ASSUME NEW t \in Turns, EndRun(t) PROVE ThreadOK'
  BY <1>7, EndsType DEF EndRun, ThreadOK, TypeOK, app
<1>8. ASSUME NEW t \in Turns, AbandonPost(t) PROVE ThreadOK'
  BY <1>8 DEF AbandonPost, ThreadOK, TypeOK, app
<1>9. CASE UNCHANGED vars
  BY <1>9 DEF vars, app, threads, ThreadOK
<1>. QED BY <1>1, <1>2, <1>3, <1>4, <1>5, <1>6, <1>7, <1>8, <1>9
         DEF Next, User, Callback, Thread, Over

LEMMA ScreenInductive == Inv /\ [Next]_vars => ScreenOK'
<1> SUFFICES ASSUME Inv, [Next]_vars PROVE ScreenOK'
  OBVIOUS
<1> USE DEF Inv
<1>1. CASE Submit
  <2>1. /\ seq' = seq + 1 /\ seq' \in Turns /\ seq' > seq /\ screen' = <<>>
        /\ UNCHANGED <<reported, posted>>
    BY TuiConstants, <1>1 DEF Submit, TypeOK, Turns
  <2>2. reported[seq'] = 0 /\ posted[seq'] = "none"
    BY <2>1 DEF ThreadOK
  <2>. QED BY <2>1, <2>2 DEF ScreenOK, OnItsWay, Faithful
<1>2. ASSUME Finish PROVE ScreenOK'
  BY <1>2 DEF Finish, ScreenOK, Faithful
<1>3. CASE CtrlC
  BY <1>3 DEF CtrlC, threads, ScreenOK, OnItsWay, Faithful
<1>4. CASE ResetCtrlC \/ Clear \/ UNCHANGED vars
  BY <1>4 DEF ResetCtrlC, Clear, vars, app, threads, ScreenOK, OnItsWay, Faithful
<1>5. ASSUME NEW t \in Turns, ~exited, TakeReport(t), Mine(t) PROVE ScreenOK'
  <2>1. /\ t = seq /\ active /\ posted[t] = "report"
        /\ screen' = Append(screen, <<t, reported[t]>>)
        /\ posted' = [posted EXCEPT ![t] = "none"]
        /\ UNCHANGED <<seq, reported>>
    BY <1>5 DEF TakeReport, Mine, Answer
  <2>2. reported[t] = Len(screen) + 1 /\ Len(screen) \in Nat
    BY <1>5, <2>1 DEF ScreenOK, OnItsWay, TypeOK
  <2>3. /\ Len(screen') = Len(screen) + 1
        /\ \A i \in 1 .. Len(screen') :
             screen'[i] = IF i <= Len(screen) THEN screen[i] ELSE <<t, reported[t]>>
    BY <2>1 DEF TypeOK
  <2>4. Faithful(screen', seq')
    BY <2>1, <2>2, <2>3 DEF Faithful, ScreenOK
  <2>5. posted'[seq'] = "none"
    BY <2>1 DEF TypeOK
  <2>. QED BY <2>1, <2>2, <2>3, <2>4, <2>5 DEF ScreenOK, OnItsWay
<1>6. ASSUME NEW t \in Turns, ~Mine(t), Answer(t),
             UNCHANGED <<active, seq, screen, exited, reported>>
      PROVE  ScreenOK'
  <2>1. active => seq # t /\ posted'[seq] = posted[seq]
    BY <1>6 DEF Mine, Answer, TypeOK, ActiveOK
  <2>. QED BY <1>6, <2>1 DEF ScreenOK, OnItsWay, Faithful
<1>7. ASSUME NEW t \in Turns, ~exited, Callback(t) PROVE ScreenOK'
  BY <1>2, <1>5, <1>6, <1>7 DEF Callback, TakeReport, TurnDone, TurnError
<1>8. ASSUME NEW t \in Turns, ReportIt(t) PROVE ScreenOK'
  <2>1. /\ posted[t] = "none" /\ UNCHANGED <<active, seq, screen, exited>>
        /\ reported' = [reported EXCEPT ![t] = @ + 1]
        /\ posted' = [posted EXCEPT ![t] =
                         IF active /\ seq = t THEN "report" ELSE "none"]
    BY <1>8 DEF ReportIt, app
  <2>2. CASE active /\ seq = t
    BY <2>1, <2>2 DEF ScreenOK, OnItsWay, Faithful, TypeOK
  <2>3. CASE active /\ seq # t
    BY <2>1, <2>3 DEF ScreenOK, OnItsWay, Faithful, TypeOK, ActiveOK
  <2>4. CASE ~active
    BY <2>1, <2>4 DEF ScreenOK, Faithful
  <2>. QED BY <2>2, <2>3, <2>4
<1>9. ASSUME NEW t \in Turns, StartThread(t) PROVE ScreenOK'
  BY <1>9 DEF StartThread, app, ScreenOK, OnItsWay, Faithful
<1>10. ASSUME NEW t \in Turns, EndRun(t) PROVE ScreenOK'
  <2>1. /\ UNCHANGED <<active, seq, screen, exited, reported>>
        /\ \A u \in Turns : posted'[u] = "report" <=> posted[u] = "report"
    BY <1>10 DEF EndRun, Ends, app, TypeOK
  <2>. QED BY <2>1 DEF ScreenOK, OnItsWay, Faithful, ActiveOK
<1>11. ASSUME NEW t \in Turns, AbandonPost(t) PROVE ScreenOK'
  BY <1>11 DEF AbandonPost, app, ScreenOK, Faithful
<1>. QED BY <1>1, <1>2, <1>3, <1>4, <1>7, <1>8, <1>9, <1>10, <1>11
         DEF Next, User, Callback, Thread, Over, Interrupt

LEMMA InvInductive == Inv /\ [Next]_vars => Inv'
BY TypeInductive, ThreadInductive, ScreenInductive DEF Inv

LEMMA InvInitial == Init => Inv
<1>1. Init => ThreadOK
  BY DEF Init, ThreadOK
<1>2. Init => ScreenOK
  BY DEF Init, ScreenOK, Faithful
<1>. QED BY <1>1, <1>2, InitialType DEF Inv

\* What is appended comes last.
LEMMA LastOf ==
  ASSUME NEW S, NEW l \in Seq(S), NEW b \in S, NEW i \in 1 .. Len(Append(l, b)),
         i \notin 1 .. Len(l)
  PROVE  Append(l, b)[i] = b
OBVIOUS

LEMMA RestOf ==
  ASSUME NEW S, NEW l \in Seq(S), NEW b \in S, NEW i \in 1 .. Len(l)
  PROVE  Append(l, b)[i] = l[i]
OBVIOUS

LEMMA BlockType ==
  ASSUME TypeOK, ActiveOK, active, NEW s \in Status
  PROVE  [seq |-> seq, status |-> s, reports |-> screen] \in Block
BY DEF TypeOK, ActiveOK, Block

\* A block holds its own turn's reports, although interrupted threads go on
\* reporting beside the active one.
LEMMA StaleInductive == Inv /\ NoStaleReports /\ [Next]_vars => NoStaleReports'
<1> SUFFICES ASSUME Inv, NoStaleReports, [Next]_vars PROVE NoStaleReports'
  OBVIOUS
<1>0. Faithful(screen', seq')
  BY ScreenInductive DEF ScreenOK
<1>1. CASE log' = log
  BY <1>0, <1>1 DEF NoStaleReports
<1>2. ASSUME NEW s \in Status, EndsTurn(s) PROVE NoStaleReports'
  <2> DEFINE block == [seq |-> seq, status |-> s, reports |-> screen]
  <2>1. log' = Append(log, block) /\ block \in Block /\ log \in Seq(Block)
    BY <1>2, EndEffect, BlockType DEF Inv, TypeOK
  <2>2. \A i \in 1 .. Len(log') : Faithful(log'[i].reports, log'[i].seq)
    <3> TAKE i \in 1 .. Len(log')
    <3>1. CASE i \in 1 .. Len(log)
      BY <2>1, <3>1, RestOf DEF NoStaleReports
    <3>2. CASE i \notin 1 .. Len(log)
      BY <2>1, <3>2, LastOf DEF NoStaleReports
    <3>. QED BY <3>1, <3>2
  <2>. QED BY <1>0, <2>2 DEF NoStaleReports
<1>3. CASE Submit
  BY <1>1, <1>3 DEF Submit, history
<1>. QED BY <1>1, <1>2, <1>3, LogSteps

\* What is on screen, and what any block holds, are its own turn's reports.
THEOREM NoStaleReportsHolds == Spec => []NoStaleReports
<1>1. Init => NoStaleReports
  BY DEF Init, NoStaleReports, Faithful
<1>. QED BY <1>1, InvInitial, InvInductive, StaleInductive, PTL DEF Spec
-----------------------------------------------------------------------------
(* The transcript and the trace store.                                     *)

\* A verdict is final.
LEMMA VerdictStays ==
  ASSUME TypeOK, ThreadOK, [Next]_vars, NEW t \in Turns,
         db[t] \in {"completed", "failed"}
  PROVE  db'[t] = db[t]
<1>1. CASE User \/ UNCHANGED vars \/ \E u \in Turns : Callback(u)
  BY <1>1 DEF User, Submit, Interrupt, CtrlC, ResetCtrlC, Clear, Callback,
              TakeReport, TurnDone, TurnError, vars, threads
<1>2. ASSUME NEW u \in Turns, StartThread(u) PROVE db'[t] = db[t]
  BY <1>2 DEF StartThread, ThreadOK, TypeOK
<1>3. ASSUME NEW u \in Turns, ReportIt(u) \/ EndRun(u) \/ AbandonPost(u)
      PROVE  db'[t] = db[t]
  BY <1>3 DEF ReportIt, EndRun, AbandonPost, TypeOK
<1>. QED BY <1>1, <1>2, <1>3 DEF Next, Thread, Over

\* A turn that ends otherwise than by an interrupt has its verdict already.
LEMMA EndAgrees ==
  ASSUME TypeOK, ThreadOK, [Next]_vars, log' # log
  PROVE  \E s \in Status : EndsTurn(s) /\ (s # "interrupted" => db[seq] = s)
<1>1. CASE Interrupt
  BY <1>1 DEF Interrupt, EndsTurn, Status
<1>2. ASSUME NEW t \in Turns, TurnDone(t)
      PROVE  EndsTurn("completed") /\ db[seq] = "completed"
  BY <1>2 DEF TurnDone, Mine, EndsTurn, history, ThreadOK
<1>3. ASSUME NEW t \in Turns, TurnError(t)
      PROVE  EndsTurn("failed") /\ db[seq] = "failed"
  BY <1>3 DEF TurnError, Mine, EndsTurn, ThreadOK
<1>4. ASSUME NEW t \in Turns PROVE ~TakeReport(t) /\ ~Thread(t)
  BY DEF TakeReport, Thread, StartThread, ReportIt, EndRun, AbandonPost, history
<1>5. ~(Submit \/ CtrlC \/ ResetCtrlC \/ Clear \/ UNCHANGED vars)
  BY DEF Submit, CtrlC, ResetCtrlC, Clear, vars, history
<1>. QED BY <1>1, <1>2, <1>3, <1>4, <1>5 DEF Next, User, Callback, Over, Status

LEMMA AgreesInductive ==
  Inv /\ BlockAgreesWithTrace /\ [Next]_vars => BlockAgreesWithTrace'
<1> SUFFICES ASSUME Inv, BlockAgreesWithTrace, [Next]_vars,
                    NEW i \in 1 .. Len(log'), log'[i].status # "interrupted"
             PROVE  db'[log'[i].seq] = log'[i].status
  BY DEF BlockAgreesWithTrace
<1>0. log \in Seq(Block) /\ TypeOK /\ ThreadOK /\ ActiveOK
  BY DEF Inv, TypeOK
<1>1. ASSUME NEW b \in Block, b.status # "interrupted", db[b.seq] = b.status
      PROVE  db'[b.seq] = b.status
  <2>1. b.seq \in Turns /\ b.status \in {"completed", "failed"}
    BY <1>1 DEF Block, Status
  <2>. QED BY <1>0, <1>1, <2>1, VerdictStays
<1>2. ASSUME NEW j \in 1 .. Len(log), log[j].status # "interrupted"
      PROVE  db'[log[j].seq] = log[j].status
  <2>1. log[j] \in Block /\ db[log[j].seq] = log[j].status
    BY <1>0, <1>2 DEF BlockAgreesWithTrace
  <2>. QED BY <1>1, <1>2, <2>1
<1>3. CASE log' = log
  BY <1>2, <1>3
<1>4. CASE log' # log
  <2>1. PICK s \in Status : EndsTurn(s) /\ (s # "interrupted" => db[seq] = s)
    BY <1>0, <1>4, EndAgrees
  <2> DEFINE block == [seq |-> seq, status |-> s, reports |-> screen]
  <2>2. log' = Append(log, block) /\ block \in Block
    BY <1>0, <2>1, EndEffect, BlockType
  <2>3. CASE i \in 1 .. Len(log)
    BY <1>0, <1>2, <2>2, <2>3, RestOf
  <2>4. CASE i \notin 1 .. Len(log)
    <3>1. log'[i] = block
      BY <1>0, <2>2, <2>4, LastOf
    <3>2. s # "interrupted" => db'[seq] = s
      BY <1>1, <2>1, <2>2
    <3>. QED BY <3>1, <3>2
  <2>. QED BY <2>3, <2>4
<1>. QED BY <1>3, <1>4

\* A block that says completed or failed agrees with the persisted trace, whatever
\* the threads of other turns store meanwhile.
THEOREM BlockAgreesWithTraceHolds == Spec => []BlockAgreesWithTrace
<1>1. Init => BlockAgreesWithTrace
  BY DEF Init, BlockAgreesWithTrace
<1>. QED BY <1>1, InvInitial, InvInductive, AgreesInductive, PTL DEF Spec

(***************************************************************************)
(* The provider picker, the other part of the screen: the same for its     *)
(* modals, loader threads and logins, for any providers and any counts.    *)
(***************************************************************************)
\* The steps of a modal come in the order provider, model, effort.
Rank == [id \in StepIds |->
            CASE id = "provider" -> 1 [] id = "model" -> 2 [] OTHER -> 3]

InOrder(steps) ==
    /\ steps # <<>>
    /\ \A i \in 1 .. Len(steps) : steps[i].id = "model" => steps[i].of \in Names
    /\ \A i, j \in 1 .. Len(steps) : i < j => Rank[steps[i].id] < Rank[steps[j].id]

\* What was chosen is known for all steps but the last.
Chosen(chosen) == {id \in StepIds : chosen[id] # None}
Passed(steps)  == {steps[i].id : i \in 1 .. Len(steps) - 1}

Selections == [StepIds -> Values \cup {None}]

Frames == [steps : Seq(Steps), chosen : Selections, index : Nat, loading : BOOLEAN]

\* A modal about to be shown; and one that is, with a row for its index.
Sound(m) == m \in Frames /\ InOrder(m.steps) /\ Chosen(m.chosen) = Passed(m.steps)

Modal == {m \in Frames :
            Sound(m) /\ m.index \in 1 .. Len(Visible(m.steps[Len(m.steps)]))}

Loads == [id : 1 .. MaxLoads, at : Nat, of : Names]

\* A loader that still delivers has its modal on the screen.
LoadersOK(loaders, height) ==
    loaders \subseteq Loads /\ \A l \in loaders : l.at \in 1 .. height

ModalsInv ==
    /\ modals \in Seq(Modal) /\ LoadersOK(loads, Len(modals))
    /\ loadCount \in 0 .. MaxLoads

ActiveInv ==
    /\ provider \in [name : Names, profile : Names, model : Values]
                    \cup {NoProvider}
    /\ activeName \in Names \cup {None}
    /\ saved \in [provider : Names \cup {None},
                  model : Values \cup {None}]

AwaitedInv ==
    /\ loginCount \in 0 .. MaxLogins
    /\ loginState \in [of : Range(Offered), verifier : Verifiers]
                      \cup {NoLogin}
    /\ logins \subseteq Logins
    /\ VerifierOfProvider

LoginInv ==
    /\ resume \in BOOLEAN /\ up \in BOOLEAN
    /\ profiles \subseteq Names /\ creds \subseteq Range(Offered)

PickerInv == ModalsInv /\ ActiveInv /\ AwaitedInv /\ LoginInv

LEMMA PickerValues ==
  /\ Range(Offered) \subseteq Names /\ Profiles \subseteq Names /\ Names \subseteq Values
  /\ None \notin Names /\ None \notin Values
  /\ \A p \in Names : /\ Wire[p] \in Names /\ Default[p] \in Values
                      /\ Models[p] \in Seq(Values)
  /\ Offered \in Seq(Values) /\ Efforts \in Seq(Values)
  /\ Offered # <<>> /\ Efforts # <<>> /\ MaxLoads \in Nat /\ MaxLogins \in Nat
<1>1. \A V : \A s \in Seq(STRING) : Range(s) \subseteq V => s \in Seq(V)
  BY DEF Range
<1>2. /\ Offered \in Seq(STRING) /\ Efforts \in Seq(STRING)
      /\ Offered # <<>> /\ Efforts # <<>> /\ MaxLoads \in Nat /\ MaxLogins \in Nat
      /\ Wire \in [Names -> Profiles] /\ None \notin Values
      /\ Models \in [Names -> Seq(STRING)] /\ Default \in [Names -> STRING]
  BY PickerConstants
<1>3. Range(Offered) \subseteq Names /\ Profiles \subseteq Names
  BY DEF Names
<1>4. /\ Names \subseteq Values /\ Range(Efforts) \subseteq Values
      /\ Range(Default) \subseteq Values
      /\ \A p \in Names : Range(Models[p]) \subseteq Values
  BY DEF Values
<1>5. \A p \in Names : Models[p] \in Seq(Values)
  BY <1>1, <1>2, <1>4
<1>6. \A p \in Names : Default[p] \in Values /\ Wire[p] \in Names
  BY <1>2, <1>3, <1>4 DEF Range
<1>7. Offered \in Seq(Values) /\ Efforts \in Seq(Values)
  BY <1>1, <1>2, <1>3, <1>4
<1>. QED BY <1>2, <1>3, <1>4, <1>5, <1>6, <1>7

\* What a step shows is never empty.
LEMMA VisibleType ==
  ASSUME NEW step \in Steps
  PROVE  /\ Visible(step)
               \in Seq(Values \cup {Retry, Back})
         /\ Len(Visible(step)) \in Nat \ {0}
<1>1. step.options \in Seq(Values) /\ step.error \in BOOLEAN
  BY DEF Steps
<1>2. /\ <<Retry, Back>> \in Seq(Values \cup {Retry, Back})
      /\ <<Back>> \in Seq(Values \cup {Retry, Back})
      /\ Len(<<Retry, Back>>) = 2 /\ Len(<<Back>>) = 1
  OBVIOUS
<1>3. CASE step.error
  BY <1>2, <1>3 DEF Visible
<1>4. CASE ~step.error /\ step.options = <<>>
  BY <1>2, <1>4 DEF Visible
<1>5. CASE ~step.error /\ step.options # <<>>
  <2>1. Visible(step) = step.options
    BY <1>5 DEF Visible
  <2>. QED BY <1>1, <1>5, <2>1
<1>. QED BY <1>1, <1>3, <1>4, <1>5

Less == {p \in Nat \X Nat : p[1] < p[2]}

\* Of a set of positions that is not empty, Min is one.
LEMMA Least ==
  ASSUME NEW I \in SUBSET Nat, I # {}
  PROVE  Min(I) \in I
<1>1. Less = OpToRel(<, Nat)
  BY DEF OpToRel, Less
<1>2. IsWellFoundedOn(Less, Nat)
  BY <1>1, NatLessThanWellFounded
<1>3. PICK x \in I : \A y \in I : ~(<<y, x>> \in Less)
  BY <1>2, WFMin
<1>4. ASSUME NEW y \in I, y < x PROVE FALSE
  <2>1. <<y, x>> \in Nat \X Nat
    OBVIOUS
  <2>. QED BY <1>3, <1>4, <2>1 DEF Less
<1>5. \A y \in I : x =< y
  BY <1>4
<1>. QED BY <1>5 DEF Min

\* The row selected when a step is shown is one of its rows.
LEMMA IndexInRange ==
  ASSUME NEW step \in Steps
  PROVE  InitialIndex(step) \in 1 .. Len(Visible(step))
<1> DEFINE v == Visible(step)
           I == {i \in 1 .. Len(v) : v[i] = step.current}
<1>1. Len(v) \in Nat \ {0}
  BY VisibleType
<1>s. SelectInSeq(v, LAMBDA value : value = step.current)
          = IF I # {} THEN Min(I) ELSE 0
  BY Zenon DEF SelectInSeq
<1>2. CASE I = {}
  <2>1. SelectInSeq(v, LAMBDA value : value = step.current) = 0
    BY <1>2, <1>s
  <2>2. InitialIndex(step) = 1
    BY <2>1 DEF InitialIndex
  <2>. QED BY <1>1, <2>2
<1>3. CASE I # {}
  <2>1. SelectInSeq(v, LAMBDA value : value = step.current) = Min(I)
    BY <1>3, <1>s
  <2>2. Min(I) \in I
    <3>1. I \in SUBSET Nat
      OBVIOUS
    <3> HIDE DEF I
    <3>. QED BY <1>3, <3>1, Least
  <2>3. InitialIndex(step) = Min(I)
    BY <1>1, <2>1, <2>2 DEF InitialIndex
  <2>. QED BY <2>2, <2>3
<1>. QED BY <1>2, <1>3

\* Show keeps the modals sound when what it shows is.
LEMMA ShowKeeps ==
  ASSUME NEW below \in Seq(Modal), NEW modal, Sound(modal),
         LoadersOK(loads, Len(below) + 1), loadCount \in 0 .. MaxLoads,
         Show(below, modal)
  PROVE  ModalsInv'
<1> DEFINE n == Len(modal.steps)
           step == modal.steps[n]
           load == step.id = "model" /\ step.options = <<>>
           this == [id |-> loadCount + 1, at |-> Len(below) + 1, of |-> step.of]
           i == IF load THEN 1 ELSE InitialIndex(step)
           shown == [modal EXCEPT !.loading = load, !.index = i]
<1>1. /\ modal \in Frames /\ modal.steps \in Seq(Steps) /\ n \in Nat \ {0}
      /\ step \in Steps /\ InOrder(modal.steps)
      /\ Chosen(modal.chosen) = Passed(modal.steps)
  <2>1. modal \in Frames /\ InOrder(modal.steps) /\ Chosen(modal.chosen) = Passed(modal.steps)
    BY DEF Sound
  <2>2. modal.steps \in Seq(Steps) /\ modal.steps # <<>>
    BY <2>1 DEF Frames, InOrder
  <2>. QED BY <2>1, <2>2
<1>2. Last(modal.steps) = step
  BY DEF Last
<1>3. /\ modals' = Append(below, shown)
      /\ load => loadCount < MaxLoads
      /\ loads' = IF load THEN loads \cup {this} ELSE loads
      /\ loadCount' = IF load THEN loadCount + 1 ELSE loadCount
  BY <1>2 DEF Show
<1>4. InitialIndex(step) \in 1 .. Len(Visible(step))
  BY <1>1, IndexInRange
<1>5. Len(Visible(step)) \in Nat \ {0}
  BY <1>1, VisibleType
<1>6. load \in BOOLEAN
  OBVIOUS
<1>7. load => step.of \in Names
  BY <1>1 DEF InOrder
<1>i. i \in 1 .. Len(Visible(step)) /\ i \in Nat
  BY <1>4, <1>5
<1> HIDE DEF load, step, n, i
<1>8. /\ shown \in Frames /\ shown.steps = modal.steps /\ shown.chosen = modal.chosen
      /\ shown.index \in 1 .. Len(Visible(step))
  BY <1>1, <1>6, <1>i DEF Frames
<1>9. shown \in Modal
  <2>1. step = shown.steps[Len(shown.steps)]
    BY <1>8 DEF step, n
  <2>. QED BY <1>1, <1>8, <2>1 DEF Modal, Sound
<1> HIDE DEF shown
<1>10. modals' \in Seq(Modal) /\ Len(modals') = Len(below) + 1
  BY <1>3, <1>9
<1>11. loadCount' \in 0 .. MaxLoads /\ (load => loadCount + 1 \in 1 .. MaxLoads)
  BY <1>3, PickerValues
<1>12. load => this \in Loads
  BY <1>7, <1>11 DEF Loads
<1>13. LoadersOK(loads', Len(modals'))
  <2>1. loads \subseteq Loads /\ \A l \in loads : l.at \in 1 .. Len(below) + 1
    BY DEF LoadersOK
  <2>2. loads' \subseteq Loads
    BY <1>3, <1>12, <2>1
  <2>3. ASSUME NEW l \in loads' PROVE l.at \in 1 .. Len(below) + 1
    BY <1>3, <2>1
  <2>. QED BY <1>10, <2>2, <2>3 DEF LoadersOK
<1>. QED BY <1>10, <1>11, <1>13 DEF ModalsInv

\* The first step of a modal: nothing has been chosen.
LEMMA FirstStep ==
  ASSUME NEW step \in Steps,
         step.id = "model" => step.of \in Names
  PROVE  Sound([steps |-> <<step>>, chosen |-> Chosen0, index |-> 1,
                loading |-> FALSE])
<1> DEFINE m == [steps |-> <<step>>, chosen |-> Chosen0, index |-> 1,
                 loading |-> FALSE]
<1>1. Chosen0 \in Selections
  BY DEF Chosen0, Selections
<1>2. m.steps \in Seq(Steps) /\ Len(m.steps) = 1 /\ m.steps[1] = step
  OBVIOUS
<1>3. m \in Frames
  BY <1>1, <1>2 DEF Frames
<1>4. InOrder(m.steps)
  BY <1>2 DEF InOrder
<1>5. Chosen(m.chosen) = {} /\ Passed(m.steps) = {}
  <2>1. m.chosen = Chosen0
    OBVIOUS
  <2> HIDE DEF m
  <2>. QED BY <1>2, <2>1 DEF Chosen, Passed, Chosen0
<1>. QED BY <1>3, <1>4, <1>5 DEF Sound

\* The modal on top, and those under it.
LEMMA TopModal ==
  ASSUME ModalsInv, modals # <<>>
  PROVE  /\ Len(modals) \in Nat \ {0}
         /\ Top = modals[Len(modals)] /\ Top \in Modal
         /\ Sound(Top) /\ Top \in Frames
         /\ Top.steps \in Seq(Steps) /\ Top.steps # <<>>
         /\ Len(Top.steps) \in Nat \ {0}
         /\ Current = Top.steps[Len(Top.steps)]
         /\ Current \in Steps
         /\ Top.index \in 1 .. Len(Visible(Current))
         /\ Front(modals) \in Seq(Modal)
         /\ Len(Front(modals)) = Len(modals) - 1
<1>1. modals \in Seq(Modal) /\ Len(modals) \in Nat \ {0}
  BY DEF ModalsInv
<1>2. Top = modals[Len(modals)] /\ Top \in Modal
  BY <1>1 DEF Top, Last
<1>3. Sound(Top) /\ Top \in Frames
  BY <1>2 DEF Modal
<1>4. Top.steps \in Seq(Steps) /\ Top.steps # <<>>
  BY <1>3 DEF Sound, Frames, InOrder
<1>5. /\ Len(Top.steps) \in Nat \ {0}
      /\ Current = Top.steps[Len(Top.steps)]
      /\ Current \in Steps
  BY <1>4 DEF Current, Last
<1>6. Top.index \in 1 .. Len(Visible(Current))
  BY <1>2, <1>5 DEF Modal
<1>7. /\ Front(modals) \in Seq(Modal)
      /\ Len(Front(modals)) = Len(modals) - 1
  BY <1>1 DEF Front
<1>. QED BY <1>1, <1>2, <1>3, <1>4, <1>5, <1>6, <1>7

\* A modal over those that are there.
LEMMA PushKeeps ==
  ASSUME ModalsInv, NEW step \in Steps,
         step.id = "model" => step.of \in Names, Push(step)
  PROVE  ModalsInv'
<1> DEFINE m == [steps |-> <<step>>, chosen |-> Chosen0, index |-> 1,
                 loading |-> FALSE]
<1>1. Sound(m)
  BY FirstStep
<1>2. Show(modals, m)
  BY DEF Push
<1> HIDE DEF m
<1>3. modals \in Seq(Modal) /\ loadCount \in 0 .. MaxLoads
  BY DEF ModalsInv
<1>4. LoadersOK(loads, Len(modals) + 1)
  BY <1>3 DEF ModalsInv, LoadersOK
<1>. QED BY <1>1, <1>2, <1>3, <1>4, ShowKeeps

\* The modal on top, changed.
LEMMA ShowTopKeeps ==
  ASSUME ModalsInv, modals # <<>>, NEW modal, Sound(modal),
         Show(Front(modals), modal)
  PROVE  ModalsInv'
<1>1. /\ Front(modals) \in Seq(Modal)
      /\ Len(Front(modals)) + 1 = Len(modals)
  BY TopModal
<1>2. LoadersOK(loads, Len(Front(modals)) + 1) /\ loadCount \in 0 .. MaxLoads
  BY <1>1 DEF ModalsInv
<1>. QED BY <1>1, <1>2, ShowKeeps

LEMMA CloseKeeps ==
  ASSUME ModalsInv, modals # <<>>, Close
  PROVE  ModalsInv'
<1>1. /\ Front(modals) \in Seq(Modal) /\ Len(modals) \in Nat \ {0}
      /\ Len(Front(modals)) = Len(modals) - 1
  BY TopModal
<1>2. /\ modals' = Front(modals) /\ loadCount' = loadCount
      /\ loads' = {l \in loads : l.at # Len(modals)}
  BY DEF Close
<1>3. LoadersOK(loads', Len(modals'))
  BY <1>1, <1>2 DEF ModalsInv, LoadersOK
<1>. QED BY <1>1, <1>2, <1>3 DEF ModalsInv

LEMMA FrontOf ==
  ASSUME NEW S, NEW s \in Seq(S), Len(s) > 1
  PROVE  /\ Front(s) \in Seq(S) /\ Len(Front(s)) = Len(s) - 1
         /\ Front(s) # <<>>
         /\ \A i \in 1 .. Len(s) - 1 : Front(s)[i] = s[i]
<1>1. Front(s) = [i \in 1 .. Len(s) - 1 |-> s[i]]
  BY DEF Front
<1> DEFINE f == [i \in 1 .. Len(s) - 1 |-> s[i]]
<1>2. /\ f \in Seq(S) /\ Len(f) = Len(s) - 1
      /\ \A i \in 1 .. Len(s) - 1 : f[i] = s[i]
  OBVIOUS
<1>3. f # <<>>
  <2> HIDE DEF f
  <2>. QED BY <1>2
<1>. QED BY <1>1, <1>2, <1>3

LEMMA StepFields ==
  ASSUME NEW step \in Steps
  PROVE  /\ step.id \in StepIds /\ Rank[step.id] \in Nat
         /\ step.of \in Names \cup {None}
         /\ step.options \in Seq(Values) /\ step.error \in BOOLEAN
BY DEF Steps, Rank

\* What a loader or a retry puts into a step.
LEMMA NewOptions ==
  ASSUME NEW step \in Steps, NEW options \in Seq(Values),
         NEW error \in BOOLEAN
  PROVE  LET new == [step EXCEPT !.options = options, !.error = error]
         IN  new \in Steps /\ new.id = step.id /\ new.of = step.of
BY DEF Steps

\* Back on the step before, what was chosen there is forgotten.
LEMMA GoBackKeeps ==
  ASSUME ModalsInv, modals # <<>>, GoBack
  PROVE  ModalsInv'
<1> DEFINE top == Top
           steps == Front(top.steps)
           n == Len(top.steps)
           m == [top EXCEPT !.steps = steps, !.chosen[Last(steps).id] = None]
<1>1. CASE n > 1
  <2>1. /\ top \in Frames /\ top.steps \in Seq(Steps) /\ n \in Nat \ {0}
        /\ InOrder(top.steps) /\ Chosen(top.chosen) = Passed(top.steps)
    BY TopModal DEF Sound
  <2>2. /\ steps \in Seq(Steps) /\ Len(steps) = n - 1 /\ steps # <<>>
        /\ \A i \in 1 .. n - 1 : steps[i] = top.steps[i]
    BY <1>1, <2>1, FrontOf
  <2> DEFINE id == top.steps[n - 1].id
  <2>3. Last(steps).id = id
    BY <1>1, <2>1, <2>2 DEF Last
  <2>4. id \in StepIds /\ top.chosen \in Selections
    <3>1. top.steps[n - 1] \in Steps
      BY <1>1, <2>1
    <3>. QED BY <2>1, <3>1, StepFields DEF Frames
  <2> HIDE DEF steps, id
  <2>5. /\ m \in Frames /\ m.steps = steps
        /\ m.chosen = [top.chosen EXCEPT ![id] = None]
    <3>1. m = [top EXCEPT !.steps = steps, !.chosen[id] = None]
      BY <2>3
    <3>. QED BY <2>1, <2>2, <2>4, <3>1 DEF Frames, Selections
  <2>6. InOrder(steps)
    <3>1. \A i \in 1 .. n - 1 : i \in 1 .. n
      BY <2>1
    <3>. QED BY <2>1, <2>2, <3>1 DEF InOrder
  <2>7. Chosen(m.chosen) = Chosen(top.chosen) \ {id}
    BY <2>4, <2>5 DEF Chosen, Selections
  <2>8. Passed(steps) = Passed(top.steps) \ {id}
    <3>1. ASSUME NEW i \in 1 .. n - 2 PROVE top.steps[i].id # id
      <4>1. i \in 1 .. n /\ n - 1 \in 1 .. n /\ i < n - 1
        BY <1>1, <2>1
      <4>2. Rank[top.steps[i].id] < Rank[id]
        BY <2>1, <4>1 DEF InOrder, id
      <4>3. Rank[id] \in Nat
        BY <2>4 DEF Rank
      <4>. QED BY <4>2, <4>3
    <3>2. Passed(steps) = {top.steps[i].id : i \in 1 .. n - 2}
      <4>1. Len(steps) - 1 = n - 2 /\ \A i \in 1 .. n - 2 : i \in 1 .. n - 1
        BY <2>1, <2>2
      <4>. QED BY <2>2, <4>1 DEF Passed
    <3>3. 1 .. n - 1 = (1 .. n - 2) \cup {n - 1}
      BY <1>1, <2>1
    <3>4. Passed(top.steps) = {top.steps[i].id : i \in 1 .. n - 2} \cup {id}
      BY <3>3 DEF Passed, id
    <3>. QED BY <3>1, <3>2, <3>4
  <2>10. Show(Front(modals), m)
    BY <1>1 DEF GoBack, steps
  <2> HIDE DEF m
  <2>9. Sound(m)
    BY <2>1, <2>5, <2>6, <2>7, <2>8 DEF Sound
  <2>. QED BY <2>9, <2>10, ShowTopKeeps
<1>2. CASE ~(n > 1)
  BY <1>2, CloseKeeps DEF GoBack
<1>. QED BY <1>1, <1>2

\* The step on show, changed in what is not its name.
LEMMA Changed ==
  ASSUME NEW m, Sound(m), NEW step \in Steps,
         step.id = m.steps[Len(m.steps)].id, step.of = m.steps[Len(m.steps)].of
  PROVE  /\ Sound([m EXCEPT !.steps[Len(m.steps)] = step])
         /\ [m EXCEPT !.steps[Len(m.steps)] = step].steps
              = [m.steps EXCEPT ![Len(m.steps)] = step]
<1> DEFINE n == Len(m.steps)
           new == [m.steps EXCEPT ![n] = step]
           w == [m EXCEPT !.steps[n] = step]
<1>1. /\ m \in Frames /\ m.steps \in Seq(Steps) /\ n \in Nat \ {0}
      /\ InOrder(m.steps) /\ Chosen(m.chosen) = Passed(m.steps)
  <2>1. m \in Frames /\ InOrder(m.steps) /\ Chosen(m.chosen) = Passed(m.steps)
    BY DEF Sound
  <2>2. m.steps \in Seq(Steps) /\ m.steps # <<>>
    BY <2>1 DEF Frames, InOrder
  <2>. QED BY <2>1, <2>2
<1>2. /\ new \in Seq(Steps) /\ Len(new) = n /\ new[n] = step
      /\ \A i \in 1 .. n : i # n => new[i] = m.steps[i]
  BY <1>1
<1>3. \A i \in 1 .. n : new[i].id = m.steps[i].id /\ new[i].of = m.steps[i].of
  BY <1>2
<1>4. w \in Frames /\ w.steps = new /\ w.chosen = m.chosen
  BY <1>1, <1>2 DEF Frames
<1>5. InOrder(new)
  BY <1>1, <1>2, <1>3 DEF InOrder
<1>6. Passed(new) = Passed(m.steps)
  BY <1>1, <1>2, <1>3 DEF Passed
<1>. QED BY <1>1, <1>4, <1>5, <1>6 DEF Sound

LEMMA AgainKeeps ==
  ASSUME ModalsInv, modals # <<>>, Again
  PROVE  ModalsInv'
<1> DEFINE top == Top
           step == [Current EXCEPT !.options = <<>>, !.error = FALSE]
           m == [top EXCEPT !.steps[Len(top.steps)] = step]
<1>1. Sound(top) /\ Current = top.steps[Len(top.steps)] /\ Current \in Steps
  BY TopModal
<1>2. step \in Steps /\ step.id = Current.id /\ step.of = Current.of
  <2>1. <<>> \in Seq(Values)
    OBVIOUS
  <2>. QED BY <1>1, <2>1, NewOptions
<1>3. Show(Front(modals), m)
  BY DEF Again
<1>4. Sound(m)
  <2> HIDE DEF step
  <2>. QED BY <1>1, <1>2, Changed
<1> HIDE DEF m
<1>. QED BY <1>3, <1>4, ShowTopKeeps

\* On to the next step, which comes later in the order.
LEMMA AdvanceKeeps ==
  ASSUME ModalsInv, modals # <<>>,
         NEW value \in Values, NEW step \in Steps,
         Rank[Current.id] < Rank[step.id],
         step.id = "model" => step.of \in Names,
         Advance([Top EXCEPT !.chosen[Current.id] = value], step)
  PROVE  ModalsInv'
<1> DEFINE top == Top
           id == Current.id
           n == Len(top.steps)
           old == [top EXCEPT !.chosen[id] = value]
           new == Append(top.steps, step)
           m == [old EXCEPT !.steps = Append(old.steps, step)]
<1>1. /\ top \in Frames /\ top.steps \in Seq(Steps) /\ n \in Nat \ {0}
      /\ InOrder(top.steps) /\ Chosen(top.chosen) = Passed(top.steps)
      /\ Current = top.steps[n] /\ id \in StepIds
  BY TopModal DEF Sound, Steps
<1>2. /\ old \in Frames /\ old.steps = top.steps
      /\ old.chosen = [top.chosen EXCEPT ![id] = value]
  BY <1>1 DEF Frames, Selections
<1>3. /\ new \in Seq(Steps) /\ Len(new) = n + 1 /\ new[n + 1] = step
      /\ \A i \in 1 .. n : new[i] = top.steps[i]
  BY <1>1
<1>4. m \in Frames /\ m.steps = new /\ m.chosen = [top.chosen EXCEPT ![id] = value]
  <2> HIDE DEF old, new
  <2>1. m = [old EXCEPT !.steps = new]
    BY <1>2 DEF new
  <2>. QED BY <1>2, <1>3, <2>1 DEF Frames
<1>5. InOrder(new)
  <2>1. new # <<>>
    <3> HIDE DEF new, n
    <3>. QED BY <1>1, <1>3
  <2>2. \A i \in 1 .. Len(new) : new[i].id = "model" => new[i].of \in Names
    BY <1>1, <1>3 DEF InOrder
  <2>3. ASSUME NEW i \in 1 .. Len(new), NEW j \in 1 .. Len(new), i < j
        PROVE  Rank[new[i].id] < Rank[new[j].id]
    <3> HIDE DEF new, n
    <3>1. \A k \in 1 .. n : Rank[top.steps[k].id] \in Nat
      BY <1>1, StepFields DEF n
    <3>2. Rank[step.id] \in Nat
      BY StepFields
    <3>3. CASE j \in 1 .. n
      <4>1. i \in 1 .. n
        BY <1>1, <1>3, <2>3, <3>3
      <4>2. new[i] = top.steps[i] /\ new[j] = top.steps[j]
        BY <1>3, <3>3, <4>1
      <4>3. Rank[top.steps[i].id] < Rank[top.steps[j].id]
        BY <1>1, <2>3, <3>3, <4>1 DEF InOrder, n
      <4>. QED BY <4>2, <4>3
    <3>4. CASE j = n + 1 /\ i = n
      BY <1>1, <1>3, <3>4
    <3>5. CASE j = n + 1 /\ i < n
      <4>1. i \in 1 .. n /\ n \in 1 .. n
        BY <1>1, <3>5
      <4>2. Rank[top.steps[i].id] < Rank[top.steps[n].id]
        BY <1>1, <3>5, <4>1 DEF InOrder, n
      <4>3. new[i] = top.steps[i] /\ new[j] = step
        BY <1>3, <3>5, <4>1
      <4>4. Rank[top.steps[n].id] < Rank[step.id]
        BY <1>1
      <4>. QED BY <3>1, <3>2, <4>1, <4>2, <4>3, <4>4
    <3>. QED BY <1>1, <1>3, <2>3, <3>3, <3>4, <3>5
  <2>. QED BY <2>1, <2>2, <2>3 DEF InOrder
<1>6. Chosen(m.chosen) = Chosen(top.chosen) \cup {id}
  <2>1. value # None
    BY PickerValues
  <2>2. top.chosen \in Selections
    BY <1>1 DEF Frames
  <2>. QED BY <1>1, <1>4, <2>1, <2>2 DEF Chosen, Selections
<1>7. Passed(new) = Passed(top.steps) \cup {id}
  <2>1. 1 .. n = (1 .. n - 1) \cup {n}
    BY <1>1
  <2>2. Passed(new) = {top.steps[i].id : i \in 1 .. n}
    BY <1>1, <1>3 DEF Passed
  <2>. QED BY <1>1, <2>1, <2>2 DEF Passed
<1>8. Sound(m)
  BY <1>1, <1>4, <1>5, <1>6, <1>7 DEF Sound
<1>9. Show(Front(modals), m)
  BY DEF Advance
<1> HIDE DEF m
<1>. QED BY <1>8, <1>9, ShowTopKeeps

\* A sound modal with a row for its index is a modal.
LEMMA ModalAgain ==
  ASSUME NEW m, Sound(m), NEW loading \in BOOLEAN,
         NEW i \in 1 .. Len(Visible(m.steps[Len(m.steps)]))
  PROVE  [m EXCEPT !.loading = loading, !.index = i] \in Modal
<1> DEFINE n == Len(m.steps)
           w == [m EXCEPT !.loading = loading, !.index = i]
<1>1. m \in Frames /\ InOrder(m.steps) /\ Chosen(m.chosen) = Passed(m.steps)
  BY DEF Sound
<1>2. i \in Nat
  <2>1. m.steps \in Seq(Steps) /\ m.steps # <<>>
    BY <1>1 DEF Frames, InOrder
  <2>2. m.steps[n] \in Steps
    BY <2>1
  <2>3. Len(Visible(m.steps[n])) \in Nat
    BY <2>2, VisibleType
  <2>. QED BY <2>3
<1>3. w \in Frames /\ w.steps = m.steps /\ w.chosen = m.chosen /\ w.index = i
  BY <1>1, <1>2 DEF Frames
<1>4. w \in Modal
  <2> HIDE DEF w
  <2>. QED BY <1>1, <1>3 DEF Modal, Sound
<1>. QED BY <1>4

\* One modal on the stack, changed.
LEMMA OneModal ==
  ASSUME ModalsInv, NEW k \in 1 .. Len(modals), NEW m \in Modal,
         modals' = [modals EXCEPT ![k] = m], loads' \subseteq loads,
         loadCount' = loadCount
  PROVE  ModalsInv'
<1>1. modals' \in Seq(Modal) /\ Len(modals') = Len(modals)
  BY DEF ModalsInv
<1>. QED BY <1>1 DEF ModalsInv, LoadersOK

LEMMA MoveKeeps ==
  ASSUME ModalsInv, Move
  PROVE  ModalsInv'
<1>1. PICK i \in 1 .. Len(Visible(Current)) :
        modals' = [modals EXCEPT ![Len(modals)].index = i]
  BY DEF Move
<1>2. modals # <<>> /\ Top.loading = FALSE /\ UNCHANGED <<loads, loadCount>>
  <2>1. modals # <<>>
    BY DEF Move, InModal
  <2>2. Top.loading \in BOOLEAN
    BY <2>1, TopModal DEF Frames
  <2>. QED BY <2>1, <2>2 DEF Move, loader
<1> DEFINE top == Top
           m == [top EXCEPT !.loading = FALSE, !.index = i]
<1>3. /\ Sound(top) /\ top \in Frames /\ Current = top.steps[Len(top.steps)]
      /\ top = modals[Len(modals)] /\ Len(modals) \in Nat \ {0}
  BY <1>2, TopModal
<1>4. m \in Modal
  BY <1>1, <1>3, ModalAgain
<1>5. m = [top EXCEPT !.index = i]
  BY <1>2, <1>3 DEF Frames
<1>6. modals' = [modals EXCEPT ![Len(modals)] = m]
  BY <1>1, <1>3, <1>5
<1>7. loads' \subseteq loads /\ loadCount' = loadCount /\ Len(modals) \in 1 .. Len(modals)
  BY <1>2, <1>3
<1> HIDE DEF m
<1>. QED BY <1>4, <1>6, <1>7, OneModal

\* A loader's answer goes to the step on show, whichever it is: its row is
\* then the first, or the current value's.
LEMMA SetLoadedKeeps ==
  ASSUME NEW m \in Modal, NEW options \in Seq(Values)
  PROVE  SetLoaded(m, options) \in Modal
<1> DEFINE n == Len(m.steps)
           old == m.steps[n]
           step == [old EXCEPT !.options = options]
           w == [m EXCEPT !.steps[n] = step]
<1>1. Sound(m) /\ old \in Steps /\ m.steps \in Seq(Steps) /\ m \in Frames
      /\ n \in Nat \ {0}
  <2>1. Sound(m) /\ m \in Frames
    BY DEF Modal
  <2>2. m.steps \in Seq(Steps) /\ m.steps # <<>>
    BY <2>1 DEF Sound, Frames, InOrder
  <2>. QED BY <2>1, <2>2
<1>2. step \in Steps /\ step.id = old.id /\ step.of = old.of
  BY <1>1 DEF Steps
<1>3. Sound(w) /\ w.steps = [m.steps EXCEPT ![n] = step]
  <2> HIDE DEF step
  <2>. QED BY <1>1, <1>2, Changed
<1>4. Len(w.steps) = n /\ w.steps[n] = step
  <2> HIDE DEF step
  <2>. QED BY <1>1, <1>2, <1>3
<1>5. InitialIndex(step) \in 1 .. Len(Visible(step))
  BY <1>2, IndexInRange
<1> DEFINE v == [w EXCEPT !.loading = FALSE, !.index = InitialIndex(step)]
<1>6. v \in Modal
  <2> HIDE DEF w, step
  <2>. QED BY <1>3, <1>4, <1>5, ModalAgain
<1>7. SetLoaded(m, options)
        = [m EXCEPT !.steps[n] = step, !.loading = FALSE, !.index = InitialIndex(step)]
  <2>1. Last(m.steps) = old
    BY DEF Last
  <2>. QED BY <2>1 DEF SetLoaded
<1>8. v = [m EXCEPT !.steps[n] = step, !.loading = FALSE, !.index = InitialIndex(step)]
  <2> HIDE DEF step
  <2>. QED BY <1>1 DEF Frames
<1>. QED BY <1>6, <1>7, <1>8

LEMMA SetErrorKeeps ==
  ASSUME NEW m \in Modal
  PROVE  SetError(m) \in Modal
<1> DEFINE n == Len(m.steps)
           old == m.steps[n]
           step == [old EXCEPT !.options = <<>>, !.error = TRUE]
           w == [m EXCEPT !.steps[n] = step]
<1>1. Sound(m) /\ old \in Steps /\ m.steps \in Seq(Steps) /\ m \in Frames
      /\ n \in Nat \ {0}
  <2>1. Sound(m) /\ m \in Frames
    BY DEF Modal
  <2>2. m.steps \in Seq(Steps) /\ m.steps # <<>>
    BY <2>1 DEF Sound, Frames, InOrder
  <2>. QED BY <2>1, <2>2
<1>2. step \in Steps /\ step.id = old.id /\ step.of = old.of
  <2>1. <<>> \in Seq(Values)
    OBVIOUS
  <2>. QED BY <1>1, <2>1, NewOptions
<1>3. Sound(w) /\ w.steps = [m.steps EXCEPT ![n] = step]
  <2> HIDE DEF step
  <2>. QED BY <1>1, <1>2, Changed
<1>4. Len(w.steps) = n /\ w.steps[n] = step
  <2> HIDE DEF step
  <2>. QED BY <1>1, <1>2, <1>3
<1>5. 1 \in 1 .. Len(Visible(step))
  BY <1>2, VisibleType
<1> DEFINE v == [w EXCEPT !.loading = FALSE, !.index = 1]
<1>6. v \in Modal
  <2> HIDE DEF w, step
  <2>. QED BY <1>3, <1>4, <1>5, ModalAgain
<1>7. SetError(m) = [m EXCEPT !.steps[n] = step, !.loading = FALSE, !.index = 1]
  <2>1. Last(m.steps) = old
    BY DEF Last
  <2>. QED BY <2>1 DEF SetError
<1>8. v = [m EXCEPT !.steps[n] = step, !.loading = FALSE, !.index = 1]
  <2> HIDE DEF step
  <2>. QED BY <1>1 DEF Frames
<1>. QED BY <1>6, <1>7, <1>8

\* However late it is, a loader finds its modal.
LEMMA DeliverKeeps ==
  ASSUME ModalsInv, NEW l \in loads, Deliver(l)
  PROVE  ModalsInv'
<1>1. /\ modals \in Seq(Modal) /\ l.at \in 1 .. Len(modals) /\ l.of \in Names
      /\ modals[l.at] \in Modal
  BY DEF ModalsInv, LoadersOK, Loads
<1>2. loads' \subseteq loads /\ loadCount' = loadCount
  BY DEF Deliver
<1>3. ASSUME NEW options \in {Models[l.of], <<>>},
             modals' = [modals EXCEPT ![l.at] = SetLoaded(@, options)]
      PROVE  ModalsInv'
  <2>1. options \in Seq(Values)
    <3>1. <<>> \in Seq(Values) /\ Models[l.of] \in Seq(Values)
      BY <1>1, PickerValues
    <3>. QED BY <3>1
  <2>2. SetLoaded(modals[l.at], options) \in Modal
    BY <1>1, <2>1, SetLoadedKeeps
  <2>. QED BY <1>1, <1>2, <1>3, <2>2, OneModal
<1>4. ASSUME modals' = [modals EXCEPT ![l.at] = SetError(@)]
      PROVE  ModalsInv'
  <2>1. SetError(modals[l.at]) \in Modal
    BY <1>1, SetErrorKeeps
  <2>. QED BY <1>1, <1>2, <1>4, <2>1, OneModal
<1>. QED BY <1>3, <1>4 DEF Deliver

\* What is applied is built from what was chosen and the active provider.
LEMMA ApplyKeeps ==
  ASSUME ActiveInv, LoginInv, NEW chosen \in Selections,
         Apply(chosen)
  PROVE  ActiveInv'
<1> DEFINE p == IF chosen["provider"] # None THEN chosen["provider"]
                ELSE provider.name
           model == IF chosen["model"] # None THEN chosen["model"]
                    ELSE provider.model
           works == p # None /\ model # None
           here == p = provider.name /\ model = provider.model
                     /\ chosen["effort"] # None
<1>1. \A id \in {"provider", "model", "effort"} :
          chosen[id] \in Values \cup {None}
  BY DEF Selections, StepIds
<1>2. /\ provider.name \in Names \cup {None}
      /\ provider.model \in Values \cup {None}
  BY DEF ActiveInv, NoProvider
<1>3. works => model \in Values
  BY <1>1, <1>2
<1>4. \/ /\ works /\ here
         /\ saved' = IF chosen["effort"] \in Range(Efforts)
                     THEN [provider |-> p, model |-> model] ELSE saved
         /\ UNCHANGED <<provider, activeName>>
      \/ /\ works /\ ~here /\ p \in profiles
         /\ provider' = Build(p, model)
         /\ activeName' = p
         /\ saved' = [provider |-> p, model |-> model]
      \/ UNCHANGED <<provider, activeName, saved>>
  BY Zenon DEF Apply, inUse
<1> HIDE DEF model, works
<1>5. CASE works /\ here /\ UNCHANGED <<provider, activeName>>
           /\ saved' \in {[provider |-> p, model |-> model], saved}
  BY <1>2, <1>3, <1>5 DEF ActiveInv
<1>6. CASE /\ works /\ p \in profiles
           /\ provider' = Build(p, model)
           /\ activeName' = p
           /\ saved' = [provider |-> p, model |-> model]
  <2>1. p \in Names
    BY <1>6 DEF LoginInv
  <2>2. Wire[p] \in Names
    BY <2>1, PickerValues
  <2> HIDE DEF p
  <2>. QED BY <1>3, <1>6, <2>1, <2>2 DEF ActiveInv, Build
<1>7. CASE UNCHANGED <<provider, activeName, saved>>
  BY <1>7 DEF ActiveInv
<1> HIDE DEF p, here
<1>. QED BY <1>4, <1>5, <1>6, <1>7

\* A new login has no verifier yet.
LEMMA StartLoginKeeps ==
  ASSUME AwaitedInv, NEW p \in Range(Offered),
         StartLogin(p)
  PROVE  AwaitedInv'
<1> DEFINE t == [id |-> loginCount', of |-> p, verifier |-> NoVerifier,
                 at |-> IF OAuth[p] = "device" THEN "device" ELSE "start"]
           w == [of |-> p, verifier |-> NoVerifier]
<1>1. /\ loginCount < MaxLogins /\ loginCount' = loginCount + 1
      /\ logins' = logins \cup {t} /\ loginState' \in {loginState, w}
  BY DEF StartLogin
<1>2. loginCount' \in 1 .. MaxLogins /\ loginCount' \in 0 .. MaxLogins
  BY <1>1, PickerValues DEF AwaitedInv
<1>3. NoVerifier \in Verifiers
  BY DEF Verifiers
<1>4. t \in Logins /\ t.of = p /\ t.verifier = NoVerifier
  BY <1>2, <1>3 DEF Logins
<1>5. /\ w \in [of : Range(Offered), verifier : Verifiers]
      /\ w.verifier = NoVerifier
  BY <1>3
<1> HIDE DEF t, w
<1>6. ASSUME NEW x \in logins' \cup {loginState'}, x.verifier # NoVerifier
      PROVE  x.verifier.of = x.of
  <2>1. x \in logins \cup {loginState}
    BY <1>1, <1>4, <1>5, <1>6
  <2>. QED BY <1>6, <2>1 DEF AwaitedInv, VerifierOfProvider
<1>7. VerifierOfProvider'
  BY <1>6 DEF VerifierOfProvider
<1>. QED BY <1>1, <1>2, <1>4, <1>5, <1>7 DEF AwaitedInv

\* The logins that go on, with a code awaited or none.
LEMMA FewerLogins ==
  ASSUME AwaitedInv, logins' \subseteq logins,
         loginState' \in {loginState, NoLogin}, loginCount' = loginCount
  PROVE  AwaitedInv'
<1>1. NoLogin.verifier = NoVerifier
  BY DEF NoLogin
<1>2. ASSUME NEW x \in logins' \cup {loginState'}, x.verifier # NoVerifier
      PROVE  x.verifier.of = x.of
  <2>1. x \in logins \cup {loginState}
    BY <1>1, <1>2
  <2>. QED BY <1>2, <2>1 DEF AwaitedInv, VerifierOfProvider
<1>3. VerifierOfProvider'
  BY <1>2 DEF VerifierOfProvider
<1>. QED BY <1>3 DEF AwaitedInv

\* The code is exchanged with the verifier that waits with it.
LEMMA PasteKeeps ==
  ASSUME AwaitedInv, Paste
  PROVE  AwaitedInv'
<1> DEFINE t == [id |-> loginCount', of |-> loginState.of,
                 verifier |-> loginState.verifier, at |-> "exchange"]
<1>1. /\ loginState # NoLogin /\ loginCount < MaxLogins
      /\ loginCount' = loginCount + 1 /\ logins' = logins \cup {t}
      /\ loginState' = NoLogin
  BY DEF Paste
<1>2. loginState \in [of : Range(Offered), verifier : Verifiers]
  BY <1>1 DEF AwaitedInv
<1>3. loginCount' \in 1 .. MaxLogins /\ loginCount' \in 0 .. MaxLogins
  BY <1>1, PickerValues DEF AwaitedInv
<1>4. t \in Logins /\ t.of = loginState.of /\ t.verifier = loginState.verifier
  BY <1>2, <1>3 DEF Logins
<1>5. NoLogin.verifier = NoVerifier
  BY DEF NoLogin
<1> HIDE DEF t
<1>6. ASSUME NEW x \in logins' \cup {loginState'}, x.verifier # NoVerifier
      PROVE  x.verifier.of = x.of
  <2>1. x \in logins \/ x = t
    BY <1>1, <1>5, <1>6
  <2>. QED BY <1>4, <1>6, <2>1 DEF AwaitedInv, VerifierOfProvider
<1>7. VerifierOfProvider'
  BY <1>6 DEF VerifierOfProvider
<1>. QED BY <1>1, <1>3, <1>4, <1>7 DEF AwaitedInv

\* A verifier handed over late is kept only for the provider it is of.
LEMMA AuthorizeKeeps ==
  ASSUME AwaitedInv, NEW t \in logins, Authorize(t)
  PROVE  AwaitedInv'
<1> DEFINE v == [of |-> t.of, id |-> t.id]
<1>1. /\ logins' = logins \ {t} /\ loginCount' = loginCount
      /\ loginState' = IF loginState.of = t.of
                       THEN [loginState EXCEPT !.verifier = v] ELSE loginState
  BY DEF Authorize, SavePkce
<1>2. CASE loginState.of = t.of
  <2>1. t.of \in Range(Offered) /\ t.id \in 1 .. MaxLogins
    BY DEF AwaitedInv, Logins
  <2>2. v \in Verifiers /\ v.of = t.of
    BY <2>1 DEF Verifiers
  <2>3. loginState \in [of : Range(Offered), verifier : Verifiers]
    <3>1. loginState # NoLogin
      BY <1>2, <2>1, PickerValues DEF NoLogin
    <3>. QED BY <3>1 DEF AwaitedInv
  <2> HIDE DEF v
  <2>4. /\ loginState' \in [of : Range(Offered), verifier : Verifiers]
        /\ loginState'.of = t.of /\ loginState'.verifier = v
    BY <1>1, <1>2, <2>2, <2>3
  <2>5. ASSUME NEW x \in logins' \cup {loginState'}, x.verifier # NoVerifier
        PROVE  x.verifier.of = x.of
    <3>1. CASE x \in logins
      BY <2>5, <3>1 DEF AwaitedInv, VerifierOfProvider
    <3>2. CASE x = loginState'
      BY <2>2, <2>4, <3>2
    <3>. QED BY <1>1, <3>1, <3>2
  <2>6. VerifierOfProvider'
    BY <2>5 DEF VerifierOfProvider
  <2>. QED BY <1>1, <2>4, <2>6 DEF AwaitedInv
<1>3. CASE loginState.of # t.of
  BY <1>1, <1>3, FewerLogins
<1>. QED BY <1>2, <1>3

LEMMA ExchangeKeeps ==
  ASSUME AwaitedInv, NEW t \in logins, Exchange(t)
  PROVE  AwaitedInv'
<1> DEFINE d == [t EXCEPT !.at = "done"]
<1>1. /\ logins' \subseteq logins \cup {d} /\ loginCount' = loginCount
      /\ loginState' = loginState
  BY DEF Exchange
<1>2. t \in Logins
  BY DEF AwaitedInv
<1>3. d \in Logins /\ d.of = t.of /\ d.verifier = t.verifier
  BY <1>2 DEF Logins
<1> HIDE DEF d
<1>4. ASSUME NEW x \in logins' \cup {loginState'}, x.verifier # NoVerifier
      PROVE  x.verifier.of = x.of
  <2>1. x \in logins \cup {loginState} \/ x = d
    BY <1>1
  <2>. QED BY <1>3, <1>4, <2>1 DEF AwaitedInv, VerifierOfProvider
<1>5. VerifierOfProvider'
  BY <1>4 DEF VerifierOfProvider
<1>. QED BY <1>1, <1>3, <1>5 DEF AwaitedInv

\* The parts of the invariant a step does not touch.
LEMMA ModalsSame ==
  ASSUME ModalsInv, UNCHANGED <<modals, loads, loadCount>> PROVE ModalsInv'
BY DEF ModalsInv, LoadersOK

LEMMA ActiveSame ==
  ASSUME ActiveInv, UNCHANGED inUse PROVE ActiveInv'
BY DEF ActiveInv, inUse

LEMMA AwaitedSame ==
  ASSUME AwaitedInv, UNCHANGED <<loginState, logins, loginCount>> PROVE AwaitedInv'
BY DEF AwaitedInv, VerifierOfProvider

LEMMA LoginSame ==
  ASSUME LoginInv, UNCHANGED <<up, resume, profiles, creds>> PROVE LoginInv'
BY DEF LoginInv

\* A step that only the modals see.
LEMMA OnlyModals ==
  ASSUME PickerInv, ModalsInv', UNCHANGED <<up, inUse, login>>
  PROVE  PickerInv'
<1>1. UNCHANGED <<loginState, logins, loginCount>> /\ UNCHANGED <<up, resume, profiles, creds>>
  BY DEF login
<1>2. UNCHANGED inUse
  OBVIOUS
<1>. QED BY <1>1, <1>2, ActiveSame, AwaitedSame, LoginSame DEF PickerInv

\* The steps the program opens a modal with.
LEMMA OwnSteps ==
  ASSUME ActiveInv
  PROVE  /\ ProviderStep \in Steps /\ ProviderStep.id = "provider"
         /\ EffortStep \in Steps /\ EffortStep.id = "effort"
         /\ \A p \in Names, m \in Values \cup {None} :
              /\ ModelStep(p, m) \in Steps
              /\ ModelStep(p, m).id = "model" /\ ModelStep(p, m).of = p
         /\ \A p \in Names :
              CurrentModel(p) \in Values \cup {None}
         /\ provider # NoProvider => provider.name \in Names
<1>1. /\ Offered \in Seq(Values) /\ Efforts \in Seq(Values)
      /\ <<>> \in Seq(Values) /\ Names \subseteq Values
  BY PickerValues
<1>2. provider # NoProvider =>
         /\ provider.name \in Names /\ provider.model \in Values
         /\ ActiveProfile \in Names
  BY DEF ActiveInv, ActiveProfile
<1>3. StepIds = {"provider", "model", "effort"}
  BY DEF StepIds
<1>4. ProviderStep \in Steps /\ ProviderStep.id = "provider"
  <2> DEFINE c == IF provider = NoProvider THEN None ELSE ActiveProfile
  <2>1. c \in Values \cup {None}
    BY <1>1, <1>2
  <2>2. ProviderStep = Step("provider", None, Offered, c)
    BY DEF ProviderStep
  <2> HIDE DEF c
  <2>. QED BY <1>1, <1>3, <2>1, <2>2 DEF Step, Steps
<1>5. EffortStep \in Steps /\ EffortStep.id = "effort"
  BY <1>1, <1>3 DEF EffortStep, Step, Steps
<1>6. \A p \in Names, m \in Values \cup {None} :
          /\ ModelStep(p, m) \in Steps
          /\ ModelStep(p, m).id = "model" /\ ModelStep(p, m).of = p
  BY <1>1, <1>3 DEF ModelStep, Step, Steps
<1>7. \A p \in Names :
          CurrentModel(p) \in Values \cup {None}
  BY <1>2 DEF CurrentModel
<1>. QED BY <1>2, <1>4, <1>5, <1>6, <1>7

LEMMA EscapeInv ==
  ASSUME PickerInv, Escape PROVE PickerInv'
<1>1. ModalsInv'
  BY GoBackKeeps DEF PickerInv, Escape, InModal
<1>. QED BY <1>1, OnlyModals DEF Escape

LEMMA LeaveInv ==
  ASSUME PickerInv, Leave PROVE PickerInv'
<1>1. modals # <<>> /\ (GoBack \/ Again)
  BY DEF Leave, InModal
<1>2. ModalsInv'
  BY <1>1, GoBackKeeps, AgainKeeps DEF PickerInv
<1>. QED BY <1>2, OnlyModals DEF Leave

LEMMA MoveInv ==
  ASSUME PickerInv, Move PROVE PickerInv'
<1>1. ModalsInv'
  BY MoveKeeps DEF PickerInv
<1>. QED BY <1>1, OnlyModals DEF Move

\* Enter, on each kind of step.
LEMMA EnterInv ==
  ASSUME PickerInv, Enter PROVE PickerInv'
<1> DEFINE value == Visible(Current)[Top.index]
           modal == [Top EXCEPT !.chosen[Current.id] = value]
<1>1. /\ modals # <<>> /\ value \notin {Back, Retry}
      /\ \/ /\ Current.id = "provider" /\ NeedsLogin(value)
            /\ resume' = TRUE
            /\ StartLogin(value) /\ Close /\ Apply(modal.chosen)
            /\ UNCHANGED <<up, profiles, creds>>
         \/ /\ Current.id = "provider" /\ value \in profiles
            /\ Advance(modal, ModelStep(value, CurrentModel(value)))
            /\ UNCHANGED <<up, inUse, login>>
         \/ /\ up' = FALSE
            /\ UNCHANGED <<inUse, modals, loader, login>>
         \/ /\ Current.id = "model"
            /\ Advance(modal, EffortStep)
            /\ UNCHANGED <<up, inUse, login>>
         \/ /\ Close /\ Apply(modal.chosen)
            /\ UNCHANGED <<up, login>>
  BY Zenon DEF Enter, InModal
<1>2. /\ Current \in Steps /\ Top \in Frames
      /\ Top.index \in 1 .. Len(Visible(Current))
  BY <1>1, TopModal DEF PickerInv
<1>3. value \in Values
  BY <1>1, <1>2, VisibleType
<1> HIDE DEF value
<1>4. modal.chosen \in Selections
  BY <1>2, <1>3, StepFields DEF Frames, Selections
<1> DEFINE chosen == modal.chosen
<1> HIDE DEF chosen
<1>5. CASE /\ NeedsLogin(value) /\ resume' = TRUE
           /\ StartLogin(value) /\ Close /\ Apply(chosen)
           /\ UNCHANGED <<up, profiles, creds>>
  <2>1. ModalsInv'
    BY <1>1, <1>5, CloseKeeps DEF PickerInv
  <2>2. ActiveInv'
    BY <1>4, <1>5, ApplyKeeps DEF PickerInv, chosen
  <2>3. value \in Range(Offered)
    BY <1>5 DEF NeedsLogin
  <2>4. AwaitedInv'
    BY <1>5, <2>3, StartLoginKeeps DEF PickerInv
  <2>5. LoginInv'
    BY <1>5 DEF PickerInv, LoginInv
  <2>. QED BY <2>1, <2>2, <2>4, <2>5 DEF PickerInv
<1>6. CASE /\ Current.id = "provider" /\ value \in profiles
           /\ Advance(modal, ModelStep(value, CurrentModel(value)))
           /\ UNCHANGED <<up, inUse, login>>
  <2> DEFINE step == ModelStep(value, CurrentModel(value))
  <2>1. value \in Names
    BY <1>6 DEF PickerInv, LoginInv
  <2>2. step \in Steps /\ step.id = "model" /\ step.of = value
    BY <2>1, OwnSteps DEF PickerInv
  <2> HIDE DEF step
  <2>3. Rank[Current.id] < Rank[step.id]
    BY <1>6, <2>2 DEF Rank, StepIds
  <2>4. ModalsInv'
    BY <1>1, <1>3, <1>6, <2>1, <2>2, <2>3, AdvanceKeeps DEF PickerInv, step
  <2>. QED BY <1>6, <2>4, OnlyModals
<1>7. CASE up' = FALSE /\ UNCHANGED <<inUse, modals, loader, login>>
  <2>1. ModalsInv' /\ ActiveInv' /\ AwaitedInv'
    BY <1>7, ModalsSame, ActiveSame, AwaitedSame DEF PickerInv, loader, login
  <2>2. LoginInv'
    BY <1>7 DEF PickerInv, LoginInv, login
  <2>. QED BY <2>1, <2>2 DEF PickerInv
<1>8. CASE /\ Current.id = "model"
           /\ Advance(modal, EffortStep)
           /\ UNCHANGED <<up, inUse, login>>
  <2>1. EffortStep \in Steps /\ EffortStep.id = "effort"
    BY OwnSteps DEF PickerInv
  <2>2. Rank[Current.id] < Rank[EffortStep.id]
    BY <1>8, <2>1 DEF Rank, StepIds
  <2>3. ModalsInv'
    BY <1>1, <1>3, <1>8, <2>1, <2>2, AdvanceKeeps DEF PickerInv
  <2>. QED BY <1>8, <2>3, OnlyModals
<1>9. CASE /\ Close /\ Apply(chosen)
           /\ UNCHANGED <<up, login>>
  <2>1. ModalsInv'
    BY <1>1, <1>9, CloseKeeps DEF PickerInv
  <2>2. ActiveInv'
    BY <1>4, <1>9, ApplyKeeps DEF PickerInv, chosen
  <2>3. AwaitedInv' /\ LoginInv'
    BY <1>9, AwaitedSame, LoginSame DEF PickerInv, login
  <2>. QED BY <2>1, <2>2, <2>3 DEF PickerInv
<1>. QED BY <1>1, <1>5, <1>6, <1>7, <1>8, <1>9, Zenon DEF chosen

LEMMA OpenPickerInv ==
  ASSUME PickerInv, OpenPicker PROVE PickerInv'
<1>1. ModalsInv /\ ActiveInv
  BY DEF PickerInv
<1>2. \/ Push(ProviderStep)
      \/ /\ provider # NoProvider
         /\ Push(ModelStep(provider.name, CurrentModel(provider.name)))
      \/ Push(EffortStep)
  BY DEF OpenPicker
<1>3. CASE Push(ProviderStep)
  BY <1>1, <1>3, OwnSteps, PushKeeps, OnlyModals DEF OpenPicker
<1>4. CASE Push(EffortStep)
  BY <1>1, <1>4, OwnSteps, PushKeeps, OnlyModals DEF OpenPicker
<1>5. CASE /\ provider # NoProvider
           /\ Push(ModelStep(provider.name, CurrentModel(provider.name)))
  <2> DEFINE step == ModelStep(provider.name, CurrentModel(provider.name))
  <2>1. step \in Steps /\ step.of \in Names
    BY <1>1, <1>5, OwnSteps
  <2> HIDE DEF step
  <2>2. ModalsInv'
    BY <1>1, <1>5, <2>1, PushKeeps DEF step
  <2>. QED BY <2>2, OnlyModals DEF OpenPicker
<1>. QED BY <1>2, <1>3, <1>4, <1>5

LEMMA DeliverInv ==
  ASSUME PickerInv, NEW l \in loads, Deliver(l)
  PROVE  PickerInv'
<1>1. ModalsInv'
  BY DeliverKeeps DEF PickerInv
<1>. QED BY <1>1, OnlyModals DEF Deliver

\* The commands at the prompt, and the login threads.
LEMMA PromptInv ==
  ASSUME PickerInv,
         \/ \E p \in Names : AddProvider(p)
         \/ LoginCommand \/ CancelLogin \/ Paste
         \/ \E t \in logins : Authorize(t) \/ Exchange(t)
  PROVE  PickerInv'
<1>1. ModalsInv'
  BY ModalsSame DEF PickerInv, AddProvider, LoginCommand, CancelLogin,
     Paste, Authorize, Exchange, loader
<1>2. ActiveInv'
  BY ActiveSame DEF PickerInv, AddProvider, LoginCommand, CancelLogin,
     Paste, Authorize, Exchange
<1>3. LoginInv'
  <2>1. ASSUME NEW p \in Names, AddProvider(p) PROVE LoginInv'
    BY <2>1 DEF PickerInv, LoginInv, AddProvider
  <2>2. CASE LoginCommand \/ CancelLogin \/ Paste
    BY <2>2, LoginSame DEF PickerInv, LoginCommand, CancelLogin, Paste
  <2>3. ASSUME NEW t \in logins, Authorize(t) PROVE LoginInv'
    BY <2>3, LoginSame DEF PickerInv, Authorize
  <2>4. ASSUME NEW t \in logins, Exchange(t) PROVE LoginInv'
    <3>1. t.of \in Range(Offered)
      BY DEF PickerInv, AwaitedInv, Logins
    <3>. QED BY <2>4, <3>1 DEF PickerInv, LoginInv, Exchange
  <2>. QED BY <2>1, <2>2, <2>3, <2>4
<1>4. AwaitedInv'
  <2>1. ASSUME NEW p \in Names, AddProvider(p) PROVE AwaitedInv'
    BY <2>1, AwaitedSame DEF PickerInv, AddProvider
  <2>2. CASE LoginCommand
    BY <2>2, StartLoginKeeps DEF PickerInv, LoginCommand
  <2>3. CASE CancelLogin
    BY <2>3, FewerLogins DEF PickerInv, CancelLogin
  <2>4. CASE Paste
    BY <2>4, PasteKeeps DEF PickerInv
  <2>5. ASSUME NEW t \in logins, Authorize(t) \/ Exchange(t)
        PROVE  AwaitedInv'
    BY <2>5, AuthorizeKeeps, ExchangeKeeps DEF PickerInv
  <2>. QED BY <2>1, <2>2, <2>3, <2>4, <2>5
<1>. QED BY <1>1, <1>2, <1>3, <1>4 DEF PickerInv

LEMMA LoginDoneInv ==
  ASSUME PickerInv, NEW t \in logins, LoginDone(t)
  PROVE  PickerInv'
<1>1. t.of \in Range(Offered)
  BY DEF PickerInv, AwaitedInv, Logins
<1>2. /\ t.of \in Names /\ t.of \in Values
      /\ Default[t.of] \in Values /\ Wire[t.of] \in Names
  BY <1>1, PickerValues
<1>3. ModalsInv'
  <2> DEFINE step == ModelStep(t.of, Default[t.of])
  <2>1. step \in Steps /\ step.of \in Names
    BY <1>2, OwnSteps DEF PickerInv
  <2> HIDE DEF step
  <2>2. CASE Push(step)
    BY <2>1, <2>2, PushKeeps DEF PickerInv
  <2>3. CASE UNCHANGED <<modals, loader>>
    BY <2>3, ModalsSame DEF PickerInv, loader
  <2>. QED BY <2>2, <2>3 DEF LoginDone, step
<1>4. ActiveInv'
  BY <1>2 DEF PickerInv, ActiveInv, LoginDone, Build
<1>5. AwaitedInv'
  BY FewerLogins DEF PickerInv, LoginDone
<1>6. LoginInv'
  BY <1>2 DEF PickerInv, LoginInv, LoginDone
<1>. QED BY <1>3, <1>4, <1>5, <1>6 DEF PickerInv

LEMMA PickerBegins ==
  ASSUME PickerInit PROVE PickerInv
<1>1. /\ NoVerifier \in Verifiers /\ NoLogin.verifier = NoVerifier
      /\ MaxLoads \in Nat /\ MaxLogins \in Nat
  BY PickerValues DEF Verifiers, NoLogin
<1>2. AwaitedInv
  BY <1>1 DEF AwaitedInv, PickerInit, VerifierOfProvider
<1>3. LoginInv
  BY PickerValues DEF LoginInv, PickerInit
<1>4. ActiveInv
  <2>1. provider \in [name : Names, profile : Names, model : Values]
                     \cup {NoProvider}
    <3>1. ASSUME NEW p \in Profiles, provider = Build(p, Default[p])
          PROVE  provider \in [name : Names, profile : Names,
                               model : Values]
      BY <3>1, PickerValues DEF Build
    <3>. QED BY <3>1 DEF PickerInit
  <2>2. provider.profile \in Names \cup {None}
    BY <2>1 DEF NoProvider
  <2>. QED BY <2>1, <2>2 DEF ActiveInv, PickerInit
<1>5. ModalsInv
  <2> DEFINE step == Step("provider", None, Offered, None)
             m == [steps |-> <<step>>, chosen |-> Chosen0, index |-> 1,
                   loading |-> FALSE]
  <2>1. step \in Steps /\ step.id = "provider"
    BY PickerValues DEF Step, Steps, StepIds
  <2>2. Sound(m) /\ m.steps = <<step>> /\ m.index = 1
    <3> HIDE DEF step
    <3>. QED BY <2>1, FirstStep
  <2>3. 1 \in 1 .. Len(Visible(step))
    BY <2>1, VisibleType
  <2> HIDE DEF step
  <2>4. m.steps[Len(m.steps)] = step
    OBVIOUS
  <2> HIDE DEF m
  <2>5. m \in Modal
    BY <2>2, <2>3, <2>4 DEF Modal, Sound
  <2>6. modals \in {<<m>>, <<>>}
    BY DEF PickerInit, m, step
  <2>7. modals \in Seq(Modal)
    <3>1. <<>> \in Seq(Modal) /\ <<m>> \in Seq(Modal)
      BY <2>5
    <3>. QED BY <2>6, <3>1
  <2>. QED BY <1>1, <2>7 DEF ModalsInv, LoadersOK, PickerInit
<1>. QED BY <1>2, <1>3, <1>4, <1>5 DEF PickerInv

LEMMA PickerStep ==
  ASSUME PickerInv, [PickerNext]_pickerVars
  PROVE  PickerInv'
<1>1. CASE UNCHANGED pickerVars
  <2>1. UNCHANGED <<up, inUse, login>> /\ UNCHANGED <<modals, loader>>
    BY <1>1 DEF pickerVars
  <2>2. ModalsInv'
    BY <2>1, ModalsSame DEF PickerInv, loader
  <2>. QED BY <2>1, <2>2, OnlyModals
<1>2. CASE PickerNext
  BY <1>2, MoveInv, EscapeInv, LeaveInv, EnterInv, OpenPickerInv, PromptInv, DeliverInv,
     LoginDoneInv DEF PickerNext
<1>. QED BY <1>1, <1>2

\* What the invariant says of what the runs check.
LEMMA PickerShows ==
  ASSUME PickerInv
  PROVE  PickerTypeOK /\ ChoicesOnScreen /\ VerifierOfProvider
<1>1. /\ modals \in Seq(Modal)
      /\ \A k \in DOMAIN modals :
           /\ modals[k] \in Modal /\ modals[k] \in Frames /\ Sound(modals[k])
           /\ modals[k].steps \in Seq(Steps) /\ Len(modals[k].steps) \in Nat \ {0}
  <2>1. modals \in Seq(Modal)
    BY DEF PickerInv, ModalsInv
  <2>2. ASSUME NEW k \in DOMAIN modals
        PROVE  /\ modals[k] \in Modal /\ modals[k] \in Frames /\ Sound(modals[k])
               /\ modals[k].steps \in Seq(Steps) /\ Len(modals[k].steps) \in Nat \ {0}
    <3>1. modals[k] \in Modal
      BY <2>1
    <3>2. modals[k] \in Frames /\ Sound(modals[k])
      BY <3>1 DEF Modal
    <3>3. modals[k].steps \in Seq(Steps) /\ modals[k].steps # <<>>
      BY <3>2 DEF Frames, Sound, InOrder
    <3>. QED BY <3>1, <3>2, <3>3
  <2>. QED BY <2>1, <2>2
<1>2. \A k \in DOMAIN modals :
          modals[k].index \in 1 .. Len(Visible(Last(modals[k].steps)))
  BY <1>1 DEF Modal, Last
<1>3. modals \in Seq([steps : Seq(Steps),
                      chosen : [StepIds -> Values \cup {None}],
                      index : Nat, loading : BOOLEAN])
  <2>1. modals \in Seq(Frames)
    <3>1. modals \in Seq(Modal) /\ \A m \in Modal : m \in Frames
      BY <1>1 DEF Modal
    <3>. QED BY <3>1
  <2>2. Frames = [steps : Seq(Steps),
                  chosen : [StepIds -> Values \cup {None}],
                  index : Nat, loading : BOOLEAN]
    BY DEF Frames, Selections
  <2>. QED BY <2>1, <2>2
<1>4. PickerTypeOK
  BY <1>2, <1>3 DEF PickerInv, ModalsInv, ActiveInv, AwaitedInv, LoginInv, LoadersOK, Loads,
     PickerTypeOK
<1>5. ASSUME NEW k \in DOMAIN modals
      PROVE  {id \in StepIds : modals[k].chosen[id] # None}
               = {step.id : step \in Range(Front(modals[k].steps))}
  <2> DEFINE s == modals[k].steps
  <2>1. s \in Seq(Steps) /\ Len(s) \in Nat \ {0}
    BY <1>1
  <2>2. Front(s) = [i \in 1 .. Len(s) - 1 |-> s[i]]
    BY <2>1 DEF Front
  <2>3. Range(Front(s)) = {s[i] : i \in 1 .. Len(s) - 1}
    BY <2>2 DEF Range
  <2>4. {step.id : step \in Range(Front(s))} = Passed(s)
    BY <2>3 DEF Passed
  <2>. QED BY <1>1, <2>4 DEF Sound, Chosen
<1>. QED BY <1>4, <1>5 DEF ChoicesOnScreen, PickerInv, AwaitedInv

\* Whatever the providers, the user and the loaders do, every variable of the
\* picker keeps its type, and Enter finds a row.
THEOREM PickerTypeCorrect ==
  PickerSpec => []PickerTypeOK
<1>1. PickerInit => PickerInv
  BY PickerBegins
<1>2. PickerInv /\ [PickerNext]_pickerVars => PickerInv'
  BY PickerStep
<1>3. PickerInv => PickerTypeOK
  BY PickerShows
<1>. QED BY <1>1, <1>2, <1>3, PTL DEF PickerSpec

\* What a modal would apply is what was chosen on the steps the user has come
\* through, however often steps are gone back on and loaded again.
THEOREM ChoicesOnScreenHolds ==
  PickerSpec => []ChoicesOnScreen
<1>1. PickerInit => PickerInv
  BY PickerBegins
<1>2. PickerInv /\ [PickerNext]_pickerVars => PickerInv'
  BY PickerStep
<1>3. PickerInv => ChoicesOnScreen
  BY PickerShows
<1>. QED BY <1>1, <1>2, <1>3, PTL DEF PickerSpec

\* No code is exchanged with the verifier of another provider's login, for any
\* number of logins begun and given up.
THEOREM VerifierOfProviderHolds ==
  PickerSpec => []VerifierOfProvider
<1>1. PickerInit => PickerInv
  BY PickerBegins
<1>2. PickerInv /\ [PickerNext]_pickerVars => PickerInv'
  BY PickerStep
<1>3. PickerInv => VerifierOfProvider
  BY PickerShows
<1>. QED BY <1>1, <1>2, <1>3, PTL DEF PickerSpec
=============================================================================
