--------------------------- MODULE TurnLoopProofs ---------------------------
(***************************************************************************)
(* Theorems about TurnLoop, for every choice of providers and budgets.     *)
(***************************************************************************)
EXTENDS TurnLoop, TLAPS

\* What a failure surfaces as is one of the exception classes.
LEMMA RaisedType == ASSUME NEW f \in Faults PROVE Raised(f) \in Exceptions
BY DEF Faults, Exceptions, Raised, HttpxRaises, StreamRaises, GenerateRaises

\* The answer of the current attempt is a response.
LEMMA HereType == DataOK => Here \in Attempts
BY DEF DataOK, Here, Attempts

\* An accepted response, and a salvaged or thrown one, keep the types.
LEMMA AcceptType ==
  ASSUME DataOK, NEW text \in BOOLEAN, NEW n \in 0 .. MaxCalls, Accept(text, n)
  PROVE  /\ response' \in Response /\ accepted' \subseteq Attempts
         /\ pc' \in PCs /\ exc' \in Exceptions \cup {"none"}
<1>1. [text |-> text, calls |-> n, src |-> Here] \in Response
  BY HereType DEF Response
<1>2. QED
  BY <1>1, HereType DEF Accept, DataOK, PCs

LEMMA SalvageType ==
  ASSUME DataOK, NEW text \in BOOLEAN, NEW e \in Exceptions,
         SalvageOrThrow(e, text)
  PROVE  /\ response' \in Response /\ accepted' \subseteq Attempts
         /\ pc' \in PCs /\ exc' \in Exceptions \cup {"none"}
<1>1. CASE text
  <2>1. Accept(TRUE, 0)
    BY <1>1 DEF SalvageOrThrow
  <2>2. 0 \in 0 .. MaxCalls
    BY TurnConstants
  <2>3. QED
    BY <2>1, <2>2, AcceptType
<1>2. CASE ~text
  BY <1>2 DEF SalvageOrThrow, Throw, DataOK, PCs
<1>3. QED
  BY <1>1, <1>2

\* The flags stay Boolean.
LEMMA FlagsInductive == FlagsOK /\ DataOK /\ [Next]_vars => FlagsOK'
<1> SUFFICES ASSUME FlagsOK, DataOK, [Next]_vars PROVE FlagsOK'
  OBVIOUS
<1> USE DEF FlagsOK, turnVars, providerVars, callVars, loopVars, histVars
<1>1. CASE StartTurn
  BY <1>1 DEF StartTurn
<1>2. CASE Prepare \/ StartLoop
  BY <1>2, TurnConstants DEF Prepare, StartLoop, ProviderKind, DataOK
<1>3. CASE StartCall
  BY <1>3 DEF StartCall
<1>4. CASE Complete
  BY <1>4 DEF Complete
<1>5. CASE CompleteFails
  BY <1>5 DEF CompleteFails, Observe
<1>6. CASE StreamText
  BY <1>6 DEF StreamText
<1>7. CASE StreamOther
  BY <1>7 DEF StreamOther
<1>8. CASE StreamDone
  BY <1>8 DEF StreamDone
<1>9. CASE StreamBreaks
  BY <1>9 DEF StreamBreaks
<1>10. CASE StreamFails
  BY <1>10 DEF StreamFails, Observe
<1>11. CASE Round
  BY <1>11 DEF Round
<1>12. CASE Dispatch
  BY <1>12 DEF Dispatch
<1>13. CASE FollowUp
  BY <1>13 DEF FollowUp
<1>14. CASE CatchFollowUp \/ CatchTurn
  BY <1>14 DEF CatchFollowUp, CatchTurn
<1>15. CASE Finish
  BY <1>15 DEF Finish
<1>16. CASE EnqueueJobs
  BY <1>16 DEF EnqueueJobs
<1>17. CASE FinishTurn
  BY <1>17 DEF FinishTurn
<1>18. CASE Degrade
  BY <1>18 DEF Degrade
<1>19. CASE FailTurn
  BY <1>19 DEF FailTurn
<1>20. CASE SwitchProvider
  BY <1>20 DEF SwitchProvider
<1>21. CASE UNCHANGED vars
  BY <1>21 DEF vars
<1>22. QED
  BY <1>1, <1>2, <1>3, <1>4, <1>5, <1>6, <1>7, <1>8, <1>9, <1>10, <1>11,
     <1>12, <1>13, <1>14, <1>15, <1>16, <1>17, <1>18, <1>19, <1>20, <1>21
     DEF Next, Turn, Ended

\* A round is dispatched only while the budget of rounds is open.
RoundOpen == pc = "dispatch" => rounds < MaxToolRounds

LEMMA RoundOpenInductive == RoundOpen /\ [Next]_vars => RoundOpen'
BY DEF RoundOpen, Next, Turn, Ended, vars, turnVars, providerVars, callVars,
      loopVars, endVars,
       histVars, Throw, Accept, SalvageOrThrow, Retry, BudgetLeft, StartTurn,
       Prepare, StartLoop, StartCall, Complete, CompleteFails, StreamText, StreamOther,
       StreamDone, StreamBreaks, StreamFails, Round, Dispatch, FollowUp,
          CatchFollowUp, CatchTurn,
       Finish, EnqueueJobs, FinishTurn, Degrade, FailTurn, SwitchProvider

\* The other variables keep their sets and bounds.
LEMMA DataInductive == FlagsOK /\ DataOK /\ RoundOpen /\ [Next]_vars => DataOK'
<1> SUFFICES ASSUME FlagsOK, DataOK, RoundOpen, [Next]_vars PROVE DataOK'
  OBVIOUS
<1> USE TurnConstants, HereType DEF FlagsOK, DataOK, PCs, turnVars, providerVars,
          callVars,
        loopVars, endVars, histVars, Response, Throw
<1>1. CASE StartTurn
  BY <1>1 DEF StartTurn
<1>2. CASE Prepare \/ StartLoop
  BY <1>2 DEF Prepare, StartLoop
<1>3. CASE StartCall
  BY <1>3 DEF StartCall, Exceptions
<1>4. CASE Complete
  <2>1. CASE \E text \in BOOLEAN, n \in CallCounts : Accept(text, n)
    <3>1. PICK text \in BOOLEAN, n \in CallCounts : Accept(text, n)
      BY <2>1
    <3>2. n \in 0 .. MaxCalls
      BY DEF CallCounts
    <3>3. QED
      BY <1>4, <3>1, <3>2, AcceptType DEF Complete
  <2>2. CASE Throw("CallbackError") /\ UNCHANGED <<response, accepted>>
    BY <1>4, <2>2 DEF Complete, Exceptions
  <2>3. QED
    BY <1>4, <2>1, <2>2 DEF Complete
<1>5. CASE CompleteFails
  BY <1>5, RaisedType DEF CompleteFails, Retry, CanRetry, Observe, Exceptions
<1>6. CASE StreamText
  <2>1. CASE shown' = shown \cup {Here} /\ UNCHANGED <<pc, exc, response, accepted>>
    <3>1. shown' \subseteq Attempts
      BY <2>1
    <3>2. QED
      BY <1>6, <2>1, <3>1 DEF StreamText
  <2>2. CASE SalvageOrThrow("CallbackError", TRUE) /\ UNCHANGED shown
    <3>1. "CallbackError" \in Exceptions
      BY DEF Exceptions
    <3>2. TRUE \in BOOLEAN
      BY Zenon
    <3>3. /\ response' \in Response /\ accepted' \subseteq Attempts
          /\ pc' \in PCs /\ exc' \in Exceptions \cup {"none"}
      BY <2>2, <3>1, <3>2, SalvageType
    <3>4. QED
      BY <1>6, <2>2, <3>3 DEF StreamText
  <2>3. QED
    BY <1>6, <2>1, <2>2, Zenon DEF StreamText
<1>7. CASE StreamOther
  <2>1. CASE UNCHANGED <<pc, exc, response, accepted>>
    BY <1>7, <2>1 DEF StreamOther
  <2>2. CASE SalvageOrThrow("CallbackError", gotText)
    <3>1. "CallbackError" \in Exceptions
      BY DEF Exceptions
    <3>2. QED
      BY <1>7, <2>2, <3>1, SalvageType DEF StreamOther
  <2>3. QED
    BY <1>7, <2>1, <2>2 DEF StreamOther
<1>8. CASE StreamDone
  <2>1. CASE \E n \in CallCounts : Accept(gotText, n)
    <3>1. PICK n \in CallCounts : Accept(gotText, n)
      BY <2>1
    <3>2. n \in 0 .. MaxCalls
      BY DEF CallCounts
    <3>3. QED
      BY <1>8, <3>1, <3>2, AcceptType DEF StreamDone
  <2>2. CASE SalvageOrThrow("CallbackError", gotText)
    <3>1. "CallbackError" \in Exceptions
      BY DEF Exceptions
    <3>2. QED
      BY <1>8, <2>2, <3>1, SalvageType DEF StreamDone
  <2>3. QED
    BY <1>8, <2>1, <2>2 DEF StreamDone
<1>9. CASE StreamBreaks
  <2>1. "StreamError" \in Exceptions
    BY DEF Exceptions
  <2>2. QED
    BY <1>9, <2>1, SalvageType DEF StreamBreaks
<1>10. CASE StreamFails
  <2>1. PICK f \in Faults :
          \/ Retry /\ attempt < MaxRetries
          \/ Throw("CallbackError") /\ UNCHANGED <<attempt, response, accepted>>
          \/ Throw(Raised(f)) /\ UNCHANGED <<attempt, response, accepted>>
          \/ SalvageOrThrow(Raised(f), gotText) /\ UNCHANGED attempt
    BY <1>10, Zenon DEF StreamFails, CanRetry
  <2>2. CASE Retry /\ attempt < MaxRetries
    BY <1>10, <2>2 DEF StreamFails, Retry
  <2>3. CASE Throw("CallbackError") /\ UNCHANGED <<attempt, response, accepted>>
    BY <1>10, <2>3 DEF StreamFails, Exceptions
  <2>4. CASE Throw(Raised(f)) /\ UNCHANGED <<attempt, response, accepted>>
    BY <1>10, <2>4, RaisedType DEF StreamFails
  <2>5. CASE SalvageOrThrow(Raised(f), gotText) /\ UNCHANGED attempt
    <3>1. /\ response' \in Response /\ accepted' \subseteq Attempts
          /\ pc' \in PCs /\ exc' \in Exceptions \cup {"none"}
      BY <2>5, RaisedType, SalvageType
    <3>2. QED
      BY <1>10, <2>5, <3>1 DEF StreamFails
  <2>6. QED
    BY <2>1, <2>2, <2>3, <2>4, <2>5
<1>11. CASE Round
  BY <1>11 DEF Round, BudgetLeft
<1>12. CASE Dispatch
  BY <1>12 DEF Dispatch, CountedCalls, Exceptions
<1>13. CASE FollowUp
  BY <1>13 DEF FollowUp, RoundOpen
<1>14. CASE CatchFollowUp \/ CatchTurn
  BY <1>14 DEF CatchFollowUp, CatchTurn
<1>15. CASE Finish
  BY <1>15 DEF Finish
<1>16. CASE EnqueueJobs
  BY <1>16 DEF EnqueueJobs
<1>17. CASE FinishTurn
  BY <1>17 DEF FinishTurn, CloseTrace
<1>18. CASE Degrade
  <2>1. ends' \subseteq {"TurnDone", "Error"}
    BY <1>18 DEF Degrade, CloseTrace
  <2>2. QED
    BY <1>18, <2>1 DEF Degrade, CloseTrace
<1>19. CASE FailTurn
  BY <1>19 DEF FailTurn, CloseTrace
<1>20. CASE SwitchProvider
  BY <1>20 DEF SwitchProvider
<1>21. CASE UNCHANGED vars
  BY <1>21 DEF vars
<1>22. QED
  BY <1>1, <1>2, <1>3, <1>4, <1>5, <1>6, <1>7, <1>8, <1>9, <1>10, <1>11,
     <1>12, <1>13, <1>14, <1>15, <1>16, <1>17, <1>18, <1>19, <1>20, <1>21
     DEF Next, Turn, Ended

\* Every variable keeps its type, and the attempt, iteration and round counters
\* their bounds.
THEOREM TypeCorrect == Spec => []TypeOK
<1>1. Init => FlagsOK
  BY Zenon DEF Init, FlagsOK
<1>2. Init => DataOK
  BY TurnConstants DEF Init, DataOK, PCs, NoAnswer, Response, Attempts
<1>3. Init => RoundOpen
  BY DEF Init, RoundOpen
<1>4. QED
  BY <1>1, <1>2, <1>3, FlagsInductive, DataInductive, RoundOpenInductive, PTL
     DEF Spec, TypeOK
-----------------------------------------------------------------------------
(* The budget of provider calls.                                           *)

\* calls counts at most MaxRetries + 1 calls for every iteration that is over,
\* and the attempts of the current one.  From FollowUp on the attempts start
\* again at 0, which is sound because Round closed the iteration.
CallInv ==
    /\ pc \in {"start", "prepare", "loop", "call"}
         => calls <= (MaxRetries + 1) * iterations + attempt
    /\ pc = "dispatch" => calls <= (MaxRetries + 1) * iterations
    /\ calls <= (MaxRetries + 1) * iterations + attempt + 1

LEMMA ProductMonotone ==
  ASSUME NEW a \in Nat, NEW b \in Nat, NEW c \in Nat, b <= c
  PROVE  a * b <= a * c
OBVIOUS

LEMMA ProductSucc ==
  ASSUME NEW a \in Nat, NEW b \in Nat
  PROVE  a * (b + 1) = a * b + a
OBVIOUS

LEMMA CallInvInductive ==
  TypeOK /\ CallInv /\ [Next]_vars => CallInv'
<1> SUFFICES ASSUME TypeOK, CallInv, [Next]_vars PROVE CallInv'
  OBVIOUS
<1> DEFINE K == MaxRetries + 1
<1>1. /\ MaxRetries \in Nat /\ iterations \in Nat /\ calls \in Nat
      /\ attempt \in 0 .. MaxRetries
  BY TurnConstants DEF TypeOK, DataOK
<1>2. K * iterations \in Nat /\ K * (iterations + 1) = K * iterations + K
  BY <1>1, ProductSucc
<1> USE <1>1 DEF CallInv, turnVars, providerVars, callVars, loopVars, endVars,
          histVars, Throw
<1>3. CASE StartCall
  BY <1>3 DEF StartCall
<1>4. CASE Complete
  BY <1>4 DEF Complete, Accept
<1>5. CASE CompleteFails
  BY <1>5 DEF CompleteFails, Retry, CanRetry, Observe
<1>6. CASE StreamFails
  BY <1>6 DEF StreamFails, Retry, CanRetry, Observe, SalvageOrThrow, Accept
<1>7. CASE Round
  <2>1. CASE iterations' = iterations + 1
    BY <1>7, <1>2, <2>1 DEF Round
  <2>2. CASE UNCHANGED iterations
    BY <1>7, <2>2 DEF Round
  <2>3. QED
    BY <1>7, <2>1, <2>2 DEF Round
<1>8. CASE FollowUp
  BY <1>8, <1>2 DEF FollowUp
<1>9. CASE StreamText \/ StreamOther \/ StreamDone \/ StreamBreaks \/
          Dispatch \/ Finish \/ EnqueueJobs \/ FinishTurn \/ Degrade \/
          FailTurn \/ SwitchProvider \/ Prepare \/ StartLoop \/ StartTurn \/
          CatchFollowUp \/ CatchTurn \/ UNCHANGED vars
  BY <1>9 DEF StreamText, StreamOther, StreamDone, StreamBreaks, Dispatch,
     Finish, EnqueueJobs, FinishTurn, Degrade, FailTurn, SwitchProvider,
     Prepare, StartLoop, StartTurn, CatchFollowUp, CatchTurn, Accept, CloseTrace,
        SalvageOrThrow, vars
<1>10. QED
  BY <1>3, <1>4, <1>5, <1>6, <1>7, <1>8, <1>9 DEF Next, Turn, Ended

\* A turn makes at most MaxRetries + 1 provider calls per iteration and for the
\* first call, whatever the provider does.
THEOREM CallBudgetHolds == Spec => []CallBudget
<1>1. Init => CallInv
  BY TurnConstants DEF Init, CallInv
<1>2. TypeOK /\ CallInv => CallBudget
  <2> SUFFICES ASSUME TypeOK, CallInv PROVE CallBudget
    OBVIOUS
  <2>1. /\ MaxRetries + 1 \in Nat /\ iterations \in Nat /\ IterationCap \in Nat
        /\ iterations <= IterationCap /\ attempt \in 0 .. MaxRetries
        /\ MaxRetries \in Nat /\ calls \in Nat
    BY TurnConstants DEF TypeOK, DataOK
  <2>2. (MaxRetries + 1) * iterations <= (MaxRetries + 1) * IterationCap
    BY <2>1, ProductMonotone
  <2>3. (MaxRetries + 1) * (IterationCap + 1)
          = (MaxRetries + 1) * IterationCap + (MaxRetries + 1)
    BY <2>1, ProductSucc
  <2>4. QED
    BY <2>1, <2>2, <2>3 DEF CallInv, CallBudget
<1>3. QED
  BY <1>1, <1>2, CallInvInductive, TypeCorrect, PTL DEF Spec

-----------------------------------------------------------------------------
(* The budget of side effects.                                             *)

\* Closed rounds account for MaxCalls side effects each if they count, and for
\* none if they do not; the open round has dispatched response.calls - todo
\* calls.  An exception that leaves a round never comes back to the loop.
EffectInv ==
    /\ pc \in {"start", "prepare", "loop", "call", "waiting", "streaming", "round"}
         => effects <= rounds * MaxCalls
    /\ pc = "dispatch" =>
         /\ rounds < MaxToolRounds /\ todo <= response.calls
         /\ IF sideEffect
            THEN effects <= rounds * MaxCalls + (response.calls - todo)
            ELSE effects <= rounds * MaxCalls
    /\ effects <= MaxToolRounds * MaxCalls

LEMMA RoomForARound ==
  ASSUME NEW a \in Nat, NEW b \in Nat, NEW c \in Nat, a < b
  PROVE  a * c + c <= b * c
<1>1. (a + 1) * c <= b * c
  BY ProductMonotone
<1>2. (a + 1) * c = a * c + c
  OBVIOUS
<1>3. QED
  BY <1>1, <1>2

LEMMA EffectInvInductive ==
  TypeOK /\ EffectInv /\ [Next]_vars => EffectInv'
<1> SUFFICES ASSUME TypeOK, EffectInv, [Next]_vars PROVE EffectInv'
  OBVIOUS
<1>1. /\ MaxCalls \in Nat /\ MaxToolRounds \in Nat /\ rounds \in 0 .. MaxToolRounds
      /\ effects \in Nat /\ todo \in 0 .. MaxCalls /\ response.calls \in 0 .. MaxCalls
  BY TurnConstants DEF TypeOK, DataOK, Response
<1>2. /\ rounds * MaxCalls \in Nat /\ MaxToolRounds * MaxCalls \in Nat
      /\ (rounds + 1) * MaxCalls = rounds * MaxCalls + MaxCalls
  BY <1>1
<1>3. rounds < MaxToolRounds
        => rounds * MaxCalls + MaxCalls <= MaxToolRounds * MaxCalls
  BY <1>1, RoomForARound
<1> USE <1>1 DEF EffectInv, turnVars, providerVars, callVars, loopVars, endVars,
          histVars, Throw
<1>4. CASE Round
  BY <1>4 DEF Round, BudgetLeft
<1>5. CASE Dispatch
  <2>1. /\ todo > 0 /\ rounds < MaxToolRounds /\ todo <= response.calls
        /\ effects <= rounds * MaxCalls + (response.calls - todo)
        /\ effects + 1 <= MaxToolRounds * MaxCalls
    BY <1>5, <1>2, <1>3 DEF Dispatch
  <2>2. CASE pc' = "unwind"
    BY <1>5, <1>2, <2>1, <2>2 DEF Dispatch
  <2>3. CASE pc' = "dispatch"
    <3>1. PICK effect \in BOOLEAN :
            /\ todo' = todo - 1 /\ sideEffect' = (sideEffect \/ effect)
            /\ effects' = IF effect THEN effects + 1 ELSE effects
            /\ UNCHANGED <<rounds, response>>
      BY <1>5, <2>3, Zenon DEF Dispatch
    <3>2. CASE sideEffect'
      BY <1>2, <2>1, <2>3, <3>1, <3>2
    <3>3. CASE ~sideEffect'
      <4>1. ~sideEffect /\ effects' = effects
        BY <3>1, <3>3
      <4>2. effects <= rounds * MaxCalls
        BY <1>5, <4>1 DEF Dispatch
      <4>3. QED
        BY <1>2, <2>1, <2>3, <3>1, <3>3, <4>1, <4>2
    <3>4. QED
      BY <3>2, <3>3
  <2>4. QED
    BY <1>5, <2>2, <2>3 DEF Dispatch
<1>6. CASE FollowUp
  BY <1>6, <1>2, <1>3 DEF FollowUp
<1>7. CASE StartTurn \/ Prepare \/ StartLoop \/ StartCall \/ Complete \/ CompleteFails
          \/ StreamText \/ StreamOther \/ StreamDone \/ StreamBreaks \/
          StreamFails \/ Finish \/ EnqueueJobs \/ FinishTurn \/ Degrade \/
          FailTurn \/ SwitchProvider \/ CatchFollowUp \/ CatchTurn \/ UNCHANGED vars
  <2> USE DEF Accept, CanRetry, Observe, Retry, SalvageOrThrow, Throw
  <2>1. UNCHANGED <<effects, rounds>>
    BY <1>7 DEF StartTurn, Prepare, StartLoop, StartCall, Complete, CompleteFails,
       StreamText, StreamOther, StreamDone, StreamBreaks, StreamFails, Finish,
       EnqueueJobs, FinishTurn, Degrade, FailTurn, SwitchProvider, CatchFollowUp,
          CatchTurn, vars
  <2>2. pc' # "dispatch" \/ UNCHANGED <<pc, sideEffect, todo, response>>
    BY <1>7 DEF StartTurn, Prepare, StartLoop, StartCall, Complete, CompleteFails,
       StreamText, StreamOther, StreamDone, StreamBreaks, StreamFails, Finish,
       EnqueueJobs, FinishTurn, Degrade, FailTurn, SwitchProvider, CatchFollowUp,
          CatchTurn, vars
  <2>3. pc' \in {"start", "prepare", "loop", "call", "waiting", "streaming", "round"}
          => pc \in {"start", "prepare", "loop", "call", "waiting", "streaming", "round"}
    BY <1>7 DEF StartTurn, Prepare, StartLoop, StartCall, Complete, CompleteFails,
       StreamText, StreamOther, StreamDone, StreamBreaks, StreamFails, Finish,
       EnqueueJobs, FinishTurn, Degrade, FailTurn, SwitchProvider, CatchFollowUp,
          CatchTurn, vars
  <2>4. QED
    BY <2>1, <2>2, <2>3
<1>8. QED
  BY <1>4, <1>5, <1>6, <1>7 DEF Next, Turn, Ended

\* The side effects of one turn stay within max_tool_rounds rounds.
THEOREM EffectBudgetHolds == Spec => []EffectBudget
<1>1. Init => EffectInv
  BY TurnConstants DEF Init, EffectInv
<1>2. EffectInv => EffectBudget
  BY DEF EffectInv, EffectBudget
<1>3. QED
  BY <1>1, <1>2, EffectInvInductive, TypeCorrect, PTL DEF Spec

\* A turn stays within both of its budgets, whatever the provider, the tools and
\* the callbacks do.
THEOREM WithinBudgetsHold == Spec => []WithinBudgets
<1>1. CallBudget /\ EffectBudget => WithinBudgets
  BY DEF WithinBudgets
<1>2. QED
  BY <1>1, CallBudgetHolds, EffectBudgetHolds, PTL

-----------------------------------------------------------------------------
(* What the user has read.                                                 *)

\* Text shown so far belongs to this iteration or an earlier one; before an
\* attempt starts none of it belongs to this iteration, and while a stream is
\* read only the current attempt has shown text of it.  A non-streaming turn
\* shows nothing before it finishes.
ShownInv ==
    /\ pc \in {"start", "prepare", "loop"} => ~streaming
    /\ \A s \in shown : s[1] <= iterations
    /\ pc \in {"start", "prepare", "loop", "call", "waiting", "dispatch"}
         => \A s \in shown : s[1] < iterations
    /\ pc = "streaming" =>
         streaming /\ \A s \in shown : s[1] = iterations => s = Here /\ gotText
    /\ gotText => sawEvent
    /\ ~streaming /\ pc \notin {"enqueue", "done", "error", "ended"} => shown = {}
    /\ response.src[1] <= iterations
    /\ OneVoicePerCall

LEMMA ShownInvInductive ==
  TypeOK /\ ShownInv /\ [Next]_vars => ShownInv'
<1> SUFFICES ASSUME TypeOK, ShownInv, [Next]_vars PROVE ShownInv'
  OBVIOUS
<1>1. /\ iterations \in Nat /\ attempt \in Nat
      /\ \A s \in shown : s \in Attempts /\ s[1] \in Nat
      /\ response.src[1] \in Nat
  BY TurnConstants DEF TypeOK, DataOK, Attempts, Response
<1> USE <1>1 DEF ShownInv, OneVoicePerCall, Here, turnVars, providerVars, callVars,
          loopVars,
        endVars, histVars, Throw
<1>2. CASE StartTurn
  BY <1>2 DEF StartTurn
<1>3. CASE Prepare \/ StartLoop
  BY <1>3 DEF Prepare, StartLoop
<1>4. CASE StartCall
  <2>1. /\ pc = "call" /\ gotText' = FALSE
        /\ UNCHANGED <<shown, iterations, response, streaming>>
    BY <1>4 DEF StartCall
  <2>2. \A s \in shown : s[1] < iterations
    BY <2>1
  <2>3. \A s \in shown : s[1] # iterations
    BY <2>2
  <2>4. pc' = "streaming" => streaming
    BY <1>4 DEF StartCall
  <2>5. pc' \in {"streaming", "waiting", "unwind"}
    BY <1>4 DEF StartCall
  <2>6. QED
    BY <2>1, <2>2, <2>3, <2>4, <2>5
<1>5. CASE Complete
  BY <1>5 DEF Complete, Accept
<1>6. CASE CompleteFails
  BY <1>6 DEF CompleteFails, Retry, CanRetry, Observe
<1>7. CASE StreamText
  BY <1>7 DEF StreamText, SalvageOrThrow, Accept
<1>8. CASE StreamOther
  BY <1>8 DEF StreamOther, SalvageOrThrow, Accept
<1>9. CASE StreamDone
  BY <1>9 DEF StreamDone, SalvageOrThrow, Accept
<1>10. CASE StreamBreaks
  <2>1. /\ UNCHANGED <<shown, iterations, gotText, streaming>>
        /\ pc = "streaming" /\ pc' \in {"round", "unwind"}
        /\ response' = response \/ response'.src = Here
    BY <1>10 DEF StreamBreaks, SalvageOrThrow, Accept
  <2>2. gotText => sawEvent'
    <3>1. sawEvent' = sawEvent \/ sawEvent' = TRUE
      BY <1>10, Zenon DEF StreamBreaks
    <3>2. QED
      BY <3>1
  <2>3. response'.src[1] <= iterations
    BY <2>1
  <2>4. QED
    BY <2>1, <2>2, <2>3
<1>11. CASE StreamFails
  <2>1. /\ pc = "streaming" /\ streaming
        /\ UNCHANGED <<shown, iterations, sawEvent, gotText, streaming>>
    BY <1>11 DEF StreamFails
  <2>2. CASE pc' = "call"
    <3>1. ~sawEvent /\ UNCHANGED response
      BY <1>11, <2>2 DEF StreamFails, Fresh, Retry, SalvageOrThrow, Accept
    <3>2. \A s \in shown : s[1] # iterations
      BY <2>1, <3>1
    <3>3. \A s \in shown : s[1] < iterations
      BY <2>1, <3>2
    <3>4. QED
      BY <2>1, <2>2, <3>1, <3>3
  <2>3. CASE pc' \in {"round", "unwind"}
    <3>1. response' = response \/ response'.src = Here
      BY <1>11, <2>3 DEF StreamFails, Retry, SalvageOrThrow, Accept
    <3>2. response'.src[1] <= iterations
      BY <3>1
    <3>3. QED
      BY <2>1, <2>3, <3>2
  <2>4. QED
    BY <1>11, <2>2, <2>3 DEF StreamFails, Retry, SalvageOrThrow, Accept
<1>12. CASE Round
  <2>1. /\ UNCHANGED <<shown, streaming, response, sawEvent, gotText>>
        /\ pc = "round" /\ pc' \in {"dispatch", "finish"}
    BY <1>12 DEF Round
  <2>2. CASE iterations' = iterations + 1
    BY <2>1, <2>2
  <2>3. CASE iterations' = iterations /\ pc' = "finish"
    BY <2>1, <2>3
  <2>4. QED
    BY <1>12, <2>2, <2>3 DEF Round
<1>13. CASE Dispatch
  BY <1>13 DEF Dispatch
<1>14. CASE FollowUp
  BY <1>14 DEF FollowUp
<1>15. CASE CatchFollowUp \/ CatchTurn
  BY <1>15 DEF CatchFollowUp, CatchTurn
<1>16. CASE Finish
  BY <1>16 DEF Finish
<1>17. CASE EnqueueJobs
  BY <1>17 DEF EnqueueJobs
<1>18. CASE FinishTurn
  BY <1>18 DEF FinishTurn, CloseTrace
<1>19. CASE Degrade
  BY <1>19 DEF Degrade, CloseTrace
<1>20. CASE FailTurn
  BY <1>20 DEF FailTurn, CloseTrace
<1>21. CASE SwitchProvider
  BY <1>21 DEF SwitchProvider
<1>22. CASE UNCHANGED vars
  BY <1>22 DEF vars
<1>23. QED
  BY <1>2, <1>3, <1>4, <1>5, <1>6, <1>7, <1>8, <1>9, <1>10, <1>11, <1>12,
     <1>13, <1>14, <1>15, <1>16, <1>17, <1>18, <1>19, <1>20, <1>21, <1>22
     DEF Next, Turn, Ended

\* No provider call is ever heard twice.
THEOREM OneVoicePerCallHolds == Spec => []OneVoicePerCall
<1>1. Init => ShownInv
  BY DEF Init, ShownInv, OneVoicePerCall, NoAnswer
<1>2. ShownInv => OneVoicePerCall
  BY DEF ShownInv
<1>3. QED
  BY <1>1, <1>2, ShownInvInductive, TypeCorrect, PTL DEF Spec

-----------------------------------------------------------------------------
(* The fallback, when callbacks do not raise and tool results serialise.   *)

\* An exception that reaches run_turn then comes from the first provider call,
\* before any tool was dispatched, and the stream has kept nothing to salvage.
Clean ==
    /\ pc \in {"start", "prepare", "loop", "call", "waiting", "streaming", "unwind"}
         => todo = 0
    /\ pc = "dispatch" => iterations > 0
    /\ iterations = 0 => dispatched = 0
    /\ pc = "unwind" /\ iterations = 0 => shown = {}
    /\ pc = "outer" /\ ~crossed => LocalFailure(exc)
    /\ pc = "degraded" /\ ~crossed => shown = {} /\ dispatched = 0
    /\ result # "none" => pc = "ended"
    /\ result = "degraded" /\ ~crossed => shown = {} /\ dispatched = 0

LEMMA CleanInductive ==
  reliable /\ TypeOK /\ ShownInv /\ Clean /\ [Next]_vars => Clean'
<1> SUFFICES ASSUME reliable, TypeOK, ShownInv, Clean, [Next]_vars
             PROVE  Clean'
  OBVIOUS
<1>1. /\ iterations \in Nat /\ dispatched \in Nat /\ todo \in Nat
      /\ \A s \in shown : s[1] \in Nat
  BY TurnConstants DEF TypeOK, DataOK, Attempts
<1>2. reliable /\ ~CallbackRaises
  BY DEF CallbackRaises
<1> USE <1>1, <1>2 DEF Clean, turnVars, providerVars, callVars, loopVars, endVars,
          histVars, Throw
<1>3. CASE StartTurn
  BY <1>3 DEF StartTurn
<1>4. CASE Prepare \/ StartLoop
  BY <1>4 DEF Prepare, StartLoop
<1>5. CASE StartCall
  BY <1>5 DEF StartCall
<1>6. CASE Complete
  BY <1>6 DEF Complete, Accept
<1>7. CASE CompleteFails
  <2>1. shown = {} \/ iterations > 0
    BY <1>7 DEF CompleteFails, ShownInv
  <2>2. QED
    BY <1>7, <2>1 DEF CompleteFails, Retry, CanRetry, Observe
<1>8. CASE StreamText
  BY <1>8 DEF StreamText, SalvageOrThrow, Accept
<1>9. CASE StreamOther
  BY <1>9 DEF StreamOther, SalvageOrThrow, Accept
<1>10. CASE StreamDone
  BY <1>10 DEF StreamDone, SalvageOrThrow, Accept
<1>11. CASE StreamBreaks
  <2>1. gotText \/ shown = {} \/ iterations > 0
    BY <1>11 DEF StreamBreaks, ShownInv
  <2>2. QED
    BY <1>11, <2>1 DEF StreamBreaks, SalvageOrThrow, Accept
<1>12. CASE StreamFails
  <2>1. gotText \/ shown = {} \/ iterations > 0
    BY <1>12 DEF StreamFails, ShownInv
  <2>2. pc' \in {"round", "call"} \/ (pc' = "unwind" /\ (~gotText \/ Fresh))
    BY <1>12 DEF StreamFails, Retry, SalvageOrThrow, Accept
  <2>3. Fresh => ~gotText
    BY DEF ShownInv, Fresh
  <2>4. UNCHANGED <<todo, iterations, dispatched, shown, result>>
    BY <1>12 DEF StreamFails
  <2>5. pc = "streaming"
    BY <1>12 DEF StreamFails
  <2>6. QED
    BY <2>1, <2>2, <2>3, <2>4, <2>5
<1>13. CASE Round
  BY <1>13 DEF Round, BudgetLeft
<1>14. CASE Dispatch
  BY <1>14 DEF Dispatch
<1>15. CASE FollowUp
  BY <1>15 DEF FollowUp
<1>16. CASE CatchFollowUp
  BY <1>16 DEF CatchFollowUp, LocalFailure
<1>23. CASE CatchTurn
  <2>1. /\ UNCHANGED <<todo, iterations, dispatched, shown, result, crossed>>
        /\ pc \in {"unwind", "outer"} /\ pc' \in {"error", "degraded"}
    BY <1>23 DEF CatchTurn
  <2>2. pc' = "degraded" /\ ~crossed => pc = "unwind" /\ iterations = 0
    BY <1>23 DEF CatchTurn, ReachesRunTurn
  <2>3. QED
    BY <2>1, <2>2
<1>17. CASE Finish
  BY <1>17 DEF Finish
<1>18. CASE EnqueueJobs
  BY <1>18 DEF EnqueueJobs
<1>19. CASE FinishTurn
  BY <1>19 DEF FinishTurn, CloseTrace
<1>20. CASE Degrade
  BY <1>20 DEF Degrade, CloseTrace
<1>21. CASE FailTurn
  BY <1>21 DEF FailTurn, CloseTrace
<1>22. CASE SwitchProvider
  BY <1>22 DEF SwitchProvider
<1>24. CASE UNCHANGED vars
  BY <1>24 DEF vars, LocalFailure
<1>25. QED
  BY <1>3, <1>4, <1>5, <1>6, <1>7, <1>8, <1>9, <1>10, <1>11, <1>12, <1>13,
     <1>14, <1>15, <1>16, <1>17, <1>18, <1>19, <1>20, <1>21, <1>22, <1>23, <1>24
     DEF Next, Turn, Ended

\* How reliable callbacks and tools are is decided before the turn.
LEMMA ReliableForever == [Next]_vars => reliable' = reliable
BY DEF Next, Turn, Ended, vars, turnVars, providerVars, StartTurn, Prepare,
      StartLoop, StartCall, Complete,
   CompleteFails, StreamText, StreamOther, StreamDone, StreamBreaks, StreamFails,
   Round, Dispatch, FollowUp, CatchFollowUp, CatchTurn, Finish, EnqueueJobs,
        FinishTurn, Degrade,
   FailTurn, SwitchProvider

CleanInv == reliable => Clean

\* The fallback of a reliable turn to local memory never follows text on the
\* screen or a dispatched tool call.
THEOREM DegradedIsCleanHolds == Spec => []DegradedIsClean
<1>1. Init => ShownInv
  BY DEF Init, ShownInv, OneVoicePerCall, NoAnswer
<1>2. Init => CleanInv
  BY DEF Init, CleanInv, Clean
<1>3. CleanInv => DegradedIsClean
  BY DEF CleanInv, Clean, DegradedIsClean
<1>4. TypeOK /\ ShownInv /\ CleanInv /\ [Next]_vars => CleanInv'
  BY CleanInductive, ReliableForever DEF CleanInv
<1>5. QED
  BY <1>1, <1>2, <1>3, <1>4, ShownInvInductive, TypeCorrect, PTL DEF Spec

-----------------------------------------------------------------------------
(* The verdict in the trace store.                                         *)

VerdictInv ==
    /\ pc # "ended" =>
         ends = {} /\ result = "none" /\ trace \in {"none", "in_progress"}
    /\ pc \notin {"start", "error", "ended"} => trace = "in_progress"
    /\ pc = "error" /\ trace = "none" => CallbackRaises
    /\ pc \notin {"finish", "enqueue", "done", "error", "ended"} => records = 0
    /\ pc \notin {"enqueue", "done", "error", "ended"} => jobs = 0
    /\ pc = "done" => jobs = records
    /\ TraceVerdict

LEMMA VerdictInvInductive == VerdictInv /\ [Next]_vars => VerdictInv'
<1> SUFFICES ASSUME VerdictInv, [Next]_vars PROVE VerdictInv'
  OBVIOUS
<1> USE DEF VerdictInv, TraceVerdict, CallbackRaises, turnVars, providerVars,
          callVars, loopVars,
        endVars, histVars, Throw
<1>1. CASE StartTurn
  BY <1>1 DEF StartTurn
<1>2. CASE Prepare \/ StartLoop
  BY <1>2 DEF Prepare, StartLoop
<1>3. CASE StartCall
  BY <1>3 DEF StartCall
<1>4. CASE Complete
  BY <1>4 DEF Complete, Accept
<1>5. CASE CompleteFails
  BY <1>5 DEF CompleteFails, Retry, CanRetry, Observe
<1>6. CASE StreamText
  BY <1>6 DEF StreamText, SalvageOrThrow, Accept
<1>7. CASE StreamOther
  BY <1>7 DEF StreamOther, SalvageOrThrow, Accept
<1>8. CASE StreamDone
  BY <1>8 DEF StreamDone, SalvageOrThrow, Accept
<1>9. CASE StreamBreaks
  BY <1>9 DEF StreamBreaks, SalvageOrThrow, Accept
<1>10. CASE StreamFails
  BY <1>10 DEF StreamFails, Retry, CanRetry, Observe, SalvageOrThrow, Accept
<1>11. CASE Round
  BY <1>11 DEF Round, BudgetLeft
<1>12. CASE Dispatch
  BY <1>12 DEF Dispatch
<1>13. CASE FollowUp
  BY <1>13 DEF FollowUp
<1>14. CASE CatchFollowUp \/ CatchTurn
  BY <1>14 DEF CatchFollowUp, CatchTurn
<1>15. CASE Finish
  BY <1>15 DEF Finish
<1>16. CASE EnqueueJobs
  BY <1>16 DEF EnqueueJobs
<1>17. CASE FinishTurn
  BY <1>17 DEF FinishTurn, CloseTrace
<1>18. CASE Degrade
  BY <1>18 DEF Degrade, CloseTrace
<1>19. CASE FailTurn
  BY <1>19 DEF FailTurn, CloseTrace
<1>20. CASE SwitchProvider
  BY <1>20 DEF SwitchProvider
<1>21. CASE UNCHANGED vars
  BY <1>21 DEF vars
<1>22. QED
  BY <1>1, <1>2, <1>3, <1>4, <1>5, <1>6, <1>7, <1>8, <1>9, <1>10, <1>11,
     <1>12, <1>13, <1>14, <1>15, <1>16, <1>17, <1>18, <1>19, <1>20, <1>21
     DEF Next, Turn, Ended

\* The trace and the caller agree on how the turn ended, whatever fails.
THEOREM TraceVerdictHolds == Spec => []TraceVerdict
<1>1. Init => VerdictInv
  BY DEF Init, VerdictInv, TraceVerdict
<1>2. VerdictInv => TraceVerdict
  BY DEF VerdictInv
<1>3. QED
  BY <1>1, <1>2, VerdictInvInductive, PTL DEF Spec

-----------------------------------------------------------------------------
(* A local server that is down.                                            *)

\* Its exception is on its way to the outer handler, or has arrived there.
LocalInv ==
    localDown /\ switches = 0 =>
        \/ pc \in {"unwind", "outer"} /\ LocalFailure(exc)
        \/ pc = "error"
        \/ pc = "ended" /\ result = "raised"

\* A refused connection of a local endpoint is a local failure, whichever way
\* it was called, and nothing that fails locally is retried.
LEMMA RefusedIsLocal ==
  ASSUME provider.local PROVE LocalFailure(Raised("refused"))
<1>1. Raised("refused") \in {"ConnectError", "RAIConnectionError"}
  BY DEF Raised, HttpxRaises, StreamRaises, GenerateRaises
<1>2. QED
  BY <1>1 DEF LocalFailure

\* The provider that was called is the provider while none was replaced.
CalledInv == switches = 0 => called = provider

LEMMA CalledInvInductive == TypeOK /\ CalledInv /\ [Next]_vars => CalledInv'
<1> SUFFICES ASSUME TypeOK, CalledInv, [Next]_vars PROVE CalledInv'
  OBVIOUS
<1>1. switches \in Nat
  BY TurnConstants DEF TypeOK, DataOK
<1>2. CASE SwitchProvider
  BY <1>1, <1>2 DEF SwitchProvider, CalledInv
<1>3. CASE StartCall
  BY <1>3 DEF StartCall, CalledInv, providerVars
<1>4. CASE ~SwitchProvider /\ ~StartCall
  BY <1>4 DEF Next, Turn, Ended, vars, turnVars, providerVars, CalledInv, StartTurn,
     Prepare, StartLoop, Complete, CompleteFails, StreamText, StreamOther,
     StreamDone, StreamBreaks, StreamFails, Round, Dispatch, FollowUp,
     CatchFollowUp, CatchTurn, Finish, EnqueueJobs, FinishTurn, Degrade, FailTurn
<1>5. QED
  BY <1>2, <1>3, <1>4

LEMMA LocalInvInductive ==
  TypeOK /\ VerdictInv /\ CalledInv /\ LocalInv /\ [Next]_vars => LocalInv'
<1> SUFFICES ASSUME TypeOK, VerdictInv, CalledInv, LocalInv, [Next]_vars,
                    localDown', switches' = 0
             PROVE  \/ pc' \in {"unwind", "outer"} /\ LocalFailure(exc)'
                    \/ pc' = "error"
                    \/ pc' = "ended" /\ result' = "raised"
  BY DEF LocalInv
<1>1. switches \in Nat
  BY TurnConstants DEF TypeOK, DataOK
<1>2. ~SwitchProvider
  BY <1>1 DEF SwitchProvider
<1>3. switches = 0 /\ provider' = provider
  BY <1>2 DEF Next, Turn, Ended, vars, providerVars, StartTurn, Prepare, StartLoop,
       StartCall, Complete,
     CompleteFails, StreamText, StreamOther, StreamDone, StreamBreaks,
     StreamFails, Round, Dispatch, FollowUp, CatchFollowUp, CatchTurn, Finish,
        EnqueueJobs,
     FinishTurn, Degrade, FailTurn
<1>4. CASE CompleteFails
  <2>1. ~localDown
    BY <1>3, <1>4 DEF LocalInv, CompleteFails
  <2>2. PICK f \in Faults :
          /\ Observe(f, TRUE)
          /\ \/ ~LocalFailure(Raised(f))
             \/ Throw(Raised(f))
    BY <1>4 DEF CompleteFails
  <2>3. f = "refused" /\ provider.local
    BY <1>3, <2>1, <2>2 DEF Observe, CalledInv
  <2>4. LocalFailure(Raised(f))
    BY <2>3, RefusedIsLocal
  <2>5. exc' = Raised(f) /\ pc' = "unwind"
    BY <2>2, <2>4 DEF Throw
  <2>6. QED
    BY <1>3, <2>4, <2>5 DEF LocalFailure
<1>5. CASE StreamFails
  <2>1. ~localDown
    BY <1>3, <1>5 DEF LocalInv, StreamFails
  <2>2. PICK f \in Faults :
          /\ Observe(f, ~sawEvent)
          /\ \/ ~(Fresh /\ LocalFailure(Raised(f)))
             \/ Throw(Raised(f))
    BY <1>5 DEF StreamFails
  <2>3. f = "refused" /\ provider.local /\ Fresh
    BY <1>3, <2>1, <2>2 DEF Observe, Fresh, CalledInv
  <2>4. LocalFailure(Raised(f))
    BY <2>3, RefusedIsLocal
  <2>5. exc' = Raised(f) /\ pc' = "unwind"
    BY <2>2, <2>3, <2>4 DEF Throw
  <2>6. QED
    BY <1>3, <2>4, <2>5 DEF LocalFailure
<1>6. CASE CatchFollowUp \/ CatchTurn
  <2>1. localDown
    BY <1>6 DEF CatchFollowUp, CatchTurn, histVars
  <2>2. QED
    BY <1>3, <1>6, <2>1 DEF LocalInv, LocalFailure, CatchFollowUp, CatchTurn
<1>7. CASE FailTurn
  BY <1>7 DEF FailTurn
<1>8. CASE UNCHANGED vars \/ Ended
  BY <1>3, <1>8 DEF LocalInv, LocalFailure, Ended, vars, endVars, histVars
<1>9. CASE StartTurn \/ Prepare \/ StartLoop \/ StartCall \/ Complete \/ StreamText
          \/ StreamOther \/ StreamDone \/ StreamBreaks \/ Round \/ Dispatch
          \/ FollowUp \/ Finish \/ EnqueueJobs \/ FinishTurn \/ Degrade
  <2>1. localDown
    BY <1>9 DEF StartTurn, Prepare, StartLoop, StartCall, Complete, StreamText,
         StreamOther,
       StreamDone, StreamBreaks, Round, Dispatch, FollowUp, Finish, EnqueueJobs,
       FinishTurn, Degrade, histVars
  <2>2. pc \in {"unwind", "outer", "error", "ended"}
    BY <1>3, <2>1 DEF LocalInv
  <2>3. FALSE
    BY <1>9, <2>2 DEF StartTurn, Prepare, StartLoop, StartCall, Complete, StreamText,
       StreamOther, StreamDone, StreamBreaks, Round, Dispatch, FollowUp, Finish,
       EnqueueJobs, FinishTurn, Degrade
  <2>4. QED
    BY <2>3
<1>10. QED
  BY <1>2, <1>4, <1>5, <1>6, <1>7, <1>8, <1>9 DEF Next, Turn

\* While the provider stays the same, a refused connection of a local server
\* ends the turn with an error: no fallback, no answer.
THEOREM LocalFailsFastHolds == Spec => []LocalFailsFast
<1>1. Init => VerdictInv
  BY DEF Init, VerdictInv, TraceVerdict
<1>2. Init => LocalInv
  BY DEF Init, LocalInv
<1>3. Init => CalledInv
  BY DEF Init, CalledInv
<1>4. VerdictInv /\ LocalInv => LocalFailsFast
  BY DEF VerdictInv, LocalInv, LocalFailsFast
<1>5. QED
  BY <1>1, <1>2, <1>3, <1>4, VerdictInvInductive, CalledInvInductive,
     LocalInvInductive, TypeCorrect, PTL DEF Spec

\* What stands in for a failed provider never covers up something that was said,
\* done or found out.
THEOREM FallbacksAreCleanHolds == Spec => []FallbacksAreClean
<1>1. DegradedIsClean /\ LocalFailsFast => FallbacksAreClean
  BY DEF FallbacksAreClean
<1>2. QED
  BY <1>1, DegradedIsCleanHolds, LocalFailsFastHolds, PTL

-----------------------------------------------------------------------------
(* The text of an answer, when callbacks do not raise and tool results     *)
(* serialise.                                                              *)

\* Text on the screen belongs to an accepted response, or to the stream being
\* read, which salvages it; the text of the answer so far is on the screen, or
\* will be shown when the turn finishes.
AnswerInv ==
    /\ shown \subseteq accepted \cup (IF pc = "streaming" /\ gotText THEN {Here} ELSE {})
    /\ pc = "streaming" /\ gotText => Here \in shown
    /\ pc \in {"start", "prepare", "loop"} => ~response.text
    /\ pc = "waiting" => ~streaming
    /\ response.text =>
         /\ response.src \in accepted
         /\ streaming \/ pc \in {"enqueue", "done"} \/ result = "answer" =>
                response.src \in shown
    /\ result # "degraded" => made = dispatched
    /\ result # "none" => pc = "ended"

LEMMA AnswerInvInductive ==
  reliable /\ TypeOK /\ ShownInv /\ AnswerInv /\ [Next]_vars => AnswerInv'
<1> SUFFICES ASSUME reliable, TypeOK, ShownInv, AnswerInv, [Next]_vars
             PROVE  AnswerInv'
  OBVIOUS
<1>1. reliable /\ ~CallbackRaises
  BY DEF CallbackRaises
<1> USE <1>1 DEF AnswerInv, Here, turnVars, providerVars, callVars, loopVars,
          endVars, histVars, Throw
<1>2. CASE StartTurn
  BY <1>2 DEF StartTurn
<1>3. CASE Prepare \/ StartLoop
  BY <1>3 DEF Prepare, StartLoop
<1>4. CASE StartCall
  BY <1>4 DEF StartCall
<1>5. CASE Complete
  BY <1>5 DEF Complete, Accept
<1>6. CASE CompleteFails
  BY <1>6 DEF CompleteFails, Retry, CanRetry, Observe
<1>7. CASE StreamText
  BY <1>7 DEF StreamText, SalvageOrThrow, Accept
<1>8. CASE StreamOther
  BY <1>8 DEF StreamOther, SalvageOrThrow, Accept
<1>9. CASE StreamDone
  BY <1>9 DEF StreamDone, SalvageOrThrow, Accept
<1>10. CASE StreamBreaks
  BY <1>10 DEF StreamBreaks, SalvageOrThrow, Accept
<1>11. CASE StreamFails
  BY <1>11 DEF StreamFails, Retry, SalvageOrThrow, Accept, Fresh, ShownInv
<1>12. CASE Round
  BY <1>12 DEF Round, BudgetLeft
<1>13. CASE Dispatch
  BY <1>13 DEF Dispatch, CountedCalls
<1>14. CASE FollowUp
  BY <1>14 DEF FollowUp
<1>15. CASE CatchFollowUp \/ CatchTurn
  <2>1. /\ UNCHANGED <<turnVars, callVars, response, made, shown, accepted, dispatched,
                       result, iterations>>
        /\ pc \in {"unwind", "outer"} /\ pc' \in {"outer", "error", "degraded", "finish"}
    BY <1>15 DEF CatchFollowUp, CatchTurn
  <2>2. QED
    BY <2>1
<1>16. CASE Finish
  BY <1>16 DEF Finish
<1>17. CASE EnqueueJobs
  BY <1>17 DEF EnqueueJobs
<1>18. CASE FinishTurn
  BY <1>18 DEF FinishTurn, CloseTrace
<1>19. CASE Degrade
  BY <1>19 DEF Degrade, CloseTrace
<1>20. CASE FailTurn
  BY <1>20 DEF FailTurn, CloseTrace
<1>21. CASE SwitchProvider
  BY <1>21 DEF SwitchProvider
<1>22. CASE UNCHANGED vars
  BY <1>22 DEF vars
<1>23. QED
  BY <1>2, <1>3, <1>4, <1>5, <1>6, <1>7, <1>8, <1>9, <1>10, <1>11, <1>12, <1>13,
       <1>14, <1>15, <1>16, <1>17, <1>18, <1>19, <1>20, <1>21, <1>22
     DEF Next, Turn, Ended

AccountInv == reliable => AnswerInv

\* A reliable turn that answers accounts for all it did: its text was shown,
\* nothing was shown that was thrown away, and every dispatched tool call is in
\* the count, for any budgets and whatever broke on the way.
THEOREM AnswerAccountsForTextHolds == Spec => []AnswerAccountsForText
<1>1. Init => ShownInv
  BY DEF Init, ShownInv, OneVoicePerCall, NoAnswer
<1>2. Init => AccountInv
  BY DEF Init, AccountInv, AnswerInv, NoAnswer
<1>3. AccountInv => AnswerAccountsForText
  BY DEF AccountInv, AnswerInv, AnswerAccountsForText
<1>4. TypeOK /\ ShownInv /\ AccountInv /\ [Next]_vars => AccountInv'
  BY AnswerInvInductive, ReliableForever DEF AccountInv
<1>5. QED
  BY <1>1, <1>2, <1>3, <1>4, ShownInvInductive, TypeCorrect, PTL DEF Spec
=============================================================================
