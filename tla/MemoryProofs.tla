---------------------------- MODULE MemoryProofs ----------------------------
(***************************************************************************)
(* What is proved of Memory, for any number of callers and records.        *)
(***************************************************************************)
EXTENDS Memory, FiniteSetTheorems, TLAPS

LEMMA ReturnType ==
  ASSUME TypeOK, NEW c \in Callers, Return(c)
  PROVE  /\ pc' \in [Callers -> PCs] /\ op' \in [Callers -> Ops]
         /\ near' \in [Callers -> SUBSET Ids]
         /\ status' \in [Callers -> Statuses]
         /\ todo' \in [Callers -> SUBSET Ids] /\ got' \in [Callers -> SUBSET Ids]
         /\ origin' \in [Callers -> SUBSET Ids]
         /\ made' \in [Callers -> Ids \cup {NoId}]
         /\ cur' \in [Callers -> Ids \cup {NoId}]
         /\ \A d \in Callers : pc'[d] \in {"index", "unindex"} => cur'[d] \in Ids
BY DEF TypeOK, Return, Goto, PCs, Ops, Statuses

LEMMA NearestType ==
  ASSUME TypeOK, NEW c \in Callers, NEW S \in SUBSET Ids, NEW alikes,
         NEW H \in Nearest(c, S, alikes)
  PROVE  H \subseteq Ids
BY DEF Nearest

LEMMA CallType ==
  ASSUME TypeOK, NEW c \in Callers, Call(c) PROVE TypeOK'
<1> USE DEF TypeOK, Unchanged, store, history, PCs, Ops, Statuses
<1>1. CASE Recall(c)
  BY <1>1 DEF Recall, Begin
<1>2. CASE Remember(c)
  BY <1>2 DEF Remember, Begin
<1>3. ASSUME NEW i \in Ids, Forget(c, i) PROVE TypeOK'
  BY <1>3 DEF Forget, Begin
<1>4. ASSUME NEW i \in Ids, Score(c, i) PROVE TypeOK'
  BY <1>4 DEF Score, Begin
<1>5. ASSUME NEW S \in SUBSET Ids, Compact(c, S) PROVE TypeOK'
  BY <1>5 DEF Compact, Begin, Stored
<1>6. CASE Evict(c)
  BY <1>6 DEF Evict, Begin, Stored
<1>7. QED
  BY <1>1, <1>2, <1>3, <1>4, <1>5, <1>6 DEF Call

\* The end of write(): a compaction goes on or the call returns.
LEMMA AfterWriteType ==
  ASSUME TypeOK, NEW c \in Callers, NEW w \in BOOLEAN, AfterWrite(c, w)
  PROVE  /\ pc' \in [Callers -> PCs] /\ op' \in [Callers -> Ops]
         /\ near' \in [Callers -> SUBSET Ids]
         /\ status' \in [Callers -> Statuses]
         /\ todo' \in [Callers -> SUBSET Ids] /\ got' \in [Callers -> SUBSET Ids]
         /\ origin' \in [Callers -> SUBSET Ids]
         /\ made' \in [Callers -> Ids \cup {NoId}]
         /\ cur' \in [Callers -> Ids \cup {NoId}]
         /\ \A d \in Callers : pc'[d] \in {"index", "unindex"} => cur'[d] \in Ids
<1>1. CASE Return(c)
  BY <1>1, ReturnType
<1>2. CASE MarkOriginals(c)
  BY <1>2 DEF TypeOK, MarkOriginals, Goto, PCs
<1>3. QED
  BY <1>1, <1>2 DEF AfterWrite

LEMMA StepType ==
  ASSUME TypeOK, NEW c \in Callers, Step(c) PROVE TypeOK'
<1>1. CASE Search(c)
  <2>1. /\ Live \in SUBSET Ids /\ index \in SUBSET Ids
        /\ Likenesses(c) \subseteq SUBSET Ids
    BY DEF Live, Stored, Likenesses, TypeOK
  <2>2. QED
    BY <1>1, <2>1, NearestType
       DEF TypeOK, Search, Unchanged, store, history, Goto, PCs
<1>2. CASE Load(c)
  BY <1>2 DEF TypeOK, Load, Unchanged, store, history, Goto, PCs
<1>3. CASE Touch(c)
  <2>1. CASE Return(c)
    BY <1>3, <2>1, ReturnType DEF TypeOK, Touch, store, history
  <2>2. CASE ~Return(c)
    BY <1>3, <2>2 DEF TypeOK, Touch, store, history, Goto, PCs
  <2>3. QED
    BY <2>1, <2>2
<1>4. CASE Refuse(c)
  BY <1>4, AfterWriteType DEF TypeOK, Refuse, store, history
<1>5. CASE Create(c)
  <2>1. PICK i \in Unused : /\ used' = used \cup {i}
                            /\ alike' \subseteq alike \cup ({i} \X Stored)
                            /\ \E facts \in Contents(c, i) :
                                 covers' = [covers EXCEPT ![i] = facts]
                            /\ todo' = [todo EXCEPT ![c] = {i}]
                            /\ made' = [made EXCEPT ![c] = i]
    BY <1>5 DEF Create
  <2>2. i \in Ids /\ Contents(c, i) \subseteq SUBSET Ids
    BY DEF TypeOK, Contents, Unused
  <2>3. covers' \in [Ids -> SUBSET Ids]
    BY <2>1, <2>2 DEF TypeOK
  <2>4. alike' \subseteq Ids \X Ids
    BY <2>1, <2>2 DEF TypeOK, Stored
  <2>5. QED
    BY <1>5, <2>1, <2>2, <2>3, <2>4 DEF TypeOK, Create, Goto, PCs
<1>6. CASE PutRow(c)
  BY <1>6 DEF TypeOK, PutRow, Goto, PCs
<1>7. CASE PutIndex(c)
  <2>1. /\ pc' \in [Callers -> PCs] /\ op' \in [Callers -> Ops]
        /\ near' \in [Callers -> SUBSET Ids]
        /\ status' \in [Callers -> Statuses]
        /\ todo' \in [Callers -> SUBSET Ids] /\ got' \in [Callers -> SUBSET Ids]
        /\ origin' \in [Callers -> SUBSET Ids]
        /\ made' \in [Callers -> Ids \cup {NoId}]
        /\ cur' \in [Callers -> Ids \cup {NoId}]
        /\ \A d \in Callers : pc'[d] \in {"index", "unindex"} => cur'[d] \in Ids
    <3>1. CASE AfterWrite(c, TRUE)
      BY <3>1, AfterWriteType
    <3>2. CASE ~AfterWrite(c, TRUE)
      BY <1>7, <3>2 DEF TypeOK, PutIndex, Goto, PCs
    <3>3. QED
      BY <3>1, <3>2
  <2>2. QED
    BY <1>7, <2>1 DEF TypeOK, PutIndex, history, Mirrored
<1>8. CASE Mark(c)
  BY <1>8 DEF TypeOK, Mark, LeftOut, Goto, PCs, Statuses
<1>9. CASE DeleteRow(c)
  BY <1>9 DEF TypeOK, DeleteRow, Goto, PCs, Statuses
<1>10. CASE Unindex(c)
  <2>1. CASE Return(c)
    BY <1>10, <2>1, ReturnType DEF TypeOK, Unindex, history
  <2>2. CASE ~Return(c)
    BY <1>10, <2>2 DEF TypeOK, Unindex, history, Goto, PCs
  <2>3. QED
    BY <2>1, <2>2
<1>11. QED
  BY <1>1, <1>2, <1>3, <1>4, <1>5, <1>6, <1>7, <1>8, <1>9, <1>10 DEF Step

LEMMA TypeInductive == TypeOK /\ [Next]_vars => TypeOK'
<1> SUFFICES ASSUME TypeOK, [Next]_vars PROVE TypeOK'
  OBVIOUS
<1>1. ASSUME NEW c \in Callers, Call(c) PROVE TypeOK'
  BY <1>1, CallType
<1>2. ASSUME NEW c \in Callers, Step(c) PROVE TypeOK'
  BY <1>2, StepType
<1>3. ASSUME NEW c \in Callers, Break(c) PROVE TypeOK'
  BY <1>3, ReturnType DEF TypeOK, Break, store, history
<1>4. ASSUME NEW i \in Ids, Expire(i) PROVE TypeOK'
  BY <1>4 DEF TypeOK, Expire, store, calls, history
<1>5. CASE Restart
  BY <1>5 DEF TypeOK, Restart, store, calls, history
<1>6. CASE UNCHANGED vars
  BY <1>6 DEF TypeOK, vars, store, calls, history
<1>7. QED
  BY <1>1, <1>2, <1>3, <1>4, <1>5, <1>6 DEF Next

LEMMA InitialType == Init => TypeOK
<1> SUFFICES ASSUME Init PROVE TypeOK
  OBVIOUS
<1>1. indexed \in BOOLEAN /\ serial \in BOOLEAN /\ gap \in BOOLEAN
  BY Zenon DEF Init
<1>2. QED
  BY <1>1 DEF Init, TypeOK, Statuses, Ops, PCs

\* Every variable of the memory keeps its type.
THEOREM TypeCorrect == Spec => []TypeOK
<1>1. Init => TypeOK
  BY InitialType
<1>2. QED
  BY <1>1, TypeInductive, PTL DEF Spec

-----------------------------------------------------------------------------
(* How calls exclude each other, and what a call has in hand.              *)

\* A step belongs to the calls that take it, and only a call at rest is none.
Shape ==
    \A c \in Callers :
        /\ pc[c] = "idle" => op[c] = "none" /\ got[c] = {}
        /\ pc[c] \in {"search", "load", "decide"} =>
             op[c] \in {"recall", "write", "compact"}
        /\ pc[c] \in {"row", "index"} =>
             op[c] \in {"recall", "write", "compact", "score"}
        /\ pc[c] = "mark" => op[c] = "compact"
        /\ pc[c] = "delete" => op[c] \in {"forget", "evict"}
        /\ pc[c] = "unindex" => op[c] \in {"compact", "forget", "evict"}

\* The worker's calls have the memory to themselves.
Solitude ==
    /\ serial => \A c, d \in Callers : pc[c] # "idle" /\ pc[d] # "idle" => c = d
    /\ \A c \in Callers : op[c] \in {"score", "compact", "evict"} => serial

LEMMA ShapeInductive == TypeOK /\ Shape /\ [Next]_vars => Shape'
<1> SUFFICES ASSUME TypeOK, Shape, [Next]_vars PROVE Shape'
  OBVIOUS
<1> USE DEF TypeOK, Shape, Goto, Begin, Return
<1>1. ASSUME NEW c \in Callers, Call(c) PROVE Shape'
  <2>1. CASE Recall(c)
    BY <2>1 DEF Recall
  <2>2. CASE Remember(c)
    BY <2>2 DEF Remember
  <2>3. ASSUME NEW i \in Ids, Forget(c, i) PROVE Shape'
    BY <2>3 DEF Forget
  <2>4. ASSUME NEW i \in Ids, Score(c, i) PROVE Shape'
    BY <2>4 DEF Score
  <2>5. ASSUME NEW S \in SUBSET Ids, Compact(c, S) PROVE Shape'
    BY <2>5 DEF Compact
  <2>6. CASE Evict(c)
    BY <2>6 DEF Evict
  <2>7. QED
    BY <1>1, <2>1, <2>2, <2>3, <2>4, <2>5, <2>6 DEF Call
<1>2. ASSUME NEW c \in Callers, Step(c) PROVE Shape'
  <2>1. CASE Search(c)
    BY <1>2, <2>1 DEF Search
  <2>2. CASE Load(c)
    BY <1>2, <2>2 DEF Load
  <2>3. CASE Touch(c)
    BY <1>2, <2>3 DEF Touch
  <2>4. CASE Refuse(c)
    BY <1>2, <2>4 DEF Refuse, AfterWrite
  <2>5. CASE Create(c)
    BY <1>2, <2>5 DEF Create, Writes
  <2>6. CASE PutRow(c)
    BY <1>2, <2>6 DEF PutRow
  <2>7. CASE PutIndex(c)
    BY <1>2, <2>7 DEF PutIndex, AfterWrite, MarkOriginals
  <2>8. CASE Mark(c)
    BY <1>2, <2>8 DEF Mark
  <2>9. CASE DeleteRow(c)
    BY <1>2, <2>9 DEF DeleteRow
  <2>10. CASE Unindex(c)
    BY <1>2, <2>10 DEF Unindex
  <2>11. QED
    BY <1>2, <2>1, <2>2, <2>3, <2>4, <2>5, <2>6, <2>7, <2>8, <2>9, <2>10 DEF Step
<1>3. ASSUME NEW c \in Callers, Break(c) PROVE Shape'
  BY <1>3 DEF Break
<1>4. ASSUME NEW i \in Ids, Expire(i) PROVE Shape'
  BY <1>4 DEF Expire, calls
<1>5. CASE Restart
  BY <1>5 DEF Restart, calls
<1>6. CASE UNCHANGED vars
  BY <1>6 DEF vars, calls
<1>7. QED
  BY <1>1, <1>2, <1>3, <1>4, <1>5, <1>6 DEF Next

\* The variables of call d are as they were.
Untouched(d) ==
    /\ pc'[d] = pc[d] /\ op'[d] = op[d] /\ near'[d] = near[d]
    /\ status'[d] = status[d] /\ todo'[d] = todo[d] /\ got'[d] = got[d]
    /\ origin'[d] = origin[d] /\ made'[d] = made[d]
    /\ cur'[d] = cur[d]

\* The step of a call leaves the other calls alone.
LEMMA Others ==
  ASSUME TypeOK, NEW x \in Callers, Call(x) \/ Step(x) \/ Break(x),
         NEW d \in Callers, d # x
  PROVE  Untouched(d)
<1> USE DEF TypeOK, Untouched, Goto, Begin, Return, Unchanged
<1>1. CASE Recall(x)
  BY <1>1 DEF Recall
<1>2. CASE Remember(x)
  BY <1>2 DEF Remember
<1>3. ASSUME NEW i \in Ids, Forget(x, i) PROVE Untouched(d)
  BY <1>3 DEF Forget
<1>4. ASSUME NEW i \in Ids, Score(x, i) PROVE Untouched(d)
  BY <1>4 DEF Score
<1>5. ASSUME NEW S \in SUBSET Ids, Compact(x, S) PROVE Untouched(d)
  BY <1>5 DEF Compact
<1>6. CASE Evict(x)
  BY <1>6 DEF Evict
<1>7. CASE Search(x)
  BY <1>7 DEF Search
<1>8. CASE Load(x)
  BY <1>8 DEF Load
<1>9. CASE Touch(x)
  BY <1>9 DEF Touch
<1>10. CASE Refuse(x)
  BY <1>10 DEF Refuse, AfterWrite, MarkOriginals
<1>11. CASE Create(x)
  BY <1>11 DEF Create
<1>12. CASE PutRow(x)
  BY <1>12 DEF PutRow
<1>13. CASE PutIndex(x)
  BY <1>13 DEF PutIndex, AfterWrite, MarkOriginals
<1>14. CASE Mark(x)
  BY <1>14 DEF Mark
<1>15. CASE DeleteRow(x)
  BY <1>15 DEF DeleteRow
<1>16. CASE Unindex(x)
  BY <1>16 DEF Unindex
<1>17. CASE Break(x)
  BY <1>17 DEF Break
<1>18. QED
  BY <1>1, <1>2, <1>3, <1>4, <1>5, <1>6, <1>7, <1>8, <1>9, <1>10, <1>11,
     <1>12, <1>13, <1>14, <1>15, <1>16, <1>17 DEF Call, Step

\* What a step does, seen from outside: a call begins or goes on, or the
\* environment acts and no call changes.
LEMMA Actors ==
  ASSUME [Next]_vars
  PROVE  \/ \E x \in Callers : Call(x) \/ Step(x) \/ Break(x)
         \/ /\ UNCHANGED <<row, used, calls, history, serial>>
            /\ index' = index
BY DEF Next, Expire, Restart, vars, store, history

LEMMA StepOfBusy ==
  ASSUME NEW x \in Callers, Step(x) \/ Break(x)
  PROVE  pc[x] # "idle" /\ serial' = serial
BY DEF Step, Search, Load, Touch, Refuse, Create, PutRow, PutIndex, Mark, DeleteRow,
   Unindex, Break, Unchanged

\* A call of the worker neither begins nor goes on beside another one.
LEMMA Solo ==
  ASSUME Shape, Solitude, NEW x \in Callers, NEW d \in Callers, d # x,
         Call(x) \/ Step(x) \/ Break(x), serial
  PROVE  pc[d] = "idle"
<1>1. CASE Call(x)
  BY <1>1 DEF Call, Recall, Remember, Forget, Score, Compact, Evict, Begin, AtRest
<1>2. CASE Step(x) \/ Break(x)
  BY <1>2, StepOfBusy DEF Solitude
<1>3. QED
  BY <1>1, <1>2

LEMMA CallOp ==
  ASSUME TypeOK, NEW x \in Callers, Call(x)
  PROVE  /\ serial' = serial
         /\ op'[x] \in {"score", "compact", "evict"} => serial
<1> USE DEF TypeOK, Begin, Unchanged
<1>1. CASE Recall(x)
  BY <1>1 DEF Recall
<1>2. CASE Remember(x)
  BY <1>2 DEF Remember
<1>3. ASSUME NEW i \in Ids, Forget(x, i)
      PROVE  serial' = serial /\ op'[x] = "forget"
  BY <1>3 DEF Forget
<1>4. ASSUME NEW i \in Ids, Score(x, i) PROVE serial' = serial /\ serial
  BY <1>4 DEF Score
<1>5. ASSUME NEW S \in SUBSET Ids, Compact(x, S)
      PROVE  serial' = serial /\ serial
  BY <1>5 DEF Compact
<1>6. CASE Evict(x)
  BY <1>6 DEF Evict
<1>7. QED
  BY <1>1, <1>2, <1>3, <1>4, <1>5, <1>6 DEF Call

LEMMA StepOp ==
  ASSUME TypeOK, NEW x \in Callers, Step(x) \/ Break(x)
  PROVE  op'[x] \in {op[x], "none"}
<1> USE DEF TypeOK, Goto, Return
<1>1. CASE Search(x)
  BY <1>1 DEF Search
<1>2. CASE Load(x)
  BY <1>2 DEF Load
<1>3. CASE Touch(x)
  BY <1>3 DEF Touch
<1>4. CASE Refuse(x)
  BY <1>4 DEF Refuse, AfterWrite, MarkOriginals
<1>5. CASE Create(x)
  BY <1>5 DEF Create
<1>6. CASE PutRow(x)
  BY <1>6 DEF PutRow
<1>7. CASE PutIndex(x)
  BY <1>7 DEF PutIndex, AfterWrite, MarkOriginals
<1>8. CASE Mark(x)
  BY <1>8 DEF Mark
<1>9. CASE DeleteRow(x)
  BY <1>9 DEF DeleteRow
<1>10. CASE Unindex(x)
  BY <1>10 DEF Unindex
<1>11. CASE Break(x)
  BY <1>11 DEF Break
<1>12. QED
  BY <1>1, <1>2, <1>3, <1>4, <1>5, <1>6, <1>7, <1>8, <1>9, <1>10, <1>11 DEF Step

LEMMA SolitudeInductive == TypeOK /\ Shape /\ Solitude /\ [Next]_vars => Solitude'
<1> SUFFICES ASSUME TypeOK, Shape, Solitude, [Next]_vars PROVE Solitude'
  OBVIOUS
<1>1. ASSUME NEW x \in Callers, Call(x) \/ Step(x) \/ Break(x) PROVE Solitude'
  <2>1. serial' = serial
    BY <1>1, CallOp, StepOfBusy
  <2>2. ASSUME serial, NEW c \in Callers, NEW d \in Callers,
               pc'[c] # "idle", pc'[d] # "idle"
        PROVE  c = d
    <3>1. \A e \in Callers : e # x => pc'[e] = "idle"
      BY <1>1, <2>2, Solo, Others DEF Untouched
    <3>2. QED
      BY <2>2, <3>1
  <2>3. ASSUME NEW c \in Callers, op'[c] \in {"score", "compact", "evict"}
        PROVE  serial
    <3>1. CASE c = x
      BY <1>1, <2>3, <3>1, CallOp, StepOp DEF Solitude
    <3>2. CASE c # x
      BY <1>1, <2>3, <3>2, Others DEF Solitude, Untouched
    <3>3. QED
      BY <3>1, <3>2
  <2>4. QED
    BY <2>1, <2>2, <2>3 DEF Solitude
<1>2. CASE UNCHANGED <<row, used, calls, history, serial>>
  BY <1>2 DEF Solitude, calls
<1>3. QED
  BY <1>1, <1>2, Actors

-----------------------------------------------------------------------------
(* What was forgotten.                                                     *)

\* An id given to no record has no row, and nobody knows it.
Born ==
    /\ \A i \in Ids : i \notin used => row[i] = "absent" /\ i \notin forgotten
    /\ \A c \in Callers : \A i \in origin[c] : i \in used

\* A record that call c is about to write, or will be once it has ranked.
Putting(c, i) ==
    \/ pc[c] \in {"row", "index"} /\ i \in todo[c]
    \/ op[c] = "recall" /\ i \in got[c]

\* Nobody is about to write a record that was forgotten.
Hands ==
    \A c \in Callers, i \in Ids :
        Putting(c, i) => i \in used /\ i \notin forgotten

GoneInv == Born /\ Hands /\ ForgottenStaysGone

\* Steps that change no row: they put into a call's hands only what is stored.
LEMMA QuietHands ==
  ASSUME TypeOK, Shape, GoneInv, NEW x \in Callers,
         Call(x) \/ Step(x) \/ Break(x), UNCHANGED <<row, used, forgotten>>,
         \A i \in Ids : Putting(x, i)' => Putting(x, i) \/ i \in Stored,
         \A i \in origin'[x] : i \in origin[x] \/ i \in Stored
  PROVE  GoneInv'
<1>1. \A i \in Ids : i \in Stored => i \in used /\ i \notin forgotten
  BY DEF GoneInv, Born, ForgottenStaysGone, Stored
<1>2. Born'
  <2>1. ASSUME NEW c \in Callers, NEW i \in origin'[c] PROVE i \in used
    <3>1. CASE c = x
      <4>1. i \in origin[x] \/ i \in Stored
        BY <2>1, <3>1
      <4>2. QED
        BY <1>1, <4>1 DEF GoneInv, Born, Stored
    <3>2. CASE c # x
      BY <2>1, <3>2, Others DEF GoneInv, Born, Untouched
    <3>3. QED
      BY <3>1, <3>2
  <2>2. QED
    BY <2>1 DEF GoneInv, Born
<1>3. Hands'
  <2> SUFFICES ASSUME NEW c \in Callers, NEW i \in Ids, Putting(c, i)'
               PROVE  i \in used /\ i \notin forgotten
    BY DEF Hands
  <2>1. CASE c = x
    BY <2>1, <1>1 DEF GoneInv, Hands
  <2>2. CASE c # x
    BY <2>2, Others DEF GoneInv, Hands, Untouched, Putting
  <2>3. QED
    BY <2>1, <2>2
<1>4. ForgottenStaysGone'
  BY DEF GoneInv, ForgottenStaysGone, Stored
<1>5. QED
  BY <1>2, <1>3, <1>4 DEF GoneInv

LEMMA GoneCall ==
  ASSUME TypeOK, Shape, GoneInv, NEW x \in Callers, Call(x) PROVE GoneInv'
<1> USE DEF TypeOK, Shape, Begin, Unchanged, store, history, Putting
<1>1. CASE Recall(x)
  <2>1. /\ UNCHANGED <<row, used, forgotten, origin, got>>
        /\ pc[x] = "idle" /\ pc'[x] = "search" /\ Call(x)
    BY <1>1 DEF Recall, Call, AtRest
  <2>2. got'[x] = {}
    BY <2>1
  <2>3. QED
    BY <2>1, <2>2, QuietHands
<1>2. CASE Remember(x)
  <2>1. /\ UNCHANGED <<row, used, forgotten, origin, got, todo>>
        /\ op'[x] = "write" /\ pc'[x] = "search" /\ Call(x)
    BY <1>2 DEF Remember, Call
  <2>2. QED
    BY <2>1, QuietHands
<1>3. ASSUME NEW i \in Ids, Forget(x, i) PROVE GoneInv'
  <2>1. /\ UNCHANGED <<row, used, forgotten, origin, got>>
        /\ op'[x] = "forget" /\ pc'[x] = "delete" /\ Call(x)
    BY <1>3 DEF Forget, Call
  <2>2. QED
    BY <2>1, QuietHands
<1>4. ASSUME NEW i \in Ids, Score(x, i) PROVE GoneInv'
  BY <1>4, QuietHands DEF Score, Found
<1>5. ASSUME NEW S \in SUBSET Ids, Compact(x, S) PROVE GoneInv'
  BY <1>5, QuietHands DEF Compact
<1>6. CASE Evict(x)
  BY <1>6, QuietHands DEF Evict
<1>7. QED
  BY <1>1, <1>2, <1>3, <1>4, <1>5, <1>6 DEF Call

LEMMA GoneStep ==
  ASSUME TypeOK, Shape, GoneInv, NEW x \in Callers, Step(x) \/ Break(x)
  PROVE  GoneInv'
<1> USE DEF TypeOK, Goto, Return, Putting
<1>1. CASE Search(x)
  <2>1. \A alikes, H : H \in Nearest(x, Live, alikes) => H \subseteq Stored
    BY DEF Nearest, Live, Stored
  <2>2. QED
    BY <1>1, <2>1, QuietHands DEF Search, Shape, Unchanged, store, history
<1>2. CASE Load(x)
  <2>1. Live \subseteq Stored
    BY DEF Live, Stored
  <2>2. QED
    BY <1>2, <2>1, QuietHands DEF Load, Unchanged, store, history
<1>3. CASE Touch(x)
  BY <1>3, QuietHands DEF Touch, store, history
<1>4. CASE Refuse(x)
  BY <1>4, QuietHands DEF Refuse, AfterWrite, MarkOriginals, store, history
<1>5. CASE PutIndex(x)
  BY <1>5, QuietHands DEF PutIndex, AfterWrite, MarkOriginals, history
<1>6. CASE Unindex(x)
  BY <1>6, QuietHands DEF Unindex, history
<1>7. CASE Break(x)
  BY <1>7, QuietHands DEF Break, store, history
<1>8. CASE Create(x)
  <2>1. PICK i \in Unused :
          used' = used \cup {i} /\ todo' = [todo EXCEPT ![x] = {i}]
    BY <1>8 DEF Create
  <2>2. /\ UNCHANGED <<row, forgotten, origin, op>>
        /\ i \in Ids /\ i \notin used /\ got' = [got EXCEPT ![x] = {}]
    BY <1>8 DEF Create, Unused
  <2>3. Born'
    BY <2>1, <2>2 DEF GoneInv, Born
  <2>4. Hands'
    BY <1>8, <2>1, <2>2, Others DEF GoneInv, Born, Hands, Untouched
  <2>5. ForgottenStaysGone'
    BY <2>2 DEF GoneInv, ForgottenStaysGone, Stored
  <2>6. QED
    BY <2>3, <2>4, <2>5 DEF GoneInv
<1>9. CASE PutRow(x)
  <2>1. PICK i \in todo[x] : /\ row' = [row EXCEPT ![i] = status[x]]
                            /\ todo' = [todo EXCEPT ![x] = @ \ {i}]
    BY <1>9 DEF PutRow
  <2>2. /\ UNCHANGED <<used, forgotten, origin, op, got>>
        /\ i \in Ids /\ i \in used /\ i \notin forgotten
    BY <1>9, <2>1 DEF PutRow, GoneInv, Hands
  <2>3. Born'
    BY <2>1, <2>2 DEF GoneInv, Born
  <2>4. Hands'
    BY <1>9, <2>1, <2>2, Others DEF GoneInv, Hands, Untouched, PutRow
  <2>5. ForgottenStaysGone'
    BY <2>1, <2>2 DEF GoneInv, ForgottenStaysGone, Stored
  <2>6. QED
    BY <2>3, <2>4, <2>5 DEF GoneInv
<1>10. CASE Mark(x)
  <2>1. PICK i \in todo[x] :
          /\ row' = IF i \in Stored THEN [row EXCEPT ![i] = "superseded"] ELSE row
          /\ todo' = [todo EXCEPT ![x] = @ \ {i}]
    BY <1>10 DEF Mark
  <2>2. UNCHANGED <<used, forgotten, origin, op, got>> /\ i \in Ids
    BY <1>10 DEF Mark
  <2>3. Stored' = Stored
    BY <2>1, <2>2 DEF Stored
  <2>4. Born'
    BY <2>2, <2>3 DEF GoneInv, Born, Stored
  <2>5. Hands'
    BY <1>10, <2>1, <2>2, Others DEF GoneInv, Hands, Untouched, Mark
  <2>6. ForgottenStaysGone'
    BY <2>2, <2>3 DEF GoneInv, ForgottenStaysGone
  <2>7. QED
    BY <2>4, <2>5, <2>6 DEF GoneInv
<1>11. CASE DeleteRow(x)
  <2>1. PICK i \in todo[x] :
          /\ row' = [row EXCEPT ![i] = "absent"]
          /\ todo' = [todo EXCEPT ![x] = @ \ {i}]
          /\ forgotten' = IF op[x] = "forget" /\ i \in Stored /\ ~InHand(x, i)
                          THEN forgotten \cup {i} ELSE forgotten
    BY <1>11 DEF DeleteRow
  <2>2. UNCHANGED <<used, origin, op, got>> /\ i \in Ids
    BY <1>11 DEF DeleteRow
  <2>3. i \in Stored => i \in used
    BY <2>2 DEF GoneInv, Born, Stored
  <2>4. Born'
    BY <2>1, <2>2, <2>3 DEF GoneInv, Born
  <2>5. Hands'
    <3> SUFFICES ASSUME NEW c \in Callers, NEW j \in Ids, Putting(c, j)'
                 PROVE  j \in used /\ j \notin forgotten'
      BY <2>2 DEF Hands
    <3>1. c # x
      BY <1>11 DEF DeleteRow, Shape
    <3>2. Putting(c, j)
      BY <1>11, <3>1, Others DEF Untouched
    <3>3. j = i => InHand(x, i)
      BY <3>1, <3>2 DEF InHand
    <3>4. QED
      BY <2>1, <3>2, <3>3 DEF GoneInv, Hands
  <2>6. ForgottenStaysGone'
    BY <2>1, <2>2 DEF GoneInv, ForgottenStaysGone, Stored
  <2>7. QED
    BY <2>4, <2>5, <2>6 DEF GoneInv
<1>12. QED
  BY <1>1, <1>2, <1>3, <1>4, <1>5, <1>6, <1>7, <1>8, <1>9, <1>10, <1>11 DEF Step

LEMMA GoneInductive == TypeOK /\ Shape /\ GoneInv /\ [Next]_vars => GoneInv'
<1> SUFFICES ASSUME TypeOK, Shape, GoneInv, [Next]_vars PROVE GoneInv'
  OBVIOUS
<1>1. CASE UNCHANGED <<row, used, calls, history, serial>>
  BY <1>1 DEF GoneInv, Born, Hands, ForgottenStaysGone, Putting, Stored, calls, history
<1>2. QED
  BY <1>1, Actors, GoneCall, GoneStep

LEMMA ShapeInitial == Init => Shape
BY DEF Init, Shape

\* A memory that was deleted while nobody had it in hand stays deleted,
\* whatever is called, interleaved or broken off afterwards.
THEOREM ForgottenStaysGoneHolds == Spec => []ForgottenStaysGone
<1>1. Init => GoneInv
  BY DEF Init, GoneInv, Born, Hands, Putting, ForgottenStaysGone
<1>2. GoneInv => ForgottenStaysGone
  BY DEF GoneInv
<1>3. QED
  BY <1>1, <1>2, ShapeInitial, ShapeInductive, GoneInductive, TypeCorrect, PTL DEF Spec

-----------------------------------------------------------------------------
(* What is kept.                                                           *)

\* s is the summary that replaces what call c is compacting.
Folds(c, s) == s = made[c] /\ s \in Ids \ origin[c]

\* What a call is about to write takes nothing out of use: a write brings its
\* own fact, a score leaves the status as it is, and a compaction marks its
\* originals when the summary is in use.
Work(c) ==
    /\ op[c] = "write" /\ pc[c] \in {"row", "index"} =>
         \A i \in todo[c] : i \in covers[i]
    /\ op[c] \in {"recall", "write", "compact"} => status[c] = "live"
    /\ op[c] = "score" /\ pc[c] \in {"row", "index"} =>
         \A i \in todo[c] : status[c] = "live" \/ row[i] = "superseded"
    /\ op[c] = "compact" /\ pc[c] \in {"row", "index"} =>
         \A i \in todo[c] : Folds(c, i)
    /\ op[c] = "compact" /\ pc[c] = "index" => Folds(c, cur[c]) /\ cur[c] \in Live
    /\ op[c] = "compact" /\ pc[c] \in {"mark", "unindex"} =>
         todo[c] \subseteq origin[c] /\ \E s \in Live : Folds(c, s)

KeptInv == NothingLost /\ \A c \in Callers : Work(c)

\* Covers changes only where no record is yet.
LEMMA CoversStable ==
  ASSUME TypeOK, NEW x \in Callers, Call(x) \/ Step(x) \/ Break(x),
         NEW i \in Ids, i \in used
  PROVE  covers'[i] = covers[i]
<1>1. CASE Create(x)
  BY <1>1 DEF Create, Unused, TypeOK
<1>2. CASE ~Create(x)
  BY <1>2 DEF Call, Step, Recall, Remember, Forget, Score, Compact, Evict, Search, Load,
     Touch, Refuse, PutRow, PutIndex, Mark, DeleteRow, Unindex, Break, Unchanged, history
<1>3. QED
  BY <1>1, <1>2

LEMMA Frame ==
  ASSUME TypeOK, Shape, Solitude, GoneInv, NEW x \in Callers,
         Call(x) \/ Step(x) \/ Break(x), NEW d \in Callers, d # x, Work(d)
  PROVE  Work(d)'
<1>1. Untouched(d)
  BY Others
<1>2. op[d] \notin {"score", "compact"}
  BY Solo DEF Shape, Solitude
<1>3. \A i \in todo[d] : pc[d] \in {"row", "index"} => covers'[i] = covers[i]
  <2> SUFFICES ASSUME NEW i \in todo[d], pc[d] \in {"row", "index"}
               PROVE  covers'[i] = covers[i]
    OBVIOUS
  <2>1. i \in Ids
    BY DEF TypeOK
  <2>2. i \in used
    BY <2>1 DEF GoneInv, Hands, Putting
  <2>3. QED
    BY <2>1, <2>2, CoversStable
<1>4. QED
  BY <1>1, <1>2, <1>3 DEF Work, Untouched

\* It is enough to look at the call that acts.
LEMMA KeptFrame ==
  ASSUME TypeOK, Shape, Solitude, GoneInv, KeptInv, NEW x \in Callers,
         Call(x) \/ Step(x) \/ Break(x), NothingLost', Work(x)'
  PROVE  KeptInv'
BY Frame DEF KeptInv

LEMMA KeptQuiet ==
  ASSUME KeptInv, UNCHANGED <<row, covers, kept, cut>> PROVE NothingLost'
BY DEF KeptInv, NothingLost, Live

LEMMA KeptCall ==
  ASSUME TypeOK, Shape, Solitude, GoneInv, KeptInv, NEW x \in Callers, Call(x)
  PROVE  KeptInv'
<1> USE DEF TypeOK, Begin
<1>1. UNCHANGED <<row, covers, kept, cut>>
  BY DEF Call, Recall, Remember, Forget, Score, Compact, Evict, Unchanged, store, history
<1>2. Work(x)'
  <2>1. CASE Recall(x)
    BY <2>1 DEF Recall, Work
  <2>2. CASE Remember(x)
    BY <2>2 DEF Remember, Work
  <2>3. ASSUME NEW i \in Ids, Forget(x, i) PROVE Work(x)'
    BY <2>3 DEF Forget, Work
  <2>4. ASSUME NEW i \in Ids, Score(x, i) PROVE Work(x)'
    BY <1>1, <2>4 DEF Score, Work
  <2>5. ASSUME NEW S \in SUBSET Ids, Compact(x, S) PROVE Work(x)'
    BY <2>5 DEF Compact, Work
  <2>6. CASE Evict(x)
    BY <2>6 DEF Evict, Work
  <2>7. QED
    BY <2>1, <2>2, <2>3, <2>4, <2>5, <2>6 DEF Call
<1>3. QED
  BY <1>1, <1>2, KeptFrame, KeptQuiet

LEMMA KeptStep ==
  ASSUME TypeOK, Shape, Solitude, GoneInv, KeptInv, NEW x \in Callers,
         Step(x) \/ Break(x)
  PROVE  KeptInv'
<1> SUFFICES NothingLost' /\ Work(x)'
  BY KeptFrame
<1>0. Work(x)
  BY DEF KeptInv
<1> USE DEF TypeOK, Goto, Return
<1>1. CASE Search(x)
  BY <1>0, <1>1, KeptQuiet DEF Search, Work, Unchanged, store, history
<1>2. CASE Load(x)
  BY <1>0, <1>2, KeptQuiet DEF Load, Work, Unchanged, store, history
<1>3. CASE Touch(x)
  BY <1>0, <1>3, KeptQuiet DEF Touch, Work, store, history
<1>4. CASE Refuse(x)
  BY <1>4, KeptQuiet DEF Refuse, AfterWrite, Work, store, history
<1>5. CASE Break(x)
  BY <1>5, KeptQuiet DEF Break, Work, store, history
<1>6. CASE Create(x)
  <2>1. PICK i \in Unused :
          /\ \E facts \in Contents(x, i) : covers' = [covers EXCEPT ![i] = facts]
          /\ todo' = [todo EXCEPT ![x] = {i}] /\ made' = [made EXCEPT ![x] = i]
    BY <1>6 DEF Create
  <2>2. /\ UNCHANGED <<row, kept, cut, origin, op, status>> /\ pc'[x] = "row"
        /\ i \in Ids /\ i \notin Live /\ i \notin origin[x]
    BY <1>6 DEF Create, Unused, GoneInv, Born, Live
  <2>3. NothingLost'
    BY <2>1, <2>2 DEF KeptInv, NothingLost, Live
  <2>4. op[x] = "compact" => Folds(x, i)'
    BY <2>1, <2>2 DEF Folds
  <2>5. op[x] \in {"write", "compact"}
    BY <1>6 DEF Create, Writes
  <2>6. op[x] = "write" => i \in covers'[i]
    BY <2>1, <2>2 DEF Contents
  <2>7. QED
    BY <1>0, <2>1, <2>2, <2>3, <2>4, <2>5, <2>6 DEF Work
<1>7. CASE PutRow(x)
  <2>1. PICK i \in todo[x] :
          /\ row' = [row EXCEPT ![i] = status[x]]
          /\ cur' = [cur EXCEPT ![x] = i]
          /\ todo' = [todo EXCEPT ![x] = @ \ {i}]
          /\ kept' = IF op[x] = "write" THEN kept \cup {i} ELSE kept
    BY <1>7 DEF PutRow
  <2>2. /\ UNCHANGED <<covers, cut, origin, made, op, status>>
        /\ pc[x] = "row" /\ pc'[x] = "index" /\ i \in Ids
    BY <1>7 DEF PutRow
  <2>3. Live \subseteq Live' /\ (status[x] = "live" => i \in Live')
    BY <1>0, <2>1, <2>2 DEF Work, Live, Shape
  <2>4. NothingLost'
    BY <1>0, <2>1, <2>2, <2>3 DEF KeptInv, NothingLost, Work
  <2>5. \A j \in Ids : row[j] = "superseded" => row'[j] \in {"superseded", status[x]}
    BY <2>1, <2>2
  <2>6. QED
    BY <1>0, <2>1, <2>2, <2>3, <2>4, <2>5 DEF Work, Folds
<1>8. CASE PutIndex(x)
  <2>1. UNCHANGED <<row, covers, kept, cut>> /\ pc[x] = "index"
    BY <1>8 DEF PutIndex, history
  <2>2. Work(x)'
    <3>1. CASE todo[x] # {}
      BY <1>0, <1>8, <2>1, <3>1 DEF PutIndex, Work, Folds
    <3>2. CASE todo[x] = {} /\ op[x] = "compact"
      <4>1. \E s \in Live : Folds(x, s)
        BY <1>0, <2>1, <3>2 DEF Work
      <4>2. /\ todo' = [todo EXCEPT ![x] = origin[x]] /\ pc'[x] = "mark"
            /\ UNCHANGED <<op, origin, made, status>>
        BY <1>8, <3>2 DEF PutIndex, AfterWrite, MarkOriginals
      <4>3. \E s \in Live' : Folds(x, s)'
        BY <2>1, <4>1, <4>2 DEF Folds, Live
      <4>4. QED
        BY <1>0, <3>2, <4>2, <4>3 DEF Work
    <3>3. CASE todo[x] = {} /\ op[x] # "compact"
      BY <1>8, <3>3 DEF PutIndex, AfterWrite, Work
    <3>4. QED
      BY <3>1, <3>2, <3>3
  <2>3. QED
    BY <2>1, <2>2, KeptQuiet
<1>9. CASE Mark(x)
  <2>1. PICK i \in todo[x] :
          /\ row' = IF i \in Stored THEN [row EXCEPT ![i] = "superseded"] ELSE row
          /\ todo' = [todo EXCEPT ![x] = @ \ {i}]
          /\ cut' = cut \cup LeftOut(x, i)
    BY <1>9 DEF Mark
  <2>2. /\ UNCHANGED <<covers, kept, origin, made, op, status>> /\ i \in Ids
        /\ op[x] = "compact" /\ pc[x] = "mark" /\ pc'[x] = "unindex"
    BY <1>9 DEF Mark, Shape
  <2>3. PICK s \in Live : Folds(x, s)
    BY <1>0, <2>2 DEF Work
  <2>4. todo[x] \subseteq origin[x]
    BY <1>0, <2>2 DEF Work
  <2>5. Live \ {i} \subseteq Live' /\ s \in Live'
    BY <2>1, <2>2, <2>3, <2>4 DEF Live, Folds
  <2>6. covers[i] \ cut' \subseteq covers[s]
    BY <2>1, <2>3, MemoryConstants DEF Folds, LeftOut
  <2>7. NothingLost'
    BY <2>1, <2>2, <2>5, <2>6 DEF KeptInv, NothingLost
  <2>8. Folds(x, s)'
    BY <2>2, <2>3 DEF Folds
  <2>9. QED
    BY <1>0, <2>1, <2>2, <2>4, <2>5, <2>7, <2>8 DEF Work
<1>10. CASE DeleteRow(x)
  <2>1. PICK i \in todo[x] :
          /\ row' = [row EXCEPT ![i] = "absent"]
          /\ kept' = IF i \in Live THEN kept \ covers[i] ELSE kept
    BY <1>10 DEF DeleteRow
  <2>2. covers' = covers /\ cut' = cut /\ Live \ {i} \subseteq Live'
    BY <1>10, <2>1 DEF DeleteRow, Live
  <2>3. NothingLost'
    BY <2>1, <2>2 DEF KeptInv, NothingLost
  <2>4. op[x] \in {"forget", "evict"} /\ op' = op
    BY <1>10 DEF DeleteRow, Shape
  <2>5. QED
    BY <2>3, <2>4 DEF Work
<1>11. CASE Unindex(x)
  <2>1. UNCHANGED <<row, covers, kept, cut>> /\ pc[x] = "unindex"
    BY <1>11 DEF Unindex, history
  <2>2. CASE Return(x)
    BY <2>1, <2>2, KeptQuiet DEF Work
  <2>3. CASE ~Return(x)
    <3>1. /\ UNCHANGED <<op, near, status, todo, got, origin, made, cur>>
          /\ pc'[x] = IF op[x] = "compact" THEN "mark" ELSE "delete"
      BY <1>11, <2>3 DEF Unindex
    <3>2. Work(x)'
      BY <1>0, <2>1, <3>1 DEF Work, Folds, Live
    <3>3. QED
      BY <2>1, <3>2, KeptQuiet
  <2>4. QED
    BY <2>2, <2>3
<1>12. QED
  BY <1>1, <1>2, <1>3, <1>4, <1>5, <1>6, <1>7, <1>8, <1>9, <1>10, <1>11 DEF Step

LEMMA KeptInductive ==
  TypeOK /\ Shape /\ Solitude /\ GoneInv /\ KeptInv /\ [Next]_vars => KeptInv'
<1> SUFFICES ASSUME TypeOK, Shape, Solitude, GoneInv, KeptInv, [Next]_vars
             PROVE  KeptInv'
  OBVIOUS
<1>1. CASE UNCHANGED <<row, used, calls, history, serial>>
  BY <1>1 DEF KeptInv, NothingLost, Live, Work, Folds, calls, history
<1>2. QED
  BY <1>1, Actors, KeptCall, KeptStep

\* Compaction and eviction lose nothing but what a summary left out of the
\* records it replaced, wherever they break off.
THEOREM NothingLostHolds == Spec => []NothingLost
<1>1. Init => KeptInv
  BY DEF Init, KeptInv, NothingLost, Work
<1>2. Init => Solitude /\ GoneInv
  BY DEF Init, Solitude, GoneInv, Born, Hands, Putting, ForgottenStaysGone
<1>3. KeptInv => NothingLost
  BY DEF KeptInv
<1>4. QED
  BY <1>1, <1>2, <1>3, ShapeInitial, ShapeInductive, SolitudeInductive, GoneInductive,
     KeptInductive, TypeCorrect, PTL DEF Spec

-----------------------------------------------------------------------------
(* The index.                                                              *)

\* Call c stands between the row of i and its entry in the index.
Between(c, i) == pc[c] \in {"index", "unindex"} /\ cur[c] = i

\* Only such a record may be in one of the two and not in the other.
MirrorInv ==
    indexed /\ ~gap =>
        \A i \in Ids : (i \in index <=> i \in Live) \/ \E c \in Callers : Between(c, i)

\* A step that touches neither a row nor the index, of a call that is not
\* between the two, or that counts as a gap.
LEMMA MirrorQuiet ==
  ASSUME TypeOK, MirrorInv, NEW x \in Callers, Call(x) \/ Step(x) \/ Break(x),
         UNCHANGED <<row, index, indexed>>, gap => gap',
         indexed /\ ~gap' => pc[x] \notin {"index", "unindex"}
  PROVE  MirrorInv'
<1> SUFFICES ASSUME indexed', ~gap', NEW i \in Ids,
                    ~((i \in index <=> i \in Live)')
             PROVE  \E c \in Callers : Between(c, i)'
  BY DEF MirrorInv
<1>1. indexed /\ ~gap /\ ~(i \in index <=> i \in Live)
  BY DEF Live
<1>2. PICK c \in Callers : Between(c, i)
  BY <1>1 DEF MirrorInv
<1>3. c # x
  BY <1>1, <1>2 DEF Between
<1>4. Between(c, i)'
  BY <1>2, <1>3, Others DEF Between, Untouched
<1>5. QED
  BY <1>4

\* The row changes first: the call is then between it and its entry.
LEMMA MirrorChange ==
  ASSUME TypeOK, MirrorInv, NEW x \in Callers, Call(x) \/ Step(x) \/ Break(x),
         UNCHANGED <<index, indexed, gap>>, NEW k \in Ids,
         \A j \in Ids : j # k => row'[j] = row[j],
         pc[x] \notin {"index", "unindex"},
         pc'[x] \in {"index", "unindex"}, cur'[x] = k
  PROVE  MirrorInv'
<1> SUFFICES ASSUME indexed', ~gap', NEW i \in Ids,
                    ~((i \in index <=> i \in Live)')
             PROVE  \E c \in Callers : Between(c, i)'
  BY DEF MirrorInv
<1>1. CASE i = k
  <2>1. Between(x, i)'
    BY <1>1 DEF Between
  <2>2. QED
    BY <2>1
<1>2. CASE i # k
  <2>1. indexed /\ ~gap /\ ~(i \in index <=> i \in Live)
    BY <1>2 DEF Live
  <2>2. PICK c \in Callers : Between(c, i)
    BY <2>1 DEF MirrorInv
  <2>3. c # x
    BY <2>2 DEF Between
  <2>4. Between(c, i)'
    BY <2>2, <2>3, Others DEF Between, Untouched
  <2>5. QED
    BY <2>4
<1>3. QED
  BY <1>1, <1>2

\* The entry follows, and is right unless another call changed the row between.
LEMMA MirrorMend ==
  ASSUME TypeOK, MirrorInv, NEW x \in Callers, Call(x) \/ Step(x) \/ Break(x),
         UNCHANGED <<row, indexed>>, gap => gap', cur[x] \in Ids,
         \A j \in Ids : j # cur[x] /\ indexed => (j \in index' <=> j \in index),
         indexed /\ ~gap' => (cur[x] \in index' <=> cur[x] \in Live)
  PROVE  MirrorInv'
<1> SUFFICES ASSUME indexed', ~gap', NEW i \in Ids,
                    ~((i \in index <=> i \in Live)')
             PROVE  \E c \in Callers : Between(c, i)'
  BY DEF MirrorInv
<1>1. indexed /\ ~gap /\ Live' = Live
  BY DEF Live
<1>2. i # cur[x]
  BY <1>1
<1>3. PICK c \in Callers : Between(c, i)
  BY <1>1, <1>2 DEF MirrorInv
<1>4. c # x
  BY <1>2, <1>3 DEF Between
<1>5. Between(c, i)'
  BY <1>3, <1>4, Others DEF Between, Untouched
<1>6. QED
  BY <1>5

LEMMA MirrorStep ==
  ASSUME TypeOK, MirrorInv, NEW x \in Callers, Step(x) PROVE MirrorInv'
<1> USE DEF TypeOK, Goto, Return
<1>1. CASE Search(x) \/ Load(x) \/ Touch(x) \/ Refuse(x) \/ Create(x)
  <2>1. /\ UNCHANGED <<row, index, indexed, gap>>
        /\ pc[x] \notin {"index", "unindex"}
    BY <1>1 DEF Search, Load, Touch, Refuse, Create, Unchanged, store
  <2>2. QED
    BY <2>1, MirrorQuiet
<1>2. CASE PutRow(x)
  <2>1. PICK i \in todo[x] : /\ row' = [row EXCEPT ![i] = status[x]]
                             /\ cur' = [cur EXCEPT ![x] = i]
    BY <1>2 DEF PutRow
  <2>2. /\ UNCHANGED <<index, indexed, gap>> /\ i \in Ids
        /\ pc[x] = "row" /\ pc'[x] = "index" /\ cur'[x] = i
    BY <1>2, <2>1 DEF PutRow
  <2>3. \A j \in Ids : j # i => row'[j] = row[j]
    BY <2>1
  <2>4. QED
    BY <2>2, <2>3, MirrorChange
<1>3. CASE PutIndex(x)
  <2>1. /\ UNCHANGED <<row, indexed>> /\ cur[x] \in Ids
        /\ index' = IF indexed THEN Mirrored(cur[x], status[x]) ELSE index
        /\ gap' = (gap \/ (indexed /\ row[cur[x]] # status[x]))
    BY <1>3 DEF PutIndex
  <2>2. \A j \in Ids : j # cur[x] /\ indexed => (j \in index' <=> j \in index)
    BY <2>1 DEF Mirrored
  <2>3. indexed /\ ~gap' => (cur[x] \in index' <=> cur[x] \in Live)
    BY <2>1 DEF Mirrored, Live
  <2>4. QED
    BY <2>1, <2>2, <2>3, MirrorMend
<1>4. CASE Mark(x)
  <2>1. PICK i \in todo[x] :
          /\ row' = IF i \in Stored THEN [row EXCEPT ![i] = "superseded"] ELSE row
          /\ cur' = [cur EXCEPT ![x] = i]
    BY <1>4 DEF Mark
  <2>2. /\ UNCHANGED <<index, indexed, gap>> /\ i \in Ids
        /\ pc[x] = "mark" /\ pc'[x] = "unindex" /\ cur'[x] = i
    BY <1>4, <2>1 DEF Mark
  <2>3. \A j \in Ids : j # i => row'[j] = row[j]
    BY <2>1
  <2>4. QED
    BY <2>2, <2>3, MirrorChange
<1>5. CASE DeleteRow(x)
  <2>1. PICK i \in todo[x] : /\ row' = [row EXCEPT ![i] = "absent"]
                             /\ cur' = [cur EXCEPT ![x] = i]
    BY <1>5 DEF DeleteRow
  <2>2. /\ UNCHANGED <<index, indexed, gap>> /\ i \in Ids
        /\ pc[x] = "delete" /\ pc'[x] = "unindex" /\ cur'[x] = i
    BY <1>5, <2>1 DEF DeleteRow
  <2>3. \A j \in Ids : j # i => row'[j] = row[j]
    BY <2>1
  <2>4. QED
    BY <2>2, <2>3, MirrorChange
<1>6. CASE Unindex(x)
  <2>1. /\ UNCHANGED <<row, indexed>> /\ cur[x] \in Ids
        /\ index' = IF indexed THEN index \ {cur[x]} ELSE index
        /\ gap' = (gap \/ (indexed /\ cur[x] \in Live))
    BY <1>6 DEF Unindex, Unindexed
  <2>2. \A j \in Ids : j # cur[x] /\ indexed => (j \in index' <=> j \in index)
    BY <2>1
  <2>3. indexed /\ ~gap' => (cur[x] \in index' <=> cur[x] \in Live)
    BY <2>1
  <2>4. QED
    BY <2>1, <2>2, <2>3, MirrorMend
<1>7. QED
  BY <1>1, <1>2, <1>3, <1>4, <1>5, <1>6 DEF Step

LEMMA MirrorInductive == TypeOK /\ MirrorInv /\ [Next]_vars => MirrorInv'
<1> SUFFICES ASSUME TypeOK, MirrorInv, [Next]_vars PROVE MirrorInv'
  OBVIOUS
<1>1. ASSUME NEW x \in Callers, Call(x) PROVE MirrorInv'
  <2>1. UNCHANGED <<row, index, indexed, gap>>
    BY <1>1 DEF Call, Recall, Remember, Forget, Score, Compact, Evict, Unchanged, store
  <2>2. pc[x] = "idle"
    BY <1>1 DEF Call, Recall, Remember, Forget, Score, Compact, Evict, Begin, AtRest
  <2>3. QED
    BY <1>1, <2>1, <2>2, MirrorQuiet
<1>2. ASSUME NEW x \in Callers, Step(x) PROVE MirrorInv'
  BY <1>2, MirrorStep
<1>3. ASSUME NEW x \in Callers, Break(x) PROVE MirrorInv'
  <2>1. /\ UNCHANGED <<row, index, indexed>>
        /\ gap' = (gap \/ (indexed /\ pc[x] \in {"index", "unindex"}))
    BY <1>3 DEF Break, store
  <2>2. QED
    BY <1>3, <2>1, MirrorQuiet
<1>4. ASSUME NEW i \in Ids, Expire(i) PROVE MirrorInv'
  BY <1>4 DEF Expire, MirrorInv, Between, Live, store, calls
<1>5. CASE Restart
  BY <1>5 DEF TypeOK, Restart, MirrorInv, Between, Live, store, calls
<1>6. CASE UNCHANGED vars
  BY <1>6 DEF vars, MirrorInv, Between, Live, store, calls
<1>7. QED
  BY <1>1, <1>2, <1>3, <1>4, <1>5, <1>6 DEF Next

LEMMA MirrorAtRest == TypeOK /\ MirrorInv => IndexMirrors
BY DEF TypeOK, MirrorInv, IndexMirrors, AtRest, Between, Live

LEMMA MirrorInitial == Init => MirrorInv
BY DEF Init, MirrorInv, Live

\* The index holds exactly the records in use whenever nobody is at work,
\* unless a row and its entry were once changed apart.
THEOREM IndexMirrorsHolds == Spec => []IndexMirrors
BY MirrorInitial, MirrorInductive, MirrorAtRest, TypeCorrect, PTL DEF Spec

-----------------------------------------------------------------------------
(* Records that are alike.                                                 *)

Distinct == \A i, j \in Live : <<i, j>> \notin alike

\* Only records are alike.
AlikeUsed == alike \subseteq used \X used

\* Call c has found record i, or has still to look at it.
Ahead(c, i) == i \in got[c] \/ (pc[c] = "load" /\ i \in todo[c])

\* What a call that has the memory to itself knows of it: records like its text
\* are among those its search has still to look at or has returned; a record
\* it writes back is as it was read, and a new one is like no other.
Knows(c) ==
    /\ pc[c] \in {"search", "load", "decide"} => got[c] \subseteq Live
    /\ pc[c] \in {"load", "decide"} /\ Writes(c) =>
         ((\E j \in Live : Matches(c, j)) =>
             \E i \in Live : Matches(c, i) /\ Ahead(c, i))
    /\ pc[c] \in {"row", "index"} /\ op[c] = "recall" => todo[c] \subseteq Live
    /\ pc[c] \in {"row", "index"} /\ op[c] = "score" =>
         \A i \in todo[c] : row[i] = status[c]
    /\ pc[c] = "row" /\ Writes(c) =>
         \E i \in Ids : /\ todo[c] = {i} /\ <<i, i>> \notin alike
                        /\ \A j \in Live : <<i, j>> \notin alike /\ <<j, i>> \notin alike
    /\ pc[c] = "index" /\ Writes(c) => todo[c] = {}

DistinctInv == serial /\ ~gap => Distinct /\ \A c \in Callers : Knows(c)

LEMMA AlikeInductive == TypeOK /\ GoneInv /\ AlikeUsed /\ [Next]_vars => AlikeUsed'
<1> SUFFICES ASSUME TypeOK, GoneInv, AlikeUsed, [Next]_vars PROVE AlikeUsed'
  OBVIOUS
<1>1. ASSUME NEW x \in Callers, Create(x) PROVE AlikeUsed'
  <2>1. PICK i \in Unused : /\ used' = used \cup {i}
                            /\ alike' \subseteq alike \cup ({i} \X Stored)
    BY <1>1 DEF Create
  <2>2. Stored \subseteq used
    BY DEF GoneInv, Born, Stored
  <2>3. QED
    BY <2>1, <2>2 DEF AlikeUsed
<1>2. ASSUME NEW x \in Callers, Call(x) \/ Step(x) \/ Break(x), ~Create(x)
      PROVE  AlikeUsed'
  <2>1. UNCHANGED <<used, alike>>
    BY <1>2 DEF Call, Step, Recall, Remember, Forget, Score, Compact, Evict, Search, Load,
       Touch, Refuse, PutRow, PutIndex, Mark, DeleteRow, Unindex, Break, Unchanged,
       store, history
  <2>2. QED
    BY <2>1 DEF AlikeUsed
<1>3. CASE UNCHANGED <<row, used, calls, history, serial>>
  BY <1>3 DEF AlikeUsed, history
<1>4. QED
  BY <1>1, <1>2, <1>3, Actors

\* If a record like the text is there, a search returns one.
LEMMA NearestFinds ==
  ASSUME NEW c \in Callers, Writes(c), NEW S, NEW alikes, NEW H \in Nearest(c, S, alikes),
         NEW j \in S, j \in alikes
  PROVE  \E i \in H : i \in alikes
<1>1. /\ H = S \/ Cardinality(H) = DedupeLimit
      /\ Closest(S, H, alikes)
  BY DEF Nearest
<1>2. CASE j \in H
  BY <1>2
<1>3. CASE j \notin H
  <2>1. H # {}
    BY <1>1, <1>3, FS_EmptySet, MemoryConstants
  <2>2. \A i \in H : i \in alikes
    BY <1>1, <1>3 DEF Closest
  <2>3. QED
    BY <2>1, <2>2
<1>4. QED
  BY <1>2, <1>3

\* A step that takes no record into use keeps them distinct, and the calls that
\* do not act are at rest.
LEMMA DistinctFrame ==
  ASSUME TypeOK, Shape, Solitude, DistinctInv, NEW x \in Callers,
         Call(x) \/ Step(x) \/ Break(x), serial' = serial, gap => gap',
         serial /\ ~gap => Distinct' /\ Knows(x)'
  PROVE  DistinctInv'
<1> SUFFICES ASSUME serial, ~gap' PROVE Distinct' /\ \A c \in Callers : Knows(c)'
  BY DEF DistinctInv
<1>1. Distinct' /\ Knows(x)'
  OBVIOUS
<1>2. ASSUME NEW c \in Callers, c # x PROVE Knows(c)'
  <2>1. pc[c] = "idle"
    BY <1>2, Solo
  <2>2. pc'[c] = "idle" /\ got'[c] = {}
    BY <1>2, <2>1, Others DEF Untouched, Shape
  <2>3. QED
    BY <2>2 DEF Knows
<1>3. QED
  BY <1>1, <1>2

LEMMA DistinctFewer ==
  ASSUME Distinct, Live' \subseteq Live, alike' = alike PROVE Distinct'
BY DEF Distinct

LEMMA DistinctCall ==
  ASSUME TypeOK, Shape, Solitude, DistinctInv, NEW x \in Callers, Call(x)
  PROVE  DistinctInv'
<1>1. UNCHANGED <<row, alike, gap, serial>> /\ pc[x] = "idle"
  BY DEF Call, Recall, Remember, Forget, Score, Compact, Evict, Unchanged, store, history,
         Begin, AtRest
<1>2. serial /\ ~gap => Distinct'
  BY <1>1, DistinctFewer DEF DistinctInv, Live
<1>3. Knows(x)'
  <2> USE DEF TypeOK, Begin, Knows, Shape, Writes
  <2>1. CASE Recall(x)
    BY <1>1, <2>1 DEF Recall
  <2>2. CASE Remember(x)
    BY <1>1, <2>2 DEF Remember
  <2>3. ASSUME NEW i \in Ids, Forget(x, i) PROVE Knows(x)'
    BY <2>3 DEF Forget
  <2>4. ASSUME NEW i \in Ids, Score(x, i) PROVE Knows(x)'
    <3>1. row[i] \in {"live", "superseded"}
      BY <2>4 DEF Score, Found, Stored, Statuses
    <3>2. /\ pc'[x] = "row" /\ op'[x] = "score" /\ todo'[x] = {i}
          /\ status'[x] = row[i]
      BY <2>4, <3>1 DEF Score
    <3>3. QED
      BY <1>1, <3>2
  <2>5. ASSUME NEW S \in SUBSET Ids, Compact(x, S) PROVE Knows(x)'
    BY <1>1, <2>5 DEF Compact
  <2>6. CASE Evict(x)
    BY <2>6 DEF Evict
  <2>7. QED
    BY <2>1, <2>2, <2>3, <2>4, <2>5, <2>6 DEF Call
<1>4. QED
  BY <1>1, <1>2, <1>3, DistinctFrame

\* The index can be searched in place of the rows: nobody is between the two.
LEMMA SearchesRight ==
  ASSUME TypeOK, Shape, Solitude, MirrorInv, NEW x \in Callers, Search(x),
         serial, ~gap, indexed
  PROVE  index = Live
<1>1. \A c \in Callers : pc[c] \notin {"index", "unindex"}
  BY Solo DEF Solitude, Search
<1>2. QED
  BY <1>1 DEF MirrorInv, Between, TypeOK, Live

LEMMA DistinctStep ==
  ASSUME TypeOK, Shape, Solitude, GoneInv, AlikeUsed, KeptInv, MirrorInv,
         DistinctInv, NEW x \in Callers, Step(x)
  PROVE  DistinctInv'
<1>1. serial' = serial
  BY StepOfBusy
<1>2. gap => gap'
  BY DEF Step, Search, Load, Touch, Refuse, Create, PutRow, PutIndex, Mark, DeleteRow,
         Unindex, Unchanged
<1> SUFFICES ASSUME serial, ~gap PROVE Distinct' /\ Knows(x)'
  BY <1>1, <1>2, DistinctFrame
<1>3. Distinct /\ Knows(x)
  BY DEF DistinctInv
<1>4. Work(x)
  BY DEF KeptInv
<1> USE DEF TypeOK, Goto
<1>5. CASE Search(x)
  <2>1. UNCHANGED <<row, alike, op>> /\ pc[x] = "search"
    BY <1>5 DEF Search, Unchanged, store, history
  <2>2. Distinct' /\ Live' = Live
    BY <1>3, <2>1, DistinctFewer DEF Live
  <2>3. PICK alikes \in Likenesses(x) :
          /\ near' = [near EXCEPT ![x] = alikes]
          /\ \/ /\ \E H \in Nearest(x, Live, alikes) : got' = [got EXCEPT ![x] = H]
                /\ pc' = [pc EXCEPT ![x] = "decide"]
             \/ /\ indexed
                /\ \E H \in Nearest(x, index, alikes) :
                     /\ todo' = [todo EXCEPT ![x] = H]
                     /\ pc' = [pc EXCEPT ![x] = IF H = {} THEN "decide" ELSE "load"]
                /\ got' = got
    BY <1>5 DEF Search
  <2>4. near'[x] = alikes
    BY <2>3
  <2>5. CASE (\E H \in Nearest(x, Live, alikes) : got' = [got EXCEPT ![x] = H])
             /\ pc' = [pc EXCEPT ![x] = "decide"]
    <3>1. PICK H \in Nearest(x, Live, alikes) : got' = [got EXCEPT ![x] = H]
      BY <2>5
    <3>2. H \subseteq Live /\ got'[x] = H /\ pc'[x] = "decide"
      BY <2>5, <3>1 DEF Nearest, Live
    <3>3. ASSUME Writes(x), NEW j \in Live, j \in alikes
          PROVE  \E i \in Live : i \in alikes /\ i \in got'[x]
      BY <3>2, <3>3, NearestFinds
    <3>4. QED
      BY <2>1, <2>2, <2>4, <3>2, <3>3 DEF Knows, Ahead, Writes, Matches
  <2>6. CASE indexed /\ (\E H \in Nearest(x, index, alikes) :
               /\ todo' = [todo EXCEPT ![x] = H]
               /\ pc' = [pc EXCEPT ![x] = IF H = {} THEN "decide" ELSE "load"])
             /\ got' = got
    <3>1. index = Live
      BY <1>5, <2>6, SearchesRight
    <3>2. PICK H \in Nearest(x, Live, alikes) :
               /\ todo' = [todo EXCEPT ![x] = H]
               /\ pc' = [pc EXCEPT ![x] = IF H = {} THEN "decide" ELSE "load"]
      BY <2>6, <3>1
    <3>3. /\ H \subseteq Live /\ todo'[x] = H /\ got'[x] \subseteq Live
          /\ pc'[x] = IF H = {} THEN "decide" ELSE "load"
      BY <1>3, <2>1, <2>6, <3>2 DEF Nearest, Live, Knows
    <3>4. ASSUME Writes(x), NEW j \in Live, j \in alikes
          PROVE  pc'[x] = "load" /\ \E i \in Live : i \in alikes /\ i \in todo'[x]
      BY <3>3, <3>4, NearestFinds
    <3>5. QED
      BY <2>1, <2>2, <2>4, <3>3, <3>4 DEF Knows, Ahead, Writes, Matches
  <2>7. QED
    BY <2>3, <2>5, <2>6
<1>6. CASE Load(x)
  <2>1. UNCHANGED <<row, alike, near, op>> /\ pc[x] = "load"
    BY <1>6 DEF Load, Unchanged, store, history
  <2>2. Distinct'
    BY <1>3, <2>1, DistinctFewer DEF Live
  <2>3. PICK k \in todo[x] :
          /\ todo' = [todo EXCEPT ![x] = @ \ {k}]
          /\ got' = [got EXCEPT ![x] = @ \cup ({k} \cap Live)]
          /\ pc' = [pc EXCEPT ![x] = IF todo[x] = {k} THEN "decide" ELSE "load"]
    BY <1>6 DEF Load
  <2>4. /\ todo'[x] = todo[x] \ {k} /\ got'[x] = got[x] \cup ({k} \cap Live)
        /\ pc'[x] = IF todo[x] = {k} THEN "decide" ELSE "load"
        /\ Live' = Live
    BY <2>1, <2>3 DEF Live
  <2>5. got'[x] \subseteq Live
    BY <1>3, <2>1, <2>4 DEF Knows
  <2>6. ASSUME NEW i \in Live, Ahead(x, i) PROVE Ahead(x, i)'
    BY <2>4, <2>6 DEF Ahead
  <2>7. QED
    BY <1>3, <2>1, <2>2, <2>4, <2>5, <2>6 DEF Knows, Writes, Matches
<1>7. CASE Touch(x)
  <2>1. UNCHANGED <<row, alike>> /\ pc[x] = "decide" /\ op[x] = "recall"
    BY <1>7 DEF Touch, store, history
  <2>2. Distinct'
    BY <1>3, <2>1, DistinctFewer DEF Live
  <2>3. CASE Return(x)
    BY <2>2, <2>3 DEF Return, Knows
  <2>4. CASE ~Return(x)
    <3>1. /\ todo'[x] = got[x] /\ pc'[x] = "row" /\ op' = op
          /\ got'[x] = {}
      BY <1>7, <2>4 DEF Touch
    <3>2. got[x] \subseteq Live /\ Live' = Live
      BY <1>3, <2>1 DEF Knows, Live
    <3>3. QED
      BY <2>1, <2>2, <3>1, <3>2 DEF Knows, Writes
  <2>5. QED
    BY <2>3, <2>4
<1>8. CASE Refuse(x)
  <2>1. UNCHANGED <<row, alike>>
    BY <1>8 DEF Refuse, store, history
  <2>2. Distinct'
    BY <1>3, <2>1, DistinctFewer DEF Live
  <2>3. pc'[x] = "idle" /\ got'[x] = {}
    BY <1>8 DEF Refuse, AfterWrite, Return
  <2>4. QED
    BY <2>2, <2>3 DEF Knows
<1>9. CASE Create(x)
  <2>1. PICK k \in Unused :
          /\ alike' \subseteq alike \cup ({k} \X (near[x] \cap Stored))
          /\ todo' = [todo EXCEPT ![x] = {k}]
    BY <1>9 DEF Create
  <2>2. /\ UNCHANGED <<row, op>> /\ pc[x] = "decide" /\ pc'[x] = "row"
        /\ Writes(x) /\ ~Duplicate(x) /\ todo'[x] = {k} /\ k \in Ids \ used
        /\ op[x] \notin {"recall", "score"}
    BY <1>9, <2>1 DEF Create, Unused, Writes
  <2>3. Stored \subseteq used /\ Live \subseteq used
    BY DEF GoneInv, Born, Live, Stored
  <2>4. Live' = Live
    BY <2>2 DEF Live
  <2>5. Distinct'
    BY <1>3, <2>1, <2>2, <2>3, <2>4 DEF Distinct
  <2>6. \A j \in Live : j \notin near[x]
    BY <1>3, <2>2 DEF Knows, Ahead, Duplicate, Matches
  <2>7. /\ <<k, k>> \notin alike'
        /\ \A j \in Live : <<k, j>> \notin alike' /\ <<j, k>> \notin alike'
    BY <2>1, <2>2, <2>3, <2>6 DEF AlikeUsed
  <2>8. QED
    BY <2>2, <2>4, <2>5, <2>7 DEF Knows
<1>10. CASE PutRow(x)
  <2>1. PICK k \in todo[x] : /\ row' = [row EXCEPT ![k] = status[x]]
                             /\ todo' = [todo EXCEPT ![x] = @ \ {k}]
    BY <1>10 DEF PutRow
  <2>2. /\ UNCHANGED <<alike, op, status>> /\ k \in Ids
        /\ pc[x] = "row" /\ pc'[x] = "index" /\ todo'[x] = todo[x] \ {k}
        /\ op[x] \in {"recall", "write", "compact", "score"}
    BY <1>10, <2>1 DEF PutRow, Shape
  <2>3. CASE op[x] \in {"recall", "score"}
    <3>1. row[k] = status[x]
      BY <1>3, <1>4, <2>2, <2>3 DEF Knows, Work, Live
    <3>2. row' = row
      BY <2>1, <2>2, <3>1
    <3>3. Distinct'
      BY <1>3, <2>2, <3>2, DistinctFewer DEF Live
    <3>4. QED
      BY <1>3, <2>2, <2>3, <3>2, <3>3 DEF Knows, Writes, Live
  <2>4. CASE op[x] \in {"write", "compact"}
    <3>1. /\ todo[x] = {k} /\ <<k, k>> \notin alike
          /\ \A j \in Live : <<k, j>> \notin alike /\ <<j, k>> \notin alike
      BY <1>3, <2>1, <2>2, <2>4 DEF Knows, Writes
    <3>2. Live' = Live \cup {k}
      BY <1>4, <2>1, <2>2, <2>4 DEF Work, Live
    <3>3. Distinct'
      BY <1>3, <2>2, <3>1, <3>2 DEF Distinct
    <3>4. QED
      BY <2>2, <2>4, <3>1, <3>3 DEF Knows, Writes
  <2>5. QED
    BY <2>2, <2>3, <2>4
<1>11. CASE PutIndex(x)
  <2>1. UNCHANGED <<row, alike>> /\ pc[x] = "index"
    BY <1>11 DEF PutIndex, history
  <2>2. Distinct'
    BY <1>3, <2>1, DistinctFewer DEF Live
  <2>3. CASE AfterWrite(x, TRUE)
    <3>1. pc'[x] = "mark" \/ (pc'[x] = "idle" /\ got'[x] = {})
      BY <2>3 DEF AfterWrite, MarkOriginals, Return
    <3>2. QED
      BY <2>2, <3>1 DEF Knows
  <2>4. CASE ~AfterWrite(x, TRUE)
    <3>1. /\ UNCHANGED <<op, near, status, todo>> /\ pc'[x] = "row"
          /\ todo[x] # {}
      BY <1>11, <2>4 DEF PutIndex
    <3>2. Live' = Live /\ ~Writes(x)
      BY <1>3, <2>1, <3>1 DEF Live, Knows
    <3>3. QED
      BY <1>3, <2>1, <2>2, <3>1, <3>2 DEF Knows, Writes
  <2>5. QED
    BY <2>3, <2>4
<1>12. CASE Mark(x) \/ DeleteRow(x)
  <2>1. Live' \subseteq Live /\ alike' = alike /\ pc'[x] = "unindex"
    BY <1>12 DEF Mark, DeleteRow, Live, Stored
  <2>2. QED
    BY <1>3, <2>1, DistinctFewer DEF Knows
<1>13. CASE Unindex(x)
  <2>1. UNCHANGED <<row, alike>>
    BY <1>13 DEF Unindex, history
  <2>2. pc'[x] \in {"mark", "delete"} \/ (pc'[x] = "idle" /\ got'[x] = {})
    BY <1>13 DEF Unindex, Return
  <2>3. QED
    BY <1>3, <2>1, <2>2, DistinctFewer DEF Knows, Live
<1>14. QED
  BY <1>5, <1>6, <1>7, <1>8, <1>9, <1>10, <1>11, <1>12, <1>13 DEF Step

LEMMA DistinctInductive ==
  TypeOK /\ Shape /\ Solitude /\ GoneInv /\ AlikeUsed /\ KeptInv /\ MirrorInv
    /\ DistinctInv /\ [Next]_vars => DistinctInv'
<1> SUFFICES ASSUME TypeOK, Shape, Solitude, GoneInv, AlikeUsed, KeptInv, MirrorInv,
                    DistinctInv, [Next]_vars
             PROVE  DistinctInv'
  OBVIOUS
<1>1. ASSUME NEW x \in Callers, Call(x) PROVE DistinctInv'
  BY <1>1, DistinctCall
<1>2. ASSUME NEW x \in Callers, Step(x) PROVE DistinctInv'
  BY <1>2, DistinctStep
<1>3. ASSUME NEW x \in Callers, Break(x) PROVE DistinctInv'
  <2>1. /\ UNCHANGED <<row, alike, serial>> /\ (gap => gap')
        /\ pc'[x] = "idle" /\ got'[x] = {}
    BY <1>3 DEF Break, store, history, Return, Goto, TypeOK
  <2>2. Knows(x)'
    BY <2>1 DEF Knows
  <2>3. serial /\ ~gap => Distinct'
    BY <2>1, DistinctFewer DEF DistinctInv, Live
  <2>4. QED
    BY <1>3, <2>1, <2>2, <2>3, DistinctFrame
<1>4. CASE (UNCHANGED vars \/ Restart \/ \E i \in Ids : Expire(i))
  <2>1. UNCHANGED <<row, alike, serial, calls>> /\ (gap => gap')
    <3>1. CASE Restart
      BY <3>1 DEF Restart, store, history, TypeOK
    <3>2. ASSUME NEW i \in Ids, Expire(i)
          PROVE  UNCHANGED <<row, alike, serial, calls>> /\ (gap => gap')
      BY <3>2 DEF Expire, store, history
    <3>3. CASE UNCHANGED vars
      BY <3>3 DEF vars, store, history
    <3>4. QED
      BY <1>4, <3>1, <3>2, <3>3
  <2>2. Live' = Live
    BY <2>1 DEF Live
  <2>3. ASSUME NEW c \in Callers, Knows(c) PROVE Knows(c)'
    BY <2>1, <2>2, <2>3 DEF Knows, Ahead, Writes, Matches, calls
  <2>4. QED
    BY <2>1, <2>2, <2>3 DEF DistinctInv, Distinct
<1>5. QED
  BY <1>1, <1>2, <1>3, <1>4 DEF Next

\* No two records in use are alike, for any number of records, whatever their
\* embeddings make alike and any limit of the duplicate check, as long as calls
\* are serialised and the index has missed nothing.
THEOREM NoDuplicatesHolds == Spec => []NoDuplicates
<1>1. Init => DistinctInv
  BY DEF Init, DistinctInv, Distinct, Knows, Live
<1>2. Init => Solitude /\ GoneInv /\ KeptInv
  BY DEF Init, Solitude, GoneInv, Born, Hands, Putting, ForgottenStaysGone, KeptInv,
         NothingLost, Work
<1>3. DistinctInv => NoDuplicates
  BY DEF DistinctInv, Distinct, NoDuplicates
<1>4. Init => AlikeUsed
  BY DEF Init, AlikeUsed
<1>5. QED
  BY <1>1, <1>2, <1>3, <1>4, ShapeInitial, ShapeInductive, SolitudeInductive,
     GoneInductive, AlikeInductive, KeptInductive, MirrorInitial, MirrorInductive,
     DistinctInductive, TypeCorrect, PTL DEF Spec
=============================================================================
