------------------------------- MODULE Memory -------------------------------
(***************************************************************************)
(* The semantic memory (rickshaw/memory, rickshaw/worker.py): rows in      *)
(* SQLite, an optional vector index that mirrors them, the service's       *)
(* remember / recall / forget, and the deferred worker's scoring,          *)
(* compaction and eviction.                                                *)
(*                                                                         *)
(* One SQL statement with its commit, and one call of the index, is a      *)
(* step; a service call is several.  The store expects its caller to       *)
(* serialise the calls.  The demo does so, with a worker that runs between *)
(* turns; in the terminal an interrupted turn's thread, or a second        *)
(* process on the same database, goes on beside the current one.  `serial` *)
(* says which of the two it is.                                            *)
(*                                                                         *)
(* A row keeps its text and its embedding for life, so a row is its        *)
(* status.  Two records are alike when their embeddings reach the          *)
(* threshold.  The weights of an embedding are those of the moment it was  *)
(* made, and it may be zero, so any two may be alike or not, those of one  *)
(* text too.  Every record the program writes has session scope and is not *)
(* sensitive; scores, use counts and dates are data.                       *)
(***************************************************************************)
EXTENDS Naturals, FiniteSets

CONSTANTS
    Callers,     \* turn threads, the worker, other processes
    Ids,         \* bound: the records ever created
    DedupeLimit, \* how many neighbours write() looks at
    NoId

ASSUME MemoryConstants == DedupeLimit \in Nat \ {0} /\ NoId \notin Ids

VARIABLES
    row,        \* id -> status of its row in SQLite
    index,      \* ids in the vector index
    indexed,    \* the index is enabled in this process
    used,       \* ids given to a record
    old,        \* ids whose record is older than the time to live
    serial,     \* the caller serialises its calls
    pc,         \* caller -> the step its call is at
    op,         \* caller -> the call
    near,       \* caller -> ids whose embedding is like that of its text
    status,     \* caller -> status of the record as it was read
    todo,       \* caller -> ids left of the loop it is in
    got,        \* caller -> live records its search returned
    origin,     \* caller -> records it is compacting
    made,       \* caller -> the record it has created
    cur,        \* caller -> id whose index entry comes next
    \* history
    covers,     \* id -> ids of the facts its text stands for
    alike,      \* pairs of records, the newer first, that are alike, as long
                \* as NoDuplicates asks about them
    kept,       \* facts stored and neither forgotten nor expired
    cut,        \* facts that the summary replacing their record leaves out
    forgotten,  \* ids forget() deleted when no other call had them in hand
    gap         \* a call broke off between a row and its index entry, or
                \* another one changed the row between them

store   == <<row, index, used>>
calls   == <<pc, op, near, status, todo, got, origin, made, cur>>
history == <<covers, alike, kept, cut, forgotten>>
vars == <<store, indexed, old, serial, calls, history, gap>>

Statuses == {"absent", "live", "superseded"}
Ops == {"none", "recall", "write", "forget", "score", "compact", "evict"}
PCs == {"idle", "search", "load", "decide", "row", "index", "mark", "delete",
        "unindex"}

\* Every variable keeps its type.
TypeOK ==
    /\ row \in [Ids -> Statuses] /\ index \subseteq Ids /\ indexed \in BOOLEAN
    /\ used \subseteq Ids /\ old \subseteq Ids
    /\ serial \in BOOLEAN
    /\ pc \in [Callers -> PCs] /\ op \in [Callers -> Ops]
    /\ near \in [Callers -> SUBSET Ids]
    /\ status \in [Callers -> Statuses]
    /\ todo \in [Callers -> SUBSET Ids] /\ got \in [Callers -> SUBSET Ids]
    /\ origin \in [Callers -> SUBSET Ids]
    /\ made \in [Callers -> Ids \cup {NoId}]
    /\ cur \in [Callers -> Ids \cup {NoId}]
    /\ \A c \in Callers : pc[c] \in {"index", "unindex"} => cur[c] \in Ids
    /\ covers \in [Ids -> SUBSET Ids] /\ alike \subseteq Ids \X Ids
    /\ kept \subseteq Ids /\ cut \subseteq Ids
    /\ forgotten \subseteq Ids /\ gap \in BOOLEAN

Init ==
    /\ row = [i \in Ids |-> "absent"] /\ index = {} /\ indexed \in BOOLEAN
    /\ used = {} /\ old = {} /\ serial \in BOOLEAN
    /\ pc = [c \in Callers |-> "idle"] /\ op = [c \in Callers |-> "none"]
    /\ near = [c \in Callers |-> {}]
    /\ status = [c \in Callers |-> "absent"]
    /\ todo = [c \in Callers |-> {}] /\ got = [c \in Callers |-> {}]
    /\ origin = [c \in Callers |-> {}]
    /\ made = [c \in Callers |-> NoId]
    /\ cur = [c \in Callers |-> NoId]
    /\ covers = [i \in Ids |-> {}] /\ alike = {} /\ kept = {} /\ cut = {}
    /\ forgotten = {} /\ gap = FALSE

-----------------------------------------------------------------------------
(* Calls begin.                                                            *)

Live == {i \in Ids : row[i] = "live"}
Stored == {i \in Ids : row[i] # "absent"}
Unused == Ids \ used

\* Another call has read the record i or is about to write it.
InHand(c, i) ==
    \E d \in Callers \ {c} : i \in todo[d] \cup got[d] \cup {cur[d]}

AtRest == \A c \in Callers : pc[c] = "idle"

\* Every call that may write still finds an id (the bound on Ids).
Room == Cardinality(Unused) >
        Cardinality({c \in Callers : op[c] \in {"write", "compact"}})

Begin(c, o, at) ==
    /\ IF serial THEN AtRest ELSE pc[c] = "idle"
    /\ op' = [op EXCEPT ![c] = o]
    /\ pc' = [pc EXCEPT ![c] = at]

Unchanged == UNCHANGED <<store, indexed, old, serial, made, cur, history, gap>>

\* assemble_context and recall.
Recall(c) ==
    /\ Begin(c, "recall", "search")
    /\ status' = [status EXCEPT ![c] = "live"]
    /\ UNCHANGED <<near, todo, got, origin>> /\ Unchanged

\* remember and write_observations.
Remember(c) ==
    /\ Room
    /\ Begin(c, "write", "search")
    /\ status' = [status EXCEPT ![c] = "live"]
    /\ UNCHANGED <<near, todo, got, origin>> /\ Unchanged

\* forget, with an id the model was told of, gone or not.
Forget(c, i) ==
    /\ i \in Stored \cup forgotten
    /\ Begin(c, "forget", "delete")
    /\ todo' = [todo EXCEPT ![c] = {i}]
    /\ UNCHANGED <<near, status, got, origin>> /\ Unchanged

Found_Unchecked(i) == i \in used

\* _score_importance returns when the record is gone.
Found(i) == i \in Stored

\* A scoring job: get, ask the provider, update.  A provider that fails only
\* changes the score.
Score(c, i) ==
    /\ Found(i) /\ serial
    /\ Begin(c, "score", "row")
    /\ status' = [status EXCEPT ![c] =
                    IF row[i] = "superseded" THEN "superseded" ELSE "live"]
    /\ todo' = [todo EXCEPT ![c] = {i}]
    /\ UNCHANGED <<near, got, origin>> /\ Unchanged

\* A compaction job: the gets, the summary, and on to write().
Compact(c, S) ==
    /\ Cardinality(S \cap Stored) > 1 /\ Room /\ serial
    /\ Begin(c, "compact", "search")
    /\ status' = [status EXCEPT ![c] = "live"]
    /\ origin' = [origin EXCEPT ![c] = S \cap Stored]
    /\ UNCHANGED <<near, todo, got>> /\ Unchanged

\* An eviction job: all_records, and those to delete.
Evict(c) ==
    LET stale == {i \in Stored : i \in old \/ row[i] = "superseded"} IN
    /\ stale # {} /\ serial
    /\ Begin(c, "evict", "delete")
    /\ todo' = [todo EXCEPT ![c] = stale]
    /\ UNCHANGED <<near, status, got, origin>> /\ Unchanged

-----------------------------------------------------------------------------
(* Steps of a call.                                                        *)

Goto(c, at) == pc' = [pc EXCEPT ![c] = at]

Return(c) ==
    /\ Goto(c, "idle")
    /\ op' = [op EXCEPT ![c] = "none"]
    /\ near' = [near EXCEPT ![c] = {}]
    /\ status' = [status EXCEPT ![c] = "absent"]
    /\ todo' = [todo EXCEPT ![c] = {}]
    /\ got' = [got EXCEPT ![c] = {}]
    /\ origin' = [origin EXCEPT ![c] = {}]
    /\ made' = [made EXCEPT ![c] = NoId]
    /\ cur' = [cur EXCEPT ![c] = NoId]

Writes(c) == op[c] \in {"write", "compact"}

\* embed: the text of a write is like whatever records the weights of this
\* moment make it like.
Likenesses(c) == IF Writes(c) THEN SUBSET Stored ELSE {{}}

Closest_Unsorted(S, H, alikes) == TRUE

\* H are the records of S a search returns: at most `limit`, the most similar
\* first.  The 20 of assemble_context are more than there are ids.
Closest(S, H, alikes) == \A i \in H, j \in S \ H : j \in alikes => i \in alikes

Nearest(c, S, alikes) ==
    IF ~Writes(c) THEN {S}
    ELSE {H \in SUBSET S :
            /\ Cardinality(H) <= DedupeLimit
            /\ H = S \/ Cardinality(H) = DedupeLimit
            /\ Closest(S, H, alikes)}

\* search: one SELECT over the rows when there is no index, or when its query
\* fails; otherwise the index's ids, whose rows are read one by one.
Search(c) ==
    /\ pc[c] = "search"
    /\ \E alikes \in Likenesses(c) :
         /\ near' = [near EXCEPT ![c] = alikes]
         /\ \/ /\ \E H \in Nearest(c, Live, alikes) : got' = [got EXCEPT ![c] = H]
               /\ Goto(c, "decide") /\ UNCHANGED todo
            \/ /\ indexed
               /\ \E H \in Nearest(c, index, alikes) :
                    /\ todo' = [todo EXCEPT ![c] = H]
                    /\ Goto(c, IF H = {} THEN "decide" ELSE "load")
               /\ UNCHANGED got
    /\ UNCHANGED <<op, status, origin>> /\ Unchanged

\* _search_vector_index: get each hit; deleted and superseded ones are skipped.
Load(c) ==
    /\ pc[c] = "load"
    /\ \E i \in todo[c] :
         /\ todo' = [todo EXCEPT ![c] = @ \ {i}]
         /\ got' = [got EXCEPT ![c] = @ \cup ({i} \cap Live)]
         /\ Goto(c, IF todo[c] = {i} THEN "decide" ELSE "load")
    /\ UNCHANGED <<op, near, status, origin>> /\ Unchanged

\* assemble_context touches what it has ranked.
Touch(c) ==
    /\ pc[c] = "decide" /\ op[c] = "recall"
    /\ IF got[c] = {} THEN Return(c)
       ELSE /\ todo' = [todo EXCEPT ![c] = got[c]] /\ Goto(c, "row")
            /\ got' = [got EXCEPT ![c] = {}]
            /\ UNCHANGED <<op, near, status, origin, made, cur>>
    /\ UNCHANGED <<store, indexed, old, serial, history, gap>>

Matches(c, i) == i \in near[c]

Duplicate(c) == \E i \in got[c] : Matches(c, i)

MarkOriginals(c) ==
    /\ todo' = [todo EXCEPT ![c] = origin[c]]
    /\ Goto(c, "mark")
    /\ UNCHANGED <<op, near, status, got, origin, made, cur>>

AfterWrite_Regardless(c, written) ==
    IF op[c] = "compact" THEN MarkOriginals(c) ELSE Return(c)

\* write() returns; a compaction whose summary was stored goes on to mark its
\* originals.
AfterWrite(c, written) ==
    IF op[c] = "compact" /\ written THEN MarkOriginals(c) ELSE Return(c)

\* The duplicate check of write().
Refuse(c) ==
    /\ pc[c] = "decide" /\ Writes(c) /\ Duplicate(c)
    /\ AfterWrite(c, FALSE)
    /\ UNCHANGED <<store, indexed, old, serial, history, gap>>

\* What the text of c can stand for.  A provider may leave facts out of its
\* summary, and without one the summary is the first 200 characters.
Contents(c, i) ==
    IF op[c] = "write" THEN {{i}} ELSE SUBSET UNION {covers[j] : j \in origin[c]}

\* A new record.
Create(c) ==
    /\ pc[c] = "decide" /\ Writes(c) /\ ~Duplicate(c)
    /\ \E i \in Unused :
         /\ used' = used \cup {i}
         /\ alike' = IF serial /\ ~gap
                     THEN alike \cup ({i} \X (near[c] \cap Stored)) ELSE alike
         /\ \E facts \in Contents(c, i) : covers' = [covers EXCEPT ![i] = facts]
         /\ todo' = [todo EXCEPT ![c] = {i}]
         /\ made' = [made EXCEPT ![c] = i]
    /\ near' = [near EXCEPT ![c] = {}] /\ got' = [got EXCEPT ![c] = {}]
    /\ Goto(c, "row")
    /\ UNCHANGED <<op, status, origin, cur, row, index, indexed, old, serial,
                   kept, cut, forgotten, gap>>

\* put: INSERT OR REPLACE of the whole record as the caller has it.
PutRow(c) ==
    /\ pc[c] = "row"
    /\ \E i \in todo[c] :
         /\ row' = [row EXCEPT ![i] = status[c]]
         /\ cur' = [cur EXCEPT ![c] = i]
         /\ todo' = [todo EXCEPT ![c] = @ \ {i}]
         /\ kept' = IF op[c] = "write" THEN kept \cup {i} ELSE kept
    /\ Goto(c, "index")
    /\ UNCHANGED <<op, near, status, got, origin, made, index, used, indexed,
                   old, serial, covers, alike, cut, forgotten, gap>>

Mirrored(i, s) == IF s = "live" THEN index \cup {i} ELSE index \ {i}

\* put, second half: the index follows, if there is one.
PutIndex(c) ==
    /\ pc[c] = "index"
    /\ index' = IF indexed THEN Mirrored(cur[c], status[c]) ELSE index
    /\ gap' = (gap \/ (indexed /\ row[cur[c]] # status[c]))
    /\ IF todo[c] = {} THEN AfterWrite(c, TRUE)
       ELSE /\ Goto(c, "row")
            /\ UNCHANGED <<op, near, status, todo, got, origin, made, cur>>
    /\ UNCHANGED <<row, used, indexed, old, serial, history>>

\* What the record i says and the stored summary of c does not.
LeftOut(c, i) == IF made[c] = NoId THEN {} ELSE covers[i] \ covers[made[c]]

\* mark_superseded: UPDATE ... WHERE id = ?
Mark(c) ==
    /\ pc[c] = "mark"
    /\ \E i \in todo[c] :
         /\ row' = IF i \in Stored THEN [row EXCEPT ![i] = "superseded"] ELSE row
         /\ cur' = [cur EXCEPT ![c] = i]
         /\ todo' = [todo EXCEPT ![c] = @ \ {i}]
         /\ cut' = cut \cup LeftOut(c, i)
    /\ Goto(c, "unindex")
    /\ UNCHANGED <<op, near, status, got, origin, made, index, used, indexed,
                   old, serial, covers, alike, kept, forgotten, gap>>

\* delete: the row.  What it stood for is no longer kept, if it was live.
DeleteRow(c) ==
    /\ pc[c] = "delete"
    /\ \E i \in todo[c] :
         /\ row' = [row EXCEPT ![i] = "absent"]
         /\ cur' = [cur EXCEPT ![c] = i]
         /\ todo' = [todo EXCEPT ![c] = @ \ {i}]
         /\ kept' = IF i \in Live THEN kept \ covers[i] ELSE kept
         /\ forgotten' = IF op[c] = "forget" /\ i \in Stored /\ ~InHand(c, i)
                         THEN forgotten \cup {i} ELSE forgotten
    /\ Goto(c, "unindex")
    /\ UNCHANGED <<op, near, status, got, origin, made, index, used, indexed,
                   old, serial, covers, alike, cut, gap>>

Unindexed_DeletedOnly(c) == IF op[c] = "compact" THEN {} ELSE {cur[c]}

\* mark_superseded and delete both drop the id from the index.
Unindexed(c) == {cur[c]}

Unindex(c) ==
    /\ pc[c] = "unindex"
    /\ index' = IF indexed THEN index \ Unindexed(c) ELSE index
    /\ gap' = (gap \/ (indexed /\ cur[c] \in Live))
    /\ IF todo[c] # {}
       THEN /\ Goto(c, IF op[c] = "compact" THEN "mark" ELSE "delete")
            /\ UNCHANGED <<op, near, status, todo, got, origin, made, cur>>
       ELSE Return(c)
    /\ UNCHANGED <<row, used, indexed, old, serial, history>>

Step(c) ==
    \/ Search(c) \/ Load(c) \/ Touch(c) \/ Refuse(c) \/ Create(c)
    \/ PutRow(c) \/ PutIndex(c) \/ Mark(c) \/ DeleteRow(c) \/ Unindex(c)

-----------------------------------------------------------------------------
(* The environment.                                                        *)

\* A statement or the index raises, or the process dies: the call ends where
\* it is.  The row may have changed and its index entry not.
Break(c) ==
    /\ pc[c] # "idle"
    /\ gap' = (gap \/ (indexed /\ pc[c] \in {"index", "unindex"}))
    /\ Return(c)
    /\ UNCHANGED <<store, indexed, old, serial, history>>

\* The program is started again on the same files, with or without a working
\* index.  An index that comes back missed what was written without it.
Restart ==
    /\ AtRest
    /\ indexed' = ~indexed
    /\ gap' = (gap \/ ~indexed)
    /\ UNCHANGED <<store, old, serial, calls, history>>

\* A day passes.  Nothing evicts in the terminal.
Expire(i) ==
    /\ i \in Stored \ old /\ serial
    /\ old' = old \cup {i}
    /\ UNCHANGED <<store, indexed, serial, calls, history, gap>>

Call(c) ==
    \/ Recall(c) \/ Remember(c) \/ Evict(c)
    \/ \E i \in Ids : Forget(c, i) \/ Score(c, i)
    \/ \E S \in SUBSET Ids : Compact(c, S)

Next ==
    \/ \E c \in Callers : Call(c) \/ Step(c) \/ Break(c)
    \/ \E i \in Ids : Expire(i)
    \/ Restart

Spec == Init /\ [][Next]_vars
-----------------------------------------------------------------------------
(* Properties.                                                             *)

\* "Dedupe via embedding similarity" (memory/service.py:74): no two records in
\* use have embeddings alike, whatever was written, forgotten, scored, compacted
\* and evicted before, as long as calls are serialised and the index has missed
\* nothing.  Their texts may still be the same.
NoDuplicates ==
    serial /\ ~gap => \A i, j \in Live : <<i, j>> \notin alike

\* A memory the user was told is deleted stays deleted: no later recall,
\* scoring or compaction puts it back; only a call that already had the record
\* in hand when it was deleted does.
ForgottenStaysGone == forgotten \cap Stored = {}

\* Compaction and eviction lose nothing but what a summary left out of the very
\* records it replaced: every other fact that was stored, and neither forgotten
\* nor outlived, is in the text of a record that searches return, wherever a
\* call broke off.
NothingLost == \A f \in kept \ cut : \E i \in Live : f \in covers[i]

\* SQLite is the source of truth and the index its mirror: when nobody is at
\* work the index holds exactly the records in use, so that each can be found
\* and none comes back, unless a row and its entry were once changed apart.
IndexMirrors == indexed /\ ~gap /\ AtRest => index = Live
=============================================================================
