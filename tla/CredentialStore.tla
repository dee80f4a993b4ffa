-------------------------- MODULE CredentialStore ---------------------------
(***************************************************************************)
(* The credential file (rickshaw_ai/credentials/store.py) and the calls    *)
(* that use it from several threads and processes: requests that resolve   *)
(* their auth and refresh an expired OAuth token inside modify             *)
(* (auth/resolver.py, auth/oauth.py), logins and deletes.                  *)
(*                                                                         *)
(* One file holds the credentials of all providers; modify rewrites it     *)
(* whole, under the lock of an adjacent file.  Every call may die at any   *)
(* step, with its process; the system then drops its lock.  The token      *)
(* endpoint rotates refresh tokens, or not; answers may be lost.           *)
(*                                                                         *)
(* A token is the number of its grant; 0 is none.  Access tokens expire.   *)
(***************************************************************************)
EXTENDS Naturals, FiniteSets

CONSTANTS
    Calls,       \* the calls of one history
    Providers,
    NoCall,      \* nobody
    LockWorks    \* flock is there and does not fail

ASSUME StoreConstants ==
    /\ NoCall \notin Calls
    /\ "file" \notin Providers
    /\ LockWorks \in BOOLEAN

VARIABLES
    file,      \* the credentials in the file, a record per provider
    lock,      \* who holds the flock of a lock file
    pc,        \* per call: where it stands
    job,       \* per call: what it does, and for which provider
    seen,      \* per call: the credential read() returned, outside the lock
    data,      \* per call: the whole file as _load returned it in the lock
    new,       \* per call: the credential to store
    \* the token endpoint
    issued,    \* grants so far
    live,      \* the refresh tokens it accepts
    expired,   \* the access tokens that have expired
    \* history
    want,      \* per provider: what its last writer meant to store
    spent,     \* refresh tokens that were rotated away
    lost,      \* refresh tokens whose exchange never reached the file
    replayed   \* spent tokens that were presented again

calls    == <<pc, job, seen, data, new>>
endpoint == <<issued, live, expired>>
history  == <<want, spent, lost, replayed>>
vars     == <<file, lock, calls, endpoint, history>>

Credential == [type : {"none", "api_key", "oauth"}, access : Nat, refresh : Nat]
None       == [type |-> "none", access |-> 0, refresh |-> 0]
Key        == [type |-> "api_key", access |-> 0, refresh |-> 0]
Token(a, r) == [type |-> "oauth", access |-> a, refresh |-> r]

Job == [op : {"request", "login", "delete"}, provider : Providers]

LockFiles == Providers \cup {"file"}

\* Inside the lock.
Critical == {"load", "exchange", "answer", "dump", "ok", "failing"}

\* Every variable keeps its type.
TypeOK ==
    /\ file \in [Providers -> Credential] /\ want \in [Providers -> Credential]
    /\ lock \in [LockFiles -> Calls \cup {NoCall}]
    /\ pc \in [Calls -> Critical \cup {"idle", "lock", "done", "failed", "crashed"}]
    /\ job \in [Calls -> Job]
    /\ seen \in [Calls -> Credential] /\ new \in [Calls -> Credential]
    /\ data \in [Calls -> [Providers -> Credential]]
    /\ issued \in Nat
    /\ live \subseteq Nat /\ expired \subseteq Nat
    /\ spent \subseteq Nat /\ lost \subseteq Nat /\ replayed \subseteq Nat

\* A program that was used before: a provider may have any credential, and
\* grant 1 belongs to one of them.  A grant may come without a refresh token.
Init ==
    /\ file \in [Providers -> {None, Key, Token(1, 1), Token(1, 0)}]
    /\ \A p, q \in Providers :
          file[p].type = "oauth" /\ file[q].type = "oauth" => p = q
    /\ job \in [Calls -> Job]
    /\ lock = [f \in LockFiles |-> NoCall]
    /\ pc = [c \in Calls |-> "idle"]
    /\ seen = [c \in Calls |-> None] /\ new = [c \in Calls |-> None]
    /\ data = [c \in Calls |-> [p \in Providers |-> None]]
    /\ issued = 1 /\ live = {1} /\ expired = {}
    /\ want = file /\ spent = {} /\ lost = {} /\ replayed = {}

Provider(c) == job[c].provider

Goto(c, l) == pc' = [pc EXCEPT ![c] = l]

\* The locals of a call are gone when it ends.
Forget(c) ==
    /\ seen' = [seen EXCEPT ![c] = None] /\ new' = [new EXCEPT ![c] = None]
    /\ data' = [data EXCEPT ![c] = [p \in Providers |-> None]]

\* is_expired; a leeway before the deadline counts as expired.
Expired(cred) == cred.type = "oauth" /\ cred.access \in expired
-----------------------------------------------------------------------------
(* The calls, up to the lock.                                              *)

\* resolve_auth reads the file without the lock.  Only an expired OAuth
\* token goes on to modify; otherwise the request has its auth, from the
\* credential or from the environment.
Read(c) ==
    /\ pc[c] = "idle" /\ job[c].op = "request"
    /\ IF Expired(file[Provider(c)])
       THEN Goto(c, "lock") /\ seen' = [seen EXCEPT ![c] = file[Provider(c)]]
       ELSE Goto(c, "done") /\ UNCHANGED seen
    /\ UNCHANGED <<file, lock, job, data, new, endpoint, history>>

\* A login comes to modify with the tokens of a new grant.
Login(c) ==
    /\ pc[c] = "idle" /\ job[c].op = "login"
    /\ issued' = issued + 1
    /\ \E r \in {0, issued'} :
         /\ new' = [new EXCEPT ![c] = Token(issued', r)]
         /\ live' = live \cup ({r} \ {0})
    /\ Goto(c, "lock")
    /\ UNCHANGED <<file, lock, job, seen, data, expired, history>>

\* delete is modify with a function that returns None.
Delete(c) ==
    /\ pc[c] = "idle" /\ job[c].op = "delete"
    /\ new' = [new EXCEPT ![c] = None]
    /\ Goto(c, "lock")
    /\ UNCHANGED <<file, lock, job, seen, data, endpoint, history>>

LockFile_PerProvider(p) == p

\* One lock file for the whole store.
LockFile(p) == "file"

\* _flock waits for the lock, or goes on without one if flock fails.
Acquire(c) ==
    /\ pc[c] = "lock"
    /\ LET f == LockFile(Provider(c)) IN
         /\ LockWorks => lock[f] = NoCall
         /\ lock' = IF LockWorks THEN [lock EXCEPT ![f] = c] ELSE lock
    /\ Goto(c, "load")
    /\ UNCHANGED <<file, job, seen, data, new, endpoint, history>>
-----------------------------------------------------------------------------
(* Inside the lock.                                                        *)

Current_Stale(c) == seen[c]

\* What _refresh judges: the value modify read inside the lock.
Current(c) == file[Provider(c)]

\* _load, then fn(current): a refresh returns what another caller refreshed
\* already, raises if the credential is no OAuth token any more or has no
\* refresh token, or presents the refresh token.
Load(c) ==
    /\ pc[c] = "load"
    /\ data' = [data EXCEPT ![c] = file]
    /\ IF job[c].op # "request"
       THEN Goto(c, "dump") /\ UNCHANGED new
       ELSE /\ new' = [new EXCEPT ![c] = Current(c)]
            /\ Goto(c, IF Current(c).type # "oauth" THEN "failing"
                       ELSE IF ~Expired(Current(c)) THEN "dump"
                       ELSE IF Current(c).refresh = 0 THEN "failing"
                       ELSE "exchange")
    /\ UNCHANGED <<file, lock, job, seen, endpoint, history>>

NewToken_KeepsOld(a, rotated, old) == Token(a, old)

NewToken_AsAnswered(a, rotated, old) == Token(a, IF rotated THEN a ELSE 0)

\* refresh keeps the old refresh token if the endpoint did not rotate it.
NewToken(a, rotated, old) == Token(a, IF rotated THEN a ELSE old)

\* The endpoint gets the refresh token: it refuses it, or makes a grant.
Exchange(c) ==
    LET old == new[c].refresh IN
    /\ pc[c] = "exchange"
    /\ replayed' = IF old \in spent THEN replayed \cup {old} ELSE replayed
    /\ \/ /\ old \in live
          /\ issued' = issued + 1
          /\ \E rotated \in BOOLEAN :
               /\ new' = [new EXCEPT ![c] = NewToken(issued', rotated, old)]
               /\ live' = IF rotated THEN (live \ {old}) \cup {issued'} ELSE live
               /\ spent' = IF rotated THEN spent \cup {old} ELSE spent
          /\ Goto(c, "answer")
       \/ /\ Goto(c, "failing")
          /\ UNCHANGED <<new, issued, live, spent>>
    /\ UNCHANGED <<file, lock, job, seen, data, expired, want, lost>>

\* The endpoint has rotated the token in the file, and c has not yet stored
\* the new one.
Rotated(c) == /\ pc[c] \in {"answer", "dump"} /\ job[c].op = "request"
              /\ new[c].refresh # data[c][Provider(c)].refresh

\* The token that nobody can replace any more when c fails now.
Abandoned(c) == IF Rotated(c) THEN {data[c][Provider(c)].refresh} ELSE {}

\* The answer arrives, or the connection is lost with it.
Answer(c) ==
    /\ pc[c] = "answer"
    /\ \/ Goto(c, "dump") /\ UNCHANGED lost
       \/ Goto(c, "failing") /\ lost' = lost \cup Abandoned(c)
    /\ UNCHANGED <<file, lock, job, seen, data, new, endpoint, want, spent, replayed>>

\* _dump replaces the file by the loaded data with the new credential in it.
Dump(c) ==
    /\ pc[c] = "dump"
    /\ file' = [data[c] EXCEPT ![Provider(c)] = new[c]]
    /\ want' = [want EXCEPT ![Provider(c)] = new[c]]
    /\ Goto(c, "ok")
    /\ UNCHANGED <<lock, job, seen, data, new, endpoint, spent, lost, replayed>>

\* Writing the temporary file or replacing the file raises: the file is as
\* it was.
DumpFails(c) ==
    /\ pc[c] = "dump"
    /\ Goto(c, "failing")
    /\ lost' = lost \cup Abandoned(c)
    /\ UNCHANGED <<file, lock, job, seen, data, new, endpoint, want, spent, replayed>>

Unlock(c) == [f \in LockFiles |-> IF lock[f] = c THEN NoCall ELSE lock[f]]

UnlockFailed_Forgotten(c) == lock

\* The lock is released in a finally.
UnlockFailed(c) == Unlock(c)

Release(c) ==
    /\ \/ pc[c] = "ok" /\ lock' = Unlock(c) /\ Goto(c, "done")
       \/ pc[c] = "failing" /\ lock' = UnlockFailed(c) /\ Goto(c, "failed")
    /\ Forget(c)
    /\ UNCHANGED <<file, job, endpoint, history>>
-----------------------------------------------------------------------------
(* The environment.                                                        *)

\* The process of a call dies; the system drops its lock.
Crash(c) ==
    /\ pc[c] \in Critical \cup {"lock"}
    /\ Goto(c, "crashed")
    /\ lock' = Unlock(c)
    /\ lost' = lost \cup Abandoned(c)
    /\ Forget(c)
    /\ UNCHANGED <<file, job, endpoint, want, spent, replayed>>

\* Time passes: the access token in the file expires.
Expire(p) ==
    /\ file[p].type = "oauth" /\ file[p].access \notin expired
    /\ expired' = expired \cup {file[p].access}
    /\ UNCHANGED <<file, lock, calls, issued, live, history>>

Step(c) ==
    \/ Read(c) \/ Login(c) \/ Delete(c) \/ Acquire(c) \/ Load(c)
    \/ Exchange(c) \/ Answer(c) \/ Dump(c) \/ DumpFails(c) \/ Release(c)

Ended ==
    /\ \A c \in Calls : pc[c] \in {"done", "failed", "crashed"}
    /\ UNCHANGED vars

Next ==
    \/ \E c \in Calls : Step(c) \/ Crash(c)
    \/ \E p \in Providers : Expire(p)
    \/ Ended

Spec == Init /\ [][Next]_vars

\* The threads run, and the token endpoint answers or times out.
FairSpec == Spec /\ \A c \in Calls : WF_vars(Step(c))
-----------------------------------------------------------------------------
(* Properties.                                                             *)

\* "modify is the ONLY write path": the file holds, for every provider, what
\* the last writer for that provider stored; a call that rewrites the file
\* for one provider never brings back an old credential of another.
NoLostUpdate == file = want

\* "a rotated OAuth token is never double-refreshed": a refresh token the
\* endpoint has rotated away is presented again only if its exchange never
\* reached the file, because the answer was lost, the write failed or the
\* process died.
NoDoubleRefresh == replayed \subseteq lost

\* A refresh in flight does not bring back a credential that was deleted or
\* replaced by a key, and a refresh never drops the refresh token: only a
\* login or a delete changes what kind of credential a provider has.
NoResurrection ==
    [][\A p \in Providers :
         \/ file'[p].type = file[p].type
            /\ (file'[p].refresh = 0 <=> file[p].refresh = 0)
         \/ \E c \in Calls : /\ Provider(c) = p /\ job[c].op # "request"
                            /\ pc[c] = "dump" /\ pc'[c] = "ok"]_vars

\* How the call ended, as its caller learns of it.
Outcome(c) ==
    IF pc[c] \in {"ok", "done"} THEN "done"
    ELSE IF pc[c] \in {"failing", "failed"} THEN "failed"
    ELSE IF pc[c] = "crashed" THEN "crashed"
    ELSE "open"

\* "Serialized read-modify-write": every call takes effect at one moment, on
\* what its provider's credential is then, and on nothing else; a refresh
\* moves a token on to a later grant, or leaves it; a call that failed has
\* stored nothing.
Promise == INSTANCE SerializedStore WITH
    cells <- file, outcome <- [c \in Calls |-> Outcome(c)]

IsSerialized == Promise!Spec

\* The file never loses the ability to refresh: the endpoint accepts a stored
\* refresh token, unless a call that has just had it rotated is about to
\* store the new one or could not.
StoredTokenUsable ==
    \A p \in Providers :
        file[p].refresh # 0 =>
            \/ file[p].refresh \in live \cup lost
            \/ \E c \in Calls : Provider(c) = p /\ Rotated(c)

\* Every call ends: no failure or crash leaves the lock behind.
CallsEnd ==
    \A c \in Calls : pc[c] = "lock" ~> pc[c] \in {"done", "failed", "crashed"}
=============================================================================
