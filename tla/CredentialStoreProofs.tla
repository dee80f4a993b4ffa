----------------------- MODULE CredentialStoreProofs ------------------------
(***************************************************************************)
(* Theorems about CredentialStore, for every number of calls and providers *)
(* and every length of a history, when flock works.                        *)
(***************************************************************************)
EXTENDS CredentialStore, TLAPS

\* At most one call is between its flock and its funlock.
Mutex == \A c \in Calls : pc[c] \in Critical => lock["file"] = c

\* Nobody writes the file between a call's load and its dump.
Loaded ==
    \A c \in Calls : pc[c] \in {"exchange", "answer", "dump"} => data[c] = file

\* What a call means to store, for each kind of call.
Meant ==
    \A c \in Calls :
        /\ pc[c] \in {"exchange", "answer"} => job[c].op = "request"
        /\ pc[c] = "exchange" =>
              new[c] = file[Provider(c)] /\ new[c].type = "oauth" /\ new[c].refresh # 0
        /\ pc[c] \in {"answer", "dump"} /\ job[c].op = "request" =>
              /\ new[c].type = file[Provider(c)].type
              /\ new[c].refresh = 0 <=> file[Provider(c)].refresh = 0
        /\ pc[c] \in {"lock", "load", "dump"} /\ job[c].op = "delete" =>
              new[c].refresh = 0

\* A call holds the refresh token of a new grant that is not in the file yet.
Pending(c) ==
    \/ job[c].op = "login" /\ pc[c] \in {"lock", "load", "dump"}
    \/ Rotated(c)

\* Refresh tokens were issued once, and are live or spent, never both.
Tokens ==
    /\ live \cap spent = {} /\ 0 \notin live
    /\ \A t \in live \cup spent : t <= issued
    /\ \A p \in Providers : file[p].refresh <= issued
    /\ \A c \in Calls : new[c].refresh <= issued

\* A token has one place: an entry of the file, or a call about to store it.
Unshared ==
    /\ \A p, q \in Providers :
          p # q /\ file[p].refresh # 0 => file[p].refresh # file[q].refresh
    /\ \A c \in Calls : Pending(c) /\ new[c].refresh # 0 =>
          /\ new[c].refresh \in live
          /\ \A q \in Providers : file[q].refresh # new[c].refresh
          /\ \A d \in Calls : d # c /\ Pending(d) => new[d].refresh # new[c].refresh

LockInv == TypeOK /\ Mutex /\ Loaded /\ Meant

IInv == /\ LockInv /\ NoLostUpdate
        /\ Tokens /\ Unshared /\ StoredTokenUsable /\ NoDoubleRefresh

-----------------------------------------------------------------------------
\* The credentials that calls make.
LEMMA Credentials ==
  /\ None \in Credential /\ Key \in Credential
  /\ \A a, r \in Nat : Token(a, r) \in Credential
  /\ \A d \in Credential : d.refresh \in Nat /\ d.access \in Nat
BY DEF None, Key, Token, Credential

\* What a call is about.
LEMMA JobType ==
  ASSUME TypeOK, NEW c \in Calls
  PROVE  /\ Provider(c) \in Providers /\ file[Provider(c)] \in Credential
         /\ new[c] \in Credential /\ data[c] \in [Providers -> Credential]
         /\ job[c].op \in {"request", "login", "delete"}
BY DEF TypeOK, Provider, Job

\* Only tokens are abandoned.
LEMMA AbandonedType ==
  ASSUME TypeOK, NEW c \in Calls PROVE Abandoned(c) \subseteq Nat
<1>1. data[c][Provider(c)].refresh \in Nat
  BY JobType, Credentials
<1>2. QED
  BY <1>1 DEF Abandoned

\* The lock after an unlock.
LEMMA UnlockType ==
  ASSUME TypeOK, NEW c \in Calls
  PROVE  /\ Unlock(c) \in [LockFiles -> Calls \cup {NoCall}]
         /\ Unlock(c)["file"] = IF lock["file"] = c THEN NoCall ELSE lock["file"]
BY DEF TypeOK, Unlock, LockFiles

\* Every variable keeps its type.
LEMMA TypeInductive == TypeOK /\ [Next]_vars => TypeOK'
<1> SUFFICES ASSUME TypeOK, [Next]_vars PROVE TypeOK'
  OBVIOUS
<1> USE DEF TypeOK, vars, calls, endpoint, history, Goto, Critical, Forget
<1>1. ASSUME NEW x \in Calls, Read(x) PROVE TypeOK'
  BY <1>1, Credentials, JobType DEF Read
<1>2. ASSUME NEW x \in Calls, Login(x) PROVE TypeOK'
  BY <1>2, Credentials, JobType DEF Login
<1>3. ASSUME NEW x \in Calls, Delete(x) PROVE TypeOK'
  BY <1>3, Credentials, JobType DEF Delete
<1>4. ASSUME NEW x \in Calls, Acquire(x) PROVE TypeOK'
  BY <1>4, JobType DEF Acquire, LockFile, LockFiles
<1>5. ASSUME NEW x \in Calls, Load(x) PROVE TypeOK'
  BY <1>5, JobType DEF Load, Current
<1>6. ASSUME NEW x \in Calls, Exchange(x) PROVE TypeOK'
  <2>1. new[x].refresh \in Nat /\ issued + 1 \in Nat
    BY Credentials, JobType
  <2>2. replayed' \subseteq Nat
    BY <1>6, <2>1 DEF Exchange
  <2>3. CASE UNCHANGED <<new, issued, live, spent>>
    BY <1>6, <2>2, <2>3 DEF Exchange
  <2>4. ASSUME NEW rotated \in BOOLEAN,
               new' = [new EXCEPT ![x] =
                         NewToken(issued', rotated, new[x].refresh)],
               live' = IF rotated THEN (live \ {new[x].refresh}) \cup {issued'}
                                  ELSE live,
               spent' = IF rotated THEN spent \cup {new[x].refresh} ELSE spent,
               issued' = issued + 1
        PROVE  TypeOK'
    <3>1. NewToken(issued', rotated, new[x].refresh) \in Credential
      BY <2>1, <2>4, Credentials DEF NewToken
    <3>2. live' \subseteq Nat /\ spent' \subseteq Nat
      BY <2>1, <2>4
    <3>3. new' \in [Calls -> Credential]
      BY <2>4, <3>1
    <3>4. QED
      BY <1>6, <2>1, <2>2, <2>4, <3>2, <3>3 DEF Exchange
  <2>5. QED
    BY <1>6, <2>3, <2>4 DEF Exchange
<1>7. ASSUME NEW x \in Calls, Answer(x) PROVE TypeOK'
  BY <1>7, AbandonedType DEF Answer
<1>8. ASSUME NEW x \in Calls, Dump(x) PROVE TypeOK'
  BY <1>8, Credentials, JobType DEF Dump
<1>9. ASSUME NEW x \in Calls, DumpFails(x) PROVE TypeOK'
  BY <1>9, AbandonedType DEF DumpFails
<1>10. ASSUME NEW x \in Calls, Release(x) PROVE TypeOK'
  BY <1>10, Credentials, UnlockType DEF Release, UnlockFailed
<1>11. ASSUME NEW x \in Calls, Crash(x) PROVE TypeOK'
  BY <1>11, Credentials, UnlockType, AbandonedType DEF Crash
<1>12. ASSUME NEW p \in Providers, Expire(p) PROVE TypeOK'
  BY <1>12, Credentials, JobType DEF Expire
<1>13. CASE UNCHANGED vars
  BY <1>13
<1>14. QED
  BY <1>1, <1>2, <1>3, <1>4, <1>5, <1>6, <1>7, <1>8, <1>9, <1>10, <1>11,
     <1>12, <1>13 DEF Next, Step, Ended

\* The lock has one holder.
LEMMA MutexInductive == LockWorks /\ TypeOK /\ Mutex /\ [Next]_vars => Mutex'
<1> SUFFICES ASSUME LockWorks, TypeOK, Mutex, [Next]_vars PROVE Mutex'
  OBVIOUS
<1> USE DEF Mutex, TypeOK, LockFiles, vars, calls, endpoint, history, Goto, Critical
<1>1. ASSUME NEW x \in Calls, Read(x) PROVE Mutex'
  BY <1>1, StoreConstants DEF Read
<1>2. ASSUME NEW x \in Calls, Login(x) PROVE Mutex'
  BY <1>2, StoreConstants DEF Login
<1>3. ASSUME NEW x \in Calls, Delete(x) PROVE Mutex'
  BY <1>3, StoreConstants DEF Delete
<1>4. ASSUME NEW x \in Calls, Acquire(x) PROVE Mutex'
  BY <1>4, StoreConstants DEF Acquire, LockFile
<1>5. ASSUME NEW x \in Calls, Load(x) PROVE Mutex'
  BY <1>5, StoreConstants DEF Load
<1>6. ASSUME NEW x \in Calls, Exchange(x) PROVE Mutex'
  BY <1>6, StoreConstants DEF Exchange
<1>7. ASSUME NEW x \in Calls, Answer(x) PROVE Mutex'
  BY <1>7, StoreConstants DEF Answer
<1>8. ASSUME NEW x \in Calls, Dump(x) PROVE Mutex'
  BY <1>8, StoreConstants DEF Dump
<1>9. ASSUME NEW x \in Calls, DumpFails(x) PROVE Mutex'
  BY <1>9, StoreConstants DEF DumpFails
<1>10. ASSUME NEW x \in Calls, Release(x) PROVE Mutex'
  BY <1>10, StoreConstants, UnlockType DEF Release, UnlockFailed
<1>11. ASSUME NEW x \in Calls, Crash(x) PROVE Mutex'
  BY <1>11, StoreConstants, UnlockType DEF Crash
<1>12. ASSUME NEW p \in Providers, Expire(p) PROVE Mutex'
  BY <1>12, StoreConstants DEF Expire
<1>13. CASE UNCHANGED vars
  BY <1>13
<1>14. QED
  BY <1>1, <1>2, <1>3, <1>4, <1>5, <1>6, <1>7, <1>8, <1>9, <1>10, <1>11,
     <1>12, <1>13 DEF Next, Step, Ended

\* While a call is between its load and its dump, no other call writes.
LEMMA LoadedInductive == TypeOK /\ Mutex /\ Loaded /\ [Next]_vars => Loaded'
<1> SUFFICES ASSUME TypeOK, Mutex, Loaded, [Next]_vars PROVE Loaded'
  OBVIOUS
<1> USE DEF Loaded, Mutex, TypeOK, vars, calls, endpoint, history, Goto, Critical, Forget
<1>1. ASSUME NEW x \in Calls, Read(x) PROVE Loaded'
  BY <1>1 DEF Read
<1>2. ASSUME NEW x \in Calls, Login(x) PROVE Loaded'
  BY <1>2 DEF Login
<1>3. ASSUME NEW x \in Calls, Delete(x) PROVE Loaded'
  BY <1>3 DEF Delete
<1>4. ASSUME NEW x \in Calls, Acquire(x) PROVE Loaded'
  BY <1>4 DEF Acquire
<1>5. ASSUME NEW x \in Calls, Load(x) PROVE Loaded'
  BY <1>5 DEF Load
<1>6. ASSUME NEW x \in Calls, Exchange(x) PROVE Loaded'
  BY <1>6 DEF Exchange
<1>7. ASSUME NEW x \in Calls, Answer(x) PROVE Loaded'
  BY <1>7 DEF Answer
<1>8. ASSUME NEW x \in Calls, Dump(x) PROVE Loaded'
  BY <1>8 DEF Dump
<1>9. ASSUME NEW x \in Calls, DumpFails(x) PROVE Loaded'
  BY <1>9 DEF DumpFails
<1>10. ASSUME NEW x \in Calls, Release(x) PROVE Loaded'
  BY <1>10 DEF Release
<1>11. ASSUME NEW x \in Calls, Crash(x) PROVE Loaded'
  BY <1>11 DEF Crash
<1>12. ASSUME NEW p \in Providers, Expire(p) PROVE Loaded'
  BY <1>12 DEF Expire
<1>13. CASE UNCHANGED vars
  BY <1>13
<1>14. QED
  BY <1>1, <1>2, <1>3, <1>4, <1>5, <1>6, <1>7, <1>8, <1>9, <1>10, <1>11,
     <1>12, <1>13 DEF Next, Step, Ended

\* What a grant does: the call has a new token, and the endpoint keeps or
\* rotates the refresh token.
LEMMA Grant ==
  ASSUME TypeOK, NEW x \in Calls, Exchange(x),
         ~ (Goto(x, "failing") /\ UNCHANGED <<new, issued, live, spent>>)
  PROVE  /\ Goto(x, "answer") /\ issued' = issued + 1
         /\ new[x].refresh \in live /\ new[x].refresh \in Nat
         /\ \A d \in Calls : d # x => new'[d] = new[d]
         /\ new'[x].type = "oauth"
         /\ \/ /\ new'[x].refresh = new[x].refresh
               /\ UNCHANGED <<live, spent>>
            \/ /\ new'[x].refresh = issued + 1
               /\ live' = (live \ {new[x].refresh}) \cup {issued + 1}
               /\ spent' = spent \cup {new[x].refresh}
<1>1. new[x].refresh \in Nat
  BY JobType, Credentials
<1>2. PICK rotated \in BOOLEAN :
        /\ new' = [new EXCEPT ![x] =
                     NewToken(issued', rotated, new[x].refresh)]
        /\ live' = IF rotated THEN (live \ {new[x].refresh}) \cup {issued'}
                   ELSE live
        /\ spent' = IF rotated THEN spent \cup {new[x].refresh} ELSE spent
  BY DEF Exchange
<1>3. Goto(x, "answer") /\ issued' = issued + 1 /\ new[x].refresh \in live
  BY DEF Exchange
<1>4. new'[x] = Token(issued', IF rotated THEN issued' ELSE new[x].refresh)
  BY <1>2 DEF NewToken, TypeOK
<1>5. new'[x].type = "oauth"
      /\ new'[x].refresh = IF rotated THEN issued' ELSE new[x].refresh
  BY <1>4 DEF Token
<1>6. \A d \in Calls : d # x => new'[d] = new[d]
  BY <1>2 DEF TypeOK
<1>7. QED
  BY <1>1, <1>2, <1>3, <1>5, <1>6

\* What a call means to store stays what it should be.
LEMMA MeantInductive == TypeOK /\ Mutex /\ Loaded /\ Meant /\ [Next]_vars => Meant'
<1> SUFFICES ASSUME TypeOK, Mutex, Loaded, Meant, [Next]_vars PROVE Meant'
  OBVIOUS
<1> USE DEF Meant, vars, calls, endpoint, history, Goto, Critical, Forget, Provider
<1>1. ASSUME NEW x \in Calls, Read(x) PROVE Meant'
  BY <1>1, Credentials DEF Read, TypeOK
<1>2. ASSUME NEW x \in Calls, Login(x) PROVE Meant'
  BY <1>2 DEF Login, TypeOK
<1>3. ASSUME NEW x \in Calls, Delete(x) PROVE Meant'
  BY <1>3 DEF Delete, TypeOK, None
<1>4. ASSUME NEW x \in Calls, Acquire(x) PROVE Meant'
  BY <1>4, Credentials DEF Acquire, TypeOK
<1>5. ASSUME NEW x \in Calls, Load(x) PROVE Meant'
  BY <1>5 DEF Load, TypeOK, Current
<1>6. ASSUME NEW x \in Calls, Exchange(x) PROVE Meant'
  <2>1. CASE Goto(x, "failing") /\ UNCHANGED <<new, issued, live, spent>>
    BY <1>6, <2>1 DEF Exchange, TypeOK
  <2>2. CASE ~ (Goto(x, "failing") /\ UNCHANGED <<new, issued, live, spent>>)
    <3>0. new[x].refresh # 0
      BY <1>6 DEF Exchange
    <3>1. new'[x].type = "oauth" /\ new'[x].refresh # 0
      <4>1. issued \in Nat
        BY DEF TypeOK
      <4>2. QED
        BY <1>6, <2>2, <3>0, <4>1, Grant
    <3>2. file' = file /\ job' = job /\ Goto(x, "answer")
          /\ \A d \in Calls : d # x => new'[d] = new[d]
      BY <1>6, <2>2, Grant DEF Exchange
    <3>3. QED
      BY <1>6, <3>1, <3>2 DEF Exchange, TypeOK
  <2>3. QED
    BY <2>1, <2>2
<1>7. ASSUME NEW x \in Calls, Answer(x) PROVE Meant'
  BY <1>7, Credentials DEF Answer, TypeOK
<1>8. ASSUME NEW x \in Calls, Dump(x) PROVE Meant'
  BY <1>8 DEF Dump, TypeOK, Mutex
<1>9. ASSUME NEW x \in Calls, DumpFails(x) PROVE Meant'
  BY <1>9, Credentials DEF DumpFails, TypeOK
<1>10. ASSUME NEW x \in Calls, Release(x) PROVE Meant'
  BY <1>10, Credentials DEF Release, TypeOK
<1>11. ASSUME NEW x \in Calls, Crash(x) PROVE Meant'
  BY <1>11, Credentials DEF Crash, TypeOK
<1>12. ASSUME NEW p \in Providers, Expire(p) PROVE Meant'
  BY <1>12, Credentials DEF Expire, TypeOK
<1>13. CASE UNCHANGED vars
  BY <1>13
<1>14. QED
  BY <1>1, <1>2, <1>3, <1>4, <1>5, <1>6, <1>7, <1>8, <1>9, <1>10, <1>11,
     <1>12, <1>13 DEF Next, Step, Ended

\* A rotated token changes sides and a new one joins the live ones.
LEMMA Rotation ==
  ASSUME NEW L, NEW S, L \cap S = {}, NEW o, NEW n, n \notin L \cup S, o # n
  PROVE  ((L \ {o}) \cup {n}) \cap (S \cup {o}) = {}
OBVIOUS

\* What a dump writes.
LEMMA DumpEffect ==
  ASSUME LockInv, NoLostUpdate, NEW x \in Calls, Dump(x)
  PROVE  /\ file' = [file EXCEPT ![Provider(x)] = new[x]]
         /\ want' = file'
BY DEF LockInv, Loaded, Dump, NoLostUpdate

\* Each entry of the file is what its last writer stored.
LEMMA NoLostUpdateInductive ==
  LockInv /\ NoLostUpdate /\ [Next]_vars => NoLostUpdate'
<1> SUFFICES ASSUME LockInv, NoLostUpdate, [Next]_vars PROVE NoLostUpdate'
  OBVIOUS
<1>1. ASSUME NEW x \in Calls, Dump(x) PROVE NoLostUpdate'
  BY <1>1, DumpEffect DEF NoLostUpdate
<1>2. ASSUME NEW x \in Calls, Step(x), ~ Dump(x) PROVE UNCHANGED <<file, want>>
  BY <1>2 DEF Step, Read, Login, Delete, Acquire, Load, Exchange, Answer,
     DumpFails, Release, history
<1>3. ASSUME NEW x \in Calls, Crash(x) PROVE UNCHANGED <<file, want>>
  BY <1>3 DEF Crash
<1>4. ASSUME NEW p \in Providers, Expire(p) PROVE UNCHANGED <<file, want>>
  BY <1>4 DEF Expire, history
<1>5. QED
  BY <1>1, <1>2, <1>3, <1>4 DEF Next, Ended, NoLostUpdate, vars, history

\* Every refresh token was granted, and a spent one is not live.
LEMMA TokensInductive == LockInv /\ NoLostUpdate /\ Tokens /\ [Next]_vars => Tokens'
<1> SUFFICES ASSUME LockInv, NoLostUpdate, Tokens, [Next]_vars PROVE Tokens'
  OBVIOUS
<1> USE DEF Tokens, LockInv, vars, calls, endpoint, history, Forget, None
<1> issued \in Nat /\ live \subseteq Nat /\ spent \subseteq Nat
  BY DEF TypeOK
<1>1. ASSUME NEW x \in Calls, Read(x) PROVE Tokens'
  BY <1>1, Credentials DEF Read, TypeOK
<1>2. ASSUME NEW x \in Calls, Login(x) PROVE Tokens'
  <2>1. PICK r \in {0, issued + 1} :
          /\ new' = [new EXCEPT ![x] = Token(issued + 1, r)]
          /\ live' = live \cup ({r} \ {0})
    BY <1>2 DEF Login
  <2>2. new'[x].refresh = r
    BY <2>1 DEF TypeOK, Token
  <2>3. \A c \in Calls : new'[c].refresh <= issued + 1
    <3>1. \A c \in Calls : new[c].refresh \in Nat
      BY Credentials DEF TypeOK
    <3>2. QED
      BY <2>1, <2>2, <3>1 DEF TypeOK
  <2>4. \A p \in Providers : file[p].refresh <= issued + 1
    BY Credentials DEF TypeOK
  <2>5. issued' = issued + 1 /\ file' = file /\ spent' = spent
    BY <1>2 DEF Login
  <2>6. QED
    BY <2>1, <2>3, <2>4, <2>5
<1>3. ASSUME NEW x \in Calls, Delete(x) PROVE Tokens'
  BY <1>3, Credentials DEF Delete, TypeOK
<1>4. ASSUME NEW x \in Calls, Acquire(x) PROVE Tokens'
  BY <1>4, Credentials DEF Acquire, TypeOK
<1>5. ASSUME NEW x \in Calls, Load(x) PROVE Tokens'
  BY <1>5, JobType DEF Load, Current, TypeOK
<1>6. ASSUME NEW x \in Calls, Exchange(x) PROVE Tokens'
  <2>1. file' = file /\ issued \in Nat
    BY <1>6 DEF Exchange
  <2>2. CASE Goto(x, "failing") /\ UNCHANGED <<new, issued, live, spent>>
    BY <2>1, <2>2
  <2>3. CASE ~ (Goto(x, "failing") /\ UNCHANGED <<new, issued, live, spent>>)
    <3>1. /\ issued' = issued + 1
          /\ \A d \in Calls : d # x => new'[d] = new[d]
          /\ new[x].refresh \in live /\ new[x].refresh \in Nat
          /\ \/ new'[x].refresh = new[x].refresh /\ UNCHANGED <<live, spent>>
             \/ /\ new'[x].refresh = issued + 1
                /\ live' = (live \ {new[x].refresh}) \cup {issued + 1}
                /\ spent' = spent \cup {new[x].refresh}
      BY <1>6, <2>3, Grant
    <3>2. \A c \in Calls : new'[c].refresh <= issued + 1
      <4>1. \A c \in Calls : new[c].refresh \in Nat
        BY Credentials DEF TypeOK
      <4>2. QED
        BY <3>1, <4>1
    <3>3. \A p \in Providers : file[p].refresh <= issued + 1
      BY Credentials DEF TypeOK
    <3>4. live' \cap spent' = {} /\ 0 \notin live'
          /\ \A t \in live' \cup spent' : t <= issued + 1
      <4>1. CASE UNCHANGED <<live, spent>>
        BY <2>1, <4>1
      <4>2. CASE /\ live' = (live \ {new[x].refresh}) \cup {issued + 1}
                 /\ spent' = spent \cup {new[x].refresh}
        <5>1. \A t \in live \cup spent : t # issued + 1 /\ t <= issued + 1
          BY <2>1
        <5>2. new[x].refresh <= issued + 1 /\ new[x].refresh # issued + 1
          BY <3>1, <5>1
        <5>3. issued + 1 # 0
          BY <2>1
        <5>4. live' \cap spent' = {}
          BY <3>1, <4>2, <5>1, <5>2, Rotation
        <5>5. 0 \notin live'
          BY <4>2, <5>3
        <5>6. \A t \in live' \cup spent' : t <= issued + 1
          BY <2>1, <4>2, <5>1, <5>2
        <5>7. QED
          BY <5>4, <5>5, <5>6
      <4>3. QED
        BY <3>1, <4>1, <4>2
    <3>5. QED
      BY <2>1, <3>1, <3>2, <3>3, <3>4
  <2>4. QED
    BY <2>2, <2>3
<1>7. ASSUME NEW x \in Calls, Answer(x) PROVE Tokens'
  BY <1>7, Credentials DEF Answer, TypeOK
<1>8. ASSUME NEW x \in Calls, Dump(x) PROVE Tokens'
  <2>1. file' = [file EXCEPT ![Provider(x)] = new[x]]
    BY <1>8, DumpEffect
  <2>2. UNCHANGED <<new, issued, live, spent>>
    BY <1>8 DEF Dump
  <2>3. QED
    BY <2>1, <2>2, JobType DEF TypeOK
<1>9. ASSUME NEW x \in Calls, DumpFails(x) PROVE Tokens'
  BY <1>9, Credentials DEF DumpFails, TypeOK
<1>10. ASSUME NEW x \in Calls, Release(x) PROVE Tokens'
  BY <1>10, Credentials DEF Release, TypeOK
<1>11. ASSUME NEW x \in Calls, Crash(x) PROVE Tokens'
  BY <1>11, Credentials DEF Crash, TypeOK
<1>12. ASSUME NEW p \in Providers, Expire(p) PROVE Tokens'
  BY <1>12, Credentials DEF Expire, TypeOK
<1>13. CASE UNCHANGED vars
  BY <1>13
<1>14. QED
  BY <1>1, <1>2, <1>3, <1>4, <1>5, <1>6, <1>7, <1>8, <1>9, <1>10, <1>11,
     <1>12, <1>13 DEF Next, Step, Ended

\* A step of one call leaves the other calls as they are.
LEMMA Others ==
  ASSUME TypeOK, NEW x \in Calls, Step(x) \/ Crash(x)
  PROVE  /\ job' = job
         /\ \A d \in Calls : d # x =>
              pc'[d] = pc[d] /\ data'[d] = data[d] /\ new'[d] = new[d]
<1> USE DEF TypeOK, Goto, Forget
<1>1. CASE Read(x)
  BY <1>1 DEF Read
<1>2. CASE Login(x)
  BY <1>2 DEF Login
<1>3. CASE Delete(x)
  BY <1>3 DEF Delete
<1>4. CASE Acquire(x)
  BY <1>4 DEF Acquire
<1>5. CASE Load(x)
  BY <1>5 DEF Load
<1>6. CASE Exchange(x)
  <2>1. CASE Goto(x, "failing") /\ UNCHANGED <<new, issued, live, spent>>
    BY <1>6, <2>1 DEF Exchange
  <2>2. CASE ~ (Goto(x, "failing") /\ UNCHANGED <<new, issued, live, spent>>)
    <3>1. Goto(x, "answer") /\ \A d \in Calls : d # x => new'[d] = new[d]
      BY <1>6, <2>2, Grant
    <3>2. job' = job /\ data' = data
      BY <1>6 DEF Exchange
    <3>3. QED
      BY <3>1, <3>2
  <2>3. QED
    BY <2>1, <2>2
<1>7. CASE Answer(x)
  BY <1>7 DEF Answer
<1>8. CASE Dump(x)
  BY <1>8 DEF Dump
<1>9. CASE DumpFails(x)
  BY <1>9 DEF DumpFails
<1>10. CASE Release(x)
  BY <1>10 DEF Release
<1>11. CASE Crash(x)
  BY <1>11 DEF Crash
<1>12. QED
  BY <1>1, <1>2, <1>3, <1>4, <1>5, <1>6, <1>7, <1>8, <1>9, <1>10, <1>11 DEF Step

\* The steps that make no token and store none: no call comes to hold a new
\* token, and one that loses it leaves the rotated one among the lost.
LEMMA Quiet ==
  ASSUME LockInv, NEW x \in Calls, Step(x) \/ Crash(x),
         ~ Login(x), ~ Exchange(x), ~ Dump(x)
  PROVE  /\ UNCHANGED <<file, job, issued, live, spent, replayed>> /\ lost \subseteq lost'
         /\ \A d \in Calls : Pending(d)' => Pending(d) /\ new'[d] = new[d]
         /\ \A d \in Calls :
              Rotated(d) => Rotated(d)' \/ file[Provider(d)].refresh \in lost'
<1>1. UNCHANGED <<file, job, issued, live, spent, replayed>> /\ lost \subseteq lost'
  BY DEF Step, Read, Delete, Acquire, Load, Answer, DumpFails, Release, Crash,
     endpoint, history
<1>2. \A d \in Calls : d # x =>
        /\ pc'[d] = pc[d] /\ data'[d] = data[d] /\ new'[d] = new[d]
        /\ Pending(d)' <=> Pending(d)
        /\ Rotated(d)' <=> Rotated(d)
  BY <1>1, Others DEF LockInv, Pending, Rotated, Provider
<1>3. /\ Pending(x)' => Pending(x) /\ new'[x] = new[x]
      /\ Rotated(x) => Rotated(x)' \/ file[Provider(x)].refresh \in lost'
  <2> USE DEF LockInv, TypeOK, Goto, Forget, Pending, Rotated, Provider
  <2>1. CASE Read(x)
    BY <2>1 DEF Read
  <2>2. CASE Delete(x)
    BY <2>2 DEF Delete
  <2>3. CASE Acquire(x)
    BY <2>3 DEF Acquire
  <2>4. CASE Load(x)
    <3>1. data'[x] = file /\ job' = job
      BY <2>4 DEF Load
    <3>2. CASE job[x].op = "request"
      BY <2>4, <3>1, <3>2 DEF Load, Current
    <3>3. CASE job[x].op # "request"
      BY <2>4, <3>1, <3>3 DEF Load
    <3>4. QED
      BY <3>2, <3>3
  <2>5. CASE Answer(x)
    BY <2>5, <1>1 DEF Answer, Abandoned, Loaded, Meant
  <2>6. CASE DumpFails(x)
    BY <2>6, <1>1 DEF DumpFails, Abandoned, Loaded
  <2>7. CASE Release(x)
    BY <2>7 DEF Release
  <2>8. CASE Crash(x)
    BY <2>8, <1>1 DEF Crash, Abandoned, Loaded
  <2>9. QED
    BY <2>1, <2>2, <2>3, <2>4, <2>5, <2>6, <2>7, <2>8 DEF Step
<1>4. QED
  BY <1>1, <1>2, <1>3

\* The refresh tokens are numbers.
LEMMA RefreshTypes ==
  ASSUME TypeOK
  PROVE  /\ issued \in Nat /\ \A p \in Providers : file[p].refresh \in Nat
         /\ \A c \in Calls : new[c].refresh \in Nat
BY Credentials DEF TypeOK

\* What a call that dumps is about to store: a new token, or none, or the
\* token that is there.
LEMMA DumpToken ==
  ASSUME LockInv, NEW x \in Calls, Dump(x)
  PROVE  \/ Pending(x)
         \/ new[x].refresh = 0
         \/ new[x].refresh = file[Provider(x)].refresh /\ ~ Rotated(x)
<1>1. pc[x] = "dump" /\ data[x] = file
  BY DEF Dump, LockInv, Loaded
<1>2. CASE job[x].op = "request"
  BY <1>1, <1>2 DEF Pending, Rotated
<1>3. CASE job[x].op = "login"
  BY <1>1, <1>3 DEF Pending
<1>4. CASE job[x].op = "delete"
  BY <1>1, <1>4 DEF LockInv, Meant
<1>5. QED
  BY <1>2, <1>3, <1>4, JobType DEF LockInv

\* A token has one place.
LEMMA UnsharedInductive ==
  LockInv /\ NoLostUpdate /\ Tokens /\ Unshared /\ [Next]_vars => Unshared'
<1> SUFFICES ASSUME LockInv, NoLostUpdate, Tokens, Unshared, [Next]_vars
             PROVE  Unshared'
  OBVIOUS
<1> TypeOK
  BY DEF LockInv
<1>1. ASSUME NEW x \in Calls, Step(x) \/ Crash(x), ~ Login(x), ~ Exchange(x), ~ Dump(x)
      PROVE  Unshared'
  <2>1. /\ UNCHANGED <<file, live>>
        /\ \A d \in Calls : Pending(d)' => Pending(d) /\ new'[d] = new[d]
    BY <1>1, Quiet
  <2>2. QED
    BY <2>1 DEF Unshared
<1>2. ASSUME NEW x \in Calls, Login(x) PROVE Unshared'
  <2>1. PICK r \in {0, issued + 1} :
          /\ new' = [new EXCEPT ![x] = Token(issued + 1, r)]
          /\ live' = live \cup ({r} \ {0})
    BY <1>2 DEF Login
  <2>2. new'[x].refresh = r
    BY <2>1 DEF TypeOK, Token
  <2>3. file' = file /\ \A d \in Calls : d # x =>
          new'[d] = new[d] /\ (Pending(d)' <=> Pending(d))
    BY <1>2, Others DEF Login, Step, Pending, Rotated, Provider
  <2>4. /\ \A p \in Providers : file[p].refresh # issued + 1
        /\ \A d \in Calls : new[d].refresh # issued + 1
    BY RefreshTypes DEF Tokens
  <2>5. QED
    BY <2>1, <2>2, <2>3, <2>4 DEF Unshared
<1>3. ASSUME NEW x \in Calls, Exchange(x) PROVE Unshared'
  <2>1. file' = file /\ data' = data /\ \A d \in Calls : d # x =>
          new'[d] = new[d] /\ (Pending(d)' <=> Pending(d))
    BY <1>3, Others DEF Exchange, Step, Pending, Rotated, Provider
  <2>2. /\ new[x] = file[Provider(x)] /\ data[x] = file
        /\ job'[x].op = "request" /\ job' = job
    BY <1>3 DEF Exchange, LockInv, Meant, Loaded
  <2>3. CASE Goto(x, "failing") /\ UNCHANGED <<new, issued, live, spent>>
    <3>1. ~ Pending(x)'
      BY <2>2, <2>3 DEF Pending, Rotated, Goto, TypeOK
    <3>2. QED
      BY <2>1, <2>3, <3>1 DEF Unshared
  <2>4. CASE ~ (Goto(x, "failing") /\ UNCHANGED <<new, issued, live, spent>>)
    <3>1. \/ new'[x].refresh = new[x].refresh /\ UNCHANGED <<live, spent>>
          \/ /\ new'[x].refresh = issued + 1
             /\ live' = (live \ {new[x].refresh}) \cup {issued + 1}
      BY <1>3, <2>4, Grant
    <3>2. CASE new'[x].refresh = new[x].refresh /\ UNCHANGED <<live, spent>>
      <4>1. ~ Pending(x)'
        BY <2>1, <2>2, <3>2 DEF Pending, Rotated, Provider
      <4>2. QED
        BY <2>1, <3>2, <4>1 DEF Unshared
    <3>3. CASE /\ new'[x].refresh = issued + 1
               /\ live' = (live \ {new[x].refresh}) \cup {issued + 1}
      <4>1. /\ \A p \in Providers : file[p].refresh # issued + 1
            /\ \A d \in Calls : new[d].refresh # issued + 1
        BY RefreshTypes DEF Tokens
      <4>2. \A d \in Calls : Pending(d) /\ new[d].refresh # 0 =>
              new[d].refresh # new[x].refresh
        BY <2>2, JobType DEF Unshared
      <4>3. QED
        BY <2>1, <3>3, <4>1, <4>2 DEF Unshared
    <3>4. QED
      BY <3>1, <3>2, <3>3
  <2>5. QED
    BY <2>3, <2>4
<1>4. ASSUME NEW x \in Calls, Dump(x) PROVE Unshared'
  <2>1. live' = live /\ new' = new /\ \A d \in Calls : d # x =>
          (Pending(d)' <=> Pending(d))
    BY <1>4, Others DEF Dump, Step, Pending, Rotated, Provider, endpoint
  <2>2. ~ Pending(x)'
    BY <1>4 DEF Dump, Goto, Pending, Rotated, TypeOK
  <2>3. /\ Provider(x) \in Providers /\ file'[Provider(x)] = new[x]
        /\ \A q \in Providers : q # Provider(x) => file'[q] = file[q]
    BY <1>4, DumpEffect, JobType DEF TypeOK
  <2>4. CASE Pending(x)
    BY <2>1, <2>2, <2>3, <2>4 DEF Unshared
  <2>5. CASE new[x].refresh = 0
    BY <2>1, <2>2, <2>3, <2>5 DEF Unshared
  <2>6. CASE new[x].refresh = file[Provider(x)].refresh
    BY <2>1, <2>2, <2>3, <2>6 DEF Unshared
  <2>7. QED
    BY <1>4, <2>4, <2>5, <2>6, DumpToken
<1>5. ASSUME NEW p \in Providers, Expire(p) PROVE Unshared'
  BY <1>5 DEF Expire, Unshared, Pending, Rotated, Provider, calls
<1>6. CASE UNCHANGED vars
  BY <1>6 DEF Unshared, Pending, Rotated, Provider, vars, calls, endpoint
<1>7. QED
  BY <1>1, <1>2, <1>3, <1>4, <1>5, <1>6 DEF Next, Ended

\* A stored refresh token stays usable, or its successor is on the way, or
\* it is among the lost.
LEMMA UsableInductive ==
  LockInv /\ NoLostUpdate /\ Tokens /\ Unshared /\ StoredTokenUsable /\ [Next]_vars
    => StoredTokenUsable'
<1> SUFFICES ASSUME LockInv, NoLostUpdate, Tokens, Unshared, StoredTokenUsable,
                    [Next]_vars
             PROVE  StoredTokenUsable'
  OBVIOUS
<1> TypeOK
  BY DEF LockInv
<1>1. ASSUME NEW x \in Calls, Step(x) \/ Crash(x), ~ Login(x), ~ Exchange(x), ~ Dump(x)
      PROVE  StoredTokenUsable'
  <2>1. /\ UNCHANGED <<file, job, live>> /\ lost \subseteq lost'
        /\ \A d \in Calls :
             Rotated(d) => Rotated(d)' \/ file[Provider(d)].refresh \in lost'
    BY <1>1, Quiet
  <2>2. QED
    BY <2>1 DEF StoredTokenUsable, Provider
<1>2. ASSUME NEW x \in Calls, Login(x) PROVE StoredTokenUsable'
  <2>1. UNCHANGED <<file, job, lost>> /\ live \subseteq live'
    BY <1>2 DEF Login, history
  <2>2. \A d \in Calls : Rotated(d) => Rotated(d)'
    BY <1>2, Others DEF Login, Step, Rotated, Provider
  <2>3. QED
    BY <2>1, <2>2 DEF StoredTokenUsable, Provider
<1>3. ASSUME NEW x \in Calls, Exchange(x) PROVE StoredTokenUsable'
  <2>1. UNCHANGED <<file, job, data, lost>> /\ ~ Rotated(x)
    BY <1>3 DEF Exchange, Rotated
  <2>2. \A d \in Calls : Rotated(d) => Rotated(d)'
    BY <1>3, <2>1, Others DEF Step, Rotated, Provider
  <2>3. /\ new[x] = file[Provider(x)] /\ data[x] = file /\ job[x].op = "request"
        /\ new[x].refresh # 0
    BY <1>3 DEF Exchange, LockInv, Meant, Loaded
  <2>4. CASE UNCHANGED live
    BY <2>1, <2>2, <2>4 DEF StoredTokenUsable, Provider
  <2>5. CASE ~ UNCHANGED live
    <3>1. /\ Goto(x, "answer") /\ new'[x].refresh = issued + 1
          /\ live' = (live \ {new[x].refresh}) \cup {issued + 1}
      BY <1>3, <2>5, Grant
    <3>2. new[x].refresh # issued + 1
      BY RefreshTypes DEF Tokens
    <3>3. Rotated(x)'
      BY <2>1, <2>3, <3>1, <3>2 DEF Rotated, Provider, Goto, TypeOK
    <3>4. \A p \in Providers : p # Provider(x) /\ file[p].refresh # 0 =>
            file[p].refresh # new[x].refresh
      BY <2>3, JobType DEF Unshared
    <3>5. QED
      BY <2>1, <2>2, <3>1, <3>3, <3>4 DEF StoredTokenUsable, Provider
  <2>6. QED
    BY <2>4, <2>5
<1>4. ASSUME NEW x \in Calls, Dump(x) PROVE StoredTokenUsable'
  <2>1. UNCHANGED <<job, data, live, lost>>
    BY <1>4 DEF Dump, endpoint
  <2>2. \A d \in Calls : d # x => ~ Rotated(d)
    BY <1>4 DEF Dump, LockInv, Mutex, Critical, Rotated
  <2>3. /\ Provider(x) \in Providers /\ file'[Provider(x)] = new[x]
        /\ \A q \in Providers : q # Provider(x) => file'[q] = file[q]
    BY <1>4, DumpEffect, JobType DEF TypeOK
  <2>4. \A q \in Providers : q # Provider(x) /\ file[q].refresh # 0 =>
          file[q].refresh \in live \cup lost
    BY <2>2 DEF StoredTokenUsable
  <2>5. new[x].refresh # 0 => new[x].refresh \in live \cup lost
    <3>1. CASE Pending(x)
      BY <3>1 DEF Unshared
    <3>2. CASE new[x].refresh = file[Provider(x)].refresh /\ ~ Rotated(x)
      BY <2>2, <2>3, <3>2 DEF StoredTokenUsable
    <3>3. QED
      BY <1>4, <3>1, <3>2, DumpToken
  <2>6. QED
    BY <2>1, <2>3, <2>4, <2>5 DEF StoredTokenUsable
<1>5. ASSUME NEW p \in Providers, Expire(p) PROVE StoredTokenUsable'
  BY <1>5 DEF Expire, StoredTokenUsable, Rotated, Provider, calls, history
<1>6. CASE UNCHANGED vars
  BY <1>6 DEF StoredTokenUsable, Rotated, Provider, vars, calls, endpoint, history
<1>7. QED
  BY <1>1, <1>2, <1>3, <1>4, <1>5, <1>6 DEF Next, Ended

\* The token a call presents is the one in the file; if it was spent, the
\* call that spent it failed, since no other call is in the lock now.
LEMMA NoDoubleRefreshInductive ==
  IInv /\ [Next]_vars => NoDoubleRefresh'
<1> SUFFICES ASSUME IInv, [Next]_vars PROVE NoDoubleRefresh'
  OBVIOUS
<1> USE DEF IInv
<1>1. ASSUME NEW x \in Calls, Exchange(x) PROVE NoDoubleRefresh'
  <2>1. /\ new[x] = file[Provider(x)] /\ new[x].refresh # 0
        /\ Provider(x) \in Providers
    BY <1>1, JobType DEF Exchange, LockInv, Meant
  <2>2. \A d \in Calls : ~ Rotated(d)
    BY <1>1 DEF Exchange, LockInv, Mutex, Critical, Rotated
  <2>3. new[x].refresh \in spent => new[x].refresh \in lost
    BY <2>1, <2>2 DEF StoredTokenUsable, Tokens
  <2>4. lost' = lost
        /\ replayed' = IF new[x].refresh \in spent
                       THEN replayed \cup {new[x].refresh} ELSE replayed
    BY <1>1 DEF Exchange
  <2>5. QED
    BY <2>3, <2>4 DEF NoDoubleRefresh
<1>2. ASSUME NEW x \in Calls, Step(x) \/ Crash(x), ~ Exchange(x)
      PROVE  NoDoubleRefresh'
  <2>1. CASE Login(x)
    BY <2>1 DEF Login, NoDoubleRefresh, history
  <2>2. CASE Dump(x)
    BY <2>2 DEF Dump, NoDoubleRefresh
  <2>3. CASE ~ Login(x) /\ ~ Dump(x)
    BY <1>2, <2>3, Quiet DEF NoDoubleRefresh
  <2>4. QED
    BY <2>1, <2>2, <2>3
<1>3. ASSUME NEW p \in Providers, Expire(p) PROVE NoDoubleRefresh'
  BY <1>3 DEF Expire, NoDoubleRefresh, history
<1>4. CASE UNCHANGED vars
  BY <1>4 DEF NoDoubleRefresh, vars, history
<1>5. QED
  BY <1>1, <1>2, <1>3, <1>4 DEF Next, Ended

\* The invariant holds at first.
LEMMA IInvInitial == Init => IInv
<1> SUFFICES ASSUME Init PROVE IInv
  OBVIOUS
<1>1. TypeOK
  BY Credentials DEF Init, TypeOK
<1>2. /\ \A p \in Providers : file[p].refresh \in {0, 1}
      /\ \A p, q \in Providers :
           p # q /\ file[p].refresh # 0 => file[p].refresh # file[q].refresh
  <2>1. \A p \in Providers : file[p] \in {None, Key, Token(1, 1), Token(1, 0)}
    BY DEF Init
  <2>2. /\ None.refresh = 0 /\ Key.refresh = 0
        /\ Token(1, 1).refresh = 1 /\ Token(1, 0).refresh = 0
        /\ Token(1, 1).type = "oauth"
    BY DEF None, Key, Token
  <2>3. \A p \in Providers :
          /\ file[p].refresh \in {0, 1}
          /\ file[p].refresh # 0 => file[p].refresh = 1 /\ file[p].type = "oauth"
    BY <2>1, <2>2
  <2>4. QED
    BY <2>3 DEF Init
<1>3. \A c \in Calls : /\ pc[c] = "idle" /\ new[c].refresh = 0
                       /\ ~ Rotated(c) /\ ~ Pending(c)
  BY DEF Init, Rotated, Pending, None
<1>4. Mutex /\ Loaded /\ Meant
  BY <1>3 DEF Mutex, Loaded, Meant, Critical
<1>5. Tokens /\ Unshared
  BY <1>2, <1>3 DEF Tokens, Unshared, Init
<1>6. StoredTokenUsable /\ NoLostUpdate /\ NoDoubleRefresh
  BY <1>2 DEF Init, StoredTokenUsable, NoLostUpdate, NoDoubleRefresh
<1>7. QED
  BY <1>1, <1>4, <1>5, <1>6 DEF IInv, LockInv

\* Every step keeps it, if flock works.
LEMMA IInvInductive == LockWorks /\ IInv /\ [Next]_vars => IInv'
BY TypeInductive, MutexInductive, LoadedInductive, MeantInductive,
   NoLostUpdateInductive, TokensInductive, UnsharedInductive, UsableInductive,
   NoDoubleRefreshInductive DEF IInv, LockInv

\* Types, in any case.
THEOREM TypeCorrect == Spec => []TypeOK
<1>1. Init => TypeOK
  BY IInvInitial DEF IInv, LockInv
<1>2. QED
  BY <1>1, TypeInductive, PTL DEF Spec

\* If flock works, the invariant holds of every history.
THEOREM Invariant == LockWorks => (Spec => []IInv)
<1> SUFFICES ASSUME LockWorks PROVE Spec => []IInv
  OBVIOUS
<1>1. IInv /\ [Next]_vars => IInv'
  BY IInvInductive
<1>2. QED
  BY <1>1, IInvInitial, PTL DEF Spec

\* FileCredentialStore.modify under a working flock: no call undoes what
\* another stored, for its own provider or for another one.
THEOREM LostUpdates == LockWorks => (Spec => []NoLostUpdate)
<1>1. IInv => NoLostUpdate
  BY DEF IInv
<1>2. QED
  BY <1>1, Invariant, PTL

\* A refresh token that was rotated away is presented again only if its
\* successor was lost in a failure.
THEOREM DoubleRefreshes == LockWorks => (Spec => []NoDoubleRefresh)
<1>1. IInv => NoDoubleRefresh
  BY DEF IInv
<1>2. QED
  BY <1>1, Invariant, PTL

\* The file keeps a usable refresh token, failures in mid-refresh apart.
THEOREM TokensUsable == LockWorks => (Spec => []StoredTokenUsable)
<1>1. IInv => StoredTokenUsable
  BY DEF IInv
<1>2. QED
  BY <1>1, Invariant, PTL

\* A refresh never changes what kind of credential a provider has.
THEOREM Resurrections == LockWorks => (Spec => NoResurrection)
<1> SUFFICES ASSUME LockWorks PROVE Spec => NoResurrection
  OBVIOUS
<1> DEFINE Kept ==
      \A p \in Providers :
         \/ file'[p].type = file[p].type
            /\ (file'[p].refresh = 0 <=> file[p].refresh = 0)
         \/ \E c \in Calls : /\ Provider(c) = p /\ job[c].op # "request"
                            /\ pc[c] = "dump" /\ pc'[c] = "ok"
<1>1. ASSUME IInv, [Next]_vars PROVE [Kept]_vars
  <2>1. ASSUME NEW x \in Calls, Dump(x) PROVE Kept
    <3>1. file' = [file EXCEPT ![Provider(x)] = new[x]]
          /\ pc[x] = "dump" /\ pc'[x] = "ok"
      BY <1>1, <2>1, DumpEffect DEF IInv, LockInv, TypeOK, Dump, Goto
    <3>2. CASE job[x].op = "request"
      BY <1>1, <3>1, <3>2 DEF IInv, LockInv, Meant, TypeOK
    <3>3. CASE job[x].op # "request"
      BY <1>1, <3>1, <3>3 DEF IInv, LockInv, TypeOK
    <3>4. QED
      BY <3>2, <3>3
  <2>2. ASSUME file' = file PROVE Kept
    BY <2>2
  <2>3. ASSUME NEW x \in Calls, Step(x) \/ Crash(x), ~ Dump(x) PROVE file' = file
    BY <2>3 DEF Step, Read, Login, Delete, Acquire, Load, Exchange, Answer,
       DumpFails, Release, Crash
  <2>4. ASSUME NEW p \in Providers, Expire(p) PROVE file' = file
    BY <2>4 DEF Expire
  <2>5. QED
    BY <1>1, <2>1, <2>2, <2>3, <2>4 DEF Next, Ended
<1>2. Spec => []IInv
  BY Invariant
<1>3. QED
  BY <1>1, <1>2, PTL DEF Spec, NoResurrection
-----------------------------------------------------------------------------
(***************************************************************************)
(* CredentialStore implements SerializedStore.                             *)
(***************************************************************************)
\* b is what a refresh may make of a.
Newer(a, b) == Promise!Refreshed(a, b)

\* Grants are counted, and what a call is about to store is what its kind of
\* call may make of the entry in the file.
Prepared ==
    /\ \A p \in Providers : file[p].access <= issued
    /\ \A c \in Calls :
          /\ new[c].access <= issued
          /\ pc[c] \in {"lock", "load", "dump"} /\ job[c].op = "login" =>
                new[c].type = "oauth"
          /\ pc[c] \in {"lock", "load", "dump"} /\ job[c].op = "delete" =>
                new[c].type = "none"
          /\ pc[c] = "answer" => Newer(file[Provider(c)], new[c])
          /\ pc[c] = "dump" /\ job[c].op = "request" =>
                new[c] = file[Provider(c)] \/ Newer(file[Provider(c)], new[c])

\* What a grant makes of the token it was asked for.
LEMMA NewTokenIsNewer ==
  ASSUME NEW old \in Credential, old.type = "oauth", old.refresh # 0,
         NEW n \in Nat, old.access < n, NEW rotated \in BOOLEAN, n # 0
  PROVE  /\ Newer(old, NewToken(n, rotated, old.refresh))
         /\ NewToken(n, rotated, old.refresh).access = n
BY Credentials DEF Newer, Promise!Refreshed, NewToken, Token
\* Every step keeps it.
LEMMA PreparedInductive == LockInv /\ Prepared /\ [Next]_vars => Prepared'
<1> SUFFICES ASSUME TypeOK, Mutex, Loaded, Meant, Prepared, [Next]_vars
             PROVE  Prepared'
  BY DEF LockInv
<1> USE DEF Prepared, vars, calls, endpoint, history, Goto, Critical, Forget, Provider
<1>0. issued \in Nat /\ \A n \in Nat : n <= issued => n <= issued + 1
  BY DEF TypeOK
<1>1. ASSUME NEW x \in Calls, Read(x) PROVE Prepared'
  BY <1>1 DEF Read, TypeOK
<1>2. ASSUME NEW x \in Calls, Login(x) PROVE Prepared'
  <2>1. issued' = issued + 1 /\ file' = file /\ job' = job
        /\ pc' = [pc EXCEPT ![x] = "lock"] /\ job[x].op = "login"
    BY <1>2 DEF Login
  <2>2. PICK r \in {0, issued'} : new' = [new EXCEPT ![x] = Token(issued', r)]
    BY <1>2 DEF Login
  <2>3. new'[x].type = "oauth" /\ new'[x].access = issued + 1
        /\ \A d \in Calls : d # x => new'[d] = new[d]
    BY <2>1, <2>2 DEF Token, TypeOK
  <2>4. /\ \A p \in Providers : file[p].access \in Nat
        /\ \A c \in Calls : new[c].access \in Nat
    BY Credentials DEF TypeOK
  <2>5. QED
    BY <1>0, <2>1, <2>3, <2>4 DEF TypeOK
<1>3. ASSUME NEW x \in Calls, Delete(x) PROVE Prepared'
  <2>1. None.type = "none" /\ None.access <= issued
    BY <1>0 DEF None
  <2>2. QED
    BY <1>3, <2>1 DEF Delete, TypeOK
<1>4. ASSUME NEW x \in Calls, Acquire(x) PROVE Prepared'
  BY <1>4 DEF Acquire, TypeOK
<1>5. ASSUME NEW x \in Calls, Load(x) PROVE Prepared'
  <2>1. job[x].provider \in Providers
    BY JobType
  <2>2. QED
    BY <1>5, <2>1 DEF Load, TypeOK, Current
<1>6. ASSUME NEW x \in Calls, Exchange(x) PROVE Prepared'
  <2>1. CASE Goto(x, "failing") /\ UNCHANGED <<new, issued, live, spent>>
    BY <1>6, <2>1 DEF Exchange, TypeOK
  <2>2. CASE ~ (Goto(x, "failing") /\ UNCHANGED <<new, issued, live, spent>>)
    <3> DEFINE old == file[Provider(x)]
    <3>1. /\ new[x] = old /\ old \in Credential /\ old.type = "oauth" /\ old.refresh # 0
          /\ job[x].op = "request"
      BY <1>6, JobType DEF Exchange, Meant
    <3>2. PICK rotated \in BOOLEAN :
            new' = [new EXCEPT ![x] = NewToken(issued', rotated, new[x].refresh)]
      BY <1>6, <2>2 DEF Exchange
    <3>3. issued' = issued + 1 /\ file' = file /\ job' = job
          /\ pc' = [pc EXCEPT ![x] = "answer"]
      BY <1>6, <2>2, Grant DEF Exchange
    <3>4. old.access \in Nat /\ old.access <= issued
      BY <3>1, JobType, Credentials
    <3>5. old.access < issued + 1 /\ issued + 1 # 0 /\ issued + 1 \in Nat
      BY <1>0, <3>4
    <3>6. /\ Newer(old, NewToken(issued + 1, rotated, old.refresh))
          /\ NewToken(issued + 1, rotated, old.refresh).access = issued + 1
      BY <3>1, <3>5, NewTokenIsNewer
    <3>7. Newer(old, new'[x]) /\ new'[x].access = issued + 1
          /\ \A d \in Calls : d # x => new'[d] = new[d]
      BY <3>1, <3>2, <3>3, <3>6 DEF TypeOK
    <3>8. /\ \A p \in Providers : file[p].access \in Nat
          /\ \A c \in Calls : new[c].access \in Nat
      BY Credentials DEF TypeOK
    <3>9. QED
      BY <1>0, <3>1, <3>3, <3>7, <3>8 DEF TypeOK
  <2>3. QED
    BY <2>1, <2>2
<1>7. ASSUME NEW x \in Calls, Answer(x) PROVE Prepared'
  <2>1. job[x].op = "request"
    BY <1>7 DEF Answer, Meant
  <2>2. QED
    BY <1>7, <2>1 DEF Answer, TypeOK
<1>8. ASSUME NEW x \in Calls, Dump(x) PROVE Prepared'
  <2>1. /\ file' = [file EXCEPT ![job[x].provider] = new[x]]
        /\ pc' = [pc EXCEPT ![x] = "ok"] /\ UNCHANGED <<job, new, issued>>
    BY <1>8 DEF Dump, Loaded
  <2>2. \A d \in Calls : d # x => pc[d] \notin Critical
    BY <1>8 DEF Dump, Mutex
  <2>3. QED
    BY <2>1, <2>2 DEF TypeOK
<1>9. ASSUME NEW x \in Calls, DumpFails(x) PROVE Prepared'
  BY <1>9 DEF DumpFails, TypeOK
<1>10. ASSUME NEW x \in Calls, Release(x) PROVE Prepared'
  BY <1>0, <1>10 DEF Release, TypeOK, None
<1>11. ASSUME NEW x \in Calls, Crash(x) PROVE Prepared'
  BY <1>0, <1>11 DEF Crash, TypeOK, None
<1>12. ASSUME NEW p \in Providers, Expire(p) PROVE Prepared'
  BY <1>12 DEF Expire, TypeOK
<1>13. CASE UNCHANGED vars
  BY <1>13
<1>14. QED
  BY <1>1, <1>2, <1>3, <1>4, <1>5, <1>6, <1>7, <1>8, <1>9, <1>10, <1>11,
     <1>12, <1>13 DEF Next, Step, Ended

LEMMA PreparedInitial == Init => Prepared
<1> SUFFICES ASSUME Init PROVE Prepared
  OBVIOUS
<1>1. /\ issued = 1 /\ \A c \in Calls : pc[c] = "idle" /\ new[c] = None
      /\ \A p \in Providers : file[p] \in {None, Key, Token(1, 1), Token(1, 0)}
  BY DEF Init
<1>2. \A d \in {None, Key, Token(1, 1), Token(1, 0)} : d.access <= 1
  BY DEF None, Key, Token
<1>3. QED
  BY <1>1, <1>2 DEF Prepared, None

-----------------------------------------------------------------------------
(***************************************************************************)
(* The steps, as the callers see them.                                     *)
(***************************************************************************)
Outcomes == [c \in Calls |-> Outcome(c)]

\* A call that moves within what its caller calls one outcome.
LEMMA SameOutcome ==
  ASSUME NEW x \in Calls, TypeOK, NEW l, Goto(x, l),
         \/ {pc[x], l} \subseteq {"ok", "done"}
         \/ {pc[x], l} \subseteq {"failing", "failed"}
         \/ {pc[x], l} \cap {"ok", "done", "failing", "failed", "crashed"} = {}
  PROVE  Outcomes' = Outcomes
<1>1. \A d \in Calls : Outcome(d)' = Outcome(d)
  BY DEF Goto, TypeOK, Outcome
<1>2. QED
  BY <1>1 DEF Outcomes

\* A call whose outcome becomes o.
LEMMA NewOutcome ==
  ASSUME NEW x \in Calls, TypeOK, NEW l, Goto(x, l), NEW o,
         \/ l \in {"ok", "done"} /\ o = "done"
         \/ l = "failing" /\ o = "failed"
         \/ l = "crashed" /\ o = "crashed"
  PROVE  Outcomes' = [Outcomes EXCEPT ![x] = o]
<1>1. Outcome(x)' = o
  BY DEF Goto, TypeOK, Outcome
<1>2. \A d \in Calls : d # x => Outcome(d)' = Outcome(d)
  BY DEF Goto, TypeOK, Outcome
<1>3. QED
  BY <1>1, <1>2 DEF Outcomes
\* Every step is one of the promise's, or none.
LEMMA Serializes ==
  IInv /\ Prepared /\ [Next]_vars => [Promise!Next]_<<file, job, Outcomes>>
<1> SUFFICES ASSUME IInv, TypeOK, Mutex, Loaded, Meant, Prepared, [Next]_vars
             PROVE  [Promise!Next]_<<file, job, Outcomes>>
  BY DEF IInv, LockInv
<1> DEFINE Quietly == UNCHANGED <<file, job, Outcomes>>
<1> USE DEF Promise!EndAs, Outcomes
<1>1. ASSUME NEW x \in Calls, Read(x) PROVE Quietly \/ Promise!Modify(x)
  <2>1. CASE Goto(x, "lock")
    BY <1>1, <2>1, SameOutcome DEF Read
  <2>2. CASE Goto(x, "done")
    <3>1. Outcomes' = [Outcomes EXCEPT ![x] = "done"] /\ UNCHANGED <<file, job>>
      BY <1>1, <2>2, NewOutcome DEF Read
    <3>2. Outcomes[x] = "open" /\ job[x].op = "request"
      BY <1>1 DEF Read, Outcome
    <3>3. QED
      BY <3>1, <3>2, JobType DEF Promise!Modify, Promise!MayStore, Provider, TypeOK
  <2>3. QED
    BY <1>1, <2>1, <2>2 DEF Read
<1>2. ASSUME NEW x \in Calls, Login(x) \/ Delete(x) \/ Acquire(x) PROVE Quietly
  BY <1>2, SameOutcome DEF Login, Delete, Acquire
<1>3. ASSUME NEW x \in Calls, Outcomes[x] = "open", Goto(x, "failing"),
             UNCHANGED <<file, job>>
      PROVE  Promise!Fail(x)
  BY <1>3, NewOutcome DEF Promise!Fail
<1>4. ASSUME NEW x \in Calls, Load(x) PROVE Quietly \/ Promise!Fail(x)
  <2>1. CASE Goto(x, "failing")
    BY <1>3, <1>4, <2>1 DEF Load, Outcome
  <2>2. CASE Goto(x, "dump") \/ Goto(x, "exchange")
    BY <1>4, <2>2, SameOutcome DEF Load
  <2>3. QED
    BY <1>4, <2>1, <2>2 DEF Load
<1>5. ASSUME NEW x \in Calls, Exchange(x) PROVE Quietly \/ Promise!Fail(x)
  <2>1. CASE Goto(x, "failing")
    BY <1>3, <1>5, <2>1 DEF Exchange, Outcome
  <2>2. CASE Goto(x, "answer")
    BY <1>5, <2>2, SameOutcome DEF Exchange
  <2>3. QED
    BY <1>5, <2>1, <2>2 DEF Exchange
<1>6. ASSUME NEW x \in Calls, Answer(x) PROVE Quietly \/ Promise!Fail(x)
  <2>1. CASE Goto(x, "failing")
    BY <1>3, <1>6, <2>1 DEF Answer, Outcome
  <2>2. CASE Goto(x, "dump")
    BY <1>6, <2>2, SameOutcome DEF Answer
  <2>3. QED
    BY <1>6, <2>1, <2>2 DEF Answer
<1>7. ASSUME NEW x \in Calls, Dump(x) PROVE Promise!Modify(x)
  <2> DEFINE p == job[x].provider
  <2>1. file' = [file EXCEPT ![p] = new[x]] /\ job' = job /\ Goto(x, "ok")
    BY <1>7 DEF Dump, Loaded, Provider
  <2>2. p \in Providers /\ job[x].op \in {"request", "login", "delete"}
    BY JobType DEF Provider
  <2>3. file'[p] = new[x] /\ file' = [file EXCEPT ![p] = file'[p]]
    BY <2>1, <2>2 DEF TypeOK
  <2>4. Promise!MayStore(job[x].op, file[p], new[x])
    BY <1>7, <2>2 DEF Dump, Prepared, Promise!MayStore, Newer, Provider
  <2>5. Outcomes[x] = "open" /\ Outcomes' = [Outcomes EXCEPT ![x] = "done"]
    BY <1>7, <2>1, NewOutcome DEF Dump, Outcome
  <2>6. QED
    BY <2>1, <2>3, <2>4, <2>5 DEF Promise!Modify
<1>8. ASSUME NEW x \in Calls, DumpFails(x) PROVE Promise!Fail(x)
  BY <1>3, <1>8 DEF DumpFails, Outcome
<1>9. ASSUME NEW x \in Calls, Release(x) PROVE Quietly
  BY <1>9, SameOutcome DEF Release
<1>10. ASSUME NEW x \in Calls, Crash(x) PROVE Promise!Crash(x)
  <2>1. Outcomes[x] # "crashed"
    BY <1>10 DEF Crash, Outcome, Critical
  <2>2. QED
    BY <1>10, <2>1, NewOutcome DEF Crash, Promise!Crash
<1>11. ASSUME NEW q \in Providers, Expire(q) PROVE Quietly
  BY <1>11 DEF Expire, calls, Outcome
<1>12. CASE UNCHANGED vars
  BY <1>12 DEF vars, calls, Outcome
<1>13. QED
  BY <1>1, <1>2, <1>4, <1>5, <1>6, <1>7, <1>8, <1>9, <1>10, <1>11, <1>12
     DEF Next, Step, Ended, Promise!Next

\* "Serialized read-modify-write", if flock works: FileCredentialStore.modify
\* implements a store whose calls take effect one at a time, each at one
\* moment and on the entry as it is then, however they overlap, fail or die.
THEOREM Serialized == LockWorks => (Spec => IsSerialized)
<1> SUFFICES ASSUME LockWorks PROVE Spec => IsSerialized
  OBVIOUS
<1>1. Init => Promise!Init
  BY DEF Init, Promise!Init, Outcome
<1>2. IInv /\ [Next]_vars /\ Prepared => Prepared'
  BY PreparedInductive DEF IInv
<1>3. IInv /\ Prepared /\ [Next]_vars =>
        [Promise!Next]_<<file, job, [c \in Calls |-> Outcome(c)]>>
  BY Serializes DEF Outcomes
<1>4. QED
  BY <1>1, <1>2, <1>3, PreparedInitial, Invariant, PTL
     DEF Spec, IsSerialized, Promise!Spec
=============================================================================
