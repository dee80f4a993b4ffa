--------------------------- MODULE UserFilesProofs ---------------------------
(***************************************************************************)
(* Proofs about UserFiles, for any number of processes, providers, models  *)
(* and operations, and any cap of the history.                             *)
(***************************************************************************)
EXTENDS UserFiles, TLAPS

(***************************************************************************)
(* Types                                                                   *)
(***************************************************************************)
\* What a key of the settings can hold, and what a change can give it.
Field(key) == CASE key = "provider" -> Providers \cup {None}
                [] key = "effort"   -> Efforts
                [] key = "model"    -> Models \cup {None, Unset}
                [] OTHER            -> Profiles \cup {None}
Given(key) == IF key \in Providers THEN Profiles ELSE Field(key)

AllSettings == {s \in [Keys -> Values] : \A k \in Keys : s[k] \in Field(k)}
Changes == {c \in UNION {[K -> Values] : K \in SUBSET Keys} :
                \A k \in DOMAIN c : c[k] \in Given(k)}
Caches == [Endpoints -> Lists \cup {None}]
Histories == {h \in [kept : Seq(Lines), last : Entries \cup {<<>>}] :
                Len(h.kept) < Cap}

SettingsJobs == [file : {"settings"}, todo : Seq(Changes),
                 held : AllSettings \cup {<<>>}, read : BOOLEAN, pick : BOOLEAN]
HistoryJobs  == [file : {"history"}, todo : Seq(Entries),
                 held : Seq(Lines), read : BOOLEAN, pick : BOOLEAN]
Jobs == {j \in SettingsJobs \cup HistoryJobs :
            /\ Len(j.todo) <= 2
            /\ j.read => j.todo # <<>>
            /\ j.read /\ j.file = "settings" => j.held \in AllSettings}
Fetches == {f \in [end : Endpoints \cup {None}, list : Lists \cup {None},
                   held : Caches \cup {<<>>}, read : BOOLEAN] :
            /\ f.end # None => f.list \in Lists
            /\ f.read => f.held \in Caches /\ f.end # None}
Tables == [Providers -> Profiles \cup {None}]
Actives == [name : Providers \cup {None}, wire : Wires \cup {None},
            model : Models \cup {Unset}, effort : Efforts]

\* The types of the model, with those of what a process holds in memory.
TypeInv ==
    /\ TypeOK
    /\ settings \in AllSettings /\ wanted \in AllSettings
    /\ job \in [Procs -> Jobs] /\ fetch \in [Procs -> Fetches]
    /\ listed \in Caches

LEMMA KeyTypes ==
  /\ {"provider", "model", "effort"} \subseteq Keys /\ Providers \subseteq Keys
  /\ "provider" \notin Providers /\ "model" \notin Providers
  /\ "effort" \notin Providers
  /\ \A n \in Providers : Field(n) = Profiles \cup {None} /\ Given(n) = Profiles
  /\ Field("provider") = Providers \cup {None}
  /\ Given("provider") = Providers \cup {None}
  /\ Field("model") = Models \cup {None, Unset}
  /\ Given("model") = Models \cup {None, Unset}
  /\ Field("effort") = Efforts /\ Given("effort") = Efforts
  /\ \A k \in Keys : Given(k) \subseteq Field(k)
  /\ \A k \in Keys : Field(k) \subseteq Values
<1>1. /\ {"provider", "model", "effort"} \subseteq Keys /\ Providers \subseteq Keys
      /\ "provider" \notin Providers /\ "model" \notin Providers
      /\ "effort" \notin Providers
  BY FileConstants DEF Keys
<1>2. /\ Field("provider") = Providers \cup {None}
      /\ Field("model") = Models \cup {None, Unset}
      /\ Field("effort") = Efforts
  BY DEF Field
<1>3. ASSUME NEW n \in Providers PROVE Field(n) = Profiles \cup {None}
  <2>1. n # "provider" /\ n # "model" /\ n # "effort"
    BY <1>1
  <2>2. QED
    BY <2>1 DEF Field
<1>4. \A k \in Keys : k \in Providers \/ k \in {"provider", "model", "effort"}
  BY DEF Keys
<1>5. \A k \in Keys : Given(k) \subseteq Field(k)
  BY <1>3 DEF Given
<1>6. Profiles \cup {None} \subseteq Values /\ Providers \cup {None} \subseteq Values
      /\ Models \cup {None, Unset} \subseteq Values /\ Efforts \subseteq Values
  BY DEF Values
<1>7. \A k \in Keys : Field(k) \subseteq Values
  BY <1>2, <1>3, <1>4, <1>6
<1>8. QED
  BY <1>1, <1>2, <1>3, <1>5, <1>7 DEF Given

LEMMA OverrideTypes ==
  ASSUME NEW o \in Overrides
  PROVE  /\ o.provider \in Providers \cup {None} /\ o.effort \in Efforts \cup {None}
         /\ o.base \in UNION {[S -> BOOLEAN] : S \in SUBSET Presets}
BY FileConstants

LEMMA MediumType == Medium \in Efforts
BY FileConstants DEF Medium

LEMMA DefaultType == Default \in AllSettings
<1>1. \A k \in Keys : Default[k] \in Field(k)
  BY MediumType, FileConstants DEF Default, Field, Keys
<1>2. QED
  BY <1>1, KeyTypes DEF Default, AllSettings

LEMMA EntryType ==
  ASSUME NEW k \in Keys, NEW v \in Given(k)
  PROVE  Entry(k, v) \in Changes
<1>1. Entry(k, v) \in [{k} -> Values]
  <2>1. v \in Values
    BY KeyTypes
  <2>2. QED
    BY <2>1 DEF Entry
<1>2. {k} \in SUBSET Keys
  OBVIOUS
<1>3. Entry(k, v) \in UNION {[K -> Values] : K \in SUBSET Keys}
  BY <1>1, <1>2
<1>4. \A l \in DOMAIN Entry(k, v) : Entry(k, v)[l] \in Given(l)
  BY DEF Entry
<1>5. QED
  BY <1>3, <1>4 DEF Changes

LEMMA ChoiceType ==
  ASSUME NEW n \in Providers \cup {None}, NEW m \in Models \cup {None, Unset},
         NEW e \in Efforts
  PROVE  Choice(n, m, e) \in Changes
<1> DEFINE K == {"provider", "model", "effort"}
<1>1. /\ DOMAIN Choice(n, m, e) = K
      /\ Choice(n, m, e)["provider"] = n /\ Choice(n, m, e)["model"] = m
      /\ Choice(n, m, e)["effort"] = e
  BY DEF Choice
<1>2. \A l \in K : Choice(n, m, e)[l] \in Given(l)
  BY <1>1, KeyTypes
<1>3. K \in SUBSET Keys
  BY KeyTypes
<1>4. \A l \in K : Choice(n, m, e)[l] \in Values
  BY <1>2, <1>3, KeyTypes
<1>5. Choice(n, m, e) \in [K -> Values]
  BY <1>4 DEF Choice
<1>6. Choice(n, m, e) \in UNION {[L -> Values] : L \in SUBSET Keys}
  BY <1>3, <1>5
<1>7. QED
  BY <1>1, <1>2, <1>6 DEF Changes

LEMMA MergedType ==
  ASSUME NEW old \in Profiles \cup {None}, NEW new \in Profiles
  PROVE  Merged(old, new) \in Profiles /\ Merged(old, new).model = new.model
<1>1. CASE old = None \/ new.model = Unset
  BY <1>1 DEF Merged
<1>2. CASE ~(old = None \/ new.model = Unset)
  <2>1. Merged(old, new) = [old EXCEPT !.model = new.model] /\ old \in Profiles
    BY <1>2 DEF Merged
  <2>2. QED
    BY <2>1 DEF Profiles
<1>3. QED
  BY <1>1, <1>2

LEMMA UpdatedType ==
  ASSUME NEW s \in AllSettings, NEW c \in Changes
  PROVE  Updated(s, c) \in AllSettings
<1> DEFINE u(k) == IF k \notin DOMAIN c THEN s[k]
                   ELSE IF k \in Providers THEN Merged(s[k], c[k]) ELSE c[k]
<1>1. ASSUME NEW k \in Keys PROVE u(k) \in Field(k)
  <2>1. s[k] \in Field(k) /\ (k \in DOMAIN c => c[k] \in Given(k))
    BY DEF AllSettings, Changes
  <2>2. CASE k \in DOMAIN c /\ k \in Providers
    <3>1. s[k] \in Profiles \cup {None} /\ c[k] \in Profiles
      BY <2>1, <2>2, KeyTypes
    <3>2. Merged(s[k], c[k]) \in Profiles
      BY <3>1, MergedType
    <3>3. QED
      BY <2>2, <3>2, KeyTypes
  <2>3. CASE k \in DOMAIN c /\ k \notin Providers
    BY <2>1, <2>3, KeyTypes
  <2>4. CASE k \notin DOMAIN c
    BY <2>1, <2>4
  <2>5. QED
    BY <2>2, <2>3, <2>4
<1>2. \A k \in Keys : u(k) \in Values
  BY <1>1, KeyTypes
<1>3. Updated(s, c) = [k \in Keys |-> u(k)]
  BY DEF Updated
<1> HIDE DEF u
<1>4. QED
  BY <1>1, <1>2, <1>3 DEF AllSettings

LEMMA Sequences ==
  ASSUME NEW S, NEW s \in Seq(S)
  PROVE  /\ Len(s) \in Nat /\ <<>> \in Seq(S) /\ Len(<<>>) = 0
         /\ \A x \in S : <<x>> \in Seq(S) /\ Len(<<x>>) = 1 /\ <<x>> # <<>>
         /\ \A x, y \in S : <<x, y>> \in Seq(S) /\ Len(<<x, y>>) = 2
         /\ s # <<>> => /\ Head(s) \in S /\ Len(s) > 0
                        /\ Tail(s) \in Seq(S) /\ Len(Tail(s)) = Len(s) - 1
OBVIOUS

LEMMA IdleTypes == /\ NoJob \in Jobs /\ NoFetch \in Fetches /\ NoCache \in Caches
                   /\ Nobody \in Actives /\ NoOverride \in Overrides
<1>1. <<>> \in Seq(Changes) /\ Len(<<>>) = 0
  OBVIOUS
<1>2. NoJob \in Jobs
  BY <1>1 DEF NoJob, Jobs, SettingsJobs
<1>3. NoFetch \in Fetches
  BY DEF NoFetch, Fetches
<1>4. Nobody \in Actives
  BY MediumType DEF Nobody, Actives
<1>5. NoOverride \in Overrides
  BY FileConstants
<1>6. QED
  BY <1>2, <1>3, <1>4, <1>5 DEF NoCache, Caches

\* The history as it is read back.
LEMMA RecalledType ==
  ASSUME history \in Histories
  PROVE  Recalled \in Seq(Lines)
<1>1. history.kept \in Seq(Lines) /\ history.last \in Entries \cup {<<>>}
  BY DEF Histories
<1>2. NonBlank(history.last) \in Seq(Lines)
  <2>1. <<>> \in Seq(Lines)
    OBVIOUS
  <2>2. QED
    BY <1>1, <2>1, FileConstants
<1>3. QED
  BY <1>1, <1>2 DEF Recalled

LEMMA MarkType ==
  ASSUME overlapped \subseteq {"settings", "history", "cache"},
         NEW p, NEW file \in {"settings", "history", "cache"}, Mark(p, file)
  PROVE  overlapped' \subseteq {"settings", "history", "cache"}
BY DEF Mark

\* Of TypeOK, what the types of jobs and loaders do not say.
Rest ==
    /\ exists \in BOOLEAN /\ history \in Histories
    /\ cache \in Caches
    /\ stage \in [Procs -> Stages] /\ over \in [Procs -> Overrides]
    /\ profiles \in [Procs -> Tables] /\ active \in [Procs -> Actives]
    /\ ops \in 0 .. MaxOps /\ typed \in Seq(Lines)
    /\ misread \subseteq {"history", "cache"}
    /\ overlapped \subseteq {"settings", "history", "cache"}
Memory == /\ settings \in AllSettings /\ wanted \in AllSettings
          /\ job \in [Procs -> Jobs] /\ fetch \in [Procs -> Fetches]
          /\ listed \in Caches

LEMMA Parts == TypeInv <=> Rest /\ Memory
<1>1. ASSUME TypeInv PROVE Rest /\ Memory
  BY <1>1 DEF TypeInv, TypeOK, Rest, Memory, Caches, Tables, Actives, Histories
<1>2. ASSUME Rest, Memory PROVE TypeInv
  <2>1. settings \in [Keys -> Values] /\ wanted \in [Keys -> Values]
    BY <1>2 DEF Memory, AllSettings
  <2>2. \A j \in Jobs : /\ j.file \in {"settings", "history"} /\ Len(j.todo) <= 2
                        /\ j.read \in BOOLEAN /\ j.pick \in BOOLEAN
    BY DEF Jobs, SettingsJobs, HistoryJobs
  <2>3. \A x \in Fetches : x.end \in Endpoints \cup {None} /\ x.list \in Lists \cup {None}
    BY DEF Fetches
  <2>4. \A p \in Procs : /\ job[p] \in Jobs /\ fetch[p] \in Fetches
    BY <1>2 DEF Memory
  <2>5. \A p \in Procs :
         /\ job[p].file \in {"settings", "history"} /\ Len(job[p].todo) <= 2
         /\ job[p].read \in BOOLEAN /\ job[p].pick \in BOOLEAN
         /\ fetch[p].end \in Endpoints \cup {None}
         /\ fetch[p].list \in Lists \cup {None}
    BY <2>2, <2>3, <2>4
  <2>6. TypeOK
    BY <1>2, <2>1, <2>5 DEF Rest, TypeOK, Caches, Tables, Actives, Histories
  <2>7. QED
    BY <1>2, <2>6 DEF TypeInv, Memory
<1>3. QED
  BY <1>1, <1>2

(***************************************************************************)
(* Types: launches                                                         *)
(***************************************************************************)
LEMMA ProfileType ==
  ASSUME NEW s \in AllSettings, NEW n \in Providers,
         NEW b \in UNION {[S -> BOOLEAN] : S \in SUBSET Presets}
  PROVE  Based(b, n, ProfileOf(s, n)) \in Profiles \cup {None}
<1>1. s[n] \in Profiles \cup {None}
  BY KeyTypes DEF AllSettings
<1> DEFINE x == ProfileOf(s, n)
<1>2. x \in Profiles \cup {None} /\ (n \in Presets => x \in Profiles)
  <2>1. CASE s[n] # None
    BY <1>1, <2>1, FileConstants DEF ProfileOf, Profiles
  <2>2. CASE s[n] = None
    BY <2>2, FileConstants DEF ProfileOf, Profiles
  <2>3. QED
    BY <2>1, <2>2
<1>3. n \in DOMAIN b => n \in Presets /\ b[n] \in BOOLEAN
  OBVIOUS
<1> HIDE DEF x
<1>4. Based(b, n, x) \in Profiles \cup {None}
  BY <1>2, <1>3 DEF Based, Profiles
<1>5. QED
  BY <1>4 DEF x

LEMMA RunningType ==
  ASSUME NEW n \in Providers, NEW x \in Profiles, NEW e \in Efforts
  PROVE  /\ Running(n, x, e) \in Actives
         /\ Running(n, x, e).name = n /\ Running(n, x, e).wire = x.wire
         /\ Running(n, x, e).model = x.model /\ Running(n, x, e).effort = e
BY DEF Running, Actives, Profiles

LEMMA ResolveType ==
  ASSUME Rest, NEW p \in Procs, NEW s \in AllSettings, Resolve(p, s)
  PROVE  /\ profiles' \in [Procs -> Tables] /\ active' \in [Procs -> Actives]
         /\ stage' \in [Procs -> Stages]
<1>0. over[p] \in Overrides
  BY DEF Rest
<1>1. \A n \in Providers :
         Based(over[p].base, n, ProfileOf(s, n)) \in Profiles \cup {None}
  BY <1>0, OverrideTypes, ProfileType
<1> DEFINE f == [n \in Providers |-> Based(over[p].base, n, ProfileOf(s, n))]
<1>3. f \in Tables
  BY <1>1 DEF Tables
<1>4. s["effort"] \in Efforts
  BY KeyTypes DEF AllSettings
<1> DEFINE e == IF over[p].effort # None THEN over[p].effort ELSE s["effort"]
<1>5. e \in Efforts
  BY <1>0, <1>4, OverrideTypes
<1> HIDE DEF e
<1>6. [Nobody EXCEPT !.effort = e] \in Actives
  BY <1>5, IdleTypes DEF Actives, Nobody
<1>7. /\ profiles' = [profiles EXCEPT ![p] = f]
      /\ active' = [active EXCEPT ![p] = [Nobody EXCEPT !.effort = e]]
      /\ stage' = [stage EXCEPT ![p] = "choose"]
  BY DEF Resolve, e
<1> HIDE DEF f
<1>8. QED
  BY <1>3, <1>6, <1>7 DEF Rest, Stages

LEMMA HeldType ==
  ASSUME NEW t \in Seq(Changes), Len(t) = 1, t # <<>>, NEW h \in AllSettings
  PROVE  [NoJob EXCEPT !.todo = t, !.held = h, !.read = TRUE] \in Jobs
<1> DEFINE j == [NoJob EXCEPT !.todo = t, !.held = h, !.read = TRUE]
<1>1. j \in SettingsJobs
  BY DEF NoJob, SettingsJobs
<1>2. j.todo = t /\ j.held = h
  BY DEF NoJob
<1> HIDE DEF j
<1>3. /\ Len(j.todo) <= 2 /\ j.todo # <<>>
      /\ j.held \in AllSettings
  BY <1>2
<1>4. j \in SettingsJobs \cup HistoryJobs
  BY <1>1
<1>5. j \in Jobs
  BY <1>3, <1>4, Zenon DEF Jobs
<1>6. QED
  BY <1>5 DEF j

LEMMA LaunchTypes ==
  ASSUME Rest, Memory, NEW p \in Procs, Launch(p)
  PROVE  Rest' /\ Memory'
<1>1. CASE Start(p)
  <2>1. PICK o \in Overrides : over' = [over EXCEPT ![p] = o]
    BY <1>1 DEF Start
  <2>2. over' \in [Procs -> Overrides] /\ stage' \in [Procs -> Stages]
    BY <1>1, <2>1 DEF Start, Rest, Stages
  <2>3. QED
    BY <1>1, <2>2 DEF Start, Rest, Memory, files, ghosts
<1>2. CASE LoadConfig(p)
  <2>1. CASE exists
    <3>1. Resolve(p, settings)
      BY <1>2, <2>1 DEF LoadConfig
    <3>2. QED
      BY <1>2, <3>1, ResolveType DEF LoadConfig, Rest, Memory, files, ghosts
  <2>2. CASE ~exists
    BY <1>2, <2>2 DEF LoadConfig, Rest, Memory, files, ghosts, Stages
  <2>3. QED
    BY <2>1, <2>2
<1>3. CASE SeedDefaults(p)
  <2>1. Resolve(p, Default) /\ Mark(p, "settings") /\ exists' = TRUE
        /\ settings' = Default
    BY <1>3 DEF SeedDefaults
  <2>2. overlapped' \subseteq {"settings", "history", "cache"}
    BY <2>1, MarkType DEF Rest
  <2>3. QED
    BY <1>3, <2>1, <2>2, DefaultType, ResolveType DEF SeedDefaults, Rest, Memory
<1>4. CASE Choose(p)
  <2> DEFINE saved == over[p].provider = None
             name == IF saved THEN settings["provider"] ELSE over[p].provider
             forgets == [NoJob EXCEPT !.todo = <<Entry("provider", None)>>,
                                      !.held = settings, !.read = TRUE]
  <2>1. name \in Providers \cup {None}
    <3>1. over[p] \in Overrides /\ settings["provider"] \in Providers \cup {None}
      BY KeyTypes DEF Rest, Memory, AllSettings
    <3>2. QED
      BY <3>1, OverrideTypes
  <2>2. forgets \in Jobs
    <3>1. Entry("provider", None) \in Changes
      BY KeyTypes, EntryType
    <3>2. <<Entry("provider", None)>> \in Seq(Changes)
          /\ Len(<<Entry("provider", None)>>) = 1
          /\ <<Entry("provider", None)>> # <<>>
      BY <3>1
    <3>3. settings \in AllSettings
      BY DEF Memory
    <3> QED
      BY <3>2, <3>3, HeldType
  <2>3. job' \in [Procs -> Jobs]
    BY <1>4, <2>2 DEF Choose, Memory
  <2>4. stage' \in [Procs -> Stages]
    BY <1>4 DEF Choose, Rest, Stages
  <2>5. over' \in [Procs -> Overrides]
    BY <1>4, IdleTypes DEF Choose, Rest
  <2>6. active' \in [Procs -> Actives]
    <3>1. CASE active' = active
      BY <3>1 DEF Rest
    <3>2. CASE /\ name # None /\ profiles[p][name] # None
               /\ active' = [active EXCEPT ![p] =
                               Running(name, profiles[p][name], @.effort)]
      <4>1. profiles[p][name] \in Profiles /\ name \in Providers
        BY <2>1, <3>2 DEF Rest, Tables
      <4>2. active[p].effort \in Efforts
        BY DEF Rest, Actives
      <4>3. Running(name, profiles[p][name], active[p].effort) \in Actives
        BY <4>1, <4>2, RunningType
      <4>4. active' = [active EXCEPT ![p] =
                        Running(name, profiles[p][name], active[p].effort)]
        BY <3>2 DEF Rest
      <4>5. QED
        BY <4>3, <4>4 DEF Rest
    <3>3. QED
      BY <1>4, <3>1, <3>2 DEF Choose
  <2>7. QED
    BY <1>4, <2>3, <2>4, <2>5, <2>6 DEF Choose, Rest, Memory, files, ghosts
<1>5. QED
  BY <1>1, <1>2, <1>3, <1>4 DEF Launch

(***************************************************************************)
(* Types: handlers                                                         *)
(***************************************************************************)
LEMMA BeginType ==
  ASSUME Memory, Rest, NEW p \in Procs, NEW file, NEW t, NEW b \in BOOLEAN,
         Len(t) <= 2,
         \/ file = "settings" /\ t \in Seq(Changes)
         \/ file = "history" /\ t \in Seq(Entries),
         Begin(p, file, t, b)
  PROVE  job' \in [Procs -> Jobs] /\ ops' \in 0 .. MaxOps
<1> DEFINE j == [NoJob EXCEPT !.file = file, !.todo = t, !.pick = b]
<1>1. j.todo = t /\ j.read = FALSE
  BY DEF NoJob
<1>2. j \in SettingsJobs \cup HistoryJobs
  <2>1. <<>> \in Seq(Lines)
    OBVIOUS
  <2>2. CASE file = "settings" /\ t \in Seq(Changes)
    BY <2>2 DEF NoJob, SettingsJobs
  <2>3. CASE file = "history" /\ t \in Seq(Entries)
    BY <2>1, <2>3 DEF NoJob, HistoryJobs
  <2>4. QED
    BY <2>2, <2>3
<1> HIDE DEF j
<1>3. j \in Jobs
  BY <1>1, <1>2 DEF Jobs
<1>4. job' = [job EXCEPT ![p] = j] /\ ops' = ops + 1 /\ ops < MaxOps
  BY DEF Begin, Ready, j
<1>5. QED
  BY <1>3, <1>4, FileConstants DEF Memory, Rest

LEMMA SaveTypes ==
  ASSUME Memory, Rest, NEW p \in Procs, NEW t \in Seq(Changes), Len(t) <= 2,
         NEW b \in BOOLEAN, Begin(p, "settings", t, b),
         profiles' \in [Procs -> Tables], active' \in [Procs -> Actives]
  PROVE  Rest' /\ Memory'
<1>1. job' \in [Procs -> Jobs] /\ ops' \in 0 .. MaxOps
  BY BeginType
<1>2. QED
  BY <1>1 DEF Begin, Rest, Memory, files

LEMMA NewProfileType ==
  ASSUME Rest, NEW p \in Procs, NEW n \in Providers, NEW x \in Profiles,
         profiles' = [profiles EXCEPT ![p][n] = x]
  PROVE  profiles' \in [Procs -> Tables] /\ profiles'[p][n] = x
BY DEF Rest, Tables

LEMMA ChoosableType ==
  ASSUME Rest, NEW p \in Procs
  PROVE  Choosable(p) \subseteq Providers
<1>1. active[p].wire \in Wires \cup {None} /\ Wires \subseteq Providers
      /\ Offered \subseteq Providers
  BY FileConstants DEF Rest, Actives
<1>2. ASSUME NEW n \in Choosable(p) PROVE n \in Providers
  <2>1. n \in Offered \/ (n # None /\ n = active[p].wire)
    BY DEF Choosable
  <2>2. QED
    BY <1>1, <2>1
<1>3. QED
  BY <1>2

LEMMA HandleTypes ==
  ASSUME Rest, Memory, NEW p \in Procs, Handle(p)
  PROVE  Rest' /\ Memory'
<1>1. CASE Pick(p)
  <2>1. PICK n \in Choosable(p), m \in Models, e \in Efforts :
           LET new == [profiles[p][n] EXCEPT !.model = m] IN
           /\ profiles[p][n] # None
           /\ Begin(p, "settings", PickChanges(n, new, e), new.local)
           /\ active' = [active EXCEPT ![p] = Running(n, new, e)]
           /\ profiles' = IF new.local THEN [profiles EXCEPT ![p][n] = new]
                          ELSE profiles
    BY <1>1 DEF Pick
  <2> DEFINE new == [profiles[p][n] EXCEPT !.model = m]
  <2>2. n \in Providers
    BY ChoosableType
  <2>3. new \in Profiles /\ new.model = m
    <3>1. profiles[p][n] \in Profiles
      BY <2>1, <2>2 DEF Rest, Tables
    <3>2. QED
      BY <3>1 DEF Profiles
  <2>4. /\ Begin(p, "settings", PickChanges(n, new, e), new.local)
        /\ active' = [active EXCEPT ![p] = Running(n, new, e)]
        /\ profiles' = IF new.local THEN [profiles EXCEPT ![p][n] = new] ELSE profiles
    BY <2>1
  <2> HIDE DEF new
  <2>5. new.local \in BOOLEAN
    BY <2>3 DEF Profiles
  <2>6. Choice(n, m, e) \in Changes /\ Entry(n, new) \in Changes
    BY <2>2, <2>3, ChoiceType, EntryType, KeyTypes
  <2>7. PickChanges(n, new, e) \in Seq(Changes) /\ Len(PickChanges(n, new, e)) <= 2
    BY <2>3, <2>6 DEF PickChanges
  <2>8. active' \in [Procs -> Actives]
    BY <2>2, <2>3, <2>4, RunningType DEF Rest
  <2>9. profiles' \in [Procs -> Tables]
    BY <2>2, <2>3, <2>4, NewProfileType DEF Rest
  <2>10. QED
    BY <2>4, <2>5, <2>7, <2>8, <2>9, SaveTypes
<1>2. CASE PickEffort(p)
  <2>1. PICK e \in Efforts :
           /\ active[p].name # None
           /\ Begin(p, "settings",
                 <<Choice(active[p].wire, active[p].model, e)>>, FALSE)
           /\ active' = [active EXCEPT ![p].effort = e]
           /\ UNCHANGED profiles
    BY <1>2 DEF PickEffort
  <2>2. active[p] \in Actives
    BY DEF Rest
  <2>3. active[p].wire \in Providers \cup {None}
        /\ active[p].model \in Models \cup {None, Unset}
    BY <2>2, FileConstants DEF Actives
  <2>4. Choice(active[p].wire, active[p].model, e) \in Changes
    BY <2>3, ChoiceType
  <2> DEFINE t == <<Choice(active[p].wire, active[p].model, e)>>
  <2>5. t \in Seq(Changes) /\ Len(t) <= 2
    BY <2>4
  <2>6. [active[p] EXCEPT !.effort = e] \in Actives
    BY <2>2 DEF Actives
  <2>7. active' \in [Procs -> Actives]
    BY <2>1, <2>6 DEF Rest
  <2>8. profiles' \in [Procs -> Tables]
    BY <2>1 DEF Rest
  <2> QED
    BY <2>1, <2>5, <2>7, <2>8, SaveTypes
<1>3. CASE LoginDone(p)
  <2>1. PICK n \in Offered, w \in Wires :
           /\ Begin(p, "settings", <<Entry("provider", n)>>, FALSE)
           /\ profiles' = [profiles EXCEPT ![p][n] =
                 IF @ = None THEN [local |-> FALSE, wire |-> w, model |-> Unset]
                 ELSE @]
           /\ active' = [active EXCEPT ![p] = Running(n, profiles'[p][n], @.effort)]
    BY <1>3 DEF LoginDone
  <2>2. n \in Providers
    BY FileConstants
  <2>3. Entry("provider", n) \in Changes
    BY <2>2, EntryType, KeyTypes
  <2>4. <<Entry("provider", n)>> \in Seq(Changes) /\ Len(<<Entry("provider", n)>>) <= 2
    BY <2>3
  <2> DEFINE x == IF profiles[p][n] = None
                  THEN [local |-> FALSE, wire |-> w, model |-> Unset]
                  ELSE profiles[p][n]
  <2>5. profiles[p] \in Tables /\ active[p] \in Actives
    BY DEF Rest
  <2>6. x \in Profiles
    BY <2>2, <2>5 DEF Tables, Profiles
  <2>7. profiles' = [profiles EXCEPT ![p][n] = x]
    BY <2>1, <2>2, <2>5 DEF Rest, Tables
  <2> HIDE DEF x
  <2>8. profiles' \in [Procs -> Tables] /\ profiles'[p][n] = x
    BY <2>2, <2>6, <2>7, NewProfileType
  <2>9. Running(n, x, active[p].effort) \in Actives
    BY <2>2, <2>5, <2>6, RunningType DEF Actives
  <2>10. active' = [active EXCEPT ![p] = Running(n, x, active[p].effort)]
    <3>1. active' = [active EXCEPT ![p] = Running(n, x, @.effort)]
      BY <2>1, <2>8
    <3>2. active \in [Procs -> Actives]
      BY DEF Rest
    <3>3. QED
      BY <3>1, <3>2
  <2>11. active' \in [Procs -> Actives]
    BY <2>9, <2>10 DEF Rest
  <2>12. QED
    BY <2>1, <2>4, <2>8, <2>11, SaveTypes
<1>4. CASE AddProvider(p)
  <2>1. PICK n \in Providers, l \in BOOLEAN, w \in Wires :
           LET new == [local |-> l, wire |-> w, model |-> Unset] IN
           /\ Begin(p, "settings", <<Entry(n, new)>>, FALSE)
           /\ profiles' = [profiles EXCEPT ![p][n] = new]
           /\ UNCHANGED active
    BY <1>4 DEF AddProvider
  <2> DEFINE new == [local |-> l, wire |-> w, model |-> Unset]
  <2>2. new \in Profiles
    BY DEF Profiles
  <2>3. /\ Begin(p, "settings", <<Entry(n, new)>>, FALSE)
        /\ profiles' = [profiles EXCEPT ![p][n] = new]
        /\ UNCHANGED active
    BY <2>1
  <2> HIDE DEF new
  <2>4. Entry(n, new) \in Changes
    BY <2>2, EntryType, KeyTypes
  <2>5. <<Entry(n, new)>> \in Seq(Changes) /\ Len(<<Entry(n, new)>>) <= 2
    BY <2>4
  <2>6. profiles' \in [Procs -> Tables]
    BY <2>2, <2>3, NewProfileType
  <2>7. QED
    BY <2>3, <2>5, <2>6, SaveTypes DEF Rest
<1>5. CASE Submit(p)
  <2>1. PICK e \in Entries : Begin(p, "history", <<e>>, FALSE) /\ UNCHANGED <<profiles, active>>
    BY <1>5 DEF Submit
  <2>2. <<e>> \in Seq(Entries) /\ Len(<<e>>) <= 2
    OBVIOUS
  <2>3. job' \in [Procs -> Jobs] /\ ops' \in 0 .. MaxOps
    BY <2>1, <2>2, BeginType
  <2>4. QED
    BY <2>1, <2>3 DEF Begin, Rest, Memory, files
<1>6. QED
  BY <1>1, <1>2, <1>3, <1>4, <1>5 DEF Handle

(***************************************************************************)
(* Types: reads and writes, and the end of a process                       *)
(***************************************************************************)
LEMMA JobTypes ==
  ASSUME NEW j \in Jobs
  PROVE  /\ j = [file |-> j.file, todo |-> j.todo, held |-> j.held, read |-> j.read,
                 pick |-> j.pick]
         /\ j.file \in {"settings", "history"} /\ j.read \in BOOLEAN
         /\ Len(j.todo) <= 2
         /\ j.read => j.todo # <<>>
         /\ j.file = "settings" => /\ j.todo \in Seq(Changes)
                                   /\ j.held \in AllSettings \cup {<<>>}
                                   /\ j.read => j.held \in AllSettings
         /\ j.file = "history" => j.todo \in Seq(Entries) /\ j.held \in Seq(Lines)
<1>1. /\ j \in SettingsJobs \cup HistoryJobs /\ Len(j.todo) <= 2
      /\ j.read => j.todo # <<>>
      /\ j.read /\ j.file = "settings" => j.held \in AllSettings
  BY DEF Jobs
<1>2. CASE j \in SettingsJobs
  <2>1. /\ j = [file |-> j.file, todo |-> j.todo, held |-> j.held, read |-> j.read,
                 pick |-> j.pick]
        /\ j.file = "settings" /\ j.todo \in Seq(Changes)
        /\ j.held \in AllSettings \cup {<<>>} /\ j.read \in BOOLEAN
    BY <1>2 DEF SettingsJobs
  <2>2. Len(j.todo) <= 2
    BY <1>1, Zenon
  <2>3. j.file # "history" /\ (j.read => j.held \in AllSettings)
    BY <1>1, <2>1
  <2>4. QED
    BY <1>1, <2>1, <2>2, <2>3
<1>3. CASE j \in HistoryJobs
  <2>1. /\ j = [file |-> j.file, todo |-> j.todo, held |-> j.held, read |-> j.read,
                 pick |-> j.pick]
        /\ j.file = "history" /\ j.todo \in Seq(Entries)
        /\ j.held \in Seq(Lines) /\ j.read \in BOOLEAN
    BY <1>3 DEF HistoryJobs
  <2>2. Len(j.todo) <= 2
    BY <1>1, Zenon
  <2>3. j.file # "settings"
    BY <2>1
  <2>4. QED
    BY <1>1, <2>1, <2>2, <2>3
<1>4. QED
  BY <1>1, <1>2, <1>3

\* A job after a read, and after one of its writes.
LEMMA JobUpdates ==
  ASSUME NEW j \in Jobs, NEW h, NEW t, Len(t) <= 2,
         \/ j.file = "settings" /\ h \in AllSettings /\ t \in Seq(Changes)
         \/ j.file = "history" /\ h \in Seq(Lines) /\ t \in Seq(Entries)
  PROVE  /\ j.todo # <<>> => [j EXCEPT !.read = TRUE, !.held = h] \in Jobs
         /\ [j EXCEPT !.todo = t, !.held = <<>>, !.read = FALSE] \in Jobs
<1> DEFINE x == [j EXCEPT !.read = TRUE, !.held = h]
           y == [j EXCEPT !.todo = t, !.held = <<>>, !.read = FALSE]
<1>1. j \in SettingsJobs \cup HistoryJobs /\ Len(j.todo) <= 2
  BY DEF Jobs
<1>2. CASE j \in SettingsJobs
  <2>1. h \in AllSettings /\ t \in Seq(Changes)
    BY <1>2 DEF SettingsJobs
  <2>2. x \in SettingsJobs /\ x.todo = j.todo /\ x.held = h
    BY <1>2, <2>1 DEF SettingsJobs
  <2>3. y \in SettingsJobs /\ y.todo = t /\ y.read = FALSE
    BY <1>2, <2>1 DEF SettingsJobs
  <2> HIDE DEF x, y
  <2>4. /\ j.todo # <<>> => x \in Jobs
        /\ y \in Jobs
    BY <1>1, <2>1, <2>2, <2>3 DEF Jobs
  <2>5. QED
    BY <2>4 DEF x, y
<1>3. CASE j \in HistoryJobs
  <2>1. h \in Seq(Lines) /\ t \in Seq(Entries) /\ <<>> \in Seq(Lines)
    BY <1>3 DEF HistoryJobs
  <2>2. x \in HistoryJobs /\ x.todo = j.todo /\ x.file = "history"
    BY <1>3, <2>1 DEF HistoryJobs
  <2>3. y \in HistoryJobs /\ y.todo = t /\ y.read = FALSE
    BY <1>3, <2>1 DEF HistoryJobs
  <2> HIDE DEF x, y
  <2>4. /\ j.todo # <<>> => x \in Jobs
        /\ y \in Jobs
    BY <1>1, <2>1, <2>2, <2>3 DEF Jobs
  <2>5. QED
    BY <2>4 DEF x, y
<1>4. QED
  BY <1>1, <1>2, <1>3

LEMMA AfterSaveType ==
  ASSUME Memory, NEW p \in Procs, job[p].read
  PROVE  AfterSave(p) \in Jobs
<1> DEFINE j == job[p]
<1>1. j \in Jobs /\ j.todo # <<>> /\ Len(j.todo) <= 2
  BY JobTypes DEF Memory
<1>2. CASE Done(p)
  BY <1>2, IdleTypes DEF AfterSave
<1>3. CASE ~Done(p)
  <2> DEFINE t == Tail(j.todo)
  <2>1. AfterSave(p) = [j EXCEPT !.todo = t, !.held = <<>>, !.read = FALSE]
    BY <1>3 DEF AfterSave
  <2>2. \/ j.file = "settings" /\ j.held \in AllSettings /\ j.todo \in Seq(Changes)
        \/ j.file = "history" /\ j.held \in Seq(Lines) /\ j.todo \in Seq(Entries)
    BY <1>1, JobTypes
  <2>3. /\ Len(t) = Len(j.todo) - 1 /\ Len(j.todo) \in Nat
        /\ j.todo \in Seq(Changes) => t \in Seq(Changes)
        /\ j.todo \in Seq(Entries) => t \in Seq(Entries)
    BY <1>1, <2>2, Sequences
  <2> HIDE DEF j, t
  <2>4. Len(t) <= 2
    BY <1>1, <2>3
  <2>5. \/ j.file = "settings" /\ j.held \in AllSettings /\ t \in Seq(Changes)
        \/ j.file = "history" /\ j.held \in Seq(Lines) /\ t \in Seq(Entries)
    BY <2>2, <2>3
  <2>6. [j EXCEPT !.todo = t, !.held = <<>>, !.read = FALSE] \in Jobs
    BY <1>1, <2>4, <2>5, JobUpdates
  <2>7. QED
    BY <2>1, <2>6
<1>4. QED
  BY <1>2, <1>3

LEMMA LastNType ==
  ASSUME NEW S, NEW s \in Seq(S), NEW n \in Nat
  PROVE  /\ LastN(s, n) \in Seq(S)
         /\ Len(LastN(s, n)) = IF Len(s) > n THEN n ELSE Len(s)
         /\ \A i \in 1 .. Len(LastN(s, n)) :
                LastN(s, n)[i] = s[Len(s) - Len(LastN(s, n)) + i]
<1> DEFINE a == IF Len(s) > n THEN Len(s) - n + 1 ELSE 1
<1>1. /\ Len(s) \in Nat /\ a \in 1 .. Len(s) + 1
      /\ Len(s) - a + 1 = IF Len(s) > n THEN n ELSE Len(s)
  OBVIOUS
<1>2. LastN(s, n) = SubSeq(s, a, Len(s))
  BY DEF LastN
<1> HIDE DEF a
<1>3. /\ SubSeq(s, a, Len(s)) \in Seq(S)
      /\ Len(SubSeq(s, a, Len(s))) = Len(s) - a + 1
      /\ \A i \in 1 .. Len(s) - a + 1 : SubSeq(s, a, Len(s))[i] = s[a + i - 1]
  BY <1>1
<1>4. QED
  BY <1>1, <1>2, <1>3

LEMMA AppendedType ==
  ASSUME NEW s \in Seq(Lines), NEW e \in Entries
  PROVE  Appended(s, e) \in Histories
<1>1. Cap - 1 \in Nat
  BY FileConstants
<1>2. LastN(s, Cap - 1) \in Seq(Lines) /\ Len(LastN(s, Cap - 1)) <= Cap - 1
  BY <1>1, LastNType
<1> DEFINE x == LastN(s, Cap - 1)
<1> HIDE DEF x
<1>3. x \in Seq(Lines) /\ Len(x) <= Cap - 1 /\ Appended(s, e) = [kept |-> x, last |-> e]
  BY <1>2 DEF Appended, x
<1>4. Len(x) \in Nat /\ Cap \in Nat
  BY <1>3, FileConstants
<1>5. Len(x) < Cap
  BY <1>3, <1>4
<1>6. QED
  BY <1>3, <1>5 DEF Histories

LEMMA WriteTypes ==
  ASSUME Rest, Memory, NEW p \in Procs, Write(p)
  PROVE  Rest' /\ Memory'
<1> DEFINE j == job[p]
           l == fetch[p]
<1>j. j \in Jobs
  BY DEF Memory
<1>l. /\ l = [end |-> l.end, list |-> l.list, held |-> l.held, read |-> l.read]
      /\ l.end \in Endpoints \cup {None} /\ l.list \in Lists \cup {None}
      /\ l.end # None => l.list \in Lists
      /\ l.read => l.held \in Caches /\ l.end # None
  BY DEF Memory, Fetches
<1>0. ASSUME NEW h, j.todo # <<>>,
             \/ j.file = "settings" /\ h \in AllSettings
             \/ j.file = "history" /\ h \in Seq(Lines),
             job' = [job EXCEPT ![p].read = TRUE, ![p].held = h]
      PROVE  job' \in [Procs -> Jobs]
  <2>1. \/ j.file = "settings" /\ h \in AllSettings /\ j.todo \in Seq(Changes)
        \/ j.file = "history" /\ h \in Seq(Lines) /\ j.todo \in Seq(Entries)
    BY <1>j, <1>0, JobTypes
  <2>2. [j EXCEPT !.read = TRUE, !.held = h] \in Jobs
    <3>1. Len(j.todo) <= 2
      BY <1>j, JobTypes
    <3> HIDE DEF j
    <3>2. QED
      BY <1>j, <1>0, <2>1, <3>1, JobUpdates
  <2>3. job' = [job EXCEPT ![p] = [j EXCEPT !.read = TRUE, !.held = h]]
    BY <1>0 DEF Memory
  <2>4. QED
    BY <2>2, <2>3 DEF Memory
<1>1. CASE Load(p)
  <2> DEFINE h == IF j.file = "settings" THEN settings ELSE Recalled
  <2>1. /\ j.todo # <<>>
        /\ job' = [job EXCEPT ![p].read = TRUE, ![p].held = h]
    BY <1>1 DEF Load
  <2>2. \/ j.file = "settings" /\ h \in AllSettings
        \/ j.file = "history" /\ h \in Seq(Lines)
    BY <1>j, JobTypes, RecalledType DEF Rest, Memory
  <2> HIDE DEF h
  <2>3. job' \in [Procs -> Jobs]
    BY <1>0, <2>1, <2>2
  <2>4. QED
    BY <1>1, <2>3 DEF Load, Rest, Memory, files, ghosts
<1>1a. CASE LoadFails(p)
  <2>1. /\ j.todo # <<>> /\ j.file = "history"
        /\ job' = [job EXCEPT ![p].read = TRUE, ![p].held = <<>>]
    BY <1>1a DEF LoadFails
  <2>2. <<>> \in Seq(Lines)
    OBVIOUS
  <2>3. job' \in [Procs -> Jobs]
    BY <1>0, <2>1, <2>2
  <2>4. QED
    BY <1>1a, <2>3 DEF LoadFails, Rest, Memory, files
<1>2. CASE SaveSettings(p)
  <2>1. /\ j.file = "settings" /\ j.read
        /\ settings' = Updated(j.held, Head(j.todo))
        /\ wanted' = Updated(wanted, Head(j.todo))
        /\ job' = [job EXCEPT ![p] = AfterSave(p)]
        /\ stage' = [stage EXCEPT ![p] = IF @ = "forget" THEN "on" ELSE @]
        /\ Mark(p, "settings")
        /\ UNCHANGED <<exists, history, cache, over, profiles, active, fetch,
                       ops, typed, listed, misread>>
    BY <1>2 DEF SaveSettings
  <2>2. Head(j.todo) \in Changes /\ j.held \in AllSettings
    BY <1>j, <2>1, JobTypes
  <2>3. settings' \in AllSettings /\ wanted' \in AllSettings
    BY <2>1, <2>2, UpdatedType DEF Memory
  <2>4. job' \in [Procs -> Jobs]
    BY <2>1, AfterSaveType DEF Memory
  <2>5. stage' \in [Procs -> Stages]
    BY <2>1 DEF Rest, Stages
  <2>6. overlapped' \subseteq {"settings", "history", "cache"}
    BY <2>1, MarkType DEF Rest
  <2>7. QED
    BY <2>1, <2>3, <2>4, <2>5, <2>6 DEF Rest, Memory
<1>3. CASE SaveHistory(p)
  <2>1. /\ j.file = "history" /\ j.read
        /\ history' = Appended(j.held, Head(j.todo))
        /\ typed' = typed \o NonBlank(Head(j.todo))
        /\ job' = [job EXCEPT ![p] = AfterSave(p)]
        /\ Mark(p, "history")
        /\ UNCHANGED <<exists, settings, cache, stage, over, profiles, active,
                       fetch, ops, wanted, listed, misread>>
    BY <1>3 DEF SaveHistory
  <2>2. Head(j.todo) \in Entries /\ j.held \in Seq(Lines)
    BY <1>j, <2>1, JobTypes
  <2>3. history' \in Histories
    BY <2>1, <2>2, AppendedType
  <2>4. typed' \in Seq(Lines)
    <3>1. NonBlank(Head(j.todo)) \in Seq(Lines)
      BY <2>2, FileConstants
    <3>2. QED
      BY <2>1, <3>1 DEF Rest
  <2>5. job' \in [Procs -> Jobs]
    BY <2>1, AfterSaveType DEF Memory
  <2>6. overlapped' \subseteq {"settings", "history", "cache"}
    BY <2>1, MarkType DEF Rest
  <2>7. QED
    BY <2>1, <2>3, <2>4, <2>5, <2>6 DEF Rest, Memory
<1>4. CASE Fetch(p)
  <2>1. PICK end \in Endpoints, list \in Lists :
          fetch' = [fetch EXCEPT ![p] = [NoFetch EXCEPT !.end = end, !.list = list]]
    BY <1>4 DEF Fetch
  <2>2. [NoFetch EXCEPT !.end = end, !.list = list] \in Fetches
    BY DEF NoFetch, Fetches
  <2>3. fetch' \in [Procs -> Fetches]
    BY <2>1, <2>2 DEF Memory
  <2>4. ops' \in 0 .. MaxOps
    BY <1>4, FileConstants DEF Fetch, Rest
  <2>5. QED
    BY <1>4, <2>3, <2>4 DEF Fetch, Rest, Memory, files
<1>5. CASE LoadCache(p)
  <2>1. /\ l.end # None
        /\ fetch' = [fetch EXCEPT ![p].read = TRUE, ![p].held = cache]
    BY <1>5 DEF LoadCache
  <2>2. fetch' = [fetch EXCEPT ![p] = [l EXCEPT !.read = TRUE, !.held = cache]]
    BY <2>1 DEF Memory
  <2>3. [l EXCEPT !.read = TRUE, !.held = cache] \in Fetches
    <3>1. l \in Fetches /\ cache \in Caches
      BY DEF Rest, Memory
    <3> HIDE DEF l
    <3>2. QED
      BY <1>l, <2>1, <3>1 DEF Fetches
  <2>4. fetch' \in [Procs -> Fetches]
    BY <2>2, <2>3 DEF Memory
  <2>5. QED
    BY <1>5, <2>4 DEF LoadCache, Rest, Memory, files, ghosts
<1>5a. CASE LoadCacheFails(p)
  <2>1. /\ l.end # None
        /\ fetch' = [fetch EXCEPT ![p].read = TRUE, ![p].held = NoCache]
    BY <1>5a DEF LoadCacheFails
  <2>2. fetch' = [fetch EXCEPT ![p] = [l EXCEPT !.read = TRUE, !.held = NoCache]]
    BY <2>1 DEF Memory
  <2>3. [l EXCEPT !.read = TRUE, !.held = NoCache] \in Fetches
    <3>1. l \in Fetches /\ NoCache \in Caches
      BY IdleTypes DEF Memory
    <3> HIDE DEF l
    <3>2. QED
      BY <1>l, <2>1, <3>1 DEF Fetches
  <2>4. fetch' \in [Procs -> Fetches]
    BY <2>2, <2>3 DEF Memory
  <2>5. QED
    BY <1>5a, <2>4 DEF LoadCacheFails, Rest, Memory, files
<1>6. CASE SaveCache(p)
  <2>1. /\ l.read
        /\ cache' = [l.held EXCEPT ![l.end] = l.list]
        /\ listed' = [listed EXCEPT ![l.end] = l.list]
        /\ fetch' = [fetch EXCEPT ![p] = NoFetch]
        /\ Mark(p, "cache")
        /\ UNCHANGED <<exists, settings, history, stage, over, profiles, active,
                       job, ops, wanted, typed, misread>>
    BY <1>6 DEF SaveCache
  <2>2. cache' \in Caches /\ listed' \in Caches
    BY <1>l, <2>1 DEF Caches, Memory
  <2>3. fetch' \in [Procs -> Fetches]
    BY <2>1, IdleTypes DEF Memory
  <2>4. overlapped' \subseteq {"settings", "history", "cache"}
    BY <2>1, MarkType DEF Rest
  <2>5. QED
    BY <2>1, <2>2, <2>3, <2>4 DEF Rest, Memory
<1>7. QED
  BY <1>1, <1>1a, <1>2, <1>3, <1>4, <1>5, <1>5a, <1>6 DEF Write

LEMMA EndTypes ==
  ASSUME Rest, Memory, NEW p \in Procs, End(p)
  PROVE  Rest' /\ Memory'
<1>1. [n \in Providers |-> None] \in Tables
  BY DEF Tables
<1>2. /\ profiles' \in [Procs -> Tables] /\ active' \in [Procs -> Actives]
      /\ over' \in [Procs -> Overrides] /\ stage' \in [Procs -> Stages]
      /\ job' \in [Procs -> Jobs] /\ fetch' \in [Procs -> Fetches]
  BY <1>1, IdleTypes DEF End, Rest, Memory, Stages
<1>3. QED
  BY <1>2 DEF End, Rest, Memory, files, ghosts

LEMMA InitTypes == Init => Rest /\ Memory
<1>1. ASSUME Init PROVE Rest /\ Memory
  <2>1. [n \in Providers |-> None] \in Tables
    BY DEF Tables
  <2>2. <<>> \in Seq(Lines) /\ 0 \in 0 .. MaxOps /\ Len(<<>>) = 0
    BY FileConstants
  <2>3. [kept |-> <<>>, last |-> <<>>] \in Histories
    BY <2>2, FileConstants DEF Histories
  <2>4. QED
    BY <1>1, <2>1, <2>2, <2>3, DefaultType, IdleTypes DEF Init, Rest, Memory, Stages
<1>2. QED
  BY <1>1

LEMMA StepTypes == Rest /\ Memory /\ [Next]_vars => Rest' /\ Memory'
<1> SUFFICES ASSUME Rest, Memory, [Next]_vars PROVE Rest' /\ Memory'
  OBVIOUS
<1>1. CASE UNCHANGED vars
  BY <1>1 DEF vars, files, ghosts, Rest, Memory
<1>2. CASE Next
  <2>1. PICK p \in Procs : Launch(p) \/ Handle(p) \/ Write(p) \/ Quit(p) \/ Crash(p)
    BY <1>2 DEF Next
  <2>2. QED
    BY <2>1, LaunchTypes, HandleTypes, WriteTypes, EndTypes DEF Quit, Crash
<1>3. QED
  BY <1>1, <1>2

LEMMA TypesHold == Spec => [](Rest /\ Memory)
BY InitTypes, StepTypes, PTL DEF Spec

\* Every variable keeps its type: the settings never get a value that their key
\* cannot hold, and the history file stays within its cap, its last entry as one.
THEOREM TypeCorrect == Spec => []TypeOK
<1>1. Rest /\ Memory => TypeOK
  BY Parts DEF TypeInv
<1>2. QED
  BY <1>1, TypesHold, PTL

(***************************************************************************)
(* What overlapping writers alone can lose                                 *)
(***************************************************************************)
\* Until the settings are there nobody has come past the seeding of them, and
\* who still means to seed them has overlapped with nobody who did.
Launching ==
    /\ ~exists => /\ settings = Default /\ wanted = Default
                  /\ \A p \in Procs : stage[p] \in {"off", "config", "seed"}
    /\ \A p \in Procs : stage[p] = "seed" /\ "settings" \notin overlapped => ~exists
    /\ \A p \in Procs : job[p] # NoJob => stage[p] \in {"forget", "on"}

\* What a process has read is still what the file holds, or the read failed.
Fresh ==
    \A p \in Procs :
        /\ job[p].read /\ job[p].file = "settings" /\ "settings" \notin overlapped
              => job[p].held = settings
        /\ job[p].read /\ job[p].file = "history" /\ "history" \notin overlapped
              => \/ job[p].held = Recalled
                 \/ job[p].held = <<>> /\ "history" \in misread
        /\ fetch[p].read /\ "cache" \notin overlapped \cup misread
              => fetch[p].held = cache

\* IsSuffix, by position.
EndsWith(t, s) ==
    /\ Len(s) <= Len(t)
    /\ \A i \in 1 .. Len(s) : s[i] = t[Len(t) - Len(s) + i]

Kept ==
    /\ "settings" \notin overlapped => settings = wanted
    /\ "history" \notin overlapped =>
         /\ EndsWith(typed, Recalled)
         /\ "history" \notin misread => Len(Recalled) >= Cap \/ Recalled = typed
    /\ "cache" \notin overlapped \cup misread => cache = listed

FilesInv == Launching /\ Fresh /\ Kept

LEMMA Marked ==
  ASSUME NEW p \in Procs, NEW file, Mark(p, file)
  PROVE  /\ overlapped \subseteq overlapped'
         /\ overlapped' \subseteq overlapped \cup {file}
         /\ \A q \in Procs : q # p /\ q \in Holders(file) => file \in overlapped'
BY DEF Mark

LEMMA Holding ==
  ASSUME NEW p \in Procs
  PROVE  /\ job[p] # NoJob => p \in Holders(job[p].file)
         /\ fetch[p].read => p \in Holders("cache")
         /\ stage[p] = "seed" => p \in Holders("settings")
BY DEF Holders

LEMMA ReadIsBusy ==
  ASSUME NEW p \in Procs
  PROVE  /\ job[p].read => job[p] # NoJob
         /\ job[p].todo # <<>> => job[p] # NoJob
         /\ NoJob.read = FALSE /\ NoFetch.read = FALSE
BY DEF NoJob, NoFetch

\* A step that writes no file.
QuietFiles == /\ UNCHANGED <<exists, settings, history, cache>>
              /\ UNCHANGED <<wanted, typed, listed, misread, overlapped>>

LEMMA QuietKept ==
  ASSUME Kept, QuietFiles PROVE Kept'
BY DEF Kept, QuietFiles, EndsWith, Recalled

LEMMA LaunchKeeps ==
  ASSUME Rest, Memory, FilesInv, NEW p \in Procs, Launch(p)
  PROVE  FilesInv'
<1>1. CASE Start(p)
  <2>1. /\ stage[p] = "off" /\ stage' = [stage EXCEPT ![p] = "config"]
        /\ QuietFiles /\ UNCHANGED <<job, fetch>>
    BY <1>1 DEF Start, files, ghosts, QuietFiles
  <2>2. Launching'
    BY <2>1 DEF FilesInv, Launching, Rest, QuietFiles, Default, NoJob, Medium
  <2>3. Fresh'
    BY <2>1 DEF FilesInv, Fresh, QuietFiles, Recalled
  <2>4. QED
    BY <2>1, <2>2, <2>3, QuietKept DEF FilesInv
<1>2. CASE LoadConfig(p)
  <2>1. /\ stage[p] = "config"
        /\ QuietFiles /\ UNCHANGED <<job, fetch>>
    BY <1>2 DEF LoadConfig, files, ghosts, QuietFiles
  <2>2. \/ exists /\ stage' = [stage EXCEPT ![p] = "choose"]
        \/ ~exists /\ stage' = [stage EXCEPT ![p] = "seed"]
    BY <1>2 DEF LoadConfig, Resolve
  <2>3. Launching'
    BY <2>1, <2>2 DEF FilesInv, Launching, Rest, QuietFiles, Default, NoJob, Medium
  <2>4. Fresh'
    BY <2>1 DEF FilesInv, Fresh, QuietFiles, Recalled
  <2>5. QED
    BY <2>1, <2>3, <2>4, QuietKept DEF FilesInv
<1>3. CASE SeedDefaults(p)
  <2>1. /\ stage[p] = "seed" /\ exists' = TRUE /\ settings' = Default
        /\ stage' = [stage EXCEPT ![p] = "choose"] /\ Mark(p, "settings")
        /\ UNCHANGED <<history, cache, job, fetch, wanted, typed, listed, misread>>
    BY <1>3 DEF SeedDefaults, Resolve
  <2>2. /\ overlapped \subseteq overlapped'
        /\ overlapped' \subseteq overlapped \cup {"settings"}
        /\ \A q \in Procs : q # p /\ q \in Holders("settings") =>
                                "settings" \in overlapped'
    BY <2>1, Marked
  <2>3. Launching'
    <3>1. \A q \in Procs : stage'[q] = "seed" => "settings" \in overlapped'
      BY <2>1, <2>2, Holding DEF Rest
    <3>2. \A q \in Procs : job'[q] # NoJob' => stage'[q] \in {"forget", "on"}
      BY <2>1 DEF FilesInv, Launching, Rest, NoJob
    <3>3. QED
      BY <2>1, <3>1, <3>2 DEF Launching
  <2>4. Fresh'
    <3>1. ASSUME NEW q \in Procs, job[q].read, job[q].file = "settings"
          PROVE  "settings" \in overlapped'
      <4>1. job[q] # NoJob /\ stage[q] \in {"forget", "on"}
        BY <3>1, ReadIsBusy DEF FilesInv, Launching
      <4>2. q # p
        BY <2>1, <4>1
      <4>3. q \in Holders("settings")
        BY <3>1, <4>1, Holding
      <4>4. QED
        BY <2>2, <4>2, <4>3
    <3>2. QED
      BY <2>1, <2>2, <3>1 DEF FilesInv, Fresh, Recalled
  <2>5. Kept'
    <3>1. "settings" \notin overlapped' => settings' = wanted'
      BY <2>1, <2>2 DEF FilesInv, Launching
    <3>2. QED
      BY <2>1, <2>2, <3>1 DEF FilesInv, Kept, EndsWith, Recalled
  <2>6. QED
    BY <2>3, <2>4, <2>5 DEF FilesInv
<1>4. CASE Choose(p)
  <2> DEFINE forgets == [NoJob EXCEPT !.todo = <<Entry("provider", None)>>,
                                      !.held = settings, !.read = TRUE]
  <2>1. /\ stage[p] = "choose"
        /\ QuietFiles /\ UNCHANGED fetch
        /\ \/ job' = [job EXCEPT ![p] = forgets]
              /\ stage' = [stage EXCEPT ![p] = "forget"]
           \/ job' = job /\ stage' = [stage EXCEPT ![p] = "on"]
    BY <1>4 DEF Choose, files, ghosts, QuietFiles
  <2>2. forgets.file = "settings" /\ forgets.held = settings
    BY DEF NoJob
  <2> HIDE DEF forgets
  <2>3. exists
    BY <2>1 DEF FilesInv, Launching, Rest
  <2>4. Launching'
    BY <2>1, <2>3 DEF FilesInv, Launching, Rest, Memory, QuietFiles, NoJob
  <2>5. Fresh'
    <3>1. ASSUME NEW q \in Procs
          PROVE  job'[q] = job[q] \/ job'[q] = forgets
      BY <2>1 DEF Memory
    <3>2. QED
      BY <2>1, <2>2, <3>1 DEF FilesInv, Fresh, QuietFiles, Recalled
  <2>6. QED
    BY <2>1, <2>4, <2>5, QuietKept DEF FilesInv
<1>5. QED
  BY <1>1, <1>2, <1>3, <1>4 DEF Launch

LEMMA HandleKeeps ==
  ASSUME Rest, Memory, FilesInv, NEW p \in Procs, Handle(p)
  PROVE  FilesInv'
<1>1. PICK file, t, b : Begin(p, file, t, b)
  BY DEF Handle, Pick, PickEffort, LoginDone, AddProvider, Submit
<1> DEFINE j == [NoJob EXCEPT !.file = file, !.todo = t, !.pick = b]
<1>2. /\ stage[p] = "on" /\ job' = [job EXCEPT ![p] = j]
      /\ QuietFiles /\ UNCHANGED <<stage, fetch>>
  BY <1>1 DEF Begin, Ready, files, QuietFiles
<1>3. j.read = FALSE
  BY DEF NoJob
<1> HIDE DEF j
<1>4. Launching'
  BY <1>2 DEF FilesInv, Launching, Memory, QuietFiles, Default, Medium, NoJob
<1>5. Fresh'
  <2>1. \A q \in Procs : job'[q] = job[q] \/ job'[q] = j
    BY <1>2 DEF Memory
  <2>2. QED
    BY <1>2, <1>3, <2>1 DEF FilesInv, Fresh, QuietFiles, Recalled
<1>6. QED
  BY <1>2, <1>4, <1>5, QuietKept DEF FilesInv

LEMMA EndKeeps ==
  ASSUME Rest, Memory, FilesInv, NEW p \in Procs, End(p)
  PROVE  FilesInv'
<1>1. /\ stage' = [stage EXCEPT ![p] = "off"] /\ job' = [job EXCEPT ![p] = NoJob]
      /\ fetch' = [fetch EXCEPT ![p] = NoFetch] /\ QuietFiles
  BY DEF End, files, ghosts, QuietFiles
<1>2. Launching'
  BY <1>1 DEF FilesInv, Launching, Rest, Memory, QuietFiles, Default, Medium, NoJob
<1>3. Fresh'
  <2>1. \A q \in Procs : /\ job'[q] = job[q] \/ job'[q] = NoJob
                         /\ fetch'[q] = fetch[q] \/ fetch'[q] = NoFetch
    BY <1>1 DEF Memory
  <2>2. QED
    BY <1>1, <2>1, ReadIsBusy DEF FilesInv, Fresh, QuietFiles, Recalled
<1>4. QED
  BY <1>1, <1>2, <1>3, QuietKept DEF FilesInv

LEMMA AfterSaveRead ==
  ASSUME Memory, NEW p \in Procs, job[p].read
  PROVE  AfterSave(p).read = FALSE
<1>1. job[p] \in Jobs
  BY DEF Memory
<1>2. CASE Done(p)
  BY <1>2 DEF AfterSave, NoJob
<1>3. CASE ~Done(p)
  <2>1. AfterSave(p) = [job[p] EXCEPT !.todo = Tail(@), !.held = <<>>, !.read = FALSE]
    BY <1>3 DEF AfterSave
  <2>2. job[p] \in SettingsJobs \cup HistoryJobs
    BY <1>1 DEF Jobs
  <2>3. QED
    BY <2>1, <2>2 DEF SettingsJobs, HistoryJobs
<1>4. QED
  BY <1>2, <1>3

LEMMA Concatenated ==
  ASSUME NEW S, NEW a \in Seq(S), NEW b \in Seq(S)
  PROVE  /\ Len(a \o b) = Len(a) + Len(b)
         /\ \A i \in 1 .. Len(a) + Len(b) :
               (a \o b)[i] = IF i <= Len(a) THEN a[i] ELSE b[i - Len(a)]
OBVIOUS

\* What the history recalls after an entry with the text u: all that was typed,
\* or the cap at least.
LEMMA AppendedKeeps ==
  ASSUME NEW s \in Seq(Lines), NEW t \in Seq(Lines), NEW u \in Seq(Lines), u # <<>>,
         EndsWith(t, s)
  PROVE  /\ EndsWith(t \o u, LastN(s, Cap - 1) \o u)
         /\ Len(s) >= Cap \/ s = t =>
               \/ Len(LastN(s, Cap - 1) \o u) >= Cap
               \/ LastN(s, Cap - 1) \o u = t \o u
<1> DEFINE x == LastN(s, Cap - 1)
<1>1. /\ Cap \in Nat \ {0} /\ Cap - 1 \in Nat
      /\ Len(u) \in Nat /\ Len(u) > 0
  BY FileConstants
<1>2. /\ x \in Seq(Lines)
      /\ Len(x) = IF Len(s) > Cap - 1 THEN Cap - 1 ELSE Len(s)
      /\ \A i \in 1 .. Len(x) : x[i] = s[Len(s) - Len(x) + i]
  BY <1>1, LastNType
<1> HIDE DEF x
<1>4. /\ Len(s) \in Nat /\ Len(t) \in Nat /\ Len(x) \in Nat /\ Len(x) <= Len(s)
      /\ Len(s) <= Len(t)
  BY <1>1, <1>2 DEF EndsWith
<1>5. /\ Len(x \o u) = Len(x) + Len(u) /\ Len(t \o u) = Len(t) + Len(u)
      /\ \A i \in 1 .. Len(x) + Len(u) :
            (x \o u)[i] = IF i <= Len(x) THEN x[i] ELSE u[i - Len(x)]
      /\ \A i \in 1 .. Len(t) + Len(u) :
            (t \o u)[i] = IF i <= Len(t) THEN t[i] ELSE u[i - Len(t)]
  BY <1>1, <1>2, Concatenated
<1>6. EndsWith(t \o u, x \o u)
  <2>1. ASSUME NEW i \in 1 .. Len(x) + Len(u)
        PROVE  (x \o u)[i] = (t \o u)[Len(t) + Len(u) - (Len(x) + Len(u)) + i]
    <3> DEFINE k == Len(t) + Len(u) - (Len(x) + Len(u)) + i
    <3>1. k = Len(t) - Len(x) + i /\ k \in 1 .. Len(t) + Len(u)
      BY <1>1, <1>4
    <3>2. CASE i <= Len(x)
      <4>1. i \in 1 .. Len(x) /\ k <= Len(t)
        BY <1>1, <1>4, <3>1, <3>2
      <4>2. Len(s) - Len(x) + i \in 1 .. Len(s)
        BY <1>4, <4>1
      <4>3. s[Len(s) - Len(x) + i] = t[Len(t) - Len(s) + (Len(s) - Len(x) + i)]
        BY <4>2 DEF EndsWith
      <4>4. Len(t) - Len(s) + (Len(s) - Len(x) + i) = k
        BY <1>4, <3>1
      <4>5. x[i] = t[k]
        BY <1>2, <4>1, <4>3, <4>4
      <4> HIDE DEF k
      <4>6. QED
        BY <1>5, <3>1, <3>2, <4>1, <4>5 DEF k
    <3>3. CASE i > Len(x)
      <4>1. k > Len(t) /\ k - Len(t) = i - Len(x)
        BY <1>4, <3>1, <3>3
      <4>2. (x \o u)[i] = u[i - Len(x)]
        BY <1>4, <1>5, <3>3
      <4>3. ~(k <= Len(t))
        BY <1>4, <3>1, <4>1
      <4> HIDE DEF k
      <4>4. (t \o u)[k] = u[k - Len(t)]
        BY <1>5, <3>1, <4>3
      <4>5. QED
        BY <4>1, <4>2, <4>4 DEF k
    <3>4. QED
      BY <1>4, <3>2, <3>3
  <2>2. Len(x) + Len(u) <= Len(t) + Len(u)
    BY <1>1, <1>4
  <2>3. QED
    BY <1>5, <2>1, <2>2 DEF EndsWith
<1>7. ASSUME Len(s) >= Cap \/ s = t
      PROVE  Len(x \o u) >= Cap \/ x \o u = t \o u
  <2>1. CASE Len(s) > Cap - 1
    BY <1>1, <1>2, <1>5, <2>1
  <2>2. CASE ~(Len(s) > Cap - 1)
    <3>1. s = t /\ Len(x) = Len(s)
      BY <1>1, <1>2, <1>4, <1>7, <2>2
    <3>2. \A i \in 1 .. Len(x) : x[i] = s[i]
      BY <1>2, <1>4, <3>1
    <3>3. x = s
      BY <1>2, <3>1, <3>2
    <3>4. QED
      BY <3>1, <3>3
  <2>3. QED
    BY <2>1, <2>2
<1>8. QED
  BY <1>6, <1>7 DEF x

LEMMA WriteKeeps ==
  ASSUME Rest, Memory, FilesInv, NEW p \in Procs, Write(p)
  PROVE  FilesInv'
<1> DEFINE j == job[p]
           l == fetch[p]
<1>j. j \in Jobs
  BY DEF Memory
<1>0. ASSUME NEW h, j.todo # <<>>,
             job' = [job EXCEPT ![p].read = TRUE, ![p].held = h],
             UNCHANGED <<exists, settings, history, cache, wanted, typed, listed,
                         overlapped, stage, fetch>>,
             misread \subseteq misread',
             j.file = "settings" => h = settings,
             j.file = "history" => \/ h = Recalled
                                   \/ h = <<>> /\ "history" \in misread'
      PROVE  FilesInv'
  <2> DEFINE x == [j EXCEPT !.read = TRUE, !.held = h]
  <2>1. job' = [job EXCEPT ![p] = x]
    BY <1>0 DEF Memory
  <2>2. x.held = h /\ x.file = j.file
    BY <1>j DEF Jobs, SettingsJobs, HistoryJobs
  <2>3. stage[p] \in {"forget", "on"}
    BY <1>0, ReadIsBusy DEF FilesInv, Launching
  <2> HIDE DEF x
  <2>4. Launching'
    BY <1>0, <2>1, <2>3 DEF FilesInv, Launching, Memory, Default, Medium, NoJob
  <2>5. Fresh'
    <3>1. \A q \in Procs : job'[q] = job[q] \/ job'[q] = x
      BY <2>1 DEF Memory
    <3>2. /\ x.file = "settings" => x.held = settings
          /\ x.file = "history" => \/ x.held = Recalled
                                   \/ x.held = <<>> /\ "history" \in misread'
      BY <1>0, <2>2
    <3>3. Recalled' = Recalled
      BY <1>0 DEF Recalled
    <3>4. QED
      BY <1>0, <3>1, <3>2, <3>3 DEF FilesInv, Fresh
  <2>6. Kept'
    BY <1>0 DEF FilesInv, Kept, EndsWith, Recalled
  <2>7. QED
    BY <2>4, <2>5, <2>6 DEF FilesInv
<1>1. CASE Load(p)
  <2> DEFINE h == IF j.file = "settings" THEN settings ELSE Recalled
  <2>1. /\ j.todo # <<>> /\ job' = [job EXCEPT ![p].read = TRUE, ![p].held = h]
        /\ UNCHANGED <<exists, settings, history, cache, wanted, typed, listed,
                       overlapped, stage, fetch, misread>>
    BY <1>1 DEF Load, files, ghosts
  <2>2. /\ j.file = "settings" => h = settings
        /\ j.file = "history" => h = Recalled
    OBVIOUS
  <2> HIDE DEF h
  <2>3. QED
    BY <1>0, <2>1, <2>2
<1>1a. CASE LoadFails(p)
  <2>1. /\ j.todo # <<>> /\ j.file = "history"
        /\ job' = [job EXCEPT ![p].read = TRUE, ![p].held = <<>>]
        /\ misread' = misread \cup {"history"}
        /\ UNCHANGED <<exists, settings, history, cache, wanted, typed, listed,
                       overlapped, stage, fetch>>
    BY <1>1a DEF LoadFails, files
  <2>2. QED
    BY <1>0, <2>1
<1>2. CASE SaveSettings(p)
  <2>1. /\ j.file = "settings" /\ j.read
        /\ settings' = Updated(j.held, Head(j.todo))
        /\ wanted' = Updated(wanted, Head(j.todo))
        /\ job' = [job EXCEPT ![p] = AfterSave(p)]
        /\ stage' = [stage EXCEPT ![p] = IF @ = "forget" THEN "on" ELSE @]
        /\ Mark(p, "settings")
        /\ UNCHANGED <<exists, history, cache, fetch, typed, listed, misread>>
    BY <1>2 DEF SaveSettings
  <2>2. /\ overlapped \subseteq overlapped'
        /\ overlapped' \subseteq overlapped \cup {"settings"}
        /\ \A q \in Procs : q # p /\ q \in Holders("settings") =>
                                "settings" \in overlapped'
    BY <2>1, Marked
  <2>3. stage[p] \in {"forget", "on"} /\ exists
    BY <2>1, ReadIsBusy DEF FilesInv, Launching
  <2>4. Launching'
    <3>1. \A q \in Procs : stage'[q] = "seed" => "settings" \in overlapped'
      BY <2>1, <2>2, <2>3, Holding DEF Rest
    <3>2. \A q \in Procs : job'[q] # NoJob' => stage'[q] \in {"forget", "on"}
      BY <2>1, <2>3 DEF FilesInv, Launching, Rest, Memory, NoJob
    <3>3. QED
      BY <2>1, <2>3, <3>1, <3>2 DEF Launching
  <2>5. Fresh'
    <3>1. ASSUME NEW q \in Procs, q # p, job[q].read, job[q].file = "settings"
          PROVE  "settings" \in overlapped'
      BY <2>2, <3>1, ReadIsBusy, Holding
    <3>2. AfterSave(p).read = FALSE
      BY <2>1, AfterSaveRead
    <3>3. job'[p] = AfterSave(p) /\ \A q \in Procs : q # p => job'[q] = job[q]
      BY <2>1 DEF Memory
    <3>4. ASSUME NEW q \in Procs, job'[q].read, job'[q].file = "settings",
                 "settings" \notin overlapped'
          PROVE  job'[q].held = settings'
      BY <3>1, <3>2, <3>3, <3>4
    <3>5. ASSUME NEW q \in Procs, job'[q].read, job'[q].file = "history",
                 "history" \notin overlapped'
          PROVE  \/ job'[q].held = Recalled'
                 \/ job'[q].held = <<>> /\ "history" \in misread'
      BY <2>1, <2>2, <3>2, <3>3, <3>5 DEF FilesInv, Fresh, Recalled
    <3>6. ASSUME NEW q \in Procs, fetch'[q].read,
                 "cache" \notin overlapped' \cup misread'
          PROVE  fetch'[q].held = cache'
      BY <2>1, <2>2, <3>6 DEF FilesInv, Fresh
    <3>7. QED
      BY <3>4, <3>5, <3>6 DEF Fresh
  <2>6. Kept'
    <3>1. ASSUME "settings" \notin overlapped' PROVE settings' = wanted'
      <4>1. j.held = settings /\ settings = wanted
        BY <2>1, <2>2, <3>1 DEF FilesInv, Fresh, Kept
      <4>2. QED
        BY <2>1, <4>1
    <3>2. QED
      BY <2>1, <2>2, <3>1 DEF FilesInv, Kept, EndsWith, Recalled
  <2>7. QED
    BY <2>4, <2>5, <2>6 DEF FilesInv
<1>3. CASE SaveHistory(p)
  <2>1. /\ j.file = "history" /\ j.read
        /\ history' = Appended(j.held, Head(j.todo))
        /\ typed' = typed \o NonBlank(Head(j.todo))
        /\ job' = [job EXCEPT ![p] = AfterSave(p)]
        /\ Mark(p, "history")
        /\ UNCHANGED <<exists, settings, cache, stage, fetch, wanted, listed, misread>>
    BY <1>3 DEF SaveHistory
  <2>2. /\ overlapped \subseteq overlapped'
        /\ overlapped' \subseteq overlapped \cup {"history"}
        /\ \A q \in Procs : q # p /\ q \in Holders("history") =>
                                "history" \in overlapped'
    BY <2>1, Marked
  <2>3. Launching'
    BY <2>1, <2>2, ReadIsBusy
       DEF FilesInv, Launching, Memory, Default, Medium, NoJob
  <2>4. Fresh'
    <3>1. ASSUME NEW q \in Procs, q # p, job[q].read, job[q].file = "history"
          PROVE  "history" \in overlapped'
      BY <2>2, <3>1, ReadIsBusy, Holding
    <3>2. AfterSave(p).read = FALSE
      BY <2>1, AfterSaveRead
    <3>3. job'[p] = AfterSave(p) /\ \A q \in Procs : q # p => job'[q] = job[q]
      BY <2>1 DEF Memory
    <3>4. ASSUME NEW q \in Procs, job'[q].read, job'[q].file = "history",
                 "history" \notin overlapped'
          PROVE  FALSE
      BY <3>1, <3>2, <3>3, <3>4
    <3>5. ASSUME NEW q \in Procs, job'[q].read, job'[q].file = "settings",
                 "settings" \notin overlapped'
          PROVE  job'[q].held = settings'
      BY <2>1, <2>2, <3>2, <3>3, <3>5 DEF FilesInv, Fresh
    <3>6. ASSUME NEW q \in Procs, fetch'[q].read,
                 "cache" \notin overlapped' \cup misread'
          PROVE  fetch'[q].held = cache'
      BY <2>1, <2>2, <3>6 DEF FilesInv, Fresh
    <3>7. QED
      BY <3>4, <3>5, <3>6 DEF Fresh
  <2>5. Kept'
    <3>1. ASSUME "history" \notin overlapped'
          PROVE  /\ EndsWith(typed', Recalled')
                 /\ "history" \notin misread' =>
                       Len(Recalled') >= Cap \/ Recalled' = typed'
      <4> DEFINE u == NonBlank(Head(j.todo))
                 h == j.held
      <4>1. /\ EndsWith(typed, Recalled)
            /\ "history" \notin misread => Len(Recalled) >= Cap \/ Recalled = typed
            /\ h = Recalled \/ (h = <<>> /\ "history" \in misread)
        BY <2>1, <2>2, <3>1 DEF FilesInv, Fresh, Kept
      <4>2. Head(j.todo) \in Entries /\ h \in Seq(Lines)
        BY <1>j, <2>1, JobTypes, Sequences
      <4>3. u \in Seq(Lines) /\ u # <<>>
        BY <4>2, FileConstants
      <4>4. typed \in Seq(Lines)
        BY DEF Rest
      <4>5. Recalled' = LastN(h, Cap - 1) \o u
        BY <2>1 DEF Recalled, Appended
      <4>6. EndsWith(typed, h)
        <5>1. EndsWith(typed, <<>>)
          BY <4>4 DEF EndsWith
        <5>2. QED
          BY <4>1, <5>1
      <4> HIDE DEF u, h
      <4>7. /\ EndsWith(typed \o u, LastN(h, Cap - 1) \o u)
            /\ Len(h) >= Cap \/ h = typed =>
                  \/ Len(LastN(h, Cap - 1) \o u) >= Cap
                  \/ LastN(h, Cap - 1) \o u = typed \o u
        BY <4>2, <4>3, <4>4, <4>6, AppendedKeeps
      <4>8. typed' = typed \o u /\ misread' = misread
        BY <2>1 DEF u
      <4>9. QED
        BY <4>1, <4>5, <4>7, <4>8
    <3>2. QED
      BY <2>1, <2>2, <3>1 DEF FilesInv, Kept
  <2>6. QED
    BY <2>3, <2>4, <2>5 DEF FilesInv
<1>4. CASE Fetch(p)
  <2>1. PICK end \in Endpoints, list \in Lists :
          fetch' = [fetch EXCEPT ![p] = [NoFetch EXCEPT !.end = end, !.list = list]]
    BY <1>4 DEF Fetch
  <2> DEFINE x == [NoFetch EXCEPT !.end = end, !.list = list]
  <2>2. x.read = FALSE
    BY DEF NoFetch
  <2> HIDE DEF x
  <2>3. QuietFiles /\ UNCHANGED <<stage, job>> /\ fetch' = [fetch EXCEPT ![p] = x]
    BY <1>4, <2>1 DEF Fetch, files, QuietFiles, x
  <2>4. Launching'
    BY <2>3 DEF FilesInv, Launching, QuietFiles, Default, Medium, NoJob
  <2>5. Fresh'
    <3>1. \A q \in Procs : fetch'[q] = fetch[q] \/ fetch'[q] = x
      BY <2>3 DEF Memory
    <3>2. QED
      BY <2>2, <2>3, <3>1 DEF FilesInv, Fresh, QuietFiles, Recalled
  <2>6. QED
    BY <2>3, <2>4, <2>5, QuietKept DEF FilesInv
<1>5. CASE LoadCache(p)
  <2> DEFINE x == [l EXCEPT !.read = TRUE, !.held = cache]
  <2>1. QuietFiles /\ UNCHANGED <<stage, job>> /\ fetch' = [fetch EXCEPT ![p] = x]
    BY <1>5 DEF LoadCache, files, ghosts, QuietFiles, Memory
  <2>2. x.held = cache
    BY DEF Memory, Fetches
  <2> HIDE DEF x
  <2>3. Launching'
    BY <2>1 DEF FilesInv, Launching, QuietFiles, Default, Medium, NoJob
  <2>4. Fresh'
    <3>1. \A q \in Procs : fetch'[q] = fetch[q] \/ fetch'[q] = x
      BY <2>1 DEF Memory
    <3>2. QED
      BY <2>1, <2>2, <3>1 DEF FilesInv, Fresh, QuietFiles, Recalled
  <2>5. QED
    BY <2>1, <2>3, <2>4, QuietKept DEF FilesInv
<1>5a. CASE LoadCacheFails(p)
  <2> DEFINE x == [l EXCEPT !.read = TRUE, !.held = NoCache]
  <2>1. /\ UNCHANGED <<exists, settings, history, cache, wanted, typed, listed,
                       overlapped, stage, job>>
        /\ misread' = misread \cup {"cache"} /\ fetch' = [fetch EXCEPT ![p] = x]
    BY <1>5a DEF LoadCacheFails, files, Memory
  <2>2. Launching'
    BY <2>1 DEF FilesInv, Launching, Default, Medium, NoJob
  <2>3. Fresh' /\ Kept'
    BY <2>1 DEF FilesInv, Fresh, Kept, EndsWith, Recalled
  <2>4. QED
    BY <2>2, <2>3 DEF FilesInv
<1>6. CASE SaveCache(p)
  <2>1. /\ l.read
        /\ cache' = [l.held EXCEPT ![l.end] = l.list]
        /\ listed' = [listed EXCEPT ![l.end] = l.list]
        /\ fetch' = [fetch EXCEPT ![p] = NoFetch]
        /\ Mark(p, "cache")
        /\ UNCHANGED <<exists, settings, history, stage, job, wanted, typed, misread>>
    BY <1>6 DEF SaveCache
  <2>2. /\ overlapped \subseteq overlapped'
        /\ overlapped' \subseteq overlapped \cup {"cache"}
        /\ \A q \in Procs : q # p /\ q \in Holders("cache") =>
                                "cache" \in overlapped'
    BY <2>1, Marked
  <2>3. Launching'
    BY <2>1, <2>2 DEF FilesInv, Launching, Default, Medium, NoJob
  <2>4. Fresh'
    <3>1. fetch'[p] = NoFetch /\ \A q \in Procs : q # p => fetch'[q] = fetch[q]
      BY <2>1 DEF Memory
    <3>2. ASSUME NEW q \in Procs, fetch'[q].read, "cache" \notin overlapped'
          PROVE  FALSE
      BY <2>2, <3>1, <3>2, ReadIsBusy, Holding
    <3>3. QED
      BY <2>1, <2>2, <3>2 DEF FilesInv, Fresh, Recalled
  <2>5. Kept'
    <3>1. ASSUME "cache" \notin overlapped' \cup misread' PROVE cache' = listed'
      <4>1. l.held = cache /\ cache = listed
        BY <2>1, <2>2, <3>1 DEF FilesInv, Fresh, Kept
      <4>2. QED
        BY <2>1, <4>1
    <3>2. QED
      BY <2>1, <2>2, <3>1 DEF FilesInv, Kept, EndsWith, Recalled
  <2>6. QED
    BY <2>3, <2>4, <2>5 DEF FilesInv
<1>7. QED
  BY <1>1, <1>1a, <1>2, <1>3, <1>4, <1>5, <1>5a, <1>6 DEF Write

LEMMA InitKeeps == Init => FilesInv
<1>1. ASSUME Init PROVE FilesInv
  <2>1. Launching
    BY <1>1 DEF Init, Launching, Default, Medium, NoJob
  <2>2. Fresh
    BY <1>1, ReadIsBusy DEF Init, Fresh
  <2>3. Kept
    <3>1. Recalled = <<>> /\ typed = <<>> /\ settings = wanted /\ cache = listed
      BY <1>1, FileConstants DEF Init, Recalled
    <3>2. QED
      BY <3>1 DEF Kept, EndsWith
  <2>4. QED
    BY <2>1, <2>2, <2>3 DEF FilesInv
<1>2. QED
  BY <1>1

LEMMA StepKeeps ==
  Rest /\ Memory /\ FilesInv /\ [Next]_vars => FilesInv'
<1> SUFFICES ASSUME Rest, Memory, FilesInv, [Next]_vars PROVE FilesInv'
  OBVIOUS
<1>1. CASE UNCHANGED vars
  <2>1. QuietFiles /\ UNCHANGED <<stage, job, fetch>>
    BY <1>1 DEF vars, files, ghosts, QuietFiles
  <2>2. Launching' /\ Fresh'
    BY <2>1 DEF FilesInv, Launching, Fresh, QuietFiles, Default, Medium, NoJob, Recalled
  <2>3. QED
    BY <2>1, <2>2, QuietKept DEF FilesInv
<1>2. CASE Next
  <2>1. PICK p \in Procs : Launch(p) \/ Handle(p) \/ Write(p) \/ Quit(p) \/ Crash(p)
    BY <1>2 DEF Next
  <2>2. QED
    BY <2>1, LaunchKeeps, HandleKeeps, WriteKeeps, EndKeeps DEF Quit, Crash
<1>3. QED
  BY <1>1, <1>2

LEMMA SuffixByPosition ==
  ASSUME NEW S, NEW s \in Seq(S), NEW t \in Seq(S), EndsWith(t, s)
  PROVE  IsSuffix(s, t)
<1> DEFINE r == Reverse(s)
           u == Reverse(t)
<1>1. /\ r \in Seq(S) /\ Len(r) = Len(s)
      /\ \A i \in 1 .. Len(s) : r[i] = s[Len(s) - i + 1]
  BY DEF Reverse
<1>2. /\ u \in Seq(S) /\ Len(u) = Len(t)
      /\ \A i \in 1 .. Len(t) : u[i] = t[Len(t) - i + 1]
  BY DEF Reverse
<1>3. Len(s) \in Nat /\ Len(t) \in Nat /\ Len(s) <= Len(t)
  BY DEF EndsWith
<1>4. ASSUME NEW i \in 1 .. Len(s) PROVE r[i] = u[i]
  <2>1. Len(s) - i + 1 \in 1 .. Len(s)
    BY <1>3
  <2>2. s[Len(s) - i + 1] = t[Len(t) - Len(s) + (Len(s) - i + 1)]
    BY <2>1 DEF EndsWith
  <2>3. Len(t) - Len(s) + (Len(s) - i + 1) = Len(t) - i + 1 /\ i \in 1 .. Len(t)
    BY <1>3
  <2> HIDE DEF r, u
  <2>4. QED
    BY <1>1, <1>2, <2>2, <2>3
<1> HIDE DEF r, u
<1>5. SubSeq(r, 1, Len(r)) = SubSeq(u, 1, Len(r))
  BY <1>1, <1>2, <1>3, <1>4
<1>6. IsPrefix(r, u)
  BY <1>1, <1>2, <1>3, <1>5 DEF IsPrefix
<1>7. QED
  BY <1>6 DEF IsSuffix, r, u

\* Only overlapping writers and failing reads lose anything, for any number of
\* processes that launch, save and die between any two reads and writes, any
\* entries with blank lines in them, and any cap.
THEOREM NothingLostAloneHolds == Spec => []NothingLostAlone
<1>1. Rest /\ FilesInv => NothingLostAlone
  <2>1. ASSUME Rest, FilesInv PROVE NothingLostAlone
    <3>1. EndsWith(typed, Recalled) => IsSuffix(Recalled, typed)
      BY <2>1, RecalledType, SuffixByPosition DEF Rest
    <3>2. QED
      BY <2>1, <3>1 DEF FilesInv, Kept, NothingLostAlone
  <2>2. QED
    BY <2>1
<1>2. Spec => []FilesInv
  BY TypesHold, InitKeeps, StepKeeps, PTL DEF Spec
<1>3. QED
  BY <1>1, <1>2, TypesHold, PTL

(***************************************************************************)
(* The choice a launch takes up                                            *)
(***************************************************************************)
Picks == {c \in Changes : /\ DOMAIN c = {"provider", "model", "effort"}
                           /\ c["provider"] \in Providers /\ c["model"] \in Models}

\* The settings have model m in the entry of provider n.
HasEntry(n, m) == settings[n] \in Profiles /\ settings[n].model = m

\* The settings hold the choice last picked.
PickKept ==
    /\ picked \in Picks \cup {None}
    /\ ~exists => picked = None
    /\ picked # None /\ "settings" \notin overlapped =>
         /\ settings["provider"] = picked["provider"]
         /\ settings["effort"] = picked["effort"]
         /\ HasEntry(picked["provider"], picked["model"])

\* A local pick is saved in two changes, the provider's entry first.
TwoChanges(t) ==
    \E n \in Providers, x \in Profiles, e \in Efforts :
        x.model \in Models /\ t = <<Entry(n, x), Choice(n, x.model, e)>>

\* What a job has still to save: one change that is no local pick, both changes
\* of one, or the second after the first.
Chores(p) ==
    job[p].file = "settings" =>
        \/ job[p].todo = <<>>
        \/ Len(job[p].todo) = 1 /\ job[p].pick = FALSE
        \/ job[p].pick = TRUE /\ TwoChanges(job[p].todo)
        \/ /\ job[p].pick = TRUE
           /\ \E n \in Providers, m \in Models, e \in Efforts :
                 /\ job[p].todo = <<Choice(n, m, e)>>
                 /\ "settings" \notin overlapped => HasEntry(n, m)

\* A launch has the profiles and the effort of the settings, and no provider.
Launched(p) ==
    stage[p] = "choose" =>
        /\ active[p].name = None
        /\ "settings" \notin overlapped =>
             /\ \A n \in Providers :
                   profiles[p][n] = Based(over[p].base, n, ProfileOf(settings, n))
             /\ over[p].effort = None => active[p].effort = settings["effort"]

PickInv == PickKept /\ \A p \in Procs : Chores(p) /\ Launched(p)

LEMMA PickStays ==
  ASSUME PickKept, picked' = picked, exists => exists',
         "settings" \notin overlapped' =>
             settings' = settings /\ "settings" \notin overlapped
  PROVE  PickKept'
BY DEF PickKept, HasEntry

LEMMA ChoresStay ==
  ASSUME NEW q \in Procs, Chores(q), job'[q].file = job[q].file,
         job'[q].todo = job[q].todo, job'[q].pick = job[q].pick,
         \/ job[q].todo = <<>>
         \/ job[q].file = "settings" /\ "settings" \notin overlapped' =>
                settings' = settings /\ "settings" \notin overlapped
  PROVE  Chores(q)'
BY DEF Chores, HasEntry

LEMMA LaunchedStays ==
  ASSUME NEW q \in Procs, Launched(q),
         stage'[q] = "choose" =>
            /\ stage[q] = "choose" /\ active'[q] = active[q]
            /\ profiles'[q] = profiles[q] /\ over'[q] = over[q]
            /\ "settings" \notin overlapped' =>
                   settings' = settings /\ "settings" \notin overlapped
  PROVE  Launched(q)'
BY DEF Launched, ProfileOf

LEMMA Waiting ==
  ASSUME NEW q \in Procs
  PROVE  /\ NoJob.todo = <<>> /\ NoJob.file = "settings"
         /\ job[q].todo # <<>> => q \in Holders(job[q].file)
         /\ stage[q] = "choose" => q \in Holders("settings")
<1>1. NoJob.todo = <<>> /\ NoJob.file = "settings"
  BY DEF NoJob
<1>2. QED
  BY <1>1 DEF Holders

\* A process that resolves its configuration launches with what it read.
LEMMA Resolved ==
  ASSUME Rest, NEW p \in Procs, Resolve(p, settings'), over' = over
  PROVE  /\ Launched(p)'
         /\ stage' = [stage EXCEPT ![p] = "choose"]
         /\ \A q \in Procs : q # p => /\ active'[q] = active[q]
                                      /\ profiles'[q] = profiles[q]
<1> DEFINE e == IF over[p].effort # None THEN over[p].effort
                ELSE settings'["effort"]
<1>1. /\ profiles' = [profiles EXCEPT ![p] =
                         [n \in Providers |->
                             Based(over[p].base, n, ProfileOf(settings', n))]]
      /\ active' = [active EXCEPT ![p] = [Nobody EXCEPT !.effort = e]]
      /\ stage' = [stage EXCEPT ![p] = "choose"]
  BY DEF Resolve
<1>2. /\ [Nobody EXCEPT !.effort = e].name = None
      /\ [Nobody EXCEPT !.effort = e].effort = e
  BY DEF Nobody
<1> DEFINE a == [Nobody EXCEPT !.effort = e]
           f == [n \in Providers |-> Based(over[p].base, n, ProfileOf(settings', n))]
<1>3. \A n \in Providers : f[n] = Based(over[p].base, n, ProfileOf(settings, n))'
  BY DEF ProfileOf, Based
<1> HIDE DEF a, f
<1>4. /\ profiles' = [profiles EXCEPT ![p] = f]
      /\ active' = [active EXCEPT ![p] = a]
      /\ a.name = None /\ a.effort = e
  BY <1>1, <1>2 DEF a, f
<1>5. /\ profiles'[p] = f /\ active'[p] = a
      /\ \A q \in Procs : q # p => /\ active'[q] = active[q]
                                   /\ profiles'[q] = profiles[q]
  BY <1>4 DEF Rest
<1>6. over[p].effort = None => e = settings'["effort"]
  OBVIOUS
<1>7. QED
  <2>1. over'[p].effort = None => over[p].effort = None
    OBVIOUS
  <2> HIDE DEF e
  <2>2. QED
    BY <1>1, <1>3, <1>4, <1>5, <1>6, <2>1 DEF Launched

LEMMA LaunchPicks ==
  ASSUME Rest, Memory, FilesInv, PickInv, NEW p \in Procs, Launch(p)
  PROVE  PickInv'
<1> USE DEF PickInv
<1>0. \A q \in Procs : stage[q] \notin {"forget", "on"} => job[q].todo = <<>>
  BY Waiting DEF FilesInv, Launching
<1>1. CASE Start(p)
  <2>1. /\ stage[p] = "off" /\ stage' = [stage EXCEPT ![p] = "config"]
        /\ UNCHANGED <<files, profiles, active, job, ghosts>>
        /\ \A q \in Procs : q # p => over'[q] = over[q]
    BY <1>1 DEF Start, Rest
  <2>2. PickKept'
    BY <2>1, PickStays DEF files, ghosts
  <2>3. ASSUME NEW q \in Procs PROVE Chores(q)' /\ Launched(q)'
    BY <2>1, ChoresStay, LaunchedStays DEF files, ghosts, Rest
  <2>4. QED
    BY <2>2, <2>3
<1>2. CASE LoadConfig(p)
  <2>1. /\ stage[p] = "config" /\ UNCHANGED <<files, over, job, ghosts>>
        /\ \/ exists /\ Resolve(p, settings')
           \/ stage' = [stage EXCEPT ![p] = "seed"] /\ UNCHANGED <<profiles, active>>
    BY <1>2 DEF LoadConfig, files
  <2>2. PickKept'
    BY <2>1, PickStays DEF files, ghosts
  <2>3. ASSUME NEW q \in Procs PROVE Chores(q)' /\ Launched(q)'
    <3>1. CASE stage' = [stage EXCEPT ![p] = "seed"] /\ UNCHANGED <<profiles, active>>
      BY <2>1, <3>1, ChoresStay, LaunchedStays DEF files, ghosts, Rest
    <3>2. CASE Resolve(p, settings')
      <4>1. q = p => Launched(q)' /\ job[q].todo = <<>>
        BY <1>0, <2>1, <3>2, Resolved
      <4>2. q # p => Launched(q)' /\ active'[q] = active[q]
        BY <2>1, <3>2, Resolved, LaunchedStays DEF files, ghosts, Rest
      <4>3. Chores(q)'
        BY <2>1, <4>1, <4>2, ChoresStay DEF files, ghosts
      <4>4. QED
        BY <4>1, <4>2, <4>3
    <3>3. QED
      BY <2>1, <3>1, <3>2
  <2>4. QED
    BY <2>2, <2>3
<1>3. CASE SeedDefaults(p)
  <2>1. /\ stage[p] = "seed" /\ exists' /\ Resolve(p, settings')
        /\ Mark(p, "settings") /\ UNCHANGED <<over, job, picked>>
    BY <1>3 DEF SeedDefaults
  <2>2. /\ overlapped \subseteq overlapped'
        /\ \A q \in Procs : q # p /\ q \in Holders("settings") =>
                                "settings" \in overlapped'
    BY <2>1, Marked
  <2>3. PickKept'
    <3>1. "settings" \notin overlapped' => picked = None
      BY <2>1, <2>2 DEF FilesInv, Launching, PickKept
    <3>2. QED
      BY <2>1, <3>1 DEF PickKept, HasEntry
  <2>4. ASSUME NEW q \in Procs PROVE Chores(q)' /\ Launched(q)'
    <3>1. CASE q = p
      <4>1. Launched(q)' /\ job[q].todo = <<>>
        BY <1>0, <2>1, <3>1, Resolved
      <4>2. QED
        BY <2>1, <4>1, ChoresStay
    <3>2. CASE q # p
      <4>1. active'[q] = active[q] /\ profiles'[q] = profiles[q]
            /\ stage'[q] = stage[q]
        BY <2>1, <3>2, Resolved DEF Rest
      <4>2. /\ job[q].todo # <<>> /\ job[q].file = "settings" =>
                  "settings" \in overlapped'
            /\ stage[q] = "choose" => "settings" \in overlapped'
        BY <2>2, <3>2, Waiting
      <4>3. Chores(q)'
        BY <2>1, <4>1, <4>2, ChoresStay
      <4>4. Launched(q)'
        BY <2>1, <4>1, <4>2, LaunchedStays
      <4>5. QED
        BY <4>3, <4>4
    <3>3. QED
      BY <3>1, <3>2
  <2>5. QED
    BY <2>3, <2>4
<1>4. CASE Choose(p)
  <2> DEFINE forgets == [NoJob EXCEPT !.todo = <<Entry("provider", None)>>,
                                      !.held = settings, !.read = TRUE]
  <2>1. /\ stage[p] = "choose" /\ stage'[p] # "choose"
        /\ UNCHANGED <<files, profiles, ghosts>>
        /\ \A q \in Procs : q # p => /\ stage'[q] = stage[q] /\ job'[q] = job[q]
                                     /\ over'[q] = over[q]
                                     /\ active'[q] = active[q]
        /\ job'[p] = job[p] \/ job'[p] = forgets
    BY <1>4 DEF Choose, Rest, Memory
  <2>2. PickKept'
    BY <2>1, PickStays DEF files, ghosts
  <2>3. ASSUME NEW q \in Procs PROVE Launched(q)'
    BY <2>1, LaunchedStays DEF files, ghosts
  <2>4. ASSUME NEW q \in Procs PROVE Chores(q)'
    <3>1. CASE job'[q] = job[q]
      <4>1. job[q].todo = <<>> \/ active'[q] = active[q]
        BY <1>0, <2>1
      <4>2. QED
        BY <2>1, <3>1, <4>1, ChoresStay DEF files, ghosts
    <3>2. CASE job'[q] = forgets
      <4>1. forgets.todo = <<Entry("provider", None)>> /\ forgets.pick = FALSE
        BY DEF NoJob
      <4> DEFINE c == Entry("provider", None)
      <4> HIDE DEF c, forgets
      <4>2. Len(<<c>>) = 1
        OBVIOUS
      <4>3. QED
        BY <3>2, <4>1, <4>2 DEF Chores, c
    <3>3. QED
      BY <2>1, <3>1, <3>2
  <2>5. QED
    BY <2>2, <2>3, <2>4
<1>5. QED
  BY <1>1, <1>2, <1>3, <1>4 DEF Launch

\* A handler saves a local pick in two changes, or others in one.
LEMMA HandlerChores ==
  ASSUME Rest, NEW p \in Procs, Handle(p)
  PROVE  \E file, t, b :
           /\ Begin(p, file, t, b)
           /\ \A q \in Procs : q # p => active'[q] = active[q]
                                        /\ profiles'[q] = profiles[q]
           /\ file = "settings" => \/ Len(t) = 1 /\ b = FALSE
                                   \/ b = TRUE /\ TwoChanges(t)
<1>0. \A c : Len(<<c>>) = 1
  OBVIOUS
<1>1. CASE Pick(p)
  <2>1. PICK n \in Choosable(p), m \in Models, e \in Efforts :
           LET new == [profiles[p][n] EXCEPT !.model = m] IN
           /\ profiles[p][n] # None
           /\ Begin(p, "settings", PickChanges(n, new, e), new.local)
           /\ active' = [active EXCEPT ![p] = Running(n, new, e)]
           /\ profiles' = IF new.local THEN [profiles EXCEPT ![p][n] = new]
                          ELSE profiles
    BY <1>1 DEF Pick
  <2> DEFINE new == [profiles[p][n] EXCEPT !.model = m]
  <2>2. n \in Providers
    BY ChoosableType
  <2>3. new \in Profiles /\ new.model = m /\ new.local \in BOOLEAN
    <3>1. profiles[p][n] \in Profiles
      BY <2>1, <2>2 DEF Rest, Tables
    <3>2. QED
      BY <3>1 DEF Profiles
  <2>4. /\ Begin(p, "settings", PickChanges(n, new, e), new.local)
        /\ \A q \in Procs : q # p => active'[q] = active[q]
                                     /\ profiles'[q] = profiles[q]
    BY <2>1 DEF Rest
  <2> HIDE DEF new
  <2>5. CASE new.local = TRUE
    <3>1. PickChanges(n, new, e) = <<Entry(n, new), Choice(n, new.model, e)>>
      BY <2>5 DEF PickChanges
    <3>2. TwoChanges(PickChanges(n, new, e))
      BY <2>2, <2>3, <3>1 DEF TwoChanges
    <3>3. QED
      BY <2>4, <2>5, <3>2
  <2>6. CASE new.local = FALSE
    <3>1. PickChanges(n, new, e) = <<Choice(n, new.model, e)>>
      BY <2>6 DEF PickChanges
    <3>2. QED
      BY <1>0, <2>4, <2>6, <3>1
  <2>7. QED
    BY <2>3, <2>5, <2>6
<1>2. CASE PickEffort(p)
  <2>1. PICK e \in Efforts :
           /\ Begin(p, "settings",
                 <<Choice(active[p].wire, active[p].model, e)>>, FALSE)
           /\ active' = [active EXCEPT ![p].effort = e]
           /\ UNCHANGED profiles
    BY <1>2 DEF PickEffort
  <2>2. QED
    BY <1>0, <2>1 DEF Rest
<1>3. CASE LoginDone(p)
  <2>1. PICK n \in Offered, w \in Wires :
           /\ Begin(p, "settings", <<Entry("provider", n)>>, FALSE)
           /\ profiles' = [profiles EXCEPT ![p][n] =
                 IF @ = None THEN [local |-> FALSE, wire |-> w, model |-> Unset]
                 ELSE @]
           /\ active' = [active EXCEPT ![p] = Running(n, profiles'[p][n], @.effort)]
    BY <1>3 DEF LoginDone
  <2>2. \A q \in Procs : q # p => active'[q] = active[q]
                                  /\ profiles'[q] = profiles[q]
    BY <2>1 DEF Rest
  <2>3. QED
    BY <1>0, <2>1, <2>2
<1>4. CASE AddProvider(p)
  <2>1. PICK n \in Providers, l \in BOOLEAN, w \in Wires :
           LET new == [local |-> l, wire |-> w, model |-> Unset] IN
           /\ Begin(p, "settings", <<Entry(n, new)>>, FALSE)
           /\ profiles' = [profiles EXCEPT ![p][n] = new]
           /\ UNCHANGED active
    BY <1>4 DEF AddProvider
  <2>2. \A q \in Procs : q # p => active'[q] = active[q]
                                  /\ profiles'[q] = profiles[q]
    BY <2>1 DEF Rest
  <2>3. QED
    BY <1>0, <2>1, <2>2
<1>5. CASE Submit(p)
  <2>1. PICK e \in Entries :
           Begin(p, "history", <<e>>, FALSE) /\ UNCHANGED <<profiles, active>>
    BY <1>5 DEF Submit
  <2>2. \A q \in Procs : q # p => active'[q] = active[q]
                                  /\ profiles'[q] = profiles[q]
    BY <2>1
  <2>3. \E t, b : Begin(p, "history", t, b) /\ "history" # "settings"
    BY <2>1
  <2>4. QED
    BY <2>2, <2>3, Zenon
<1>6. QED
  BY <1>1, <1>2, <1>3, <1>4, <1>5 DEF Handle

LEMMA HandlePicks ==
  ASSUME Rest, Memory, PickInv, NEW p \in Procs, Handle(p)
  PROVE  PickInv'
<1>1. PICK file, t, b :
           /\ Begin(p, file, t, b)
           /\ \A q \in Procs : q # p => active'[q] = active[q]
                                        /\ profiles'[q] = profiles[q]
           /\ file = "settings" => \/ Len(t) = 1 /\ b = FALSE
                                   \/ b = TRUE /\ TwoChanges(t)
  BY HandlerChores
<1> DEFINE j == [NoJob EXCEPT !.file = file, !.todo = t, !.pick = b]
<1>2. /\ stage[p] = "on" /\ job' = [job EXCEPT ![p] = j]
      /\ UNCHANGED <<files, stage, over, picked, overlapped>>
  BY <1>1 DEF Begin, Ready
<1>3. j.file = file /\ j.todo = t /\ j.pick = b
  BY DEF NoJob
<1> HIDE DEF j
<1>4. PickKept'
  BY <1>2, PickStays DEF PickInv, files
<1>5. ASSUME NEW q \in Procs PROVE Launched(q)'
  BY <1>1, <1>2, LaunchedStays DEF PickInv, files
<1>6. ASSUME NEW q \in Procs PROVE Chores(q)'
  <2>1. CASE q = p
    <3>1. job'[p].file = file /\ job'[p].todo = t /\ job'[p].pick = b
      BY <1>2, <1>3 DEF Memory
    <3>2. QED
      BY <1>1, <2>1, <3>1 DEF Chores, TwoChanges
  <2>2. CASE q # p
    BY <1>1, <1>2, <2>2, ChoresStay DEF PickInv, files, Memory
  <2>3. QED
    BY <2>1, <2>2
<1>7. QED
  BY <1>4, <1>5, <1>6 DEF PickInv

\* A read-and-write of the history, or of a list of models, or the end of a
\* process: no settings change.
LEMMA ElsewherePicks ==
  ASSUME Rest, Memory, PickInv, NEW p \in Procs,
         UNCHANGED <<exists, settings, picked>>,
         "settings" \in overlapped => "settings" \in overlapped',
         "settings" \in overlapped' => "settings" \in overlapped,
         \A q \in Procs : q # p => /\ stage'[q] = stage[q] /\ job'[q] = job[q]
                                   /\ active'[q] = active[q] /\ over'[q] = over[q]
                                   /\ profiles'[q] = profiles[q],
         \/ stage'[p] = "off" /\ job'[p] = NoJob
         \/ /\ stage'[p] = stage[p] /\ active'[p] = active[p]
            /\ over'[p] = over[p] /\ profiles'[p] = profiles[p]
            /\ \/ job'[p] = NoJob \/ job'[p].file = "history"
               \/ /\ job'[p].file = job[p].file /\ job'[p].todo = job[p].todo
                  /\ job'[p].pick = job[p].pick
  PROVE  PickInv'
<1>1. PickKept'
  BY PickStays DEF PickInv
<1>2. ASSUME NEW q \in Procs PROVE Launched(q)'
  BY LaunchedStays DEF PickInv
<1>3. ASSUME NEW q \in Procs PROVE Chores(q)'
  <2>1. CASE job'[q] = NoJob \/ job'[q].file = "history"
    BY <2>1, Waiting DEF Chores
  <2>2. CASE /\ job'[q].file = job[q].file /\ job'[q].todo = job[q].todo
             /\ job'[q].pick = job[q].pick
    BY <2>2, ChoresStay DEF PickInv
  <2>3. QED
    BY <2>1, <2>2
<1>4. QED
  BY <1>1, <1>2, <1>3 DEF PickInv

\* A change that leaves the provider and the model picked as they are.
LEMMA LeavesKeeps ==
  ASSUME Rest, Memory, PickKept, NEW c \in Changes, NEW h \in AllSettings,
         exists, exists' = exists, settings' = Updated(h, c),
         "settings" \notin overlapped' => h = settings /\ "settings" \notin overlapped,
         picked' = IF picked # None /\ Leaves(c)
                   THEN [key \in DOMAIN picked |->
                            IF key \in DOMAIN c THEN c[key] ELSE picked[key]]
                   ELSE None
  PROVE  PickKept'
<1>1. CASE ~(picked # None /\ Leaves(c))
  BY <1>1 DEF PickKept
<1>2. CASE picked # None /\ Leaves(c)
  <2> DEFINE K == {"provider", "model", "effort"}
             x == picked'
  <2>1. /\ picked \in Changes /\ DOMAIN picked = K
        /\ picked["provider"] \in Providers /\ picked["model"] \in Models
    BY <1>2 DEF PickKept, Picks
  <2>2. /\ picked["provider"] \notin DOMAIN c
        /\ "provider" \in DOMAIN c => c["provider"] = picked["provider"]
        /\ "model" \in DOMAIN c => c["model"] = picked["model"]
    BY <1>2 DEF Leaves
  <2>3. x = [key \in K |-> IF key \in DOMAIN c THEN c[key] ELSE picked[key]]
    BY <1>2, <2>1
  <2> HIDE DEF x
  <2>4. /\ DOMAIN x = K /\ x["provider"] = picked["provider"]
        /\ x["model"] = picked["model"]
        /\ x["effort"] = IF "effort" \in DOMAIN c THEN c["effort"]
                         ELSE picked["effort"]
    BY <2>2, <2>3
  <2>5. x \in Picks
    <3>1. /\ picked["effort"] \in Efforts
          /\ "effort" \in DOMAIN c => c["effort"] \in Efforts
      BY <2>1, KeyTypes DEF Changes
    <3>2. x["effort"] \in Efforts
      BY <2>4, <3>1
    <3>3. \A k \in K : x[k] \in Given(k)
      BY <2>1, <2>4, <3>2, KeyTypes
    <3>4. \A k \in K : x[k] \in Values
      BY <3>3, KeyTypes
    <3>5. x \in [K -> Values]
      BY <2>3, <2>4, <3>4
    <3>6. K \in SUBSET Keys
      BY KeyTypes
    <3>7. x \in UNION {[L -> Values] : L \in SUBSET Keys}
      BY <3>5, <3>6
    <3>8. x \in Changes
      BY <2>4, <3>3, <3>7 DEF Changes
    <3>9. QED
      BY <2>1, <2>4, <3>8 DEF Picks
  <2>6. ASSUME "settings" \notin overlapped'
        PROVE  /\ settings'["provider"] = x["provider"]
               /\ settings'["effort"] = x["effort"]
               /\ settings'[x["provider"]] = settings[x["provider"]]
               /\ HasEntry(picked["provider"], picked["model"])
    <3>1. /\ h = settings
          /\ settings["provider"] = picked["provider"]
          /\ settings["effort"] = picked["effort"]
          /\ HasEntry(picked["provider"], picked["model"])
      BY <1>2, <2>6 DEF PickKept
    <3>2. /\ "provider" \in Keys /\ "effort" \in Keys /\ picked["provider"] \in Keys
          /\ "provider" \notin Providers /\ "effort" \notin Providers
      BY <2>1, KeyTypes
    <3>3. /\ settings'["provider"] = IF "provider" \in DOMAIN c THEN c["provider"]
                                     ELSE h["provider"]
          /\ settings'["effort"] = IF "effort" \in DOMAIN c THEN c["effort"]
                                   ELSE h["effort"]
          /\ settings'[picked["provider"]] = h[picked["provider"]]
      BY <2>2, <3>2 DEF Updated
    <3>4. QED
      BY <2>2, <2>4, <3>1, <3>3
  <2>7. QED
    BY <2>4, <2>5, <2>6 DEF PickKept, HasEntry, x
<1>3. QED
  BY <1>1, <1>2

\* Saving one of the changes of a handler.
LEMMA SavePicks ==
  ASSUME Rest, Memory, FilesInv, PickInv, NEW p \in Procs, SaveSettings(p)
  PROVE  PickInv'
<1> DEFINE j == job[p]
           c == Head(j.todo)
<1>1. /\ j.file = "settings" /\ j.read
      /\ settings' = Updated(j.held, c)
      /\ picked' = PickedAfter(p, c)
      /\ job' = [job EXCEPT ![p] = AfterSave(p)]
      /\ stage' = [stage EXCEPT ![p] = IF @ = "forget" THEN "on" ELSE @]
      /\ Mark(p, "settings")
      /\ UNCHANGED <<exists, over, profiles, active>>
  BY DEF SaveSettings
<1>2. /\ overlapped \subseteq overlapped'
      /\ \A q \in Procs : q # p /\ q \in Holders("settings") =>
                              "settings" \in overlapped'
  BY <1>1, Marked
<1>3. j \in Jobs /\ j.todo # <<>> /\ j.todo \in Seq(Changes) /\ j.held \in AllSettings
  BY <1>1, JobTypes DEF Memory
<1>4. exists /\ stage[p] \in {"forget", "on"}
  BY <1>1, ReadIsBusy DEF FilesInv, Launching
<1>5. "settings" \notin overlapped' => j.held = settings /\ "settings" \notin overlapped
  BY <1>1, <1>2 DEF FilesInv, Fresh
<1>6. /\ job'[p] = AfterSave(p)
      /\ \A q \in Procs : q # p => job'[q] = job[q] /\ stage'[q] = stage[q]
      /\ stage'[p] # "choose"
  BY <1>1, <1>4 DEF Memory, Rest
<1>7. ASSUME NEW q \in Procs, q # p PROVE Chores(q)' /\ Launched(q)'
  <2>1. /\ job[q].todo # <<>> /\ job[q].file = "settings" =>
              "settings" \in overlapped'
        /\ stage[q] = "choose" => "settings" \in overlapped'
    BY <1>2, <1>7, Waiting
  <2>2. Chores(q)'
    BY <1>1, <1>6, <1>7, <2>1, ChoresStay DEF PickInv
  <2>3. Launched(q)'
    BY <1>1, <1>6, <1>7, <2>1, LaunchedStays DEF PickInv
  <2>4. QED
    BY <2>2, <2>3
<1>8. Launched(p)'
  BY <1>6 DEF Launched
<1>9. c \in Changes
  BY <1>3, Sequences
<1>10. ASSUME ~(j.pick /\ Done(p)) PROVE PickKept'
  <2>1. picked' = IF picked # None /\ Leaves(c)
                  THEN [key \in DOMAIN picked |->
                           IF key \in DOMAIN c THEN c[key] ELSE picked[key]]
                  ELSE None
    BY <1>1, <1>10 DEF PickedAfter
  <2> HIDE DEF c, j
  <2>2. QED
    BY <1>1, <1>3, <1>4, <1>5, <1>9, <2>1, LeavesKeeps DEF PickInv
<1>11. Chores(p)' /\ PickKept'
  <2>1. CASE Len(j.todo) = 1 /\ j.pick = FALSE
    <3>1. job'[p] = NoJob
      BY <1>6, <2>1 DEF AfterSave, Done
    <3>2. QED
      BY <1>10, <2>1, <3>1, Waiting DEF Chores
  <2>2. CASE j.pick = TRUE /\ TwoChanges(j.todo)
    <3>1. PICK n \in Providers, x \in Profiles, e \in Efforts :
             x.model \in Models /\ j.todo = <<Entry(n, x), Choice(n, x.model, e)>>
      BY <2>2 DEF TwoChanges
    <3>2. /\ c = Entry(n, x) /\ Tail(j.todo) = <<Choice(n, x.model, e)>>
          /\ Len(j.todo) = 2
      BY <3>1
    <3>3. job'[p] = [j EXCEPT !.todo = Tail(@), !.held = <<>>, !.read = FALSE]
          /\ ~Done(p)
      BY <1>1, <1>6, <3>2 DEF AfterSave, Done
    <3>4. job'[p].todo = <<Choice(n, x.model, e)>> /\ job'[p].pick = TRUE
      BY <1>3, <2>2, <3>2, <3>3, JobTypes
    <3>5. HasEntry(n, x.model)'
      <4>1. settings'[n] = Merged(j.held[n], x)
        BY <1>1, <3>2, KeyTypes DEF Updated, Entry
      <4>2. j.held[n] \in Profiles \cup {None}
        BY <1>3, KeyTypes DEF AllSettings
      <4>3. QED
        BY <4>1, <4>2, MergedType DEF HasEntry
    <3>6. Chores(p)'
      BY <3>1, <3>4, <3>5 DEF Chores
    <3>7. QED
      BY <1>10, <3>3, <3>6
  <2>3. CASE /\ j.pick = TRUE
             /\ \E n \in Providers, m \in Models, e \in Efforts :
                   /\ j.todo = <<Choice(n, m, e)>>
                   /\ "settings" \notin overlapped => HasEntry(n, m)
    <3>1. PICK n \in Providers, m \in Models, e \in Efforts :
             /\ j.todo = <<Choice(n, m, e)>>
             /\ "settings" \notin overlapped => HasEntry(n, m)
      BY <2>3
    <3>2. /\ c = Choice(n, m, e) /\ Done(p)
          /\ DOMAIN c = {"provider", "model", "effort"}
          /\ c["provider"] = n /\ c["model"] = m /\ c["effort"] = e
      BY <3>1 DEF Done, Choice
    <3>3. job'[p] = NoJob
      BY <1>6, <3>2 DEF AfterSave
    <3>4. Chores(p)'
      BY <3>3, Waiting DEF Chores
    <3>5. picked' = c /\ picked' \in Picks
      BY <1>1, <1>9, <2>3, <3>2 DEF PickedAfter, Picks
    <3>6. /\ settings'["provider"] = n /\ settings'["effort"] = e
          /\ settings'[n] = j.held[n]
      <4>1. /\ "provider" \in Keys /\ "effort" \in Keys /\ n \in Keys
            /\ "provider" \notin Providers /\ "effort" \notin Providers
            /\ n # "provider" /\ n # "model" /\ n # "effort"
        BY KeyTypes
      <4> HIDE DEF c, j
      <4>2. QED
        BY <1>1, <3>2, <4>1 DEF Updated
    <3>7. "settings" \notin overlapped' => HasEntry(n, m)'
      BY <1>5, <3>1, <3>6 DEF HasEntry
    <3>8. QED
      BY <1>1, <1>4, <3>2, <3>4, <3>5, <3>6, <3>7 DEF PickKept
  <2>4. QED
    BY <1>1, <1>3, <2>1, <2>2, <2>3 DEF PickInv, Chores
<1>12. QED
  <2>1. ASSUME NEW q \in Procs PROVE Chores(q)' /\ Launched(q)'
    BY <1>7, <1>8, <1>11
  <2>2. QED
    BY <1>11, <2>1 DEF PickInv

LEMMA WritePicks ==
  ASSUME Rest, Memory, FilesInv, PickInv, NEW p \in Procs, Write(p)
  PROVE  PickInv'
<1>1. CASE SaveSettings(p)
  BY <1>1, SavePicks
<1>2. CASE Load(p) \/ LoadFails(p)
  <2>1. PICK h : job' = [job EXCEPT ![p].read = TRUE, ![p].held = h]
    BY <1>2 DEF Load, LoadFails
  <2>2. /\ job[p] \in Jobs
        /\ UNCHANGED <<exists, settings, picked, overlapped>>
        /\ UNCHANGED <<stage, over, profiles, active>>
    BY <1>2 DEF Load, LoadFails, files, ghosts, Memory
  <2>3. /\ job'[p].file = job[p].file /\ job'[p].todo = job[p].todo
        /\ job'[p].pick = job[p].pick
    BY <2>1, <2>2, JobTypes DEF Memory
  <2>4. \A q \in Procs : q # p => job'[q] = job[q]
    BY <2>1 DEF Memory
  <2>5. QED
    BY <2>2, <2>3, <2>4, ElsewherePicks
<1>3. CASE SaveHistory(p)
  <2>1. /\ job[p].file = "history" /\ job[p] \in Jobs
        /\ job' = [job EXCEPT ![p] = AfterSave(p)]
        /\ Mark(p, "history")
        /\ UNCHANGED <<exists, settings, picked, stage, over, profiles, active>>
    BY <1>3 DEF SaveHistory, Memory
  <2>2. AfterSave(p) = NoJob \/ AfterSave(p).file = "history"
    <3>1. \/ AfterSave(p) = NoJob
          \/ AfterSave(p) = [job[p] EXCEPT !.todo = Tail(@), !.held = <<>>,
                                           !.read = FALSE]
      BY DEF AfterSave
    <3>2. [job[p] EXCEPT !.todo = Tail(@), !.held = <<>>, !.read = FALSE].file
            = job[p].file
      BY <2>1, JobTypes
    <3>3. QED
      BY <2>1, <3>1, <3>2
  <2>3. /\ "settings" \in overlapped => "settings" \in overlapped'
        /\ "settings" \in overlapped' => "settings" \in overlapped
    BY <2>1, Marked
  <2>4. /\ job'[p] = AfterSave(p)
        /\ \A q \in Procs : q # p => job'[q] = job[q]
    BY <2>1 DEF Memory
  <2>5. QED
    BY <2>1, <2>2, <2>3, <2>4, ElsewherePicks
<1>4. CASE Fetch(p) \/ LoadCache(p) \/ LoadCacheFails(p)
  <2>1. UNCHANGED <<exists, settings, picked, overlapped, stage, over, profiles,
                    active, job>>
    BY <1>4 DEF Fetch, LoadCache, LoadCacheFails, files, ghosts
  <2>2. QED
    BY <2>1, ElsewherePicks
<1>5. CASE SaveCache(p)
  <2>1. /\ UNCHANGED <<exists, settings, picked, stage, over, profiles, active, job>>
        /\ Mark(p, "cache")
    BY <1>5 DEF SaveCache
  <2>2. /\ "settings" \in overlapped => "settings" \in overlapped'
        /\ "settings" \in overlapped' => "settings" \in overlapped
    BY <2>1, Marked
  <2>3. QED
    BY <2>1, <2>2, ElsewherePicks
<1>6. QED
  BY <1>1, <1>2, <1>3, <1>4, <1>5 DEF Write

LEMMA EndPicks ==
  ASSUME Rest, Memory, PickInv, NEW p \in Procs, End(p)
  PROVE  PickInv'
<1>1. /\ stage'[p] = "off" /\ job'[p] = NoJob
      /\ UNCHANGED <<exists, settings, picked, overlapped>>
      /\ \A q \in Procs : q # p => /\ stage'[q] = stage[q] /\ job'[q] = job[q]
                                   /\ active'[q] = active[q] /\ over'[q] = over[q]
                                   /\ profiles'[q] = profiles[q]
  BY DEF End, Rest, Memory, files, ghosts
<1>2. QED
  BY <1>1, ElsewherePicks

LEMMA InitPicks == Init => PickInv
<1>1. ASSUME Init PROVE PickKept /\ \A p \in Procs : Chores(p) /\ Launched(p)
  BY <1>1, Waiting DEF Init, PickKept, Chores, Launched
<1>2. QED
  BY <1>1 DEF PickInv

LEMMA StepPicks ==
  Rest /\ Memory /\ FilesInv /\ PickInv /\ [Next]_vars => PickInv'
<1> SUFFICES ASSUME Rest, Memory, FilesInv, PickInv, [Next]_vars PROVE PickInv'
  OBVIOUS
<1>1. CASE UNCHANGED vars
  <2>1. UNCHANGED <<exists, settings, picked, overlapped, stage, over, profiles,
                    active, job>>
    BY <1>1 DEF vars, files, ghosts
  <2>2. PickKept'
    BY <2>1, PickStays DEF PickInv
  <2>3. ASSUME NEW q \in Procs PROVE Chores(q)' /\ Launched(q)'
    BY <2>1, ChoresStay, LaunchedStays DEF PickInv
  <2>4. QED
    BY <2>2, <2>3 DEF PickInv
<1>2. CASE Next
  <2>1. PICK p \in Procs : Launch(p) \/ Handle(p) \/ Write(p) \/ Quit(p) \/ Crash(p)
    BY <1>2 DEF Next
  <2>2. QED
    BY <2>1, LaunchPicks, HandlePicks, WritePicks, EndPicks DEF Quit, Crash
<1>3. QED
  BY <1>1, <1>2

\* What LocalPickSurvives says of one launch.
TakesUp(p) ==
    /\ stage[p] = "choose" /\ stage'[p] = "on"
    /\ over[p] = NoOverride /\ "settings" \notin overlapped /\ picked # None
    => \/ active'[p].name = None
       \/ /\ active'[p].name = picked["provider"]
          /\ active'[p].model = picked["model"]
          /\ active'[p].effort = picked["effort"]

\* Only Choose ends a launch, and it chooses with what the launch has read.
LEMMA ChooseTakesUp ==
  ASSUME Rest, Memory, FilesInv, PickInv, [Next]_vars, NEW p \in Procs
  PROVE  TakesUp(p)
<1> SUFFICES ASSUME stage[p] = "choose", stage'[p] = "on", over[p] = NoOverride,
                    "settings" \notin overlapped, picked # None
             PROVE  \/ active'[p].name = None
                    \/ /\ active'[p].name = picked["provider"]
                       /\ active'[p].model = picked["model"]
                       /\ active'[p].effort = picked["effort"]
  BY DEF TakesUp
<1>1. Choose(p)
  <2>1. CASE UNCHANGED vars
    BY <2>1 DEF vars
  <2>2. CASE Next
    <3>1. PICK r \in Procs : Launch(r) \/ Handle(r) \/ Write(r) \/ Quit(r) \/ Crash(r)
      BY <2>2 DEF Next
    <3>2. CASE Launch(r)
      BY <3>2 DEF Launch, Start, LoadConfig, SeedDefaults, Resolve, Choose, Rest
    <3>3. CASE Handle(r)
      <4>1. PICK file, t, b : Begin(r, file, t, b)
        BY <3>3 DEF Handle, Pick, PickEffort, LoginDone, AddProvider, Submit
      <4>2. QED
        BY <4>1 DEF Begin
    <3>4. CASE Write(r)
      BY <3>4 DEF Write, Load, LoadFails, SaveSettings, SaveHistory, Fetch, LoadCache,
                  LoadCacheFails, SaveCache, Rest
    <3>5. CASE End(r)
      BY <3>5 DEF End, Rest
    <3>6. QED
      BY <3>1, <3>2, <3>3, <3>4, <3>5 DEF Quit, Crash
  <2>3. QED
    BY <2>1, <2>2
<1> DEFINE n == picked["provider"]
           m == picked["model"]
<1>2. /\ over[p].provider = None /\ over[p].effort = None
      /\ DOMAIN over[p].base = {}
  BY DEF NoOverride
<1>3. /\ n \in Providers /\ picked["effort"] \in Efforts
      /\ settings["provider"] = n /\ settings["effort"] = picked["effort"]
      /\ settings[n] \in Profiles /\ settings[n].model = m
  BY KeyTypes DEF PickInv, PickKept, Picks, Changes, HasEntry
<1>4. /\ active[p] \in Actives /\ active[p].name = None
      /\ active[p].effort = picked["effort"]
  BY <1>2, <1>3 DEF PickInv, Launched, Rest
<1>5. profiles[p][n] \in Profiles /\ profiles[p][n].model = m
  <2>1. profiles[p][n] = Based(over[p].base, n, ProfileOf(settings, n))
    BY <1>3 DEF PickInv, Launched
  <2>2. profiles[p][n] = ProfileOf(settings, n)
    BY <1>2, <2>1 DEF Based
  <2>3. settings[n] # None
    BY <1>3, FileConstants DEF Profiles
  <2> HIDE DEF n
  <2>4. profiles[p][n] = [settings[n] EXCEPT !.wire = IF n \in Wires THEN n ELSE @]
    BY <2>2, <2>3 DEF ProfileOf
  <2>5. QED
    BY <1>3, <2>4 DEF Profiles
<1>6. \/ active' = active
      \/ active' = [active EXCEPT ![p] = Running(n, profiles[p][n], @.effort)]
  BY <1>1, <1>2, <1>3 DEF Choose
<1> HIDE DEF n, m
<1>7. CASE active' = active
  BY <1>4, <1>7
<1>8. CASE active' = [active EXCEPT ![p] = Running(n, profiles[p][n], @.effort)]
  <2>1. active'[p] = Running(n, profiles[p][n], active[p].effort)
    BY <1>8 DEF Rest
  <2>2. QED
    BY <1>4, <1>5, <2>1 DEF Running, n, m
<1>9. QED
  BY <1>6, <1>7, <1>8

\* A launch without overrides takes up the provider and model of a local endpoint
\* last picked in any process, and the effort set with or after them, for any
\* number of processes, picks, logins and providers added in between.
THEOREM LocalPickSurvivesHolds == Spec => LocalPickSurvives
<1>1. Spec => [](Rest /\ Memory /\ FilesInv /\ PickInv)
  BY TypesHold, InitKeeps, StepKeeps, InitPicks, StepPicks, PTL DEF Spec
<1>2. Rest /\ Memory /\ FilesInv /\ PickInv /\ [Next]_vars =>
        \A p \in Procs :
            /\ stage[p] = "choose" /\ stage'[p] = "on"
            /\ over[p] = NoOverride /\ "settings" \notin overlapped /\ picked # None
            => \/ active'[p].name = None
               \/ /\ active'[p].name = picked["provider"]
                  /\ active'[p].model = picked["model"]
                  /\ active'[p].effort = picked["effort"]
  BY ChooseTakesUp DEF TakesUp
<1>3. QED
  BY <1>1, <1>2, PTL DEF Spec, LocalPickSurvives
=============================================================================
