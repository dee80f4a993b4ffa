----------------------------- MODULE UserFiles -----------------------------
(***************************************************************************)
(* The files under ~/.rickshaw that every running Rickshaw shares: the     *)
(* settings (settings.py), the input history (history.py) and the lists    *)
(* of models (settings.py, providers/base.py), with what the terminal      *)
(* writes to them and what a launch takes from them (config.py, tui.py).   *)
(*                                                                         *)
(* Every write is: read the file, change it in memory, replace it by a     *)
(* temporary one.  Nothing is locked, so a step here is one read or one    *)
(* replace, and processes may come between and may die anywhere.           *)
(*                                                                         *)
(* Of the settings the model keeps the keys that the program changes; of a *)
(* profile whether its URL is local, its wire format and its model.        *)
(***************************************************************************)
EXTENDS Naturals, Sequences, SequencesExt

CONSTANTS
    Procs,     \* running programs
    Providers, \* the names of providers
    Offered,   \* the built-in ones of rickshaw_ai, which the picker lists
    Presets,   \* those that have a profile in the configuration
    Local,     \* of these, the ones whose profile has a local URL
    Wires,     \* wire formats; a provider names itself after its own
    Wire,      \* the one of OpenAI
    Models, Efforts,
    Overrides, \* what flags and environment may say
    Blank,     \* a line with nothing in it
    Entries,   \* what can be submitted, stripped: each a sequence of its lines
    Endpoints, Lists, \* servers, and the lists of models they can answer with
    Cap,       \* HISTORY_CAP
    MaxOps,    \* bound: operations of all users together
    None,      \* no value; no profile
    Unset      \* a profile that names no model: the provider's default is used

Lines == UNION {ToSet(e) : e \in Entries}

\* base: what *_BASE_URL say, of some presets: whether their URL is local.
NoOverride == [provider |-> None, effort |-> None, base |-> [n \in {} |-> TRUE]]

\* What a reader of the history makes of lines: load_history drops blank ones.
HasText(line) == line # Blank
NonBlank(lines) == SelectSeq(lines, HasText)

ASSUME FileConstants ==
    /\ Offered \subseteq Providers /\ Presets \subseteq Providers
    /\ Local \subseteq Presets /\ Wires \subseteq Presets \ Local
    /\ Wire \in Wires /\ Efforts # {}
    /\ {"provider", "model", "effort"} \cap Providers = {}
    /\ None \notin Providers \cup Wires \cup Models \cup Efforts \cup {Unset} \cup Lists
    /\ None \notin [local : BOOLEAN, wire : Wires, model : Models \cup {Unset}]
    /\ Unset \notin Models
    /\ NoOverride \in Overrides
    /\ \A o \in Overrides : /\ o.provider \in Providers \cup {None}
                           /\ o.effort \in Efforts \cup {None}
                           /\ o.base \in UNION {[S -> BOOLEAN] : S \in SUBSET Presets}
    /\ \A e \in Entries : NonBlank(e) \in Seq(Lines) /\ NonBlank(e) # <<>>
    /\ NonBlank(<<>>) = <<>> /\ <<>> \notin Entries
    /\ Cap \in Nat \ {0} /\ MaxOps \in Nat

VARIABLES
    exists,   \* settings.json is there
    settings, \* its keys
    history,  \* its file: lines with text, then the last entry as it was typed
    cache,    \* models_cache.json
    stage,    \* where a process is between its launch and its end
    over,     \* what its flags and environment override
    profiles, \* cfg.providers of a process
    active,   \* its provider's name and wire format, its model and effort
    job,      \* its handler's reads and writes still to do
    fetch,    \* its loader's
    ops,      \* operations begun
    wanted,   \* what the users' changes add up to
    typed,    \* all lines with text that were submitted
    listed,   \* the list last fetched of each endpoint
    picked,   \* the choice of a local provider that nobody has changed since
    misread,  \* files of which a read that failed counted as empty
    overlapped \* files of which two read-and-writes overlapped

files == <<exists, settings, history, cache>>
ghosts == <<ops, wanted, typed, listed, picked, misread, overlapped>>
vars == <<files, stage, over, profiles, active, job, fetch, ghosts>>

Keys == {"provider", "model", "effort"} \cup Providers
Profiles == [local : BOOLEAN, wire : Wires, model : Models \cup {Unset}]
Values == Providers \cup Models \cup Efforts \cup {None, Unset} \cup Profiles
Stages == {"off", "config", "seed", "choose", "forget", "on"}

\* A change gives values to some of the keys.
Entry(key, value) == [k \in {key} |-> value]

\* _DEFAULT_SETTINGS; the default effort is one of them.
Medium == CHOOSE e \in Efforts : TRUE
Default == [k \in Keys |-> IF k = "effort" THEN Medium ELSE None]

NoJob == [file |-> "settings", todo |-> <<>>, held |-> <<>>, read |-> FALSE,
          pick |-> FALSE]
NoFetch == [end |-> None, list |-> None, held |-> <<>>, read |-> FALSE]
Nobody == [name |-> None, wire |-> None, model |-> Unset, effort |-> Medium]
NoCache == [e \in Endpoints |-> None]

LastN(s, n) == SubSeq(s, IF Len(s) > n THEN Len(s) - n + 1 ELSE 1, Len(s))

\* Who is at work with a file: reading it to write it, or to read it again.
Holders(file) ==
    {p \in Procs :
        \/ file = "cache" /\ fetch[p].read
        \/ file = job[p].file /\ job[p] # NoJob
        \/ file = "settings" /\ stage[p] \in {"seed", "choose"}}

\* p replaces the file.
Mark(p, file) ==
    overlapped' = IF Holders(file) \ {p} = {} THEN overlapped
                  ELSE overlapped \cup {file}

(***************************************************************************)
(* Launch                                                                  *)
(***************************************************************************)
Start(p) ==
    /\ stage[p] = "off"
    /\ \E o \in Overrides : over' = [over EXCEPT ![p] = o]
    /\ stage' = [stage EXCEPT ![p] = "config"]
    /\ UNCHANGED <<files, profiles, active, job, fetch, ghosts>>

\* load_config: the built-in profiles, under the entries of the settings, under
\* the environment.  Providers with a wire format of their own keep to it.
ProfileOf(s, name) ==
    IF s[name] # None THEN [s[name] EXCEPT !.wire = IF name \in Wires THEN name ELSE @]
    ELSE IF name \in Presets
         THEN [local |-> name \in Local,
               wire  |-> IF name \in Wires THEN name ELSE Wire,
               model |-> Unset]
         ELSE None

Based(base, name, profile) ==
    IF name \in DOMAIN base THEN [profile EXCEPT !.local = base[name]] ELSE profile

Resolve(p, s) ==
    /\ profiles' = [profiles EXCEPT ![p] =
          [n \in Providers |-> Based(over[p].base, n, ProfileOf(s, n))]]
    /\ active' = [active EXCEPT ![p] =
          [Nobody EXCEPT !.effort = IF over[p].effort # None THEN over[p].effort
                                    ELSE s["effort"]]]
    /\ stage' = [stage EXCEPT ![p] = "choose"]

LoadConfig(p) ==
    /\ stage[p] = "config"
    /\ IF exists THEN Resolve(p, settings)
       ELSE /\ stage' = [stage EXCEPT ![p] = "seed"]
            /\ UNCHANGED <<profiles, active>>
    /\ UNCHANGED <<files, over, job, fetch, ghosts>>

\* _seed_defaults: whoever made the file in between is overwritten.
SeedDefaults(p) ==
    /\ stage[p] = "seed"
    /\ exists' = TRUE /\ settings' = Default
    /\ Resolve(p, Default)
    /\ Mark(p, "settings")
    /\ UNCHANGED <<history, cache, over, job, fetch, ops, wanted, typed,
                   listed, picked, misread>>

\* A provider at work: name is what it was built from, wire what it calls itself.
Running(name, profile, effort) ==
    [name |-> name, wire |-> profile.wire, model |-> profile.model,
     effort |-> effort]

\* main reads the settings again for the provider's name; its profile is from
\* the first read.  A provider that does not validate is not used; one without
\* a profile cannot be built, and if the settings named it they forget it.
Choose(p) ==
    /\ stage[p] = "choose"
    /\ LET saved == over[p].provider = None
           name == IF saved THEN settings["provider"] ELSE over[p].provider
           unbuilt == name # None /\ profiles[p][name] = None
       IN IF unbuilt /\ saved
          THEN /\ job' = [job EXCEPT ![p] =
                      [NoJob EXCEPT !.todo = <<Entry("provider", None)>>,
                                    !.held = settings, !.read = TRUE]]
               /\ stage' = [stage EXCEPT ![p] = "forget"]
               /\ UNCHANGED active
          ELSE /\ stage' = [stage EXCEPT ![p] = "on"]
               /\ \/ UNCHANGED active
                  \/ /\ name # None /\ ~unbuilt
                     /\ active' = [active EXCEPT ![p] =
                                      Running(name, profiles[p][name], @.effort)]
               /\ UNCHANGED job
    /\ over' = [over EXCEPT ![p] = NoOverride]
    /\ UNCHANGED <<files, profiles, fetch, ghosts>>

(***************************************************************************)
(* The terminal's handlers                                                 *)
(***************************************************************************)
Ready(p) == stage[p] = "on" /\ job[p] = NoJob /\ ops < MaxOps

\* pick: a local provider was chosen.
Begin(p, file, changes, pick) ==
    /\ Ready(p)
    /\ job' = [job EXCEPT ![p] =
          [NoJob EXCEPT !.file = file, !.todo = changes, !.pick = pick]]
    /\ ops' = ops + 1
    /\ UNCHANGED <<files, stage, over, fetch, wanted, typed, listed, picked,
                   misread, overlapped>>

Choice(name, model, effort) ==
    [key \in {"provider", "model", "effort"} |->
        CASE key = "provider" -> name [] key = "model" -> model
          [] OTHER -> effort]

PickChanges_NoEntry(name, profile, effort) ==
    <<Choice(name, profile.model, effort)>>

\* _apply_selections: what was chosen is saved; if the profile's URL is local,
\* the model also goes into the provider's entry, by a save of its own.
PickChanges(name, profile, effort) ==
    IF profile.local
    THEN <<Entry(name, profile), Choice(name, profile.model, effort)>>
    ELSE <<Choice(name, profile.model, effort)>>

\* The picker offers the built-in providers, /model the running one by the name
\* it gives itself.
Choosable(p) == Offered \cup ({active[p].wire} \ {None})

\* A provider and a model are chosen that the running one does not say it is;
\* without a profile there is no provider to build.
Pick(p) ==
    \E name \in Choosable(p), model \in Models, effort \in Efforts :
        /\ profiles[p][name] # None
        /\ ~(name = active[p].wire /\ model = active[p].model)
        /\ LET new == [profiles[p][name] EXCEPT !.model = model] IN
            /\ Begin(p, "settings", PickChanges(name, new, effort), new.local)
            /\ active' = [active EXCEPT ![p] = Running(name, new, effort)]
            /\ profiles' = IF new.local THEN [profiles EXCEPT ![p][name] = new]
                           ELSE profiles

\* /effort, or a choice of the name and model that the running provider says it
\* has: only the effort changes, whatever profile that provider was built from,
\* and what it calls itself is saved.
PickEffort(p) ==
    \E effort \in Efforts :
        /\ active[p].name # None
        /\ Begin(p, "settings",
                 <<Choice(active[p].wire, active[p].model, effort)>>, FALSE)
        /\ active' = [active EXCEPT ![p].effort = effort]
        /\ UNCHANGED profiles

\* _oauth_login_done: a provider without a profile gets one for this process.
LoginDone(p) ==
    \E name \in Offered, wire \in Wires :
        /\ Begin(p, "settings", <<Entry("provider", name)>>, FALSE)
        /\ profiles' = [profiles EXCEPT ![p][name] =
              IF @ = None THEN [local |-> FALSE, wire |-> wire, model |-> Unset]
              ELSE @]
        /\ active' = [active EXCEPT ![p] =
                          Running(name, profiles'[p][name], @.effort)]

\* /provider add: under any name, also that of a preset or a built-in.
AddProvider(p) ==
    \E name \in Providers, local \in BOOLEAN, wire \in Wires :
        LET new == [local |-> local, wire |-> wire, model |-> Unset] IN
            /\ Begin(p, "settings", <<Entry(name, new)>>, FALSE)
            /\ profiles' = [profiles EXCEPT ![p][name] = new]
            /\ UNCHANGED active

Submit(p) ==
    \E entry \in Entries :
        /\ Begin(p, "history", <<entry>>, FALSE)
        /\ UNCHANGED <<profiles, active>>

(***************************************************************************)
(* Reading and replacing                                                   *)
(***************************************************************************)
\* What load_history answers.
Recalled == history.kept \o NonBlank(history.last)

\* load_settings, load_history.
Load(p) ==
    /\ job[p].todo # <<>> /\ ~job[p].read
    /\ job' = [job EXCEPT ![p].read = TRUE,
                          ![p].held = IF job[p].file = "settings" THEN settings
                                      ELSE Recalled]
    /\ UNCHANGED <<files, stage, over, profiles, active, fetch, ghosts>>

\* load_history takes a file that it cannot read for an empty one; load_settings
\* raises, which ends the handler: see Crash.
LoadFails(p) ==
    /\ job[p].file = "history" /\ job[p].todo # <<>> /\ ~job[p].read
    /\ job' = [job EXCEPT ![p].read = TRUE, ![p].held = <<>>]
    /\ misread' = misread \cup {"history"}
    /\ UNCHANGED <<files, stage, over, profiles, active, fetch, ops, wanted,
                   typed, listed, picked, overlapped>>

Done(p) == Len(job[p].todo) = 1

AfterSave_SameRead(p) == IF Done(p) THEN NoJob ELSE [job[p] EXCEPT !.todo = Tail(@)]

\* The next change starts from a new read.
AfterSave(p) ==
    IF Done(p) THEN NoJob
    ELSE [job[p] EXCEPT !.todo = Tail(@), !.held = <<>>, !.read = FALSE]

\* A new entry replaces the old one; a choice, which has a model, only gives it
\* that model.
Merged(old, new) ==
    IF old = None \/ new.model = Unset THEN new ELSE [old EXCEPT !.model = new.model]

Updated(s, change) ==
    [key \in Keys |-> IF key \notin DOMAIN change THEN s[key]
                      ELSE IF key \in Providers THEN Merged(s[key], change[key])
                      ELSE change[key]]

\* The picked provider and model are still what the settings say.
Leaves(change) ==
    /\ picked["provider"] \notin DOMAIN change
    /\ \A key \in {"provider", "model"} \cap DOMAIN change :
           change[key] = picked[key]

PickedAfter(p, change) ==
    IF job[p].pick /\ Done(p) THEN change
    ELSE IF picked # None /\ Leaves(change)
         THEN [key \in DOMAIN picked |->
                  IF key \in DOMAIN change THEN change[key] ELSE picked[key]]
         ELSE None

SaveSettings(p) ==
    /\ job[p].file = "settings" /\ job[p].read
    /\ LET change == Head(job[p].todo) IN
        /\ settings' = Updated(job[p].held, change)
        /\ wanted' = Updated(wanted, change)
        /\ picked' = PickedAfter(p, change)
    /\ job' = [job EXCEPT ![p] = AfterSave(p)]
    /\ stage' = [stage EXCEPT ![p] = IF @ = "forget" THEN "on" ELSE @]
    /\ Mark(p, "settings")
    /\ UNCHANGED <<exists, history, cache, over, profiles, active, fetch,
                   ops, typed, listed, misread>>

\* append_history: the cap counts the lines read and the new entry as one.
Appended(lines, entry) == [kept |-> LastN(lines, Cap - 1), last |-> entry]

SaveHistory(p) ==
    /\ job[p].file = "history" /\ job[p].read
    /\ history' = Appended(job[p].held, Head(job[p].todo))
    /\ typed' = typed \o NonBlank(Head(job[p].todo))
    /\ job' = [job EXCEPT ![p] = AfterSave(p)]
    /\ Mark(p, "history")
    /\ UNCHANGED <<exists, settings, cache, stage, over, profiles, active,
                   fetch, ops, wanted, listed, picked, misread>>

(***************************************************************************)
(* The loader of the picker's model step (_cached_available_models)        *)
(***************************************************************************)
\* The server answers; if it does not, the cache is read and nothing changes.
Fetch(p) ==
    /\ stage[p] = "on" /\ fetch[p] = NoFetch /\ ops < MaxOps
    /\ \E end \in Endpoints, list \in Lists :
           fetch' = [fetch EXCEPT ![p] = [NoFetch EXCEPT !.end = end, !.list = list]]
    /\ ops' = ops + 1
    /\ UNCHANGED <<files, stage, over, profiles, active, job, wanted, typed,
                   listed, picked, misread, overlapped>>

LoadCache(p) ==
    /\ fetch[p].end # None /\ ~fetch[p].read
    /\ fetch' = [fetch EXCEPT ![p].read = TRUE, ![p].held = cache]
    /\ UNCHANGED <<files, stage, over, profiles, active, job, ghosts>>

\* load_model_cache also takes a file that it cannot read for an empty one.
LoadCacheFails(p) ==
    /\ fetch[p].end # None /\ ~fetch[p].read
    /\ fetch' = [fetch EXCEPT ![p].read = TRUE, ![p].held = NoCache]
    /\ misread' = misread \cup {"cache"}
    /\ UNCHANGED <<files, stage, over, profiles, active, job, ops, wanted,
                   typed, listed, picked, overlapped>>

SaveCache(p) ==
    /\ fetch[p].read
    /\ cache' = [fetch[p].held EXCEPT ![fetch[p].end] = fetch[p].list]
    /\ listed' = [listed EXCEPT ![fetch[p].end] = fetch[p].list]
    /\ fetch' = [fetch EXCEPT ![p] = NoFetch]
    /\ Mark(p, "cache")
    /\ UNCHANGED <<exists, settings, history, stage, over, profiles, active,
                   job, ops, wanted, typed, picked, misread>>

(***************************************************************************)
(* The end of a process                                                    *)
(***************************************************************************)
End(p) ==
    /\ stage' = [stage EXCEPT ![p] = "off"]
    /\ job' = [job EXCEPT ![p] = NoJob] /\ fetch' = [fetch EXCEPT ![p] = NoFetch]
    /\ profiles' = [profiles EXCEPT ![p] = [n \in Providers |-> None]]
    /\ active' = [active EXCEPT ![p] = Nobody]
    /\ over' = [over EXCEPT ![p] = NoOverride]
    /\ UNCHANGED <<files, ghosts>>

Quit(p) == stage[p] = "on" /\ job[p] = NoJob /\ fetch[p] = NoFetch /\ End(p)

\* Killed, or an exception, between any two steps.
Crash(p) == stage[p] # "off" /\ End(p)

(***************************************************************************)
(* Specification                                                           *)
(***************************************************************************)
Init ==
    /\ exists = FALSE /\ settings = Default
    /\ history = [kept |-> <<>>, last |-> <<>>]
    /\ cache = NoCache
    /\ stage = [p \in Procs |-> "off"] /\ over = [p \in Procs |-> NoOverride]
    /\ profiles = [p \in Procs |-> [n \in Providers |-> None]]
    /\ active = [p \in Procs |-> Nobody]
    /\ job = [p \in Procs |-> NoJob] /\ fetch = [p \in Procs |-> NoFetch]
    /\ ops = 0 /\ wanted = Default /\ typed = <<>> /\ listed = cache
    /\ picked = None /\ misread = {} /\ overlapped = {}

Launch(p) == \/ Start(p) \/ LoadConfig(p) \/ SeedDefaults(p) \/ Choose(p)
Handle(p) == \/ Pick(p) \/ PickEffort(p) \/ LoginDone(p) \/ AddProvider(p)
             \/ Submit(p)
Write(p) == \/ Load(p) \/ LoadFails(p) \/ SaveSettings(p) \/ SaveHistory(p)
            \/ Fetch(p) \/ LoadCache(p) \/ LoadCacheFails(p) \/ SaveCache(p)

Next == \E p \in Procs : Launch(p) \/ Handle(p) \/ Write(p) \/ Quit(p) \/ Crash(p)

Spec == Init /\ [][Next]_vars

(***************************************************************************)
(* Correctness                                                             *)
(***************************************************************************)
\* Every variable keeps its type; the files stay bounded.
TypeOK ==
    /\ exists \in BOOLEAN /\ settings \in [Keys -> Values]
    /\ history \in [kept : Seq(Lines), last : Entries \cup {<<>>}]
    /\ Len(history.kept) < Cap
    /\ cache \in [Endpoints -> Lists \cup {None}]
    /\ stage \in [Procs -> Stages]
    /\ over \in [Procs -> Overrides]
    /\ profiles \in [Procs -> [Providers -> Profiles \cup {None}]]
    /\ active \in [Procs -> [name : Providers \cup {None}, wire : Wires \cup {None},
                             model : Models \cup {Unset}, effort : Efforts]]
    /\ \A p \in Procs :
         /\ job[p].file \in {"settings", "history"} /\ Len(job[p].todo) <= 2
         /\ job[p].read \in BOOLEAN /\ job[p].pick \in BOOLEAN
         /\ fetch[p].end \in Endpoints \cup {None}
         /\ fetch[p].list \in Lists \cup {None}
    /\ ops \in 0 .. MaxOps /\ wanted \in [Keys -> Values]
    /\ typed \in Seq(Lines)
    /\ misread \subseteq {"history", "cache"}
    /\ overlapped \subseteq {"settings", "history", "cache"}

\* Only overlapping writers and failing reads lose anything.  Unless two
\* processes, or a launch and a handler, were at work on a file at once, the
\* settings hold every change any process saved and the history recalls, of the
\* lines with text that anyone submitted, the last ones without a gap; unless a
\* read of them failed as well, it recalls at least as many as the cap, and the
\* cache has the last list of each server.  Processes that die between two
\* steps damage nothing.
NothingLostAlone ==
    /\ "settings" \notin overlapped => settings = wanted
    /\ "history" \notin overlapped =>
         /\ IsSuffix(Recalled, typed)
         /\ "history" \notin misread => Len(Recalled) >= Cap \/ Recalled = typed
    /\ "cache" \notin overlapped \cup misread => cache = listed

\* "Persist the new provider, model, and effort" (docs/prd/model-provider-picker/
\* PRD.md:77): a launch without overrides takes up the provider and model last
\* picked of a local endpoint, and the effort set with or after them, in whatever
\* process and however it ended, or none if the server is not up.  Until another
\* provider, model or entry is saved; a choice that PickEffort takes for the
\* running provider is no pick; a hosted model is saved but never read.
LocalPickSurvives ==
    [][\A p \in Procs :
        /\ stage[p] = "choose" /\ stage'[p] = "on"
        /\ over[p] = NoOverride /\ "settings" \notin overlapped /\ picked # None
        => \/ active'[p].name = None
           \/ /\ active'[p].name = picked["provider"]
              /\ active'[p].model = picked["model"]
              /\ active'[p].effort = picked["effort"]]_vars
=============================================================================
