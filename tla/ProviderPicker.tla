---------------------------- MODULE ProviderPicker ----------------------------
(***************************************************************************)
(* Choosing a provider in the TUI: the selection modal (selection_modal.py)*)
(* whose model step is filled by a loader thread, and the picker, OAuth    *)
(* login and provider switch built on it (tui.py).                         *)
(*                                                                         *)
(* The UI thread runs one handler at a time; loader and login threads      *)
(* deliver into it when they can.  A cancelled thread worker's thread runs *)
(* on, so the result of a superseded loader, or of a login the user has    *)
(* turned away from, still arrives.                                        *)
(*                                                                         *)
(* Labels, hints, notes in the transcript and the value of the effort are  *)
(* left out: every provider of the package offers either all levels or     *)
(* none, and the step then lists all of them.                              *)
(***************************************************************************)
EXTENDS Naturals, Sequences, SequencesExt

CONSTANTS
    Offered,    \* the built-in providers, in the order of the provider step
    OAuth,      \* their login: "none", "browser" or "device"
    Keyed,      \* those with an API key in the environment
    Profiles,   \* the names cfg.providers has at launch
    Wire,       \* the name of the provider object built from a profile
    Models,     \* what a provider's endpoint lists, sorted
    Default,    \* the model of a profile
    Efforts,    \* the effort levels, in order
    MaxLoads,   \* bound: loader threads started
    MaxLogins   \* bound: login threads started

None    == "none"
Retry   == "__retry__"
Back    == "__back__"
Names   == Range(Offered) \cup Profiles
Values  == Names \cup Range(Default) \cup Range(Efforts)
                 \cup UNION {Range(Models[p]) : p \in Names}
StepIds == {"provider", "model", "effort"}

ASSUME PickerConstants ==
    /\ OAuth \in [Range(Offered) -> {"none", "browser", "device"}]
    /\ Keyed \subseteq Range(Offered)
    /\ Wire \in [Names -> Profiles]
    /\ Models \in [Names -> Seq(STRING)] /\ Default \in [Names -> STRING]
    /\ Efforts \in Seq(STRING) \ {<<>>} /\ Offered \in Seq(STRING) \ {<<>>}
    /\ None \notin Values
    /\ MaxLoads \in Nat /\ MaxLogins \in Nat

VARIABLES
    up,          \* the app runs: no handler has raised
    provider,    \* the active provider object, or NoProvider
    activeName,  \* _active_profile_name
    profiles,    \* the names of cfg.providers
    saved,       \* provider and model of settings.json
    modals,      \* the selection modals on the screen stack
    loads,       \* loader threads still to deliver
    loadCount,
    loginState,  \* _login_state: a code is awaited at the prompt
    resume,      \* _oauth_continue is set
    logins,      \* login threads
    loginCount,
    creds        \* providers with a stored credential

inUse  == <<provider, activeName, saved>>
loader == <<loads, loadCount>>
login  == <<profiles, loginState, resume, logins, loginCount, creds>>
pickerVars == <<up, inUse, modals, loader, login>>

NoProvider == [name |-> None, profile |-> None, model |-> None]
NoVerifier == [of |-> None, id |-> 0]
NoLogin    == [of |-> None, verifier |-> NoVerifier]

Step(id, of, options, current) ==
    [id |-> id, of |-> of, options |-> options, current |-> current, error |-> FALSE]
Steps == [id : StepIds, of : Names \cup {None}, options : Seq(Values),
          current : Values \cup {None}, error : BOOLEAN]
Verifiers == [of : Range(Offered), id : 1 .. MaxLogins] \cup {NoVerifier}
Logins == [id : 1 .. MaxLogins, of : Range(Offered), verifier : Verifiers,
           at : {"start", "exchange", "device", "done"}]

(***************************************************************************)
(* The modal                                                               *)
(***************************************************************************)
\* What the step shows: its options, or a way out of an error or of nothing.
Visible(step) ==
    IF step.error THEN <<Retry, Back>>
    ELSE IF step.options = <<>> THEN <<Back>> ELSE step.options

\* Fault: a row is counted as the code counts them, from 0.
InitialIndex_FromZero(step) ==
    SelectInSeq(Visible(step), LAMBDA value : value = step.current) - 1

\* The row selected when a step is shown: its current value, or the first.
InitialIndex(step) ==
    LET i == SelectInSeq(Visible(step), LAMBDA value : value = step.current)
    IN  IF i = 0 THEN 1 ELSE i

Chosen0 == [id \in StepIds |-> None]

Top     == Last(modals)
Current == Last(Top.steps)

\* _maybe_load: show modal on top of the screens below; a model step without
\* options starts a loader, beside those still running.
Show(below, modal) ==
    LET step == Last(modal.steps)
        load == step.id = "model" /\ step.options = <<>>
        this == [id |-> loadCount + 1, at |-> Len(below) + 1, of |-> step.of]
    IN  /\ modals' = Append(below, [modal EXCEPT
                          !.loading = load,
                          !.index   = IF load THEN 1 ELSE InitialIndex(step)])
        /\ load => loadCount < MaxLoads
        /\ loads' = IF load THEN loads \cup {this} ELSE loads
        /\ loadCount' = IF load THEN loadCount + 1 ELSE loadCount

Push(step) ==
    Show(modals, [steps |-> <<step>>, chosen |-> Chosen0, index |-> 1, loading |-> FALSE])

\* The modal leaves the screen; what its loaders still deliver goes nowhere.
Close ==
    /\ modals' = Front(modals)
    /\ loads' = {l \in loads : l.at # Len(modals)}
    /\ UNCHANGED loadCount

\* Fault: the step before, with the choice made there.
GoBack_Remembered ==
    IF Len(Top.steps) > 1
    THEN Show(Front(modals), [Top EXCEPT !.steps = Front(Top.steps)])
    ELSE Close

\* _back: the step before, without the choice made there; or close.
GoBack ==
    IF Len(Top.steps) > 1
    THEN LET steps == Front(Top.steps)
         IN  Show(Front(modals), [Top EXCEPT !.steps = steps, !.chosen[Last(steps).id] = None])
    ELSE Close

\* _retry: the step again, without its error and its options.
Again ==
    Show(Front(modals),
         [Top EXCEPT !.steps[Len(Top.steps)] =
             [Current EXCEPT !.options = <<>>, !.error = FALSE]])

Advance(modal, step) ==
    Show(Front(modals), [modal EXCEPT !.steps = Append(modal.steps, step)])

(***************************************************************************)
(* Providers                                                               *)
(***************************************************************************)
ActiveProfile == IF activeName # None THEN activeName ELSE provider.name

NeedsLogin(p) ==
    p \in Range(Offered) /\ OAuth[p] # "none" /\ p \notin Keyed \cup creds

Build(p, model) == [name |-> Wire[p], profile |-> p, model |-> model]

ProviderStep == Step("provider", None, Offered,
                     IF provider = NoProvider THEN None ELSE ActiveProfile)
ModelStep(p, current) == Step("model", p, <<>>, current)
EffortStep == Step("effort", None, Efforts, None)

\* The model shown as the current one in the step of provider p.
CurrentModel(p) ==
    IF provider # NoProvider /\ ActiveProfile = p THEN provider.model ELSE None

\* _apply_selections: what was not chosen is taken from the active provider.
\* The same provider and model with an effort changes the effort and saves;
\* a provider without a profile is refused; any other choice is switched to.
Apply(chosen) ==
    LET p     == IF chosen["provider"] # None THEN chosen["provider"] ELSE provider.name
        model == IF chosen["model"] # None THEN chosen["model"] ELSE provider.model
        here  == p = provider.name /\ model = provider.model /\ chosen["effort"] # None
        works == p # None /\ model # None
    IN  \/ /\ works /\ here
           /\ saved' = IF chosen["effort"] \in Range(Efforts)
                       THEN [provider |-> p, model |-> model] ELSE saved
           /\ UNCHANGED <<provider, activeName>>
        \/ /\ works /\ ~here /\ p \in profiles
           /\ provider' = Build(p, model)
           /\ activeName' = p
           /\ saved' = [provider |-> p, model |-> model]
        \/ /\ ~works \/ (~here /\ p \notin profiles)
           /\ UNCHANGED inUse

\* _start_oauth_login: a login thread; the browser's code is then awaited.
StartLogin(p) ==
    /\ loginCount < MaxLogins
    /\ loginCount' = loginCount + 1
    /\ logins' = logins \cup
          {[id |-> loginCount', of |-> p, verifier |-> NoVerifier,
            at |-> IF OAuth[p] = "device" THEN "device" ELSE "start"]}
    /\ loginState' = IF OAuth[p] = "device" THEN loginState
                     ELSE [of |-> p, verifier |-> NoVerifier]

(***************************************************************************)
(* Keys in the modal on top                                                *)
(***************************************************************************)
InModal == up /\ modals # <<>>

Move ==
    /\ InModal /\ ~Top.loading
    /\ \E i \in {Top.index - 1, Top.index + 1} :
          /\ i \in 1 .. Len(Visible(Current))
          /\ modals' = [modals EXCEPT ![Len(modals)].index = i]
    /\ UNCHANGED <<up, inUse, loader, login>>

Escape ==
    /\ InModal
    /\ GoBack
    /\ UNCHANGED <<up, inUse, login>>

\* Enter on Back or Retry.
Leave ==
    /\ InModal /\ ~Top.loading
    /\ \/ Visible(Current)[Top.index] = Back /\ GoBack
       \/ Visible(Current)[Top.index] = Retry /\ Again
    /\ UNCHANGED <<up, inUse, login>>

\* Enter on a provider, a model or an effort.  A provider that needs a login
\* closes the modal, and what was chosen so far is applied at once; one without
\* a profile makes _build_model_step raise in the key handler.
Enter ==
    /\ InModal /\ ~Top.loading
    /\ LET value == Visible(Current)[Top.index]
           modal == [Top EXCEPT !.chosen[Current.id] = value]
       IN  /\ value \notin {Back, Retry}
           /\ \/ /\ Current.id = "provider" /\ NeedsLogin(value)
                 /\ resume' = TRUE
                 /\ StartLogin(value) /\ Close /\ Apply(modal.chosen)
                 /\ UNCHANGED <<up, profiles, creds>>
              \/ /\ Current.id = "provider" /\ ~NeedsLogin(value) /\ value \in profiles
                 /\ Advance(modal, ModelStep(value, CurrentModel(value)))
                 /\ UNCHANGED <<up, inUse, login>>
              \/ /\ Current.id = "provider" /\ ~NeedsLogin(value) /\ value \notin profiles
                 /\ up' = FALSE
                 /\ UNCHANGED <<inUse, modals, loader, login>>
              \/ /\ Current.id = "model"
                 /\ Advance(modal, EffortStep)
                 /\ UNCHANGED <<up, inUse, login>>
              \/ /\ Current.id = "effort"
                 /\ Close /\ Apply(modal.chosen)
                 /\ UNCHANGED <<up, login>>

(***************************************************************************)
(* What the loader threads deliver                                         *)
(***************************************************************************)
\* _set_loaded: the modal's current step gets the options, whichever it is.
SetLoaded(modal, options) ==
    LET step == [Last(modal.steps) EXCEPT !.options = options]
    IN  [modal EXCEPT !.steps[Len(modal.steps)] = step,
                      !.loading = FALSE, !.index = InitialIndex(step)]

\* Fault: the step is still loading.
SetError_Loading(modal) ==
    [modal EXCEPT !.steps[Len(modal.steps)] =
        [Last(modal.steps) EXCEPT !.options = <<>>, !.error = TRUE], !.index = 1]

\* _set_error: likewise for the message of a loader that raised.
SetError(modal) ==
    LET step == [Last(modal.steps) EXCEPT !.options = <<>>, !.error = TRUE]
    IN  [modal EXCEPT !.steps[Len(modal.steps)] = step,
                      !.loading = FALSE, !.index = 1]

Deliver(l) ==
    /\ up
    /\ \/ \E options \in {Models[l.of], <<>>} :
             modals' = [modals EXCEPT ![l.at] = SetLoaded(@, options)]
       \/ modals' = [modals EXCEPT ![l.at] = SetError(@)]
    /\ loads' = loads \ {l}
    /\ UNCHANGED <<up, inUse, loadCount, login>>

(***************************************************************************)
(* Commands and the prompt                                                 *)
(***************************************************************************)
AtPrompt == up /\ modals = <<>>
Command  == AtPrompt /\ loginState = NoLogin

\* /settings and /provider; /model and /effort, which without a provider do
\* the same.
OpenPicker ==
    /\ Command
    /\ \/ Push(ProviderStep)
       \/ provider # NoProvider /\ Push(ModelStep(provider.name, CurrentModel(provider.name)))
       \/ provider # NoProvider /\ Push(EffortStep)
    /\ UNCHANGED <<up, inUse, login>>

\* /provider add, completed.
AddProvider(p) ==
    /\ Command
    /\ profiles' = profiles \cup {p}
    /\ UNCHANGED <<up, inUse, modals, loader, loginState, resume, logins, loginCount, creds>>

\* /login: for the name of the active provider object.
LoginCommand ==
    /\ Command
    /\ provider.name \in Range(Offered) /\ OAuth[provider.name] # "none"
    /\ StartLogin(provider.name)
    /\ UNCHANGED <<up, inUse, modals, loader, profiles, resume, creds>>

\* Escape, or an empty line, while a code is awaited.
CancelLogin ==
    /\ AtPrompt /\ loginState # NoLogin
    /\ loginState' = NoLogin
    /\ UNCHANGED <<up, inUse, modals, loader, profiles, resume, logins, loginCount, creds>>

\* A code is pasted: it is exchanged with the verifier there is.
Paste ==
    /\ AtPrompt /\ loginState # NoLogin
    /\ loginCount < MaxLogins
    /\ loginCount' = loginCount + 1
    /\ logins' = logins \cup {[id |-> loginCount', of |-> loginState.of,
                                verifier |-> loginState.verifier, at |-> "exchange"]}
    /\ loginState' = NoLogin
    /\ UNCHANGED <<up, inUse, modals, loader, profiles, resume, creds>>

(***************************************************************************)
(* The login threads                                                       *)
(***************************************************************************)
\* Fault: kept for any login.
SavePkce_Any(t) ==
    IF loginState # NoLogin
    THEN [loginState EXCEPT !.verifier = [of |-> t.of, id |-> t.id]]
    ELSE loginState

\* _save_login_pkce: kept only for the provider a code is awaited for.
SavePkce(t) ==
    IF loginState.of = t.of
    THEN [loginState EXCEPT !.verifier = [of |-> t.of, id |-> t.id]]
    ELSE loginState

\* The browser has opened; the thread hands its verifier to the UI thread.
Authorize(t) ==
    /\ up /\ t.at = "start"
    /\ loginState' = SavePkce(t)
    /\ logins' = logins \ {t}
    /\ UNCHANGED <<up, inUse, modals, loader, profiles, resume, loginCount, creds>>

\* The code, or the device, is refused or accepted; an accepted one is stored.
Exchange(t) ==
    /\ up /\ t.at \in {"exchange", "device"}
    /\ \/ logins' = logins \ {t} /\ UNCHANGED creds
       \/ /\ creds' = creds \cup {t.of}
          /\ logins' = (logins \ {t}) \cup {[t EXCEPT !.at = "done"]}
    /\ UNCHANGED <<up, inUse, modals, loader, profiles, loginState, resume, loginCount>>

\* _oauth_login_done: switch to the provider, and go on with the picker if one
\* was left for a login.
LoginDone(t) ==
    /\ up /\ t.at = "done"
    /\ logins' = logins \ {t}
    /\ profiles' = profiles \cup {t.of}
    /\ provider' = Build(t.of, Default[t.of])
    /\ activeName' = t.of
    /\ saved' = [saved EXCEPT !.provider = t.of]
    /\ resume' = FALSE
    /\ \/ resume /\ Push(ModelStep(t.of, Default[t.of]))
       \/ ~resume /\ UNCHANGED <<modals, loader>>
    /\ UNCHANGED <<up, loginState, loginCount, creds>>

(***************************************************************************)
(* The specification                                                       *)
(***************************************************************************)
\* At launch: a provider of a profile that can authenticate, or none and the
\* picker open.
PickerInit ==
    /\ up = TRUE /\ profiles = Profiles /\ activeName = None
    /\ creds = {} /\ loads = {} /\ loadCount = 0
    /\ loginState = NoLogin /\ resume = FALSE /\ logins = {} /\ loginCount = 0
    /\ \/ /\ provider = NoProvider
          /\ modals = <<[steps  |-> <<Step("provider", None, Offered, None)>>,
                         chosen |-> Chosen0, index |-> 1, loading |-> FALSE]>>
       \/ /\ provider \in {Build(p, Default[p]) : p \in {q \in Profiles : ~NeedsLogin(q)}}
          /\ modals = <<>>
    /\ saved = [provider |-> provider.profile, model |-> None]

PickerNext ==
    \/ Move \/ Escape \/ Leave \/ Enter
    \/ OpenPicker \/ LoginCommand \/ CancelLogin \/ Paste
    \/ \E p \in Names : AddProvider(p)
    \/ \E l \in loads : Deliver(l)
    \/ \E t \in logins : Authorize(t) \/ Exchange(t) \/ LoginDone(t)

PickerSpec == PickerInit /\ [][PickerNext]_pickerVars

\* A loader ends by its HTTP timeouts and the UI thread then runs what it
\* posted.  Nothing makes the user press a key, or a login end.
FairPickerSpec ==
    /\ PickerSpec
    /\ \A n \in 1 .. MaxLoads : WF_pickerVars(\E l \in loads : l.id = n /\ Deliver(l))

(***************************************************************************)
(* Correctness                                                             *)
(***************************************************************************)
\* Every variable keeps its type; and whatever a late loader puts into a step,
\* Enter finds an option at the index (options[self._index] never raises).
PickerTypeOK ==
    /\ up \in BOOLEAN /\ resume \in BOOLEAN
    /\ provider \in [name : Names, profile : Names, model : Values] \cup {NoProvider}
    /\ activeName \in Names \cup {None}
    /\ profiles \subseteq Names /\ creds \subseteq Range(Offered)
    /\ saved \in [provider : Names \cup {None}, model : Values \cup {None}]
    /\ modals \in Seq([steps : Seq(Steps), chosen : [StepIds -> Values \cup {None}],
                       index : Nat, loading : BOOLEAN])
    /\ loads \subseteq [id : 1 .. MaxLoads, at : Nat, of : Names]
    /\ loadCount \in 0 .. MaxLoads /\ loginCount \in 0 .. MaxLogins
    /\ loginState \in [of : Range(Offered), verifier : Verifiers] \cup {NoLogin}
    /\ logins \subseteq Logins
    /\ \A k \in DOMAIN modals :
           modals[k].index \in 1 .. Len(Visible(Last(modals[k].steps)))

\* What a modal would apply is what was chosen on the steps the user has come
\* through: a choice gone back on is forgotten, and none is missing.
ChoicesOnScreen ==
    \A k \in DOMAIN modals :
        {id \in StepIds : modals[k].chosen[id] # None}
            = {step.id : step \in Range(Front(modals[k].steps))}

\* A code is never exchanged with the verifier of another provider's login,
\* however late the threads of earlier logins hand theirs over.
VerifierOfProvider ==
    \A t \in logins \cup {loginState} :
        t.verifier # NoVerifier => t.verifier.of = t.of

\* The picker never keeps loading: an answer or an error is shown, also when
\* the user went back and forth between steps and loaders overlap.
Loading(k) == up /\ k \in DOMAIN modals /\ modals[k].loading
LoadingEnds == \A k \in 1 .. MaxLogins + 1 : Loading(k) ~> ~Loading(k)

\* "If the provider requires OAuth and no credential is stored, run the existing
\* OAuth flow, then continue" (docs/prd/model-provider-picker/PRD.md:49): the
\* active provider is never one that still has to be logged in to.
LoginBeforeSwitch == provider # NoProvider => ~NeedsLogin(provider.profile)

=============================================================================
