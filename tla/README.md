# A TLA+ model of Rickshaw

Rickshaw is a terminal assistant. A harness (`rickshaw/`) runs conversational
turns against a provider, keeps memories and traces in SQLite and shows it all
in a Textual app; a library (`rickshaw_ai/`) speaks to the providers, streams
their answers and keeps OAuth credentials. This directory holds TLA+ modules
translated from that code, TLC configurations that check them on small
instances, and TLAPS proofs of the properties that matter most.

- [1 The system](#1-the-system): the inventory of parts
- [2 The modules](#2-the-modules): which module models what, action by action
- [3 The runs](#3-the-runs): what each shows, its bounds, the fairness assumed
- [4 The proofs](#4-the-proofs)
- [5 Where the code and its documents disagree](#5-where-the-code-and-its-documents-disagree)
- [6 What is not modelled](#6-what-is-not-modelled)
- [7 Plan](#7-plan)

## 1 The system

### Threads and processes

| actor | what it does |
|---|---|
| UI thread | Textual's event loop: handlers and posted callbacks, one at a time |
| turn thread | one per turn (`@work(thread=True, exclusive=True, group="turn")`); runs `Orchestrator.run_turn` and reports with `call_from_thread`, which blocks until the UI has run the callback |
| trace worker | a daemon thread that owns the trace database and takes items from a bounded queue |
| bridge thread | one per streamed call; runs the async parser and fills an unbounded queue |
| loader and login threads | fill the picker's model step; exchange OAuth codes, poll device codes |
| other processes | a second Rickshaw, or any user of `rickshaw_ai`, with the same credential, settings and history files |

Cancelling a *thread* worker changes its bookkeeping; the thread runs on. Much
of what is hard here follows from that one fact.

### Parts

**Orchestrator** (`orchestrator.py`). State: the attempt, the collected text, the
tool rounds of one turn. Operations: `run_turn` = recall, prompt, model call
(`_complete_with_retry` / `_stream_events_with_retry` with retry, partial response and
fallback to `complete`), tool loop, observations, scoring jobs, verdict. Talks to
the provider, `ToolRegistry`, memory, trace store and two callbacks. Hard: text
already shown when a call breaks, follow-ups failing after effects, read-only
rounds exempt from the round limit, callbacks that raise, the UI replacing
`self.provider` under its feet. Right when: no attempt's text is doubled, the
answer accounts for what was shown, calls and effects are bounded, the stored
verdict agrees with the caller's.

**Trace store** (`trace_store.py`). State: queue, `_closed`, SQLite rows, the
worker's `_seq` counters. Operations: `start_trace`, `emit`, `finish_trace`,
`flush`, `close`, `get_trace`. Hard: check-then-put against close, failing commits,
a dead worker, exit with a full queue. Right when: flush means durable, a finished
trace is complete, order is kept, nobody blocks for ever.

**TUI turns** (`tui.py`). State: `_turn_active`, `_turn_seq`, `_current_user`,
buffers, `_turns`, `_session_tokens`, the prompt. Operations: submit, Esc, ^C,
`/clear`, `/quit`; callbacks for deltas, events, done and error. Hard: interrupted
threads that go on reporting, done or error crossing an interrupt. Right when:
a conversation looks to the user as if turns ran one at a time.

**Provider picker and login** (`selection_modal.py`, `tui.py`). State: the stack of
modals with their steps and choices, loader threads, `_login_state`,
`_oauth_continue`, the active provider, `settings.json`. Hard: late loaders, logins
that end after the user turned away. Right when: what is applied is what was
chosen, and only once it can be used.

**Credential store and refresh** (`rickshaw_ai/credentials`, `rickshaw_ai/auth`).
State: one file with all providers' credentials, two lock files, the endpoint's
rotating refresh tokens. Operations: `read`, `modify`, `delete`, `resolve_auth`,
login. Hard: whole-file read-modify-write across processes, refresh races, lost
answers, crashes. Right when: no update is lost, no token spent twice, nothing
deleted comes back.

**Adapters and streaming** (`rickshaw_ai/providers`, `tools.py`, `_bridge.py`). State: the
assembler's buffers, the bridge's queue. Operations: `parse_stream` per protocol,
`ToolCallAssembler`, `_iter_async`. Hard: interleaved fragments, streams cut short,
readers that leave. Right when: a streamed answer is the generated one, and half
calls do not run.

**Memory** (`memory/`) **and the deferred worker** (`worker.py`, `queue.py`). State: rows in
SQLite, an optional vector index beside them, a queue of jobs. Operations: a turn's
`assemble_context` and `write_observations`, the tools `remember`, `recall` and `forget`, the jobs
scoring, compaction and eviction. Hard: search and store are two steps; recall and scoring
write back what they read; a row and its index entry change one after the other and any
call may break off; the index may be missing in one session and there in the next. Right
when: no fact is stored twice or lost, a forgotten one stays gone, the index mirrors the
rows.

**Session** (`rickshaw_ai/session.py`, `factory.py`). State: the message list, usage in all and
by model, a dump. Operations: `run` and `stream` (input appended, history prepared for the
target provider, request sent with its retries, reply appended), `add_tool_result`, `dump`,
`load`. Hard: the model may change at every call, and a call may end between the input and
the reply. Right when: every request is the whole conversation, fit for its provider, and the
history itself is never changed by a handoff.

**Settings, history, model lists** (`settings.py`, `history.py`, `config.py`, `providers/base.py`,
the saving handlers and `main` of `tui.py`). State: three files shared by all running
programs, and what each program holds of them. Operations: launch (`load_config`, seeding,
`main`'s choice), pick, `/effort`, login, `/provider add`, submit, the loader's list. Hard: each write
is read, change, replace, without a lock; a launch reads twice, a pick writes twice. Right
when: only writers that overlap lose anything, and a launch takes up what was last picked.

**Trace rendering** (`trace_render.py`, `events.py`). State: the pending start events, the group of
deltas, the lines. Operation: `format_trace` over the events of a turn. Hard: retries, broken
streams, degraded turns and interrupts cut pairs and groups apart. Right when: no event is
lost or paired with another call's, and the answer can be read.

## 2 The modules

| module | models | lines of code |
|---|---|---|
| `TurnLoop` | one turn of the orchestrator | `orchestrator.py`, `tool_registry.py:90-112` |
| `TraceStore` | the trace store, its worker, turns that record, the main thread | `trace_store.py` |
| `Conversation` | abstract: turns one at a time, each ending once | what the transcript promises |
| `TuiTurns` | UI thread and turn threads; implements `Conversation` | `tui.py` 1614-1640, 2341-2600 |
| `SerializedStore` | abstract: calls that take effect one at a time | the contract of `modify`, `store.py` 43-50 |
| `CredentialStore` | the file, its locks, its callers, the token endpoint; implements `SerializedStore` | `credentials/`, `auth/` |
| `StreamParse` | three stream parsers and the bridge | `rickshaw_ai/providers`, `tools.py`, `_bridge.py` |
| `ProviderPicker` | selection modal, picker, login, switch | `selection_modal.py`, `tui.py` 1090-1340, 2101-2339 |
| `Memory` | the rows, the index, their callers and the worker's jobs | `memory/`, `worker.py` |
| `Session` | a conversation that changes models, and the requests it sends | `rickshaw_ai/session.py`, `rickshaw_ai/providers/base.py` 100-153 |
| `UserFiles` | settings, history and model cache, several programs | `settings.py`, `history.py`, `config.py` 244-378, `providers/base.py` 208-269, `tui.py` |
| `TraceRender` | what a turn emits, and how it is laid out in lines | `trace_render.py`, `orchestrator.py`, `tui.py` |
| `MC*` | constants for TLC | |
| `TurnLoopProofs`, `TraceProofs`, `TuiProofs`, `CredentialStoreProofs`, `MemoryProofs`, `SessionProofs`, `UserFilesProofs`, `StreamParseProofs` | theorems | |

The modules meet where one component's guarantee is another's assumption, and are
composed by it: `TuiTurns` assumes that a turn ends with one verdict, which
`TurnLoop` shows (`TurnEnds`, `TraceVerdict`); `TurnLoop` takes a stream to end with
an answer or an exception, which `StreamParse` shows (`StreamEnds`); a `CredentialStore` call inside a request is a model call that may
fail; recall and write are steps of `TurnLoop` whose result `Memory` accounts for. `TraceRender` composes the
turn with its renderer: its first half emits what `TurnLoop`'s turn emits, in the same order,
and what the renderer gets is a prefix of that, as `TuiTurns` delivers it. `UserFiles` takes from
`ProviderPicker` that what is saved is what was chosen. One product of them all would
multiply states that do not interact.

**TurnLoop.** `pc` follows `run_turn`; `attempt`, `sawEvent`, `gotText` are the locals of
`_stream_events_with_retry`; `exc` is the exception on its way up through two handlers, that of
a follow-up call (`CatchFollowUp`) and that of `run_turn` (`CatchTurn`). Each reads `self.provider`
again, and so do `Prepare`, `StartLoop` and every call: `SwitchProvider` may come between any two of
these reads. `called` is the provider that the current call went to. A provider is what its capabilities and address make of it: local or
hosted, through the bridge or not, streaming or not, with tools or not. A fault of
the wire (`Faults`) surfaces as the exception class the adapter or the bridge
makes of it (`Raised`), because retry and fail-fast depend on the class. Texts
are attempts, a tool call is whether it has side effects. `trace` is the turn's row, which
`finish_trace` can only update: without `start_trace` there is none and no verdict.

**TraceStore.** A public call is two steps, the look at `_closed` and the blocking
`put`. The worker takes one item and writes it: each write commits or fails
and is dropped. `Main` flushes, closes, joins with a timeout, exits.

**TuiTurns.** A report of a turn thread is three steps: the thread's own look at
`_turn_active` and `_turn_seq`, the wait in `call_from_thread`, the callback on the UI
thread. `Submit`, `Interrupt`, `CtrlC`, `Clear` are whole handlers. A turn that ends
writes its verdict before it posts done or error.

**CredentialStore.** A call is read, take the locks, `_load`, possibly the exchange with
the endpoint and its answer, `_dump`, release. It may crash anywhere, its process
with it. A token is the number of its grant, so rotation, replay and loss are
visible. `modify` and `delete` take the provider's lock and then the file's.

**StreamParse.** A message is a sequence of blocks, each of a few fragments. The
provider begins blocks and sends fragments in any order its protocol allows; `Key`
is the assembler's key (OpenAI's index), so mixing two calls up is possible in
principle. `Cut`, `Fail` and `Abandon` end a stream early.

**ProviderPicker.** A modal is its history of steps, its choices, the selected row and
whether it loads. Handlers are atomic (the event loop runs them one by one);
`Deliver` is a loader's posted result and acts on whichever step is then current,
as `_set_loaded` does. `up` becomes FALSE when a handler raises. The dismissal
callback of a modal runs with the key that dismissed it.

**Memory.** A step is one SQL statement with its commit, or one call of the index; `pc`
says which comes next in a caller's call, and `op` which call it is. A row is its
status, because its text and its embedding never change. What a text is like is chosen when it
is embedded (`Likenesses`): the embedder weighs words by what it has seen so far and gives zero
vectors, so the 0.92 of `write` need not hold even of two embeddings of one text. What a summary
keeps of the facts it stands for is chosen too (`Contents`), for a provider may drop some and
without one the text is cut to 200 characters; `cut` remembers what was lost that way. `serial` is chosen in `Init`: the calls come one after the other, as `store.py:54`
expects and the demo does, or two turn threads (one of them interrupted), or two processes,
overlap, as they can in the terminal. Jobs only run in the serial setting, since no
concurrent worker exists. `Break` is an exception or the death of the process at any step;
`Restart` loses the index or finds it again, stale. `gap` remembers that a row and its entry
were changed apart. Every caller in the program writes with session scope and not sensitive,
so neither is in a row.

**Session.** A call is `Ask` (the input appended, the request prepared), then `Post`, perhaps
`Retry`, `OpenStream`, and `Reply` or `GiveUp`. A message keeps who wrote it, its thinking (signed,
redacted, unsigned, none) and its image (the user's, or inside a tool's result, where the code
does not look). `said` is the conversation as it was spoken, to compare requests with.
`Load` stands for a restart and for a program that goes back to its last dump.

**UserFiles.** A step is one read or one replace of a file: `job` is what is left of a handler's
reads and writes, `fetch` of the loader's. A launch is `Start`, `LoadConfig`, `SeedDefaults` if there
is no file, and `Choose`, which reads the settings again. `Crash` may come between any two. A
profile is whether its URL is local, its wire format and its model: local is what the preset,
the entry in the settings or `*_BASE_URL` make of it (`ProfileOf`, `Based`), whatever its name. The picker
offers the built-in names, `/model` and `/effort` the name of the running provider's wire format
(`Choosable`); a choice that the running provider says it already is takes `_apply_selections`' short
path (`PickEffort`), any other rebuilds the provider (`Pick`). The history's last entry is as it
was typed, blank lines and all, until it is read (`Recalled`); a read of history or cache that fails
counts as an empty file (`LoadFails`, `LoadCacheFails`). `overlapped` remembers the files that were
replaced while another process was at work with them, `misread` those of which a read failed;
`wanted`, `typed` and `listed` add up what was saved.

**TraceRender.** The first half follows `run_turn` event by event; `Interrupt` keeps any prefix,
because callbacks are delivered one by one and dropped once the turn is not active. A turn may also
fail between its context and its prompt, or in the recall of its fallback.
`Scan` is one turn of `format_trace`'s loop over the records, with its three slots and its
group of deltas, `Conclude` all that follows the loop. A record is its position, a text is
whether it is empty.

## 3 The runs

Passing runs (`expect: pass`), all invariants and temporal properties in one cfg each:

| run | shows | bounds |
|---|---|---|
| `turn` | a turn against every kind of provider whose calls may fail in every way, with reliable callbacks and tools or with callbacks that raise and results that do not serialize (`reliable`, chosen in `Init`) | 1 retry, 1 round of side effects, 2 iterations, 2 calls per response, 2 stream events, 1 provider switch, at any step |
| `trace_records` | two turns recording while the store is flushed, closed, and the process may exit | 4 calls per turn (start, two events, finish), queue of 1, one failing write, boot may fail |
| `tui_session` | three turns with interrupts, clears and quits; the refinement of `Conversation` | 2 reports per turn, an executor of 2 threads |
| `credentials` | three calls, each any of request, login, delete, with crashes and lost answers; the refinement of `SerializedStore` | 2 providers |
| `streams` | nine messages over three protocols | up to 3 fragments per block, up to 4 blocks |
| `picker` | the picker from launch with and without a provider | 2 loaders, 2 login threads, 5 providers |
| `rendering` | every trace a turn can leave, complete or cut, and its rendering | 2 attempts, 1 round of at most 2 tools, 2 deltas per call |
| `userfiles` | two programs launching, saving and dying over the shared files | 2 operations besides launches, a history cap of 2, an entry of one line and one of three with a blank between; a built-in provider with a profile, one without, and a local preset; 5 sets of flags and environment, two of them with a local `OPENAI_BASE_URL` |
| `handoff` | conversations between three models of two providers, with failures and restarts | 5 messages, 1 retry |
| `memory` | any calls of two callers on the memory, serial or overlapping, broken off anywhere, with restarts | 3 records ever created, any of which may be alike; 2 callers, 1 neighbour looked at |

Why the bounds are enough: one retry and one round already give every path
through the handlers twice (first call and follow-up); two iterations let the hard
cap and the round limit end the loop separately. A queue of 1 makes every second
put block. Three turns are one running, one interrupted and one whose thread is
older than both, and a pool of 2 fills up with them. Three credential calls are a
refresh racing a refresh beside a delete or a login. Two loaders are the
superseded and the current one; two logins are one abandoned and one that
replaced it. Three records are two facts and their summary, and a fourth call of `write`
finds them all in use; looking at one neighbour is enough to see a match hidden behind a
record that does not match, were the neighbours not sorted. Five messages are a reply of one
provider, a handoff to the other and a way back, with a failed input among them. Two
operations are two writers that overlap, or one that follows another; a cap of 2 is reached
by one entry of two lines. One round of two tools gives the renderer two calls and a
follow-up, each of which may be cut. What is proved ([4](#4-the-proofs)) holds for all values.

The type invariants of the modules whose type theorem is proved (`TurnLoop`, `TraceStore`,
`TuiTurns`, `CredentialStore`, `Memory`, `Session`, `UserFiles`) are not checked again by a run.

The properties and what they are about are stated above each definition. They
are of five kinds: accounting (`AnswerAccountsForText`, `AnswerIsWhatWasShown`, `FlushDurable`,
`VerdictIsComplete`, `BlockAgreesWithTrace`, `StreamMatchesGenerate`, `RequestsFit`,
`UsageMatchesReplies`, `EveryEventOnOneLine`, `PairsBelongTogether`, `AnswerIsReadable`), limits and
fallbacks (`WithinBudgets`, `FallbacksAreClean`), non-interference of late actors
(`NoStaleReports`, `OneVoicePerCall`, `NoLostUpdate`, `IsSerialized`, `VerifierOfProvider`, the picker's
`TypeOK`, `ForgottenStaysGone`), agreement of two stores (`IndexMirrors`, `NothingLost`,
`NoDuplicates`, `NothingLostAlone`, `LocalPickSurvives`) and progress (`TurnEnds`, `RecordingReturns`, `PromptReturns`,
`CallsEnd`, `StreamEnds`, `LoadingEnds`).

**Fairness** is weak and only on threads: the orchestrator's thread, the trace worker
and recording turns, the UI's callbacks and turn threads, the calls of the
credential store, the bridge's thread and its reader, the loaders. It is justified by
the clients' timeouts (every HTTP call of the code ends) and by the scheduler.
Nothing is assumed of the user, of the endpoint's answers, or of the main
thread of the trace store: it may never flush or close.

`CHECK_DEADLOCK FALSE` stands in `TraceRecords.cfg` (a `put` behind the pill of `close`
waits for ever, which the model shows and `RecordingReturns` excepts) and in the
picker's cfgs (the app may have ended with an exception, or all threads be used up), and in
`Rendering.cfg` (a rendered trace stays). `Session`, `UserFiles` and `TraceRender` state no fairness:
what they promise is safety.

Violation runs: `tui_tokens` and `picker_login`; see [5](#5-where-the-code-and-its-documents-disagree).

## 4 The proofs

Every theorem holds for all values of the constants that satisfy the modules'
assumptions (`TurnConstants`, `TraceConstants`, `StoreConstants`, `FileConstants` and so on).

`TurnLoopProofs`:

- `TypeCorrect`: `Spec => []TypeOK`. Split into control flags (`FlagsOK`) and data
  (`DataOK`); a round's `todo` needs `RoundOpen`, that a response has no more calls
  than its bound.
- `CallBudgetHolds`: `CallBudget` is not inductive: it forgets at which attempt of
  which iteration the turn stands. `CallInv` says that the calls so far are at most
  those of the finished iterations plus the attempts of this one.
- `EffectBudgetHolds`: likewise with rounds; read-only rounds do not add. Both together
  are `WithinBudgetsHold`.
- `OneVoicePerCallHolds`: the invariant is that text shown belongs to calls before
  this one, or to this attempt, and that an attempt that showed text has
  `sawEvent`, which is what the retry's guard tests.
- `DegradedIsCleanHolds`: in a reliable turn an exception that reaches `run_turn` comes from the
  first call, before any tool, and a stream that had shown text has been salvaged (`Clean`); one
  on its way from a follow-up's handler reaches it as the local failure it was judged to be,
  unless the provider was replaced between the two (`crossed`). `reliable` never changes.
- `LocalFailsFastHolds`: a local endpoint that cannot be reached raises and never degrades, since
  without a replacement the provider called is the one the handlers judge (`CalledInv`); with
  the one before it is `FallbacksAreCleanHolds`.
- `TraceVerdictHolds`: verdict and result agree at every exit; only a callback that raises, before
  there is a row or on the Error event, leaves none.
- `AnswerAccountsForTextHolds`: `AnswerInv` and `AccountInv` say at each step what an answer that
  is on its way must account for.

`CredentialStoreProofs`, where the lock works (`LockWorks`), for any number of calls
and providers; `IInv` is the conjunction of

- `Mutex` (a call between `_load` and `_dump` holds the file's lock), `Loaded` (what it
  loaded is still in the file), `Meant` (what it is about to store is of its kind of job
  and fits the file's entry), hence `NoLostUpdate`;
- `Tokens` (no token is both live and spent, none is later than the last grant),
  `Unshared` (a refresh token has one place: an entry of the file, or one call that is
  about to store it) and `Usable`, hence `NoDoubleRefresh`, `TokensUsable` and, as an
  action property, `NoResurrection`.

`Serialized` is the refinement of `SerializedStore`, the contract of `modify` ("serialized
read-modify-write"): a call's one step there is its `Dump`, or its `Read` when the token is still
good. It needs one part more, `Prepared`: what a call is about to store is what its kind of call
may make of the entry in the file, a refresh a token of a later grant. The refinement says what
`NoResurrection` says, so no run checks that one.

`TypeCorrect` needs no lock. Each proof has one lemma per part of the invariant, one
step per action in it, and effect lemmas (`Grant`, `DumpEffect`, `DumpToken`) for the actions
that several parts depend on.

`TuiProofs`, first for `TuiTurns` and any number of turns, reports and threads; `Inv` is the conjunction of
`TypeOK`, `ActiveOK` (a turn has its user line exactly while it is active), `ThreadOK` (what a
thread has done by where it is and by what it waits for) and `ScreenOK` (the screen has every
report of the active turn but the one on its way, which is why an interrupted turn's report
cannot take its place):

- `OneBlockPerTurnHolds` and `KeepsPromiseHolds` rest on `LogSteps`: for the log, a step begins a
  turn, ends the active one, or does nothing. The second one is the refinement of
  `Conversation`, with `Statuses` for its log.
- `NoStaleReportsHolds` from `ScreenOK`; `BlockAgreesWithTraceHolds` from `VerdictStays` (a verdict is
  final) and `EndAgrees` (a turn that ends by itself has its verdict already).

Its second half is about `ProviderPicker` (which is why that module's `PickerSpec`, `PickerTypeOK`
and so on have names of their own), for any providers, models, loaders and logins. `PickerInv`
is the conjunction of

- `ModalsInv`: a modal on the screen is a `Modal`. Its steps come in the order provider, model,
  effort (`InOrder`, so that the step gone back to is the only one of its name and forgetting
  its choice forgets no other), its choices are those of all steps but the last, its index is a
  row of the last one; and a loader that still delivers finds a modal at its place;
- `ActiveInv`, `LoginInv`: the types of what is active, saved and known;
- `AwaitedInv`: the logins, with `VerifierOfProvider`.

There is one lemma per way to show a modal (`PushKeeps`, `GoBackKeeps`, `AgainKeeps`, `AdvanceKeeps`, all by
`ShowKeeps`) and per delivery; `IndexInRange` is why Enter finds a row. `PickerTypeCorrect`,
`ChoicesOnScreenHolds` and `VerifierOfProviderHolds` read their properties off `PickerInv`.

`MemoryProofs`, for any number of callers, records and texts:

- `TypeCorrect`.
- `ForgottenStaysGoneHolds`: `GoneInv` says that no call at work has a forgotten record in hand.
  It needs `Shape` (which of its variables a call uses at which step).
- `NothingLostHolds`: a compaction has its summary's row before it marks an original, and what the
  summary leaves out of it is in `cut` by then (`Work`); jobs run alone (`Solitude`), so the originals
  are what they were; every record a call has in hand has its text (`Born`).
- `IndexMirrorsHolds`: `MirrorInv` says at every moment, not only at rest, that a record on which
  index and rows differ is the one some call stands `Between`: row written, index not yet.
- `NoDuplicatesHolds`: `DistinctInv` adds what a call knows at each step (`Knows`): what its search
  returned is in use; if a record in use matches its text, one that matches is among what it
  has loaded or will load (`Ahead`); and when it is about to write, none matches.

`TraceProofs`, first for `TraceStore` and any number of turns and calls, any queue and any failures:

- `EventsInOrderHolds` and `VerdictIsCompleteHolds` from `RowInv`: what was sent is in the line to
  the worker, in the rows or rejected (`Placed`), the rows hold nothing that is still in the line
  (`Grounded`), and their numbers rise with the calls (`Counted`, `Ordered`). It needs that a turn's
  records stand in the line in the order of its calls (`LineInv`) and were sent without a
  gap (`SentInv`): so when the verdict is written, nothing of its turn is behind it.
- `FlushDurableHolds`: what flush promised stands ahead of the flush item, and is out of the
  line when the worker holds that item (`FlushInv`); a commit makes durable all that is written
  (`DurableInv`).
- `CloseIsOrderlyHolds`: what was recorded before close stands ahead of the pill (`PillInv`), and
  only a call between the look at `_closed` and its put can still send, one record (`LateInv`).

Its second half is about `TraceRender` (which is why that module's `RenderInit`, `RenderNext`,
`RenderSpec` and `EventKinds` have names of their own), for any attempts, rounds, tools and
deltas, and any place at which an interrupt cuts the turn. `RenderInv` is the conjunction of

- `Grammar`: what a turn's events look like. Context and end come once (`OnceInATurn`), calls
  have numbers of their own (`Numbered`), a call's done follows its start with only deltas
  between (`Begun`), the answer of a turn was told as text before its end (`Told`). Every part
  looks back from an event only, so what an interrupt leaves has it too (`Prefix`).
- `TurnInv`, while the turn runs: no number is later than the calls counted, the call that
  answers began, a text that is a reply was told.
- `ViewInv`, when the records before `at` are taken: every event is held back or on one line
  (`Kept`), lines are good (`LinesInv`), and (`SlotInv`) the start in a slot is the last event that is
  no delta. The code pairs a start with a done by kind and never looks at the call's number;
  `SlotInv` with `Begun` is why that pairs the events of one call.
- `Rendered`, of the lines that `format_trace` returns.

There is one lemma per action that emits, per kind of record the scan takes (`StartTaken`,
`DoneTaken`, `OwnLineTaken`, ...) and per line added after the loop; `OneMoreAt` says what a line added does to
where events are, `NeverDone` that a call laid out as failed never gets its done.
`EveryEventOnOneLineHolds`, `PairsBelongTogetherHolds` and `AnswerIsReadableHolds` read their properties off
`Rendered`.

`SessionProofs`, for any models, providers and lengths: `RequestsFitHolds` from `Kept` (the history
is what was said, in memory and in the dump) and `Requested` (a request is prepared from all of
it). Preparing a message changes nothing but the thinking of another provider's.
`UsageMatchesRepliesHolds` from `Counted`: the totals are those of the replies, in memory and in
the dump. Messages that no model wrote change no count (`NoReplyNoUsage`), a reply adds one.

`UserFilesProofs`, for any number of programs, providers, entries and any cap:
`NothingLostAloneHolds` rests on `Fresh` (what a process has read is still in the file, unless the
file was overlapped or a read of it failed), on `Launching` (nobody is past the seeding of a file that is not there, so
seeding alone overwrites nothing) and on `AppendedKeeps`, a lemma on the sequence that
`append_history` leaves: what the next reader makes of it, without the blank lines, ends as what was
typed ends, and is all of it or as long as the cap.
`LocalPickSurvivesHolds` from `PickInv`: a job has only such changes left to save as cannot be
taken for a local pick, or a pick whose provider's entry was saved before it (`Chores`), and a
launch starts from what the settings hold (`Launched`).

`StreamParseProofs`, for any set of messages the protocols allow; `Inv` is the conjunction of
`TypeOK` and

- `ParserInv`: blocks are met in the order of the message, each has collected what was sent of
  it, and no text follows a text that is not complete, so what a fragment adds to the answer it
  adds at its end;
- `QueueInv`: the two events that close the stream come once, at the end of the queue, and say
  how the parser ended. `NeverSilent`, the safety half of `StreamEnds`, is one of its parts;
- `ShownInv`: what the events on the queue and those the harness has show together is the answer
  the parser would give now; each begun tool is announced there.

`AnswerIsWhatWasShownHolds` is `ShownInv` when the queue has only the end left.
`StreamMatchesGenerateHolds` needs `WholeIsGenerated` (when every block is sent, the parser's
answer is that of `generate`), `HalfCallsAreRefusedHolds` needs `CallsAreMet` (the calls of the
answer are those of the tools met). The answer is joined with `FlattenSeq`, which is defined by
recursion; what it does to the sequences the parser builds (`FlattenConcat`, `FlattenUnits`,
`FlattenGrow`) is proved by induction, of the kind the provers can do: over the numbers in a set,
by the well-ordering of the naturals (`Least`, `UpTo`).

Only model-checked is liveness (`TurnEnds`, `RecordingReturns`, `PromptReturns`, `CallsEnd`, `StreamEnds`,
`LoadingEnds`), which needs fairness and ENABLED and is out of the prover's reach. Every invariant
and every other action property that a passing run checks is a theorem.

## 5 Where the code and its documents disagree

Shown by a violation run:

- `tui_tokens`: the session's tokens count a turn's usage twice.
- `picker_login`: picking a provider that needs a login switches to it at once, with
  the previous provider's model, and saves that.

Seen while modelling, without a run of their own:

- A 429 is not retried (`orchestrator.py:81` against `docs/prd/llm-visibility/PRD.md:42`): the bridge
  turns it into a class that `_is_transient_error` does not know, and the turn degrades at once.
- Nothing closes the trace store at shutdown (`tui.py:2795-2803` against `trace_store.py:64`); queued
  traces die with the daemon.
- An interrupt cancels nothing of the work in flight (`tui.py:2588` against
  `docs/prd/llm-visibility/PRD.md:48`): the thread runs on, and its trace ends completed or failed.
- `/effort`, and any choice of the name and model that the running provider says it has, saves
  `self.provider.name`, the wire's name, without a look at the profile (`tui.py:1252-1284`), where the
  comment above it (`tui.py:1252`) says the current provider: with a local one at work the settings
  then name `openai`, and the local pick is lost. A hosted provider's picked model is saved as
  `settings["model"]` and never read, and a provider known only through its login is saved and
  forgotten at the next launch.
- `config.yaml` beats the settings in `_get` (`config.py:283-288`), against `config.py:3-6`; its provider
  is ignored by `main`, which reads the settings again, so that a launch that overlaps a save
  may take the profile from one version and the name from the next.
- The history's entries are its lines: one of several lines comes back as several without the
  blank ones (`history.py:40`), and the file may hold more than the cap (`history.py:3-5`). A history that
  cannot be read counts as empty, and the entry that is then appended replaces it
  (`history.py:38-39`, against "a crash mid-write never corrupts it"); a model cache likewise
  (`settings.py:142-143`).
- "At most one fetcher call" (`providers/base.py:222`) does not hold after a failed one.
- "Raw `TurnStart` is still reachable via the global raw toggle" (`docs/prd/human-readable-traces/PRD.md:159`,
  D22): the toggle shows the raw data of the lines (`tui.py:769-772`), and `format_trace` gives `TurnStart`
  to no line. Nor does it a recall that fails or was cut, nor deltas without a character, against
  `trace_render.py:5`. `EveryEventOnOneLine` excepts the three.
- A turn that degrades after a round that had text never shows its fallback answer in the
  trace (`trace_render.py:176`); an answer block stands before its own `[llm]` line.
- An image inside a tool's result is not looked for in a handoff to a model without vision;
  a failed call leaves its input, so that the next sends two user messages in a row; thinking
  blocks name the provider `anthropic` whatever the session calls it, and redacted thinking
  keeps no data that could be sent back.
- `put` on a full queue blocks the turn, though the store is described as never
  blocking the hot path; `flush` answers True when the store is closed or its worker dead.
- A follow-up call of a local server fails, and before `run_turn`'s handler asks for the provider
  (`orchestrator.py:554`, then `:663`) the user replaces it by a remote one: the turn degrades after tools
  or shown text. `DegradedIsClean` excepts just this.
- A callback that raises on `TurnStart` (`orchestrator.py:594-603`) skips `start_trace`: the `Error` event is
  stored for a turn without a row, and `finish_trace`, an UPDATE, touches none (`trace_store.py:128-132`).
- A turn that degrades reports `tool_calls_made=0` even after a tool that was
  dispatched with an unserializable result.
- The status `interrupted` exists on screen and is never stored.
- The Anthropic stream drops redacted thinking, Google's merges text parts, and malformed
  arguments fail a stream but become `{}` in `generate`, against "the same
  GenerateResult"; no adapter ever yields `StreamError`.
- A truncated Anthropic stream is accepted with `{}` for the arguments that were cut.
- A late loader overwrites the options, or sets the error, of whichever step is current: after
  Esc from the model step the *provider* step may list models, and picking one
  raises. So does picking one of the nine offered providers without a profile.
- `/model`, `/effort` and `/login` use `provider.name`, which is the wire format's name
  (`openai`) for every OpenAI-compatible profile: with a local endpoint active they list,
  save and log in to OpenAI.
- `store.py:54` expects its callers to take turns, and names the terminal as one that does; but
  an interrupted turn's thread runs on. In `Memory` with `serial` FALSE two overlapping writes
  store one fact twice, and a recall that has read a record puts it back after `forget` said
  it was deleted.
- "SQLite remains the source of truth", yet nothing rebuilds the index: a row whose entry was
  missed (a crash between the two, a session without chromadb) is never found again while the
  index works, and its text can be stored again.
- "Dedupe via embedding similarity" (`memory/service.py:74`) does not keep one text from being stored
  twice: the embedder weighs words by what it has seen up to that moment (`embedder.py:73-103`), a
  text without words is a zero vector, and two of those have similarity 0 (`_math.py:21-22`).
- A compaction whose provider fails, or that has none, marks its originals superseded by the first
  200 characters of their texts (`worker.py:132-150`); the rest is found no more. `NothingLost` excepts what
  a stored summary leaves out.
- A compaction also takes records that are superseded already, and `write` refuses a duplicate of
  any scope.
- `_oauth_continue` survives a cancelled login; `_menu_accept` calls `_cmd_effort` with an
  argument it does not take; `_cmd_provider_switch` has no caller.

## 6 What is not modelled

- **The job queue's lists and statuses**: jobs are taken once, in any order; `TurnLoop` enqueues
  them and nothing in the terminal runs them.
- **Ranking**: every record a search returns is touched, which is the case of at most ten.
- **Configuration beyond the settings**: `config.yaml`, `OPENAI_MODEL` and its like, key names of a
  profile, Devin's wire format (`RICKSHAW_PROVIDER`, `*_BASE_URL` and the flags are `UserFiles`' overrides),
  migrations of old files, the ↑/↓ recall of the prompt. They are read once and race with nothing.
- **Data**: prompts, request bodies, tokens and price, stop reasons, embeddings and
  ranking, summaries, colours and layout.
- **Keybindings overlay, CLI, offline demo, table of built-in providers**: no state of their own.
- **The value of the effort**: all providers list all levels or none, so the effort
  step always offers all of them and the reset to medium never applies.
- **Time**: backoff and timeouts are events that may happen, not durations.
- **Damage from outside**: a credential file made unreadable; a system without `flock`.

## 7 Plan

Done: 1 `TurnLoop`, 2 `TraceStore`, 3 `TuiTurns` over `Conversation`, 4 `CredentialStore` over
`SerializedStore`, 5 `StreamParse`, 6 `ProviderPicker`, 7 `Memory` with the deferred worker's jobs, 8 `Session`,
9 `UserFiles`, 10 `TraceRender`; proofs for all of them, with the refinements of 3 and 4.

Next:

11. An abstract store of facts that `Memory` implements when access is serial and the index
    misses nothing.
12. The rest of the OAuth flows (device polling) and of the adapters (usage, stop reasons).
