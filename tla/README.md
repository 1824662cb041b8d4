# Verification of Sentinel-Alpha

Sentinel-Alpha takes one person through a simulated market, draws a behavioural
report from what they did there, trains and checks trading strategies that suit
that behaviour, and hands an approved strategy over to an execution mode. The
program is a FastAPI application (`api/app.py`) around one large service object
(`api/workflow_service.py`), with agents, a language-model runtime and a few
stores around it. Paths below are relative to `src/src/sentinel_alpha/` unless
they start with `src/`.

This directory holds TLA+ models of the parts of it that carry state, the TLC
configurations that check them, and TLAPS proofs about them.

| module | models | lines checked against |
| --- | --- | --- |
| `StrategyWorkflow` | one session: simulation, training rounds, checks, approval, deployment | `api/workflow_service.py`, handlers of `api/app.py` |
| `ReviewGate` | what the review of strategy versions promises (abstract) | implemented by `StrategyWorkflow` |
| `StrategyWorkflow_proofs` | theorems about the two modules above | |
| `SessionStore` | how a session outlives the process: temporary file, rename, Redis, lazy loads | `api/workflow_service.py` |
| `SessionStore_proofs` | theorems about the store | |
| `ProgrammerRuns` | a run of the programmer agent on a git repository: attempts, commits, validation, advice | `agents/programmer_agent.py` |
| `ProgrammerRuns_proofs` | theorems about the runs | |
| `IntegrationRuns` | the data source and trading terminal runs of a session: expand, update, delete, test, apply, health | `api/workflow_service.py`, the two agents |
| `IntegrationRuns_proofs` | theorems about these runs | |
| `DatasetPlan` | the arithmetic of the three dataset plans: splits and walk-forward windows | `api/workflow_service.py` |
| `TrainingData` | the data a training rests on: information runs, cached contexts, histories, backfill, evaluation | `api/workflow_service.py`, `infra/free_market_data.py`, `backtesting/`, `analysis/` |
| `MCTrainingData` | the instance of `TrainingData` TLC checks | |
| `TrainingData_proofs` | theorems about the two modules above | |
| `ModelCalls` | calls to language models by worker threads: keys, models, fallbacks, cache, usage, labels | `infra/llm_runtime.py`, `api/workflow_service.py` |
| `ModelCalls_proofs` | theorems about model calls | |
| `Configuration` | the settings file, its backups, the remembered settings, validation | `config.py`, `api/app.py`, `infra/config_validator.py` |
| `Configuration_proofs` | theorems about saves | |
| `Pages` | the NiceGUI page: its handlers, their chains of calls, the snapshot on display | `nicegui/app.py` |
| `Pages_proofs` | theorems about the page | |

`PROJECT.json` lists, for each definition, the lines it stands for; for each
property, a mutant of the code that breaks it; and the hazards the properties are
aimed at.

## Inventory

**Workflow session** (`WorkflowSession`, `WorkflowService`). State: phase,
behaviour events, simulation market and its cursor, behavioural report, tradeable
universe, strategy package of the last round, its checks, the report history,
training log, the strategy selected for trading, execution mode, training state
(two counters of events and a lifecycle stage). Operations: one per endpoint.
Hard: the endpoints are plain `def` functions, run on a thread pool, and no lock
guards a session; training runs through up to ten rounds, each of which updates
package, checks, log, archive and phase one after the other, with model calls
and backtests between, any of which may raise. Correct when the checks shown are
those of the package shown, the phase says no more than the checks do, each
version is archived exactly once, the selected strategy can always be resolved,
drift of behaviour is noticed, and no approval is given without a pass.

**Session store**. State: the sessions in memory, a JSON file per session, a
temporary file, a blob and an index in Redis. Operations: persist after each
change and each read, load at start, lazy load. Hard: crash between any two
steps, swallowed errors, two threads through one temporary file name, Redis away
at one start and back at the next. Correct when what a client was told of is
found again and the file always parses.

**HTTP API**. No state but the service and the settings file; each handler calls
the service, builds a snapshot (which logs the monitors' findings and persists)
and answers.

**Programmer agent**. State: a git working tree, index and history; the attempts
of the run in progress. Operations: run aider with models and keys in turn, look
at what changed, commit, validate, retry, summarise. Hard: what git reports
includes leftovers of earlier attempts and runs; commits precede validation;
failures of five kinds in any order feed five summaries computed from one
another. Correct when commits hold only what they may, the run ends, and the
advice is consistent and its rollback target right.

**Data source and trading terminal runs**. State: two lists of runs, their files,
API keys in memory. Operations: create, update, delete, apply, test, fetch. Hard:
run numbers made from list lengths, lists read before a model call and written
after it, results that arrive after their run was replaced. Correct when what is
shown with a run is of that run's code and a request touches the run it names.

**Training data**. State: the information runs of a session, the cache of their
payloads, the cache of iteration contexts, local history files, the response
cache of the providers, the cache of evaluations, the package in force.
Operations: search and fetch, a training request with its check of sections, its
dataset plan, backfill, evaluation. Hard: caches with no expiry and incomplete
keys; providers that fail between the planning and the evaluation of one round;
a plan that is replaced when the histories turn out shorter. Correct when every
package rests on real bars of a plan whose splits do not overlap, and a request
is refused for what is missing only while it is missing.

**LLM runtime** (`infra/llm_runtime.py`). State: a shared key cursor, a response
cache with a size limit, usage counters. Hard: shared by all threads with no
lock; nested retries over models and keys; a fallback takes many ways to
its label. Correct when what is labelled as a model's work is one's, what rules
write in strict mode says so and is neither code nor a behaviour report, and a
call is given up only after every key.

**Configuration**. State: `settings.toml`, its backups, the settings remembered by
the process. Operations: read, save, validate as a whole or one item, change or
delete one data provider, restart. Hard: a save replaces the file before it is
validated and may stop half way. Correct when every configuration the file has
held can be put back and an answer speaks of what was saved.

**User interface** (`nicegui/app.py`). State: the selected session, the snapshot on
display, the configuration editor, the groups of disabled buttons. Operations: some
forty handlers, each a chain of calls to the API with timeouts. Hard: handlers
interleave at each await and read the selected session afresh; a timed-out call
is served later. Correct when the page shows what is saved, a training is asked for only
of a prepared session, and no way out of a handler leaves its buttons disabled.

**Database-backed service, scenario generation and behavioural profiling, strategy
evolver, offline pipeline**: computation or unused under the API; the reasons
for leaving each out are in `PROJECT.json`, "components", and under "Not modelled".

Interactions: `app.py` calls the service; the service calls the agents, which
call the LLM runtime; the service persists sessions through the store; the
programmer agent is called by the service for a task, for a data source and for
a terminal. A training of the workflow uses the training data and, for its code
and its analyses, model calls; both are modules of their own that share no variable with
the workflow, which sees them as steps that end or raise. The page is a client of
the API that waits for one answer before it sends the next request of a handler.

## The workflow session: `StrategyWorkflow`, `ReviewGate`

Variables are the fields of `WorkflowSession` the properties tell apart, with
texts and records reduced to what later decisions read: a package is its
iteration number and the width of its universe, a check list is the version it
judged and whether any check failed. `request[c]` is the program counter of a
client's request in flight.

`iterate_strategy` is the actions `BeginIteration`, `Publish`, `RunChecks`,
`ArchiveRound`, `Train`, `RoundFails` and `FinishIteration`; `complete_simulation`
is `CompleteSimulation`, `SettleSimulation` and `SettleFails`; every other handler
that changes this state is one action of `Call`. Steps are cut where the code
calls out of the process (a model, a backtest, a provider), because that is where
another handler gets in and where an exception comes from. Two threads may also
be switched within such a step; runs with two clients therefore show
interleavings that do happen, and do not claim to show all of them. Approvals,
selections and deployments are guarded as in the code and by nothing else.
Handlers that only append records of other kinds (trades, intelligence,
feedback) are `RecordActivity`: they recompute the lifecycle stage.

`ReviewGate` says what the user is promised in four actions: build, review once,
approve on a pass, withdraw. `StrategyWorkflow` implements it, with the version
read off the package and the verdict off the checks.

Run `workflow` (about 890 000 states): one client, up to 2 behaviour events, 2
bars, 3 versions, 2 rounds a request, drift limit 2 (5 in the code), last
compatible version 2 (6 in the code). Three versions make a request of two
rounds, a failed one and another request fit in any order, and put versions on both
sides of the compatibility limit; two events reach the drift limit from
an anchor of 0 and fall short of it from one of 1. It checks the type, five
state properties, that requests end, that a selection is kept, and the refinement.

What two documents promise the code does not keep. In run
`approval` a second client approves a package between its publication and its
checks. And `ReworkNeedsNewVersion` is violated with one client, on the instance of run
`workflow`: a round that raises after its version
passed demands a rework, and the old version is approved, because the approval
looks at the checks and not at the phase. The refinement of `ReviewGate` does not
show that, as the version approved did pass. That a
deployment is accepted in any phase (`src/docs/agent-state-machine.md:85` asks for
passed checks) needs no run: `set_deployment` has no guard.

Fairness: weak, on the steps of a request in flight. A handler runs to its end:
model calls have a 60 s timeout (`infra/llm_runtime.py:931`), providers have
theirs, an exception ends it, and the loops are bounded. Nothing obliges a client
to send a request.

### What is proved

For every set of clients and all bounds: `TypeCorrect` (the type invariant) and
`CountersBehindEvents` (the training counters never pass the events).

For a session used by one client at a time and all bounds: `SessionStaysCoherent`
and, from it, `ChecksMatchPackage`, `PhaseMatchesChecks`,
`ArchiveTellsEveryVersion`, `ActiveStaysArchived`, `DriftStaysFlagged`,
`SelectionStays`, and `StepsRefineReviewGate`, the safety part of the refinement.
A client meets the assumption that sends a request when the one before is
answered. The pages do so until a call of theirs times out after 120 seconds:
the server goes on with it, and the next request may overlap it, as may those of a
second page or of a script. Run `approval` shows that the properties fail
without the assumption.

None of these properties is inductive as it stands, since all speak of a session
at rest. The inductive invariant `SessionInvariant` says of each point of a
request in flight how far package, checks and archive are apart: from its
publication to its checks a package is one ahead of its checks, until it is
archived it is one ahead of the archive, and from the archiving on the request's
verdict is that of the checks (`OnTrack`, `Archived`). `Vouched` and `Flagged` are the phase
and drift properties with the points of a request at which they are
suspended. The proof goes action by action, in three lemmas for the simulation,
the training and the other handlers. It rests on `WorkflowAssumption` only: there
is a client, and the bounds are numbers.

For every set of clients again: `RequestsComeNearer`, which states `RequestsGetNearer`. `StepsLeft` bounds the steps a request
has left, four to a round; every step of the request lowers it, whatever the others do. It
needs an invariant of its own (`RoundsLeft`): a request between the rounds has one left.
With the fairness above this is why a request ends.

Only model-checked: `RequestsEnd` and the liveness of the refinement, as TLAPS
proves nothing under fairness.

## The session store: `SessionStore`

A session is the number of the last change it contains. A persist is the steps
`Serialize`, `OpenTmp`, `WriteTmp`, `ReplaceFile`, `CacheBlob`, `AddToIndex`; each
may raise (`SwallowError`), as `_persist_session` swallows every error. Files are
inodes: a writer goes on writing to the inode it opened, so two threads that use
one temporary name mix their texts or rename each other's. `Crash` is the end of
the process; what it wrote stays, as the operating system keeps it (a power
failure is not modelled). `Start` loads the blobs of the index or, without Redis,
the files; `LazyLoad` looks for the blob of one session, then for its file. `Read` persists too, since a
snapshot logs the monitors' activity.

Run `session_store` (about 200 000 states): one worker thread, four changes, calls
that raise, Redis configured or not and reachable whenever a process starts.
Four changes let one be written to the file only, one to both, one be lost in a
crash and one follow a restart. It shows that what was persisted before its answer is
found after every restart (`SavedSurvives`), the file always parses, a process
serves nothing older than what was saved, and every request is answered.

`SavedSurvives` needs both restrictions: TLC finds it violated without either. With
`StartsAlone = TRUE` and Redis configured a process
starts while Redis is away, and the old blob then wins at the next start over the
newer file; with two threads (three changes) one truncates the temporary file the other
renames, and an acknowledged change misses the session file.
Both contradict the comment at `api/workflow_service.py:484`.

Fairness: weak, on each thread's steps while the process is up; file and Redis
calls return or raise.

Proved: the types for any number of threads (`StoreIsTyped`), and for one thread
and a process that does not start while its Redis is away, `SavedIsNeverLost`,
`FileStaysWhole` and `NothingStaleIsServed`, for any number of changes. The
inductive invariant says that neither store is behind what was saved nor ahead of what
was changed, that Redis holds a blob only if it is configured, and how far a persist
has come (`Persisting`): the temporary file is not the session file and holds the
text from its writing to its renaming, the session file from then on, Redis from
the next step on.

## The programmer agent: `ProgrammerRuns`

The repository is the set of files that differ from the index, the set that
differ from HEAD, the tracked files, and the number of commits. One attempt is
`Prepare`, `CallAider` (once per model and key), `Inspect`, `Commit` or
`CommitFails`, `Validate`; then `Succeed`, `GiveUp`, `Exhaust` or `Retry`. aider is
external: each call may leave any set of files changed and may fail; a validator
verdict is any of three failure types, or a pass, with a detail that may move.
`Garbled` models what `_changed_files` does to a line of git status: a tracked
file changed in the tree only loses the first letter of its name.
The summaries (`Acceptance`, `Rollback`, `Promotion`, `Stability`, `Decision`) are
the decision tables of the code. A deleted file counts as an edited one, unless it
was new; new directories, which git reports by their name, and ignored files are
left out; runs follow one another. aider is taken not to commit by itself.

Run `programmer` (about 500 000 states): two targets, any of which may be new, a
protected file, two runs of up to three attempts (the default of the code), two
calls of aider in each. Two runs let the second find what the first left in the
index; three attempts let a chain improve, regress or stall. Protected files
stand for all files outside the targets in this run, being refused with isolation
or without it. It shows that a commit never holds anything but the targets of its
run, the advice does not contradict itself, the rollback target undoes the last
commit and nothing from before the run, and every run ends.

Run `scope_errors`: a run that changed its own target only is refused for having
modified files outside its targets (a bug in `_changed_files`).

Fairness: weak, on the steps of a run. aider has a timeout; git and the
validator's tests have none and are assumed to end.

Proved, for any sets of files and any numbers of runs, attempts and calls:
`AttemptsAreBounded` (types, and no run takes more attempts than it has),
`CommitsAreInScope`, `AnchorsStayInRuns` and `SummariesAreConsistent`. They
follow from `RunInvariant`, which adds what a run in progress knows: what is about
to be committed has been looked at (`LookedAt`), its anchor is HEAD until it
commits, and its commit, if any, lies behind the anchor (`Anchored`), and it has an
attempt left, and while aider is called a call (`Counted`). `RunsComeNearer` counts
the steps a run has left, one for each call of aider in each attempt and the rest of the
attempt besides (`StepsLeft`): every step of a run uses one up. The scope of commits holds although a garbled name is never
recognised as protected: what the code commits besides the targets is what was
staged, and a garbled file is not.

## Data source and terminal runs: `IntegrationRuns`

A run is a Python dictionary that lists and requests refer to, so the model has a
heap, `objs`, of the dictionaries built, and `runs`, `threads[t].run` and
`threads[t].new` are indices into it. A dictionary carries the code it was built
with for good; the index names that code, and a result (`test`, `apply`) says of
which code it is. The lists of the two families share nothing, so a behaviour
follows one of them, `family`. Steps are cut at the calls out of the process (model, provider, aider, file)
and at each read or write of a list or a dictionary another thread may change:
`Build`, `StoreNew`, `Locate` and `Replace` are the rest of expand and update,
`Rebind` of delete, `TestSource`, `TestRaises` and `TestTerminal` of test,
`StoreApply` of apply, and `ComputeRuntime`, `StoreRuntime`, `StoreReliability`
are the two summaries of a terminal. `RequestFails` is a registry file that cannot be written, or
an apply in which the programmer agent raises. A test also checks the configuration of the adapter,
which is never found invalid: the builder of the package fills in all that is looked for.
`list.index` compares by value; two dictionaries differ at least in their time
stamps, so the model compares by identity. What documentation leads to is one of
three kinds of adapter for a data source (market data, another category, code
that does not run) and five for a terminal (complete, undocumented, with a gap in
the optional or the required capabilities, without base URL). The two summaries
are the decision tables of the code, with `contract_confidence` reduced to the
three ranges they compare it with. The generated code of a terminal is always
complete and so never fails to run. A restart keeps the lists and loses the
remembered keys and the requests; how much of the lists it keeps is
the subject of `SessionStore`.

Run `integration` (about 48 000 states): two threads and three requests, no key
in the environment. Three requests are an expansion and two others on its run, or
two expansions and a deletion, in every interleaving; the same run with
four requests passes too (1 750 000 states, five minutes). It shows that the
results shown with a run are of the code it carries, that a terminal reported healthy is complete
and passed its test, that data sources reported sound together are all tested,
and that every request ends. With one thread and five requests TLC finds
`DeletesOnlyTheNamedRun` violated: after a deletion a
new run takes the number of one that is still there, and deleting either removes both.

Fairness: weak, on the steps of each request. Models and providers are called
with timeouts; an apply ends as `ProgrammerRuns` shows.

Proved, for any number of threads and requests: `RunsAreTyped`,
`ResultsAreOfTheRun`, `HealthyMeansPassed` and `SoundMeansTested`, from the
inductive `IntegrationInvariant` (`RunsStayDescribed`). None of the four is
inductive: a request writes to a dictionary it located earlier, which may have
left the list since, and computes a summary one step before it stores it. The
invariant therefore speaks of every dictionary ever built, listed or not
(`ObjectSound`): its results are of its own code, and a summary that calls it
healthy means that it passed. `SummarySound` says so of a summary that is on its way
to be stored, `Holds` that what a request refers to exists, `Lists` that the list in place and every list
a deletion is about to put in its place hold runs that exist, each once, `Fresh` and `Numbered`
that a dictionary just built is in no list and a number is left for every
expansion. What a deletion leaves of a list (`Without`) is a recursive
function; that it keeps members of the list only and each once is proved by least
counterexample (`NatLessThanWellFounded` and `WFMin` of the library), since the
induction theorems themselves cannot be instantiated.

## Training data: `DatasetPlan`, `TrainingData`

`DatasetPlan` is arithmetic on day numbers, as the code has it: the lengths of the
held-out splits, the splits, the walk-forward windows, for a window the user
chose (`WindowPlan`), a recent listing (`RecentPlan`) and no window at all
(`DefaultPlan`). `SoundPlan` is the reference: the splits follow one another, no
walk-forward window is trained on what it is evaluated on or on anything later, and
the test split is used by none.

`TrainingData` is one session. What an information run found is "full", "bare" or
an error, and of a section only the latest counts. A history is the period of its
bars and whether its timestamps are dates. `Fetch` is a search or fetch of a
section, with the cache of payloads; `AddSource` is a generated source that becomes
ready. A training request is `Begin` (feedback, the cached context, the check of
the sections), then for each round `Collect` (read the histories, take or replace
the plan, ask for a backfill or refuse), `Backfilled`, and `Train` (evaluate over the
shorter lookback, refuse surrogate metrics, make the package). Every reading of a
history goes through `Serving`: the providers in order, each of which may answer
nothing, fail, or hold back to its last 140 days, and whose answers, empty and
rate-limited ones included, the response cache keeps for good.

A backtest counts as one of real bars only with 20 of them for each symbol and two in
each split, five in seven days being trading days. A backfill writes one file after the
other and clears the response cache after each. The variants of a round are evaluated
before the baseline, through the response cache; an evaluation kept from before may be used
or have been evicted.

Run `training_data` (63 000 states, over two minutes): two symbols, a remote provider and the local files, one of
which holds the last months only, a window of a year, a window that is too
short and none, two rounds in all. Two rounds let a second one meet the caches and files the first left
behind. It shows that every package rests on real bars of the plan it was
checked with (`PackagesRestOnRealHistory`), that its plan is sound
(`SplitsAreSound`) and that every request is answered (`TrainingEnds`). Run
`supplied_data`: a request refused for a section is refused again after the
section was supplied, since the cached context does not depend on it.

Fairness: weak, on the steps of the request in progress; providers have timeouts
and backfills are tried twice at most.

Bounds and omissions: all of this happens on one day (`Today`); `MaxRounds` bounds
the rounds of all requests together; the response cache holds what the providers answered for
all symbols (the code keeps 128 answers).

Proved, for any symbols, files, windows, providers and bounds: `PackagesAreReal`
and `PackagesAreSplitSoundly`, from the inductive `DataInvariant` (`DataStaysSound`):
histories stay histories, plans in a request are sound and covered by what was
collected, and an evaluation that is labelled real has dated bars in each split of
its own plan. `RoundsStayAsked` gives the types: a cache never exceeds its
size, and the packages made and the rounds left are together never more than the rounds
asked for (`RoundsAreAsked`), which the type invariant alone does not let one show.
`TrainingsComeNearer`: every step of a request, backfills included, uses up one of a number of steps
(`StepsLeft`) that its rounds allow; `RoundsAreAsked` says for it that a backfill is waited for
only once a round has asked for one.
Below these are three theorems on the arithmetic, for every window:
`WindowPlanIsSound`, `RecentPlanIsSound` and `DefaultPlanIsSound`. The first two
also show that a refusal in the code is never reached: a window that is long enough to be accepted
always leaves enough training days (`WindowPossible`, `RecentPossible`).

## Model calls: `ModelCalls`

A text is who wrote it and whether it parses. `thread[t].at` is the place of a
worker thread in `invoke_text_task` and the handler around it: `Begin` (with the
cache looked up), `Invoke`, the answers `Answered`, `Failed` and `RateLimited`, the
rotation of the key (`Rotate`, `Exhausted`), the usage counters in two steps
(`ReadCount`, `WriteCount`, which two threads may do at once), `Store` into the
cache, and one `Use...` for each kind of handler: code with its reviewer, news,
analyses, specifications, and behaviour, which asks once more when it cannot read
the answer. Steps are cut at the calls to the model and wherever the code reads and
then writes something the threads share. The settings and the environment are fixed at the start.

Run `model_calls` (5.8 million states, over two minutes; the threads are
symmetric): two threads, two jobs of any kind, two models, up to two keys, a
cache of one entry. Two jobs let two threads rotate one cursor, or one serve the
other from the cache; one entry makes the cache evict. It shows that what is
labelled as a model's work was written by a model and read by the handler
(`ProvenanceIsKept`), that in strict mode no code and no behaviour report is written by rules,
what rules do write says so, and no fallback text is cached
(`StrictFallbacksAreTold`), and that a call no other thread disturbed gives up only after
every model was tried with every key (`AloneTriesEveryKey`).

The configuration check tells the user of strict mode that fallbacks are forbidden
(`infra/config_validator.py:146`). With one thread in strict mode TLC finds that violated
(`StrictForbidsFallbacks`): the analysis of a documentation that no model
answered is nevertheless one of rules; so are news, histories and specifications that a
model answered unreadably. With another thread on
the cursor a call may ask with one key twice and with another never; no document
promises otherwise.

Proved, for any number of threads, keys and models: `LabelsAreTrue` and
`StrictModeTellsFallbacks`, whose inductive invariant (`TruthInvariant`) follows a text from its author
through the thread's fields and the cache to the label; `CallsAreTyped` and
`UndisturbedCallsTryEveryKey`, whose inductive invariant is `CallsInvariant`. The
latter says what an undisturbed call has tried so far: every key at each model before its
own, and at its own the keys that come before its key in the order of the rotation, as many as it
made attempts (`TriedBefore`, `Before`); after as many attempts as there are keys that is all of
them, and the cursor is back where the model started. The type of the cache needs
a count of the threads that have added an entry and have still to trim (`Trimming`): two of
them may both have grown it before either shrinks it.

Prompts, traces and token counts are left out.

## Configuration: `Configuration`

A configuration is whether it can be rendered, parsed and loaded (`kind`), what the
checks of its other sections find (`rest`), and one family of data providers with
what the check of each finds (`finds`: a bad base URL, a missing path). A
save is `Backup`, `Open` (which truncates the file), `Write`, `Clear`, `Load`,
`Remember`, each of which may fail or be the last before `Crash`; `UpdateProvider` and
`DeleteProvider` read the file first. A process that cannot load its file does not
start until somebody puts a backup in place (`PutBackupInPlace`, who is assumed
to keep the file that was there).

Run `configuration` (1.4 million states; the providers are symmetric): one request at a
time, two providers, two configurations sent, crashes anywhere. Two let one be saved
over one that was saved over the first. It shows that every configuration
the file has held is in the file or in a backup (`OldVersionsAreBackedUp`), and that a save is
answered with the validation of what it saved (`AnswersDescribeTheSaved`). Both
are proved for any number of providers and configurations (`ConfigurationsSurvive`, `AnswersAreOfTheSaved`), under
`OneAtATime`: nothing is locked, and with two requests at once one update may be
lost, and the file may be truncated by one while the other copies it to its backup.
Without that assumption `SettingsLoad` is proved: whatever requests do at a time, the file
and the backups hold configurations, none that cannot be rendered is ever written, and
the process remembers the settings of one that loads. Its invariant, `TypesInvariant`,
says what a request holds before it writes and before it remembers.

## The page: `Pages`

A handler is the list of calls it has still to make (`Program`, `Remaining`), the
snapshot it works with and the call it is waiting for. Handlers run on one event
loop, so that everything between two awaits is one action (`Resume`, `Recover`,
`GiveUp`); the server's part of a call is another (`Answer`, `Refuse`), and a call that
times out after 120 seconds stays with the server (`TimeOut`, `ServeLate`). Every next call goes to the
session selected at that moment, as the code reads `state.session_id` afresh. The
server is what the page can tell of it: what a session lacks for a training.

Run `pages` (about 500 000 states, two minutes): any two handlers at a time and in all, on a page just
opened or one settled on an old session; one fault (three defaults to prepare are
one, eight symbols are one). Two handlers are what it takes for one to select a session under the other; one fault
is one call that is refused, fails with or without its change, or comes late. It
shows that after a handler that ran alone and succeeded the page shows what is saved
(`ShownIsSaved`), that a training is asked for only of a session that is prepared
(`TrainingIsPrepared`), that no button stays disabled (`ButtonsAreHeld`), and that every
handler ends. Run `page_create`: creating a session always ends in an error, since the
automatic profile never starts the simulation market that the server requires
(`api/workflow_service.py:1241`).

Fairness: a call ends within its timeout, and the event loop resumes the handlers.

Proved, for any number of sessions, handlers at a time and in all, and faults:
`PagesAreTyped`, `ButtonsComeBack`, `TrainingsArePrepared` and
`PagesShowWhatIsSaved`, from the inductive `PagesInvariant` (`PagesStaySound`).
It says, of each handler in flight,

- which lists of calls it may have left (`Left`, `Working`): a handler's list is one of its
  programs, or what remains of one;
- that what its earlier answers and the snapshot show to be there still is (`Seen`,
  `Below`): a universe or a report is never taken away, so a stale look is still a
  lower bound, which is why a training may leave out a call on the word of an old snapshot;
- how far a training that nobody disturbed has come (`Prepared`): past its first call
  there is a universe, past the simulation a report;
- and that a handler which runs alone has the last word (`Alone`): no late call is
  outstanding, its answer is what the server holds, and the page shows it before the
  last look at the health of the server. `Settled` says what is then true of the page.

A handler may fail at any of these lists, so the proof goes action by action and, where
a handler goes on, by handler.

`HandlersComeNearer`: a handler's calls, a profile counted with its events, and two failed tries
bound the steps it has left (`StepsLeft`), and each of its steps uses one up. What
remains of a list costs less than the list (`OnwardCosts`, `SkippingCosts`), since no list
asks for a profile twice (`Once`), and no handler counts more than two failures (`Few`).

What the model shows but no document speaks of: the programmer's button is in no
group, so that it enables the strategy buttons again while a training runs; the
handlers of universe, approval and providers disable nothing; a search without
symbols, or whose enrichment fails, is not displayed; saving a provider leaves the
editor as it was before; the answer for one session is displayed although another has been
selected meanwhile.

## Findings

| run | the code | the document |
| --- | --- | --- |
| `approval` | an unchecked package is approved on its predecessor's checks | `src/docs/api-spec.md:106` |
| `scope_errors` | a target is reported as outside the targets | `agents/programmer_agent.py:416` |
| `supplied_data` | a request is refused for data that has been supplied since | `api/workflow_service.py:2999` |
| `page_create` | a session created from the page is never prepared | `src/docs/ui-page-function-report.md:36` |

Further disagreements met while modelling. Each is stated as a definition in its
module that TLC finds violated by the code; no run repeats them.

| definition | the code | the document |
| --- | --- | --- |
| `StrategyWorkflow!ReworkNeedsNewVersion` | a demanded rework is answered by approving the old version | `src/docs/agent-state-machine.md:81` |
| `SessionStore!SavedSurvives`, two threads | they persist through one temporary file, and an acknowledged change is lost | comment at `api/workflow_service.py:484` |
| `SessionStore!SavedSurvives`, `StartsAlone` | what was saved while Redis was away is replaced by the older blob | comment at `api/workflow_service.py:484` |
| `ProgrammerRuns!RollbackReachesBaseline` | the anchor is that of the last attempt | `agents/programmer_agent.py:707` |
| `IntegrationRuns!ReadySourcesCanBeTested` | the test of a ready run outside the market data category is refused | `src/docs/ui-page-api-mapping.md:214` |
| `IntegrationRuns!DeletesOnlyTheNamedRun` | two runs share a number, and one deletion removes both | `src/docs/ui-page-api-mapping.md:222` |
| `ModelCalls!StrictForbidsFallbacks` | rules analyse a documentation in strict mode | `infra/config_validator.py:146` |
| `ModelCalls!CompletedMeansLive` | a template in place of a blank answer is labelled as a model's | `src/docs/no-fabrication.md:17` |
| `ModelCalls!SwitchAdvised` | fallbacks are counted under the mode of the first call, so that the advice to change the model may be missing | `src/docs/ui-page-function-report.md:185` |
| `TrainingData!LocalHistorySuffices` | a provider before the local files may deny a training the files are enough for | `src/docs/strategy-training-page-data-mapping.md:87` |

## What is proved and what is not

| module | theorems about properties of the runs |
| --- | --- |
| `StrategyWorkflow_proofs` | `TypeOK`, the five state properties, `SelectionIsKept`, the safety part of the refinement |
| `SessionStore_proofs` | `TypeOK`, `SavedSurvives`, `FileIsWhole`, `ServesSaved` |
| `ProgrammerRuns_proofs` | `TypeOK`, `SummariesAgree`, `AnchorStaysInRun`, `CommitsStayInScope` |
| `IntegrationRuns_proofs` | `TypeOK`, `ResultsDescribeTheRun`, `HealthyTerminalsPassed`, `SoundSourcesAreTested` |
| `TrainingData_proofs` | `TypeOK`, `PackagesRestOnRealHistory`, `SplitsAreSound` |
| `ModelCalls_proofs` | `TypeOK`, `ProvenanceIsKept`, `StrictFallbacksAreTold`, `AloneTriesEveryKey` |
| `Configuration_proofs` | `TypeOK`, `OldVersionsAreBackedUp`, `AnswersDescribeTheSaved` |
| `Pages_proofs` | `TypeOK`, `ButtonsAreHeld`, `TrainingIsPrepared`, `ShownIsSaved` |

Every safety property of the passing runs is stated by a
theorem, for every value of the constants that the named assumptions of its module
allow; those that need a restriction say so in their statement (one client, one thread,
one request at a time). Of the refinement of `ReviewGate` it is the safety part.

Only model-checked, as out of the prover's reach: what is stated under fairness (`RequestsEnd`,
`RequestsAnswered`, `RunsEnd`, `TrainingEnds`, `HandlersEnd`, the liveness of
`ReviewGate`). Where a request loops - rounds, attempts, models and keys, backfills, tries -
the part of it that needs no fairness is proved: each of its steps lowers a number that bounds
its steps (`RequestsGetNearer`, `RunsGetNearer`, `TrainingGetsNearer`, `HandlersGetNearer`,
which TLC finds true on the same instances; the runs list the liveness properties, of which
they are half). What TLC adds is that the next step can be, and under fairness is,
taken. A request of the session store and of the integration runs has no loop. The properties of the runs that expect a violation are false of the code;
`SavedSurvives` is so where its theorem's restrictions are not met.
What recursive functions compute is proved where a theorem needs it, by least counterexample over
the numbers: there is no `RECURSIVE` operator in any module.

## Not modelled

- The database-backed service: its overrides do not take the arguments the API
  passes, so all there is to say of it under the API is that it raises.
- Scenario generation, profiling, the strategy evolver, the metrics of backtests:
  formulas over floating-point numbers and texts. The models keep that a result
  exists and what it rests on.
- The offline pipeline and adapters: a sequential demonstration and thin wrappers.
- `webapp/server.py`: redirects the old address.
- The parsing of provider payloads, prompts and model texts: only what they lead to is kept.
- The merge of feedback into the profile: arithmetic; only that it changes is kept.
- The activity log, of whose numbering the code promises nothing.

## Plan

Done, in this order: `StrategyWorkflow` with `ReviewGate`, `SessionStore`,
`ProgrammerRuns`, `IntegrationRuns`, `ModelCalls`, `Configuration`, `TrainingData` with
`DatasetPlan`, `Pages`, and the proofs about each of them. What could follow:

1. The composition of `ProgrammerRuns` with `IntegrationRuns` (apply calls the
   agent) and of two runs that share a working tree.
2. The quotes of the market data providers, and the handlers of the API for
   scenarios.
