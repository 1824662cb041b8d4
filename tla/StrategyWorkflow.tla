-------------------------- MODULE StrategyWorkflow --------------------------
(***************************************************************************)
(* One workflow session of Sentinel-Alpha, as WorkflowService (api/        *)
(* workflow_service.py) keeps it: the simulation market and the behaviour  *)
(* events recorded against it, the behavioural report drawn from them, the *)
(* tradeable universe, the strategy package of the latest training round   *)
(* with the checks made of it, the archive of earlier rounds, the version  *)
(* selected for trading, the approval and the deployment.                  *)
(*                                                                         *)
(* The HTTP handlers are plain functions run on a thread pool, with no     *)
(* lock around the session.  Training and completing a simulation call     *)
(* language models and backtests in the middle of their updates, so they   *)
(* are sequences of steps of a request in flight; every other handler      *)
(* changes the session in one step.  A client waits for its answer before  *)
(* it sends another request; several clients overlap freely.               *)
(*                                                                         *)
(* Left out: the text of reports, prompts and history entries, the market  *)
(* and intelligence records themselves, and the session file (modelled in  *)
(* SessionStore).                                                          *)
(***************************************************************************)
EXTENDS Integers, Sequences

CONSTANTS Clients,        \* the callers of the API: browser pages, scripts
          MaxEvents,      \* bound: behaviour events recorded
          MaxBars,        \* bound: intraday bars a market provider returns
          MaxVersion,     \* bound: strategy versions built
          MaxRounds,      \* auto_iterations accepted in a request (10 in the code)
          DriftLimit,     \* new events after training that call for a retrain (5)
          MaxCompatible   \* last version whose compatibility passes the stress check (6)

ASSUME WorkflowAssumption ==
    /\ Clients # {}
    /\ MaxEvents \in Nat
    /\ MaxBars \in Nat \ {0}
    /\ MaxVersion \in Nat
    /\ MaxRounds \in Nat \ {0}
    /\ DriftLimit \in Nat \ {0}
    /\ MaxCompatible \in Nat

VARIABLES
    phase,      \* session.phase
    events,     \* len(session.behavior_events)
    market,     \* session.simulation_market: its cursor and its last bar
    report,     \* whether session.behavioral_report is set
    universe,   \* session.trade_universe, by its size
    package,    \* session.strategy_package: iteration number and universe width
    checks,     \* session.strategy_checks: the version they judge, any failure
    archive,    \* the strategy_iteration entries of session.report_history
    lastLog,    \* status of session.strategy_training_log[-1]
    active,     \* session.active_trading_strategy
    mode,       \* session.execution_mode
    training,   \* session.simulation_training_state
    request     \* request[c]: what c's request in flight has still to do

vars == <<phase, events, market, report, universe, package, checks, archive,
          lastLog, active, mode, training, request>>

sessionVars == <<phase, events, market, report, universe, package, checks,
                 archive, lastLog, active, mode, training>>

-----------------------------------------------------------------------------
(* Values *)

Phases == {"created", "simulation_in_progress", "simulation_market_ready",
           "profiler_ready", "preferences_ready", "universe_ready",
           "strategy_checked", "strategy_rework_required", "strategy_approved",
           "autonomous_active", "advice_only_active"}

Stages == {"collecting_baseline", "baseline_ready", "retrain_recommended",
           "monitoring_after_training"}

\* "wide": at least five instruments, the least the stress check accepts.
Universes == {"unset", "wide", "narrow"}

\* iteration_no 0 stands for "no package yet".
Package == [no : Nat, universe : Universes]
NoPackage == [no |-> 0, universe |-> "unset"]

\* of = 0 stands for the empty check list of a new session.
CheckList == [of : Nat, failed : BOOLEAN]
NoChecks == [of |-> 0, failed |-> FALSE]

Reference == [source : {"none", "current", "archive"}, no : Nat]
NoStrategy == [source |-> "none", no |-> 0]

\* cursor -1 stands for "no simulation market".
Market == [cursor : Int, last : Nat]
NoMarket == [cursor |-> -1, last |-> 0]

Training == [baseline : Nat, anchor : Nat, stage : Stages]

Steps == {"idle", "settle", "evaluate", "check", "archive", "train", "finish"}

Request == [at : Steps, rounds : Nat, free : BOOLEAN, universe : Universes,
            no : Nat, failed : BOOLEAN, retrain : BOOLEAN]

NoRequest == [at |-> "idle", rounds |-> 0, free |-> FALSE, universe |-> "unset",
              no |-> 0, failed |-> FALSE, retrain |-> FALSE]

\* A strategy_iteration report: the package it shows, the checks it shows.
Report == [no : Nat, checksOf : Nat, failed : BOOLEAN]

Idle(c) == request[c].at = "idle"
At(c, step) == request[c].at = step

\* No handler is half way through its updates.
Quiescent == \A c \in Clients : Idle(c)

-----------------------------------------------------------------------------
(* Helpers of the handlers *)

\* The lifecycle stage a refresh may compute.  Several reasons besides the event
\* count (manual trades, repeated searches) can call for a retrain at any time.
StageFits(stage, anchor) ==
    \/ stage = "collecting_baseline" /\ ~report'
    \/ stage = "baseline_ready" /\ report' /\ package' = NoPackage
    \/ /\ stage = "retrain_recommended"
       /\ report' /\ package' # NoPackage
    \/ /\ stage = "monitoring_after_training"
       /\ report' /\ package' # NoPackage
       /\ events' < anchor + DriftLimit

\* _refresh_simulation_training_state, from the counters it is given.
RefreshTraining(baseline, anchor) ==
    \E stage \in Stages :
        /\ StageFits(stage, anchor)
        /\ training' = [baseline |-> IF report' /\ events' > baseline
                                     THEN events' ELSE baseline,
                        anchor |-> anchor,
                        stage |-> stage]

\* The versions a strategy reference can name: the package, and each archived one.
References ==
    {[source |-> "current", no |-> n] : n \in {package.no} \ {0}}
        \cup {[source |-> "archive", no |-> archive[i].no] : i \in DOMAIN archive}

\* Mutant: the newest package is always selected.
EnsureNewest ==
    active' = IF package = NoPackage THEN active
              ELSE [source |-> "current", no |-> package.no]

\* _ensure_active_trading_strategy: keep a reference that still resolves, or
\* fall back to the first entry, the current package.
EnsureActive ==
    active' = IF active \in References \/ package = NoPackage
              THEN active
              ELSE [source |-> "current", no |-> package.no]

Outcomes == {"pass", "warning", "fail"}

\* StrategyIntegrityCheckerAgent.evaluate: it fails on terms it finds in the
\* generated strategy, which the model does not look into.
IntegrityOutcomes == Outcomes

\* StrategyStressCheckerAgent.evaluate: whatever the backtests say, a narrow
\* universe or a late version (its compatibility falls with each) fails.
StressOutcomes(pkg) ==
    {s \in Outcomes :
        pkg.universe # "wide" \/ pkg.no > MaxCompatible => s = "fail"}

\* _run_strategy_checks of the package the session holds.
Verdicts(pkg) ==
    {v \in [of : {pkg.no}, failed : BOOLEAN] :
        \E i \in IntegrityOutcomes, s \in StressOutcomes(pkg) :
            v.failed <=> "fail" \in {i, s}}

\* Mutant: any checks will do.
AnyChecks == checks # NoChecks

\* RiskGuardianAgent.approve, and the handler's own demand for some checks.
Approvable == checks # NoChecks /\ ~checks.failed

\* PortfolioManagerAgent.set_execution_mode.
DeployedPhase == [autonomous |-> "autonomous_active",
                  advice_only |-> "advice_only_active"]

Become(c, r) == request' = [request EXCEPT ![c] = r]
Goto(c, step) == request' = [request EXCEPT ![c].at = step]

-----------------------------------------------------------------------------
Init ==
    /\ phase = "created"
    /\ events = 0
    /\ market = NoMarket
    /\ report = FALSE
    /\ universe = "unset"
    /\ package = NoPackage
    /\ checks = NoChecks
    /\ archive = <<>>
    /\ lastLog = "none"
    /\ active = NoStrategy
    /\ mode = "unset"
    /\ training = [baseline |-> 0, anchor |-> 0, stage |-> "collecting_baseline"]
    /\ request = [c \in Clients |-> NoRequest]

-----------------------------------------------------------------------------
(* The simulation *)

GenerateScenarios(c) ==
    /\ Idle(c)
    /\ phase' = "simulation_in_progress"
    /\ UNCHANGED <<events, market, report, universe, package, checks, archive,
                   lastLog, active, mode, training, request>>

\* Mutant: the lifecycle stage waits for somebody else's refresh.
AppendQuietly(c) ==
    /\ Idle(c)
    /\ events < MaxEvents
    /\ events' = events + 1
    /\ UNCHANGED <<phase, market, report, universe, package, checks, archive,
                   lastLog, active, mode, training, request>>

AppendBehaviorEvent(c) ==
    /\ Idle(c)
    /\ events < MaxEvents
    /\ events' = events + 1
    /\ UNCHANGED <<phase, market, report, universe, package, checks, archive,
                   lastLog, active, mode, request>>
    /\ RefreshTraining(training.baseline, training.anchor)

\* The provider answered with at least one bar; with none the handler raises.
InitializeMarket(c) ==
    /\ Idle(c)
    /\ \E last \in 0 .. MaxBars - 1 : market' = [cursor |-> 0, last |-> last]
    /\ phase' = "simulation_market_ready"
    /\ UNCHANGED <<events, report, universe, package, checks, archive, lastLog,
                   active, mode, training, request>>

AdvanceMarket(c) ==
    /\ Idle(c)
    /\ market # NoMarket
    /\ \E steps \in 1 .. MaxBars :
          market' = [market EXCEPT !.cursor =
                        IF @ + steps > market.last THEN market.last ELSE @ + steps]
    /\ UNCHANGED <<phase, events, report, universe, package, checks, archive,
                   lastLog, active, mode, training, request>>

\* complete_simulation, and retrain_simulation_profile that calls it, up to the
\* habit analysis: the reports are written, the training counters are not.
CompleteSimulation(c, retrain) ==
    /\ Idle(c)
    /\ market # NoMarket
    /\ market.cursor > 0
    /\ events > 0
    /\ report' = TRUE
    /\ phase' = "profiler_ready"
    /\ Become(c, [NoRequest EXCEPT !.at = "settle", !.retrain = retrain])
    /\ UNCHANGED <<events, market, universe, package, checks, archive, lastLog,
                   active, mode, training>>

\* The counters restart; a retrain anchors them at the events seen so far.
SettleSimulation(c) ==
    /\ At(c, "settle")
    /\ Become(c, NoRequest)
    /\ UNCHANGED <<phase, events, market, report, universe, package, checks,
                   archive, lastLog, active, mode>>
    /\ RefreshTraining(events, IF request[c].retrain /\ package # NoPackage
                               THEN events ELSE 0)

\* The habit analysis raises: the report stays, the counters are not restarted.
SettleFails(c) ==
    /\ At(c, "settle")
    /\ Become(c, NoRequest)
    /\ UNCHANGED sessionVars

-----------------------------------------------------------------------------
(* Preferences, universe and live records *)

\* The habit analysis may raise before the training state is refreshed.
SetTradingPreferences(c) ==
    /\ Idle(c)
    /\ phase' = "preferences_ready"
    /\ UNCHANGED <<events, market, report, universe, package, checks, archive,
                   lastLog, active, mode, request>>
    /\ \/ RefreshTraining(training.baseline, training.anchor)
       \/ UNCHANGED training

\* A short list is padded to five instruments unless the user overrides that.
SetTradeUniverse(c) ==
    /\ Idle(c)
    /\ universe' \in {"wide", "narrow"}
    /\ phase' = "universe_ready"
    /\ UNCHANGED <<events, market, report, package, checks, archive, lastLog,
                   active, mode, training, request>>

\* A trade record or an intelligence search: session lists grow, and the
\* training state is refreshed when the analysis before it did not raise.
RecordActivity(c) ==
    /\ Idle(c)
    /\ UNCHANGED <<phase, events, market, report, universe, package, checks,
                   archive, lastLog, active, mode, request>>
    /\ RefreshTraining(training.baseline, training.anchor)

-----------------------------------------------------------------------------
(* Training *)

\* Mutant: every request numbers its rounds from one.
BeginNumberingAnew(c) ==
    /\ Idle(c)
    /\ report
    /\ universe # "unset"
    /\ \E rounds \in 1 .. MaxRounds, free \in BOOLEAN :
          /\ package.no + rounds <= MaxVersion
          /\ Become(c, [NoRequest EXCEPT !.at = "evaluate", !.rounds = rounds,
                                         !.free = free, !.universe = universe,
                                         !.no = 1])
    /\ UNCHANGED sessionVars

\* iterate_strategy up to the first round, with its first iteration number.
BeginIteration(c) ==
    /\ Idle(c)
    /\ report
    /\ universe # "unset"
    /\ \E rounds \in 1 .. MaxRounds, free \in BOOLEAN :
          /\ package.no + rounds <= MaxVersion
          /\ Become(c, [NoRequest EXCEPT !.at = "evaluate",
                                         !.rounds = rounds,
                                         !.free = free,
                                         !.universe = universe,
                                         !.no = package.no + 1])
    /\ UNCHANGED sessionVars

\* Mutant: a new package is selected for trading before it is checked.
PublishAndSelect(c) ==
    /\ At(c, "evaluate")
    /\ package' = [no |-> request[c].no, universe |-> request[c].universe]
    /\ active' = [source |-> "current", no |-> request[c].no]
    /\ Goto(c, "check")
    /\ UNCHANGED <<phase, events, market, report, universe, checks, archive,
                   lastLog, mode, training>>

\* Candidates are built, generated and back-tested; the winner becomes the package.
Publish(c) ==
    /\ At(c, "evaluate")
    /\ package' = [no |-> request[c].no, universe |-> request[c].universe]
    /\ Goto(c, "check")
    /\ UNCHANGED <<phase, events, market, report, universe, checks, archive,
                   lastLog, active, mode, training>>

\* Mutant: a candidate that passes is approved on the spot.
RunChecksAndApprove(c) ==
    /\ At(c, "check")
    /\ checks' \in Verdicts(package)
    /\ phase' = IF checks'.failed THEN phase ELSE "strategy_approved"
    /\ Become(c, [request[c] EXCEPT !.at = "archive", !.failed = checks'.failed])
    /\ UNCHANGED <<events, market, report, universe, package, archive,
                   lastLog, active, mode, training>>

\* The check agents judge whatever package the session holds now.
RunChecks(c) ==
    /\ At(c, "check")
    /\ checks' \in Verdicts(package)
    /\ Become(c, [request[c] EXCEPT !.at = "archive", !.failed = checks'.failed])
    /\ UNCHANGED <<phase, events, market, report, universe, package, archive,
                   lastLog, active, mode, training>>

ArchiveRound(c) ==
    /\ At(c, "archive")
    /\ lastLog' = IF request[c].failed THEN "rework_required" ELSE "checked"
    /\ archive' = Append(archive, [no |-> package.no, checksOf |-> checks.of,
                                   failed |-> checks.failed])
    /\ Goto(c, "train")
    /\ UNCHANGED <<phase, events, market, report, universe, package, checks,
                   active, mode, training>>

\* Mutant: the count of rounds is not consulted.
TrainUntilPass(c) ==
    /\ At(c, "train")
    /\ UNCHANGED <<phase, events, market, report, universe, package, checks,
                   archive, lastLog, active, mode>>
    /\ RefreshTraining(training.baseline, events)
    /\ \/ /\ request[c].failed \/ request[c].free
          /\ Become(c, [request[c] EXCEPT !.at = "evaluate",
                                          !.rounds = @ - 1,
                                          !.no = package.no + 1])
       \/ /\ ~request[c].failed /\ ~request[c].free
          /\ Goto(c, "finish")

\* The events seen so far are what this version was trained on.  Another round
\* follows unless a guided request has passed its checks.
Train(c) ==
    /\ At(c, "train")
    /\ UNCHANGED <<phase, events, market, report, universe, package, checks,
                   archive, lastLog, active, mode>>
    /\ RefreshTraining(training.baseline, events)
    /\ \/ /\ request[c].rounds > 1
          /\ request[c].failed \/ request[c].free
          /\ Become(c, [request[c] EXCEPT !.at = "evaluate",
                                          !.rounds = @ - 1,
                                          !.no = package.no + 1])
       \/ /\ request[c].rounds = 1 \/ (~request[c].failed /\ ~request[c].free)
          /\ Goto(c, "finish")

\* Mutant: a package whose checks raised is left with the checks of the last one.
RoundFailsUnchecked(c) ==
    /\ request[c].at \in {"evaluate", "check", "train"}
    /\ lastLog' = "error"
    /\ phase' = "strategy_rework_required"
    /\ Become(c, NoRequest)
    /\ UNCHANGED <<events, market, report, universe, package, checks, archive,
                   active, mode, training>>

\* An exception in a round: from a model call or a backtest before the package
\* is set, or from the habit analysis after the round was archived.
RoundFails(c) ==
    /\ At(c, "evaluate") \/ At(c, "train")
    /\ lastLog' = "error"
    /\ phase' = "strategy_rework_required"
    /\ Become(c, NoRequest)
    /\ UNCHANGED <<events, market, report, universe, package, checks, archive,
                   active, mode, training>>

\* Mutant: the answer waits for the user to select a strategy.
FinishWhenSelected(c) ==
    /\ At(c, "finish")
    /\ \/ active = NoStrategy /\ UNCHANGED vars
       \/ /\ active # NoStrategy
          /\ phase' = IF checks.failed THEN "strategy_rework_required"
                                       ELSE "strategy_checked"
          /\ Become(c, NoRequest)
          /\ UNCHANGED <<events, market, report, universe, package, checks,
                         archive, lastLog, active, mode, training>>

FinishIteration(c) ==
    /\ At(c, "finish")
    /\ phase' = IF checks.failed THEN "strategy_rework_required"
                                 ELSE "strategy_checked"
    /\ EnsureActive
    /\ Become(c, NoRequest)
    /\ UNCHANGED <<events, market, report, universe, package, checks, archive,
                   lastLog, mode, training>>

-----------------------------------------------------------------------------
(* Selection, approval and deployment *)

SetActiveTradingStrategy(c) ==
    /\ Idle(c)
    /\ active' \in References
    /\ UNCHANGED <<phase, events, market, report, universe, package, checks,
                   archive, lastLog, mode, request>>
    /\ \/ RefreshTraining(training.baseline, training.anchor)
       \/ UNCHANGED training

ApproveStrategy(c) ==
    /\ Idle(c)
    /\ Approvable
    /\ phase' = "strategy_approved"
    /\ EnsureActive
    /\ UNCHANGED <<events, market, report, universe, package, checks, archive,
                   lastLog, mode, training, request>>

RefuseApproval(c) ==
    /\ Idle(c)
    /\ ~Approvable
    /\ phase' = "strategy_rework_required"
    /\ UNCHANGED <<events, market, report, universe, package, checks, archive,
                   lastLog, active, mode, training, request>>

SetDeployment(c) ==
    /\ Idle(c)
    /\ mode' \in {"autonomous", "advice_only"}
    /\ phase' = DeployedPhase[mode']
    /\ UNCHANGED <<events, market, report, universe, package, checks, archive,
                   lastLog, active, training, request>>

-----------------------------------------------------------------------------
\* What a request in flight does next.
Step(c) ==
    \/ SettleSimulation(c)
    \/ SettleFails(c)
    \/ Publish(c)
    \/ RunChecks(c)
    \/ ArchiveRound(c)
    \/ Train(c)
    \/ RoundFails(c)
    \/ FinishIteration(c)

\* What a client may ask for.
Call(c) ==
    \/ GenerateScenarios(c)
    \/ AppendBehaviorEvent(c)
    \/ InitializeMarket(c)
    \/ AdvanceMarket(c)
    \/ \E retrain \in BOOLEAN : CompleteSimulation(c, retrain)
    \/ SetTradingPreferences(c)
    \/ SetTradeUniverse(c)
    \/ RecordActivity(c)
    \/ BeginIteration(c)
    \/ SetActiveTradingStrategy(c)
    \/ ApproveStrategy(c)
    \/ RefuseApproval(c)
    \/ SetDeployment(c)

Next == \E c \in Clients : Step(c) \/ Call(c)

Spec == Init /\ [][Next]_vars

\* A handler runs to its end: every call out of it has a timeout, and a raised
\* error also ends it.  Nothing obliges a client to send a request.
FairSpec == Spec /\ \A c \in Clients : WF_vars(Step(c))
-----------------------------------------------------------------------------
(* Properties of any number of clients *)

\* Every variable of the session holds a value of its kind.
TypeOK ==
    /\ phase \in Phases
    /\ events \in Nat
    /\ market \in Market
    /\ report \in BOOLEAN
    /\ universe \in Universes
    /\ package \in Package
    /\ checks \in CheckList
    /\ archive \in Seq(Report)
    /\ lastLog \in {"none", "checked", "rework_required", "error"}
    /\ active \in Reference
    /\ mode \in {"unset", "autonomous", "advice_only"}
    /\ training \in Training
    /\ request \in [Clients -> Request]

\* The counters the drift of behaviour is measured from are never ahead of the
\* events recorded, whichever handler wrote them last (_refresh_simulation_-
\* training_state subtracts one from the other).
AnchorsNeverAhead ==
    /\ training.anchor <= events
    /\ training.baseline <= events

\* At most so many steps are left to the request of a client: the four of each round left
\* and the finish.
StepsLeft(c) ==
    LET later == 4 * (request[c].rounds - 1)
    IN CASE Idle(c)           -> 0
         [] At(c, "settle")   -> 1
         [] At(c, "finish")   -> 1
         [] At(c, "train")    -> later + 2
         [] At(c, "archive")  -> later + 3
         [] At(c, "check")    -> later + 4
         [] At(c, "evaluate") -> later + 5

\* Every step of a request uses up one of the steps its rounds allow, whatever the checks
\* of its rounds say and whatever other clients do to the session meanwhile.
RequestsGetNearer ==
    [][\A c \in Clients : Step(c) => StepsLeft(c)' \in 0 .. (StepsLeft(c) - 1)]_vars

\* A request in flight is always answered: the rounds of a training request run
\* out, and a failure ends it (iterate_strategy, complete_simulation).
RequestsEnd == \A c \in Clients : ~Idle(c) ~> Idle(c)

-----------------------------------------------------------------------------
(* Properties of a session used by one client at a time *)

\* The strategy_checks a session shows are those of the strategy_package it
\* shows, also after a round that failed half way: ApproveStrategy and the next
\* round's failure summary rely on it.
ChecksDescribePackage == Quiescent => checks.of = package.no

\* The phase never vouches for a package that failed its checks, and never
\* demands a rework of one that passed unless the last round raised an error.
PhaseAgreesWithChecks ==
    Quiescent =>
        /\ phase \in {"strategy_checked", "strategy_approved"} =>
              package # NoPackage /\ ~checks.failed
        /\ phase = "strategy_rework_required" =>
              checks = NoChecks \/ checks.failed \/ lastLog = "error"

\* The report history tells the whole story of the versions: each one appears
\* once, in the order they were built, with the checks made of that very version,
\* however rounds and requests failed in between.
ArchiveIsVersionHistory ==
    /\ \A i \in DOMAIN archive : archive[i].no = i /\ archive[i].checksOf = i
    /\ Quiescent => Len(archive) = package.no

\* The version selected for trading can be found in the report history, even
\* when the reference says "current" and a later round replaced that package.
ActiveIsArchived ==
    active # NoStrategy => \E i \in DOMAIN archive : archive[i].no = active.no

\* Enough behaviour recorded after the training always shows as a recommendation
\* to retrain, once no round has died between its package and its anchor.
DriftIsFlagged ==
    (/\ Quiescent
     /\ package # NoPackage
     /\ lastLog # "error"
     /\ events >= training.anchor + DriftLimit)
        => training.stage = "retrain_recommended"

\* A user who selected an archived version keeps it until the user selects
\* another: training, a failed round or an approval never changes it.
SelectionIsKept ==
    [][active.source = "archive" /\ active' # active
        => active' \in References /\ phase' = phase /\ request' = request]_vars

\* The session implements the review gate: a version is judged once, the verdict
\* is of that version, and no approval is given but on a pass.
Gate == INSTANCE ReviewGate WITH
    version <- package.no,
    verdict <- IF package.no = 0 \/ checks.of # package.no THEN "none"
               ELSE IF checks.failed THEN "fail" ELSE "pass",
    approved <- phase = "strategy_approved"

ImplementsReviewGate == Gate!Spec
-----------------------------------------------------------------------------
(* Why these hold: the inductive invariant of a session with one client *)

\* Where the request in flight stands between the package and its checks.
OnTrack(c) ==
    /\ ~Idle(c) \/ package # NoPackage => report
    /\ package.no = 0 => package = NoPackage
    /\ checks.of = 0 => checks = NoChecks
    /\ At(c, "evaluate") => request[c].no = package.no + 1
    /\ IF At(c, "check") THEN package.no = checks.of + 1 ELSE checks.of = package.no
    /\ request[c].at \in {"archive", "train", "finish"} =>
           package # NoPackage /\ request[c].failed = checks.failed

\* The archive is one behind the package from its publication to its archiving.
Archived(c) ==
    /\ Len(archive) = IF request[c].at \in {"check", "archive"}
                      THEN package.no - 1 ELSE package.no
    /\ \A i \in DOMAIN archive : archive[i].no = i /\ archive[i].checksOf = i
    /\ active # NoStrategy => active.no \in DOMAIN archive

\* Outside a training request the phase can be relied on.
Vouched(c) ==
    request[c].at \in {"idle", "settle"} =>
        /\ phase \in {"strategy_checked", "strategy_approved"} =>
              package # NoPackage /\ ~checks.failed
        /\ phase = "strategy_rework_required" =>
              checks = NoChecks \/ checks.failed \/ lastLog = "error"

\* Outside a round of training the recommendation can be relied on.
Flagged(c) ==
    (/\ request[c].at \in {"idle", "settle", "finish"}
     /\ package # NoPackage
     /\ lastLog # "error"
     /\ events >= training.anchor + DriftLimit)
        => training.stage = "retrain_recommended"

\* The four parts together: what every step of a lone client preserves, and what
\* the properties above follow from.
Coherent(c) == OnTrack(c) /\ Archived(c) /\ Vouched(c) /\ Flagged(c)

SessionInvariant == \A c \in Clients : Coherent(c)

-----------------------------------------------------------------------------
(* What the documents say of the program, and it does not do *)

\* "Strategy Evolver must generate a new version before approval can be attempted
\* again" (docs/agent-state-machine.md): the demand for a rework is not answered
\* by an approval of the version at hand.
ReworkNeedsNewVersion ==
    [][phase = "strategy_rework_required" => phase' # "strategy_approved"]_vars

\* "Approve the current strategy candidate only if both strategy-check agents
\* return acceptable results" (docs/api-spec.md).
ApprovesCheckedCandidate ==
    [][phase # "strategy_approved" /\ phase' = "strategy_approved"
        => checks.of = package.no /\ ~checks.failed]_vars
=============================================================================
