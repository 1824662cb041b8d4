----------------------- MODULE StrategyWorkflow_proofs -----------------------
(***************************************************************************)
(* Proofs about StrategyWorkflow: type correctness and the bookkeeping of  *)
(* the training counters for any number of clients; the agreement of the   *)
(* package, its checks, the archive, the phase and the selected strategy,  *)
(* and the implementation of ReviewGate, for one client at a time.         *)
(***************************************************************************)
EXTENDS StrategyWorkflow, TLAPS

-----------------------------------------------------------------------------
(* Any number of clients *)

\* Storing a well-formed record for one client keeps the map well-formed.
LEMMA BecomeType ==
    ASSUME request \in [Clients -> Request], NEW c \in Clients,
           NEW r \in Request, Become(c, r)
    PROVE  request' \in [Clients -> Request]
  BY DEF Become

\* Moving a request to another step keeps the map well-formed.
LEMMA GotoType ==
    ASSUME request \in [Clients -> Request], NEW c \in Clients,
           NEW step \in Steps, Goto(c, step)
    PROVE  request' \in [Clients -> Request]
  BY DEF Goto, Request

\* The request RunChecks stores is well-formed.
LEMMA CheckedRequestType ==
    ASSUME NEW r \in Request, NEW failed \in BOOLEAN
    PROVE  [r EXCEPT !.at = "archive", !.failed = failed] \in Request
  BY DEF Request, Steps

\* The request Train stores for another round is well-formed.
LEMMA NextRoundRequestType ==
    ASSUME NEW r \in Request, NEW rounds \in Nat, NEW no \in Nat
    PROVE  [r EXCEPT !.at = "evaluate", !.rounds = rounds, !.no = no] \in Request
  BY DEF Request, Steps

\* The request BeginIteration stores is well-formed.
LEMMA TrainingRequestType ==
    ASSUME universe \in Universes, NEW rounds \in Nat, NEW free \in BOOLEAN, NEW no \in Nat
    PROVE  [NoRequest EXCEPT !.at = "evaluate",
                             !.rounds = rounds,
                             !.free = free,
                             !.universe = universe,
                             !.no = no] \in Request
  BY DEF NoRequest, Request, Steps, Universes

\* A refresh from counters that are numbers stores a well-formed state.
LEMMA RefreshType ==
    ASSUME NEW baseline \in Nat, NEW anchor \in Nat, events' \in Nat,
           RefreshTraining(baseline, anchor)
    PROVE  /\ training' \in Training
           /\ training'.anchor = anchor
           /\ training'.baseline <= events' \/ training'.baseline = baseline
  BY DEF RefreshTraining, Training

\* A reference that resolves is a well-formed reference.
LEMMA ReferencesType ==
    ASSUME package \in Package, archive \in Seq(Report)
    PROVE  References \subseteq Reference
<1> SUFFICES ASSUME NEW ref \in References PROVE ref \in Reference
  OBVIOUS
<1>1. CASE \E n \in {package.no} \ {0} : ref = [source |-> "current", no |-> n]
  BY <1>1 DEF Reference, Package
<1>2. CASE \E i \in DOMAIN archive : ref = [source |-> "archive", no |-> archive[i].no]
  <2>1. PICK i \in DOMAIN archive : ref = [source |-> "archive", no |-> archive[i].no]
    BY <1>2
  <2>2. archive[i] \in Report
    BY <2>1
  <2> QED BY <2>1, <2>2 DEF Reference, Report
<1> QED BY <1>1, <1>2 DEF References

\* Making sure of an active strategy stores a well-formed reference.
LEMMA EnsureActiveType ==
    ASSUME package \in Package, archive \in Seq(Report), active \in Reference,
           EnsureActive
    PROVE  active' \in Reference
  BY DEF EnsureActive, Reference, Package

\* The session's variables and the requests are well-formed in every state.
THEOREM TypeCorrect == Spec => []TypeOK
<1>1. Init => TypeOK
  <2>1. NoRequest \in Request
    BY DEF NoRequest, Request, Steps, Universes
  <2> SUFFICES ASSUME Init PROVE TypeOK
    OBVIOUS
  <2>2. market \in Market /\ package \in Package /\ checks \in CheckList
    BY DEF Init, Market, NoMarket, Package, NoPackage, CheckList, NoChecks, Universes
  <2>3. active \in Reference /\ training \in Training
    BY DEF Init, Reference, NoStrategy, Training, Stages
  <2>4. request \in [Clients -> Request]
    BY <2>1 DEF Init
  <2>5. archive \in Seq(Report)
    BY DEF Init
  <2> QED BY <2>2, <2>3, <2>4, <2>5 DEF Init, TypeOK, Phases, Universes
<1>2. TypeOK /\ [Next]_vars => TypeOK'
  <2> SUFFICES ASSUME TypeOK, [Next]_vars PROVE TypeOK'
    OBVIOUS
  <2> USE DEF TypeOK
  <2>0. NoRequest \in Request
    BY DEF NoRequest, Request, Steps, Universes
  <2>1. CASE UNCHANGED vars
    BY <2>1 DEF vars
  <2>2. ASSUME NEW c \in Clients, Step(c) PROVE TypeOK'
    <3>0. request[c] \in Request
      OBVIOUS
    <3>1. CASE SettleSimulation(c)
      <4>1. request' \in [Clients -> Request]
        BY <3>1, <2>0, BecomeType DEF SettleSimulation
      <4>2. training' \in Training
        BY <3>1, RefreshType DEF SettleSimulation
      <4> QED BY <3>1, <4>1, <4>2 DEF SettleSimulation
    <3>2. CASE SettleFails(c)
      BY <3>2, <2>0, BecomeType DEF SettleFails, sessionVars
    <3>3. CASE Publish(c)
      <4>1. request' \in [Clients -> Request]
        BY <3>3, GotoType DEF Publish, Steps
      <4>2. package' \in Package
        BY <3>3, <3>0 DEF Publish, Package, Request
      <4> QED BY <3>3, <4>1, <4>2 DEF Publish
    <3>4. CASE RunChecks(c)
      <4>1. checks' \in CheckList
        BY <3>4 DEF RunChecks, Verdicts, CheckList, Package
      <4>2. request' \in [Clients -> Request]
        <5>1. [request[c] EXCEPT !.at = "archive", !.failed = checks'.failed]
                  \in Request
          <6>1. checks'.failed \in BOOLEAN
            BY <4>1 DEF CheckList
          <6> QED BY <6>1, <3>0, CheckedRequestType
        <5> QED BY <3>4, <5>1, BecomeType DEF RunChecks
      <4> QED BY <3>4, <4>1, <4>2 DEF RunChecks
    <3>5. CASE ArchiveRound(c)
      <4>1. request' \in [Clients -> Request]
        BY <3>5, GotoType DEF ArchiveRound, Steps
      <4>2. archive' \in Seq(Report)
        BY <3>5 DEF ArchiveRound, Report, Package, CheckList
      <4> QED BY <3>5, <4>1, <4>2 DEF ArchiveRound
    <3>6. CASE Train(c)
      <4>1. request' \in [Clients -> Request]
        <5>1. CASE Goto(c, "finish")
          BY <5>1, GotoType DEF Steps
        <5>2. CASE /\ request[c].rounds > 1
                   /\ Become(c, [request[c] EXCEPT !.at = "evaluate",
                                                   !.rounds = @ - 1,
                                                   !.no = package.no + 1])
          <6>1. [request[c] EXCEPT !.at = "evaluate",
                                   !.rounds = @ - 1,
                                   !.no = package.no + 1] \in Request
            <7>1. request[c].rounds \in Nat
              BY <3>0 DEF Request
            <7>2. request[c].rounds - 1 \in Nat /\ package.no + 1 \in Nat
              BY <5>2, <7>1 DEF Package
            <7> QED BY <3>0, <7>2, NextRoundRequestType
          <6> QED BY <5>2, <6>1, BecomeType
        <5> QED BY <3>6, <5>1, <5>2 DEF Train
      <4>2. training' \in Training
        BY <3>6, RefreshType DEF Train, Training
      <4> QED BY <3>6, <4>1, <4>2 DEF Train
    <3>7. CASE RoundFails(c)
      BY <3>7, <2>0, BecomeType DEF RoundFails, Phases
    <3>8. CASE FinishIteration(c)
      BY <3>8, <2>0, BecomeType, EnsureActiveType DEF FinishIteration, Phases
    <3> QED BY <2>2, <3>1, <3>2, <3>3, <3>4, <3>5, <3>6, <3>7, <3>8 DEF Step
  <2>3. ASSUME NEW c \in Clients, Call(c) PROVE TypeOK'
    <3> USE DEF Phases, Universes
    <3>1. CASE GenerateScenarios(c)
      BY <3>1 DEF GenerateScenarios
    <3>2. CASE AppendBehaviorEvent(c)
      BY <3>2, RefreshType DEF AppendBehaviorEvent, Training
    <3>3. CASE InitializeMarket(c)
      BY <3>3, WorkflowAssumption DEF InitializeMarket, Market
    <3>4. CASE AdvanceMarket(c)
      BY <3>4, WorkflowAssumption DEF AdvanceMarket, Market
    <3>5. CASE \E retrain \in BOOLEAN : CompleteSimulation(c, retrain)
      <4>1. PICK retrain \in BOOLEAN : CompleteSimulation(c, retrain)
        BY <3>5
      <4>2. [NoRequest EXCEPT !.at = "settle", !.retrain = retrain] \in Request
        BY DEF NoRequest, Request, Steps, Universes
      <4> QED BY <4>1, <4>2, BecomeType DEF CompleteSimulation
    <3>6. CASE SetTradingPreferences(c)
      BY <3>6, RefreshType DEF SetTradingPreferences, Training
    <3>7. CASE SetTradeUniverse(c)
      BY <3>7 DEF SetTradeUniverse
    <3>8. CASE RecordActivity(c)
      BY <3>8, RefreshType DEF RecordActivity, Training
    <3>9. CASE BeginIteration(c)
      <4>1. PICK rounds \in 1 .. MaxRounds, free \in BOOLEAN :
                Become(c, [NoRequest EXCEPT !.at = "evaluate",
                                            !.rounds = rounds,
                                            !.free = free,
                                            !.universe = universe,
                                            !.no = package.no + 1])
        BY <3>9 DEF BeginIteration
      <4>2. [NoRequest EXCEPT !.at = "evaluate",
                              !.rounds = rounds,
                              !.free = free,
                              !.universe = universe,
                              !.no = package.no + 1] \in Request
        <5>1. rounds \in Nat /\ package.no + 1 \in Nat
          BY WorkflowAssumption DEF Package
        <5> QED BY <5>1, TrainingRequestType
      <4> QED BY <3>9, <4>1, <4>2, BecomeType DEF BeginIteration, sessionVars
    <3>10. CASE SetActiveTradingStrategy(c)
      BY <3>10, RefreshType, ReferencesType DEF SetActiveTradingStrategy, Training
    <3>11. CASE ApproveStrategy(c)
      BY <3>11, EnsureActiveType DEF ApproveStrategy, Approvable
    <3>12. CASE RefuseApproval(c)
      BY <3>12 DEF RefuseApproval
    <3>13. CASE SetDeployment(c)
      BY <3>13 DEF SetDeployment, DeployedPhase
    <3> QED BY <2>3, <3>1, <3>2, <3>3, <3>4, <3>5, <3>6, <3>7, <3>8, <3>9,
               <3>10, <3>11, <3>12, <3>13 DEF Call
  <2> QED BY <2>1, <2>2, <2>3 DEF Next
<1> QED BY <1>1, <1>2, PTL DEF Spec

\* A training request in a round has rounds left.
RoundsLeft ==
    \A c \in Clients :
        request[c].at \in {"evaluate", "check", "archive", "train"} => request[c].rounds >= 1

LEMMA BecomeKeepsRounds ==
    ASSUME TypeOK, RoundsLeft, NEW c \in Clients, NEW r, Become(c, r),
           r.at \in {"evaluate", "check", "archive", "train"} => r.rounds >= 1
    PROVE  RoundsLeft'
  BY DEF TypeOK, RoundsLeft, Become

LEMMA GotoKeepsRounds ==
    ASSUME TypeOK, RoundsLeft, NEW c \in Clients, NEW step, Goto(c, step),
           step = "finish" \/ request[c].at \in {"evaluate", "check", "archive", "train"}
    PROVE  RoundsLeft'
  BY DEF TypeOK, Request, RoundsLeft, Goto

LEMMA NoRequestIsIdle == NoRequest.at = "idle"
  BY DEF NoRequest

LEMMA RoundsStayLeft == TypeOK /\ RoundsLeft /\ [Next]_vars => RoundsLeft'
<1> SUFFICES ASSUME TypeOK, RoundsLeft, [Next]_vars PROVE RoundsLeft'
  OBVIOUS
<1>1. CASE UNCHANGED request
  BY <1>1 DEF RoundsLeft
<1>2. ASSUME NEW c \in Clients, Become(c, NoRequest) PROVE RoundsLeft'
  BY <1>2, NoRequestIsIdle, BecomeKeepsRounds
<1>3. ASSUME NEW c \in Clients, Step(c) PROVE RoundsLeft'
  <2>0. request[c] \in Request
    BY DEF TypeOK
  <2>1. CASE Publish(c)
    BY <2>1, GotoKeepsRounds DEF Publish, At
  <2>2. CASE RunChecks(c)
    <3>1. request[c].rounds >= 1
      BY <2>2 DEF RunChecks, At, RoundsLeft
    <3>2. [request[c] EXCEPT !.at = "archive", !.failed = checks'.failed].rounds >= 1
      BY <2>0, <3>1 DEF Request
    <3> QED BY <2>2, <3>2, BecomeKeepsRounds DEF RunChecks
  <2>3. CASE ArchiveRound(c)
    BY <2>3, GotoKeepsRounds DEF ArchiveRound, At
  <2>4. CASE Train(c)
    <3>1. CASE Goto(c, "finish")
      BY <3>1, GotoKeepsRounds
    <3>2. CASE /\ request[c].rounds > 1
               /\ Become(c, [request[c] EXCEPT !.at = "evaluate",
                                               !.rounds = @ - 1,
                                               !.no = package.no + 1])
      <4>1. [request[c] EXCEPT !.at = "evaluate", !.rounds = @ - 1,
                               !.no = package.no + 1].rounds >= 1
        BY <2>0, <3>2 DEF Request
      <4> QED BY <3>2, <4>1, BecomeKeepsRounds
    <3> QED BY <2>4, <3>1, <3>2 DEF Train
  <2> QED BY <1>2, <1>3, <2>1, <2>2, <2>3, <2>4
          DEF Step, SettleSimulation, SettleFails, RoundFails, FinishIteration
<1>4. ASSUME NEW c \in Clients, Call(c) PROVE RoundsLeft'
  <2>1. CASE \E retrain \in BOOLEAN : CompleteSimulation(c, retrain)
    <3>1. PICK retrain \in BOOLEAN :
              Become(c, [NoRequest EXCEPT !.at = "settle", !.retrain = retrain])
      BY <2>1 DEF CompleteSimulation
    <3>2. [NoRequest EXCEPT !.at = "settle", !.retrain = retrain].at = "settle"
      BY DEF NoRequest
    <3> QED BY <3>1, <3>2, BecomeKeepsRounds
  <2>2. CASE BeginIteration(c)
    <3>1. PICK rounds \in 1 .. MaxRounds, free \in BOOLEAN :
              Become(c, [NoRequest EXCEPT !.at = "evaluate",
                                          !.rounds = rounds,
                                          !.free = free,
                                          !.universe = universe,
                                          !.no = package.no + 1])
      BY <2>2 DEF BeginIteration
    <3>2. [NoRequest EXCEPT !.at = "evaluate", !.rounds = rounds, !.free = free,
                            !.universe = universe, !.no = package.no + 1].rounds >= 1
      BY DEF NoRequest
    <3> QED BY <3>1, <3>2, BecomeKeepsRounds
  <2>3. CASE UNCHANGED request
    BY <1>1, <2>3
  <2> QED BY <1>4, <2>1, <2>2, <2>3
          DEF Call, GenerateScenarios, AppendBehaviorEvent, InitializeMarket, AdvanceMarket,
              SetTradingPreferences, SetTradeUniverse, RecordActivity,
              SetActiveTradingStrategy, ApproveStrategy, RefuseApproval, SetDeployment
<1> QED BY <1>1, <1>3, <1>4 DEF Next, vars

\* Whatever other clients do, each step of a request uses up one of the steps its rounds
\* allow: the rounds are counted down and a failure ends them (iterate_strategy).
THEOREM RequestsComeNearer == Spec => RequestsGetNearer
<1>1. Init => RoundsLeft
  BY NoRequestIsIdle DEF Init, RoundsLeft
<1>2. ASSUME TypeOK, RoundsLeft, NEW c \in Clients, Step(c)
      PROVE  StepsLeft(c)' \in 0 .. (StepsLeft(c) - 1)
  <2> DEFINE later == 4 * (request[c].rounds - 1)
  <2>1. /\ request[c] \in Request /\ request[c].rounds \in Nat
        /\ \A r : Become(c, r) => request'[c] = r
        /\ \A step : Goto(c, step) => /\ request'[c].at = step
                                      /\ request'[c].rounds = request[c].rounds
    BY <1>2 DEF TypeOK, Request, Become, Goto
  <2>2. At(c, "evaluate") \/ At(c, "check") \/ At(c, "archive") \/ At(c, "train")
        => later \in Nat
    BY <1>2, <2>1 DEF At, RoundsLeft
  <2>3. /\ At(c, "settle") => StepsLeft(c) = 1
        /\ At(c, "finish") => StepsLeft(c) = 1
        /\ At(c, "train") => StepsLeft(c) = later + 2
        /\ At(c, "archive") => StepsLeft(c) = later + 3
        /\ At(c, "check") => StepsLeft(c) = later + 4
        /\ At(c, "evaluate") => StepsLeft(c) = later + 5
    BY DEF StepsLeft, Idle, At
  <2>4. /\ request'[c].at = "idle" => StepsLeft(c)' = 0
        /\ request'[c].at = "finish" => StepsLeft(c)' = 1
        /\ request'[c].rounds = request[c].rounds =>
               /\ request'[c].at = "train" => StepsLeft(c)' = later + 2
               /\ request'[c].at = "archive" => StepsLeft(c)' = later + 3
               /\ request'[c].at = "check" => StepsLeft(c)' = later + 4
        /\ request'[c].at = "evaluate" /\ request'[c].rounds = request[c].rounds - 1
           => StepsLeft(c)' = 4 * (request[c].rounds - 1 - 1) + 5
    BY DEF StepsLeft, Idle, At
  <2>5. CASE Become(c, NoRequest) /\ ~Idle(c)
    <3>1. StepsLeft(c)' = 0
      BY <2>1, <2>4, <2>5, NoRequestIsIdle
    <3>2. StepsLeft(c) \in Nat /\ StepsLeft(c) >= 1
      BY <2>1, <2>2, <2>3, <2>5 DEF Request, Steps, Idle, At
    <3> QED BY <3>1, <3>2
  <2>6. CASE Publish(c)
    BY <2>1, <2>2, <2>3, <2>4, <2>6 DEF Publish
  <2>7. CASE RunChecks(c)
    <3>1. request'[c] = [request[c] EXCEPT !.at = "archive", !.failed = checks'.failed]
      BY <2>1, <2>7 DEF RunChecks
    <3>2. request'[c].at = "archive" /\ request'[c].rounds = request[c].rounds
      BY <2>1, <3>1 DEF Request
    <3> QED BY <2>2, <2>3, <2>4, <2>7, <3>2 DEF RunChecks
  <2>8. CASE ArchiveRound(c)
    BY <2>1, <2>2, <2>3, <2>4, <2>8 DEF ArchiveRound
  <2>9. CASE Train(c)
    <3>1. CASE Goto(c, "finish")
      BY <2>1, <2>2, <2>3, <2>4, <2>9, <3>1 DEF Train
    <3>2. CASE /\ request[c].rounds > 1
               /\ Become(c, [request[c] EXCEPT !.at = "evaluate",
                                               !.rounds = @ - 1,
                                               !.no = package.no + 1])
      <4>1. request'[c] = [request[c] EXCEPT !.at = "evaluate", !.rounds = @ - 1,
                                             !.no = package.no + 1]
        BY <2>1, <3>2
      <4>2. request'[c].at = "evaluate" /\ request'[c].rounds = request[c].rounds - 1
        BY <2>1, <4>1 DEF Request
      <4>3. StepsLeft(c)' = 4 * (request[c].rounds - 1 - 1) + 5 /\ StepsLeft(c) = later + 2
        BY <2>3, <2>4, <2>9, <4>2 DEF Train
      <4> QED BY <2>1, <3>2, <4>3
    <3> QED BY <2>9, <3>1, <3>2 DEF Train
  <2> QED BY <1>2, <2>5, <2>6, <2>7, <2>8, <2>9
          DEF Step, SettleSimulation, SettleFails, RoundFails, FinishIteration, Idle, At
<1>3. ASSUME TypeOK, RoundsLeft
      PROVE  \A c \in Clients : Step(c) => StepsLeft(c)' \in 0 .. (StepsLeft(c) - 1)
  BY <1>2, <1>3
<1> QED BY <1>1, <1>3, RoundsStayLeft, TypeCorrect, PTL DEF Spec, RequestsGetNearer

\* The counters of the training state never run ahead of the events.
THEOREM CountersBehindEvents == Spec => []AnchorsNeverAhead
<1>1. Init => AnchorsNeverAhead
  BY DEF Init, AnchorsNeverAhead
<1>2. TypeOK /\ AnchorsNeverAhead /\ [Next]_vars => AnchorsNeverAhead'
  <2> SUFFICES ASSUME TypeOK, AnchorsNeverAhead, [Next]_vars
               PROVE  AnchorsNeverAhead'
    OBVIOUS
  <2>0. events \in Nat /\ training.baseline \in Nat /\ training.anchor \in Nat
    BY DEF TypeOK, Training
  <2>1. ASSUME NEW baseline \in Nat, NEW anchor \in Nat, events' \in Nat,
               baseline <= events', anchor <= events',
               RefreshTraining(baseline, anchor)
        PROVE  AnchorsNeverAhead'
    BY <2>1, RefreshType DEF AnchorsNeverAhead
  <2>2. ASSUME UNCHANGED <<events, training>> PROVE AnchorsNeverAhead'
    BY <2>2 DEF AnchorsNeverAhead
  <2>3. ASSUME NEW c \in Clients, Step(c) PROVE AnchorsNeverAhead'
    <3>1. CASE SettleSimulation(c)
      BY <3>1, <2>0, <2>1 DEF SettleSimulation
    <3>2. CASE Train(c)
      BY <3>2, <2>0, <2>1 DEF Train, AnchorsNeverAhead
    <3>3. CASE \/ SettleFails(c) \/ Publish(c) \/ RunChecks(c) \/ ArchiveRound(c)
               \/ RoundFails(c) \/ FinishIteration(c)
      BY <3>3, <2>2 DEF SettleFails, Publish, RunChecks, ArchiveRound, RoundFails,
                        FinishIteration, sessionVars
    <3> QED BY <2>3, <3>1, <3>2, <3>3 DEF Step
  <2>4. ASSUME NEW c \in Clients, Call(c) PROVE AnchorsNeverAhead'
    <3>1. CASE AppendBehaviorEvent(c)
      BY <3>1, <2>0, <2>1 DEF AppendBehaviorEvent, AnchorsNeverAhead
    <3>2. CASE SetTradingPreferences(c) \/ RecordActivity(c)
               \/ SetActiveTradingStrategy(c)
      BY <3>2, <2>0, <2>1, <2>2 DEF SetTradingPreferences, RecordActivity,
                                    SetActiveTradingStrategy, AnchorsNeverAhead
    <3>3. CASE \/ GenerateScenarios(c) \/ InitializeMarket(c) \/ AdvanceMarket(c)
               \/ \E retrain \in BOOLEAN : CompleteSimulation(c, retrain)
               \/ SetTradeUniverse(c) \/ BeginIteration(c) \/ ApproveStrategy(c)
               \/ RefuseApproval(c) \/ SetDeployment(c)
      BY <3>3, <2>2 DEF GenerateScenarios, InitializeMarket, AdvanceMarket,
                        CompleteSimulation, SetTradeUniverse, BeginIteration,
                        ApproveStrategy, RefuseApproval, SetDeployment, sessionVars
    <3> QED BY <2>4, <3>1, <3>2, <3>3 DEF Call
  <2>5. CASE UNCHANGED vars
    BY <2>5, <2>2 DEF vars
  <2> QED BY <2>3, <2>4, <2>5 DEF Next
<1> QED BY <1>1, <1>2, TypeCorrect, PTL DEF Spec

-----------------------------------------------------------------------------
(* One client *)

\* A new session is coherent.
LEMMA InitCoherent ==
    ASSUME NEW c \in Clients, Init PROVE Coherent(c)
  BY DEF Init, Coherent, OnTrack, Archived, Vouched, Flagged, Idle, At,
         NoRequest, NoPackage, NoChecks, NoStrategy

\* Coherence is about these parts of the session only.
LEMMA CoherentFrame ==
    ASSUME NEW c \in Clients, Coherent(c),
           UNCHANGED <<phase, events, package, checks, archive, lastLog, active,
                       training>>,
           request'[c] = request[c], report => report'
    PROVE  Coherent(c)'
  BY DEF Coherent, OnTrack, Archived, Vouched, Flagged, Idle, At

\* A refresh keeps the anchor and flags the drift measured from it.
LEMMA RefreshFlags ==
    ASSUME NEW baseline \in Nat, NEW anchor \in Nat, events' \in Nat,
           RefreshTraining(baseline, anchor),
           report' = TRUE, package' # NoPackage, events' >= anchor + DriftLimit
    PROVE  training'.stage = "retrain_recommended"
<1>1. PICK stage \in Stages :
          /\ StageFits(stage, anchor)
          /\ training'.stage = stage
  BY DEF RefreshTraining
<1>2. ~(events' < anchor + DriftLimit)
  BY WorkflowAssumption
<1> QED BY <1>1, <1>2 DEF StageFits

\* The steps that record behaviour or describe the user keep the session coherent:
\* they touch neither package, checks nor archive, and refresh what they disturb.
LEMMA SimulationCoherent ==
    ASSUME NEW c \in Clients, TypeOK, Coherent(c),
           \/ AppendBehaviorEvent(c)
           \/ \E retrain \in BOOLEAN : CompleteSimulation(c, retrain)
           \/ SettleSimulation(c)
           \/ SettleFails(c)
    PROVE  Coherent(c)'
<1> USE DEF Coherent
<1>0. /\ events \in Nat /\ training.anchor \in Nat /\ training.baseline \in Nat
      /\ request \in [Clients -> Request]
  BY DEF TypeOK, Training
<1>1. CASE AppendBehaviorEvent(c)
  <2>1. OnTrack(c)' /\ Archived(c)' /\ Vouched(c)'
    BY <1>1 DEF AppendBehaviorEvent, OnTrack, Archived, Vouched, Idle, At
  <2>2. Flagged(c)'
    <3> SUFFICES ASSUME package' # NoPackage, events' >= training'.anchor + DriftLimit
                 PROVE  training'.stage = "retrain_recommended"
      BY DEF Flagged
    <3>1. events' \in Nat /\ RefreshTraining(training.baseline, training.anchor)
      BY <1>0, <1>1 DEF AppendBehaviorEvent
    <3>2. training'.anchor = training.anchor
      BY <1>0, <3>1, RefreshType
    <3> QED BY <1>0, <2>1, <3>1, <3>2, RefreshFlags DEF OnTrack
  <2> QED BY <2>1, <2>2
<1>2. CASE \E retrain \in BOOLEAN : CompleteSimulation(c, retrain)
  BY <1>0, <1>2 DEF CompleteSimulation, Become, NoRequest, OnTrack, Archived,
                    Vouched, Flagged, Idle, At
<1>3. CASE SettleSimulation(c)
  <2>0. request'[c] = NoRequest /\ report = TRUE
    BY <1>0, <1>3 DEF SettleSimulation, Become, OnTrack, Idle, At
  <2>1. OnTrack(c)' /\ Archived(c)' /\ Vouched(c)'
    BY <1>3, <2>0 DEF SettleSimulation, OnTrack, Archived, Vouched, Idle, At, NoRequest
  <2>2. Flagged(c)'
    <3> SUFFICES ASSUME package' # NoPackage, events' >= training'.anchor + DriftLimit
                 PROVE  training'.stage = "retrain_recommended"
      BY DEF Flagged
    <3>1. PICK anchor \in {0, events} : RefreshTraining(events, anchor)
      BY <1>3 DEF SettleSimulation
    <3>2. events' = events /\ report' = TRUE /\ training'.anchor = anchor
      BY <1>0, <1>3, <2>0, <3>1, RefreshType DEF SettleSimulation
    <3> QED BY <1>0, <3>1, <3>2, RefreshFlags
  <2> QED BY <2>1, <2>2
<1>4. CASE SettleFails(c)
  <2>0. request'[c] = NoRequest /\ report = TRUE
    BY <1>0, <1>4 DEF SettleFails, Become, OnTrack, Idle, At
  <2> QED BY <1>4, <2>0 DEF SettleFails, OnTrack, Archived, Vouched, Flagged, Idle,
                            At, NoRequest, sessionVars
<1> QED BY <1>1, <1>2, <1>3, <1>4

\* The steps of a training request keep the session coherent, each round from its
\* evaluation to its archive entry or its failure.
LEMMA TrainingCoherent ==
    ASSUME NEW c \in Clients, TypeOK, Coherent(c),
           \/ BeginIteration(c)
           \/ Publish(c)
           \/ RunChecks(c)
           \/ ArchiveRound(c)
           \/ Train(c)
           \/ RoundFails(c)
           \/ FinishIteration(c)
    PROVE  Coherent(c)'
<1> USE DEF Coherent, Idle, At
<1>0. /\ events \in Nat /\ package \in Package /\ checks \in CheckList
      /\ archive \in Seq(Report) /\ request \in [Clients -> Request]
      /\ request[c] \in Request /\ package.no \in Nat /\ checks.of \in Nat
      /\ Len(archive) \in Nat
  BY DEF TypeOK, Package, CheckList
<1>1. CASE BeginIteration(c)
  <2>1. /\ request'[c].at = "evaluate"
        /\ request'[c].no = package.no + 1
    BY <1>0, <1>1 DEF BeginIteration, Become, NoRequest
  <2> QED BY <1>0, <1>1, <2>1 DEF BeginIteration, sessionVars, OnTrack, Archived,
                                  Vouched, Flagged
<1>2. CASE Publish(c)
  <2>1. request'[c] = [request[c] EXCEPT !.at = "check"]
    BY <1>0, <1>2 DEF Publish, Goto
  <2>2. request'[c].at = "check"
    BY <1>0, <2>1 DEF Request
  <2>3. package'.no = package.no + 1 /\ package' # NoPackage
    BY <1>0, <1>2 DEF Publish, OnTrack, NoPackage
  <2> QED BY <1>0, <1>2, <2>2, <2>3 DEF Publish, OnTrack, Archived, Vouched, Flagged,
                                        NoPackage
<1>3. CASE RunChecks(c)
  <2>1. request'[c] = [request[c] EXCEPT !.at = "archive", !.failed = checks'.failed]
    BY <1>0, <1>3 DEF RunChecks, Become
  <2>2. request'[c].at = "archive" /\ request'[c].failed = checks'.failed
    BY <1>0, <2>1 DEF Request
  <2>3. checks'.of = package.no
    BY <1>3 DEF RunChecks, Verdicts
  <2>4. package # NoPackage /\ package.no > 0
    BY <1>0, <1>3 DEF RunChecks, OnTrack, NoPackage
  <2> QED BY <1>0, <1>3, <2>2, <2>3, <2>4 DEF RunChecks, OnTrack, Archived, Vouched,
                                              Flagged
<1>4. CASE ArchiveRound(c)
  <2>1. request'[c] = [request[c] EXCEPT !.at = "train"]
    BY <1>0, <1>4 DEF ArchiveRound, Goto
  <2>2. request'[c].at = "train" /\ request'[c].failed = request[c].failed
    BY <1>0, <2>1 DEF Request
  <2> DEFINE entry == [no |-> package.no, checksOf |-> checks.of,
                       failed |-> checks.failed]
  <2>3. archive' = Append(archive, entry) /\ entry \in Report
    BY <1>0, <1>4 DEF ArchiveRound, Report, Package, CheckList
  <2>4. Len(archive') = package.no /\ Len(archive) = package.no - 1
    BY <1>0, <1>4, <2>3 DEF ArchiveRound, Archived
  <2>5. \A i \in DOMAIN archive' : archive'[i].no = i /\ archive'[i].checksOf = i
    <3> SUFFICES ASSUME NEW i \in 1 .. Len(archive')
                 PROVE  archive'[i].no = i /\ archive'[i].checksOf = i
      BY <1>0, <2>3
    <3>1. CASE i \in 1 .. Len(archive)
      BY <1>0, <2>3, <3>1 DEF Archived
    <3>2. CASE i = package.no
      <4>1. archive'[i] = entry
        BY <1>0, <2>3, <2>4, <3>2
      <4>2. checks.of = package.no
        BY <1>4 DEF ArchiveRound, OnTrack
      <4> QED BY <3>2, <4>1, <4>2
    <3> QED BY <1>0, <2>4, <3>1, <3>2
  <2>6. OnTrack(c)'
    BY <1>0, <1>4, <2>2 DEF ArchiveRound, OnTrack
  <2>7. Archived(c)'
    <3>1. active # NoStrategy => active.no \in DOMAIN archive'
      BY <1>0, <2>3 DEF Archived
    <3> QED BY <1>4, <2>2, <2>4, <2>5, <3>1 DEF ArchiveRound, Archived
  <2> QED BY <2>2, <2>6, <2>7 DEF Vouched, Flagged
<1>5. CASE Train(c)
  <2>1. \/ request'[c] = [request[c] EXCEPT !.at = "finish"]
        \/ request'[c] = [request[c] EXCEPT !.at = "evaluate",
                                            !.rounds = @ - 1,
                                            !.no = package.no + 1]
    BY <1>0, <1>5 DEF Train, Goto, Become
  <2>2. \/ request'[c].at = "finish" /\ request'[c].failed = request[c].failed
        \/ request'[c].at = "evaluate" /\ request'[c].no = package.no + 1
    BY <1>0, <2>1 DEF Request
  <2>3. OnTrack(c)' /\ Archived(c)' /\ Vouched(c)'
    BY <1>0, <1>5, <2>2 DEF Train, OnTrack, Archived, Vouched
  <2>4. training'.anchor = events /\ events' = events
    BY <1>0, <1>5, RefreshType DEF Train, TypeOK, Training
  <2>5. ~(events' >= training'.anchor + DriftLimit)
    BY <1>0, <2>4, WorkflowAssumption
  <2> QED BY <2>3, <2>5 DEF Flagged
<1>6. CASE RoundFails(c)
  <2>1. request'[c] = NoRequest
    BY <1>0, <1>6 DEF RoundFails, Become
  <2> QED BY <1>0, <1>6, <2>1 DEF RoundFails, NoRequest, OnTrack, Archived, Vouched,
                                  Flagged
<1>7. CASE FinishIteration(c)
  <2>1. request'[c] = NoRequest
    BY <1>0, <1>7 DEF FinishIteration, Become
  <2>2. OnTrack(c)' /\ Vouched(c)' /\ Flagged(c)'
    BY <1>0, <1>7, <2>1 DEF FinishIteration, NoRequest, OnTrack, Vouched, Flagged
  <2>3. active' = active \/ active'.no = package.no
    BY <1>7 DEF FinishIteration, EnsureActive
  <2>4. package.no \in DOMAIN archive
    BY <1>0, <1>7 DEF FinishIteration, OnTrack, Archived
  <2> QED BY <1>0, <1>7, <2>1, <2>2, <2>3, <2>4 DEF FinishIteration, Archived, NoRequest
<1> QED BY <1>1, <1>2, <1>3, <1>4, <1>5, <1>6, <1>7

\* Going live leaves the phases the gate is about.
LEMMA DeployedPhases ==
    ASSUME NEW m \in {"autonomous", "advice_only"}
    PROVE  DeployedPhase[m] \in {"autonomous_active", "advice_only_active"}
  BY DEF DeployedPhase

\* Choosing, approving or deploying a version, or failing to, keeps the session
\* coherent.
LEMMA SelectionCoherent ==
    ASSUME NEW c \in Clients, TypeOK, Coherent(c),
           \/ GenerateScenarios(c)
           \/ InitializeMarket(c)
           \/ AdvanceMarket(c)
           \/ SetTradingPreferences(c)
           \/ SetTradeUniverse(c)
           \/ RecordActivity(c)
           \/ SetActiveTradingStrategy(c)
           \/ ApproveStrategy(c)
           \/ RefuseApproval(c)
           \/ SetDeployment(c)
    PROVE  Coherent(c)'
<1> USE DEF Coherent, Idle, At
<1>0. /\ events \in Nat /\ package \in Package /\ checks \in CheckList
      /\ archive \in Seq(Report) /\ request \in [Clients -> Request]
      /\ request[c] \in Request /\ package.no \in Nat /\ checks.of \in Nat
      /\ Len(archive) \in Nat /\ training.anchor \in Nat /\ training.baseline \in Nat
  BY DEF TypeOK, Package, CheckList, Training
<1>1. ASSUME UNCHANGED <<events, report, package, checks, lastLog>>,
             \/ RefreshTraining(training.baseline, training.anchor)
             \/ UNCHANGED training,
             request'[c].at = "idle", request[c].at = "idle"
      PROVE  Flagged(c)'
  <2>1. CASE RefreshTraining(training.baseline, training.anchor)
    <3> SUFFICES ASSUME package' # NoPackage,
                        events' >= training'.anchor + DriftLimit
                 PROVE  training'.stage = "retrain_recommended"
      BY DEF Flagged
    <3>1. events' \in Nat /\ report' = TRUE
      BY <1>0, <1>1 DEF OnTrack, TypeOK
    <3>2. training'.anchor = training.anchor
      BY <1>0, <2>1, <3>1, RefreshType
    <3> QED BY <1>0, <2>1, <3>1, <3>2, RefreshFlags
  <2>2. CASE UNCHANGED training
    BY <1>1, <2>2 DEF Flagged
  <2> QED BY <1>1, <2>1, <2>2
<1>2. ASSUME UNCHANGED <<report, package, checks, request>> PROVE OnTrack(c)'
  BY <1>2 DEF OnTrack
<1>3. ASSUME UNCHANGED <<package, archive, request>>, request[c].at = "idle",
             active' = active \/ active' \in References
      PROVE  Archived(c)'
  <2>1. CASE active' \in References
    <3>1. \/ active'.no = package.no /\ package.no # 0
          \/ \E i \in DOMAIN archive : active'.no = archive[i].no
      BY <2>1 DEF References
    <3>2. active'.no \in DOMAIN archive
      BY <1>0, <1>3, <3>1 DEF Archived
    <3> QED BY <1>3, <3>2 DEF Archived
  <2>2. CASE active' = active
    BY <1>3, <2>2 DEF Archived
  <2> QED BY <1>3, <2>1, <2>2
<1>4. CASE \/ GenerateScenarios(c) \/ InitializeMarket(c) \/ AdvanceMarket(c)
           \/ SetTradingPreferences(c) \/ SetTradeUniverse(c) \/ RecordActivity(c)
           \/ RefuseApproval(c) \/ SetDeployment(c)
  <2>1. /\ UNCHANGED <<events, report, package, checks, lastLog, archive, active, request>>
        /\ request[c].at = "idle"
        /\ \/ RefreshTraining(training.baseline, training.anchor)
           \/ UNCHANGED training
    BY <1>4 DEF GenerateScenarios, InitializeMarket, AdvanceMarket,
                SetTradingPreferences, SetTradeUniverse, RecordActivity,
                RefuseApproval, SetDeployment
  <2>2. Vouched(c)'
    <3>1. CASE SetDeployment(c)
      <4>1. phase' \in {"autonomous_active", "advice_only_active"}
        BY <3>1, DeployedPhases DEF SetDeployment
      <4> QED BY <4>1 DEF Vouched
    <3>2. CASE RefuseApproval(c)
      BY <3>2 DEF RefuseApproval, Approvable, Vouched
    <3> QED BY <1>4, <2>1, <3>1, <3>2
              DEF GenerateScenarios, InitializeMarket, AdvanceMarket,
                  SetTradingPreferences, SetTradeUniverse, RecordActivity, Vouched
  <2> QED BY <1>1, <1>2, <1>3, <2>1, <2>2
<1>5. CASE SetActiveTradingStrategy(c)
  <2>1. Vouched(c)'
    BY <1>5 DEF SetActiveTradingStrategy, Vouched
  <2> QED BY <1>1, <1>2, <1>3, <1>5, <2>1 DEF SetActiveTradingStrategy
<1>6. CASE ApproveStrategy(c)
  <2>1. package # NoPackage
    BY <1>0, <1>6 DEF ApproveStrategy, Approvable, OnTrack, NoPackage
  <2>2. Vouched(c)'
    BY <1>6, <2>1 DEF ApproveStrategy, Approvable, Vouched
  <2>3. active' = active \/ active' \in References
    BY <1>0, <1>6, <2>1 DEF ApproveStrategy, Approvable, EnsureActive, References, OnTrack
  <2> QED BY <1>1, <1>2, <1>3, <1>6, <2>2, <2>3 DEF ApproveStrategy, Approvable
<1> QED BY <1>4, <1>5, <1>6

\* The inductive invariant, for a session that one client uses at a time.
THEOREM SessionStaysCoherent ==
    ASSUME NEW CONSTANT c, Clients = {c}
    PROVE  Spec => []SessionInvariant
<1>1. c \in Clients
  OBVIOUS
<1>2. SessionInvariant <=> Coherent(c)
  BY DEF SessionInvariant
<1>3. Init => SessionInvariant
  BY <1>1, <1>2, InitCoherent
<1>4. TypeOK /\ SessionInvariant /\ [Next]_vars => SessionInvariant'
  <2> SUFFICES ASSUME TypeOK, Coherent(c), [Next]_vars PROVE Coherent(c)'
    BY DEF SessionInvariant
  <2>1. CASE UNCHANGED vars
    BY <1>1, <2>1, CoherentFrame DEF vars
  <2>2. CASE Step(c)
    BY <1>1, <2>2, SimulationCoherent, TrainingCoherent DEF Step
  <2>3. CASE Call(c)
    BY <1>1, <2>3, SimulationCoherent, TrainingCoherent, SelectionCoherent DEF Call
  <2> QED BY <2>1, <2>2, <2>3 DEF Next
<1> QED BY <1>3, <1>4, TypeCorrect, PTL DEF Spec

-----------------------------------------------------------------------------
(* What follows from it *)

\* Between requests the checks shown are those of the package shown.
THEOREM ChecksMatchPackage ==
    ASSUME NEW CONSTANT c, Clients = {c}
    PROVE  Spec => []ChecksDescribePackage
<1>1. SessionInvariant => ChecksDescribePackage
  BY DEF SessionInvariant, Coherent, OnTrack, ChecksDescribePackage, Quiescent,
         Idle, At
<1> QED BY <1>1, SessionStaysCoherent, PTL

\* Between requests the phase vouches for the checks of the package.
THEOREM PhaseMatchesChecks ==
    ASSUME NEW CONSTANT c, Clients = {c}
    PROVE  Spec => []PhaseAgreesWithChecks
<1>1. SessionInvariant => PhaseAgreesWithChecks
  BY DEF SessionInvariant, Coherent, Vouched, PhaseAgreesWithChecks, Quiescent, Idle
<1> QED BY <1>1, SessionStaysCoherent, PTL

\* Every version is archived once, in order, with its own checks.
THEOREM ArchiveTellsEveryVersion ==
    ASSUME NEW CONSTANT c, Clients = {c}
    PROVE  Spec => []ArchiveIsVersionHistory
<1>1. SessionInvariant => ArchiveIsVersionHistory
  BY DEF SessionInvariant, Coherent, Archived, ArchiveIsVersionHistory, Quiescent,
         Idle
<1> QED BY <1>1, SessionStaysCoherent, PTL

\* The selected version can always be found in the archive.
THEOREM ActiveStaysArchived ==
    ASSUME NEW CONSTANT c, Clients = {c}
    PROVE  Spec => []ActiveIsArchived
<1>1. SessionInvariant => ActiveIsArchived
  BY DEF SessionInvariant, Coherent, Archived, ActiveIsArchived
<1> QED BY <1>1, SessionStaysCoherent, PTL

\* Behaviour that drifted since the training is flagged.
THEOREM DriftStaysFlagged ==
    ASSUME NEW CONSTANT c, Clients = {c}
    PROVE  Spec => []DriftIsFlagged
<1>1. SessionInvariant => DriftIsFlagged
  BY DEF SessionInvariant, Coherent, Flagged, DriftIsFlagged, Quiescent, Idle
<1> QED BY <1>1, SessionStaysCoherent, PTL

\* Only the user moves the selection away from an archived version.
THEOREM SelectionStays ==
    ASSUME NEW CONSTANT c, Clients = {c}
    PROVE  Spec => SelectionIsKept
<1> DEFINE Kept == active.source = "archive" /\ active' # active
                     => active' \in References /\ phase' = phase /\ request' = request
<1>1. TypeOK /\ SessionInvariant /\ [Next]_vars => [Kept]_vars
  <2> SUFFICES ASSUME TypeOK, Coherent(c), [Next]_vars,
                      active.source = "archive", active' # active
               PROVE  active' \in References /\ phase' = phase /\ request' = request
    BY DEF SessionInvariant
  <2>1. active \in References
    <3>1. active.no \in DOMAIN archive /\ archive[active.no].no = active.no
      BY DEF Coherent, Archived, NoStrategy
    <3>2. active = [source |-> "archive", no |-> archive[active.no].no]
      BY <3>1 DEF TypeOK, Reference
    <3> QED BY <3>1, <3>2 DEF References
  <2>2. SetActiveTradingStrategy(c)
    <3>1. ~EnsureActive
      BY <2>1 DEF EnsureActive
    <3>2. CASE Step(c)
      BY <3>1, <3>2 DEF Step, SettleSimulation, SettleFails, Publish, RunChecks,
         ArchiveRound, Train, RoundFails, FinishIteration, sessionVars
    <3>3. CASE Call(c)
      BY <3>1, <3>3 DEF Call, GenerateScenarios, AppendBehaviorEvent,
         InitializeMarket, AdvanceMarket, CompleteSimulation, SetTradingPreferences,
         SetTradeUniverse, RecordActivity, BeginIteration, ApproveStrategy,
         RefuseApproval, SetDeployment, sessionVars
    <3> QED BY <3>2, <3>3 DEF Next, vars
  <2> QED BY <2>2 DEF SetActiveTradingStrategy
<1> QED BY <1>1, TypeCorrect, SessionStaysCoherent, PTL DEF SelectionIsKept, Spec

\* The session implements the review gate: its steps build, review, approve and
\* withdraw as ReviewGate does.  (That a review follows is left to TLC.)
THEOREM StepsRefineReviewGate ==
    ASSUME NEW CONSTANT c, Clients = {c}
    PROVE  Spec => Gate!Init /\ [][Gate!Next]_(Gate!gateVars)
<1>1. Init => Gate!Init
  BY DEF Init, Gate!Init, NoPackage
<1>2. TypeOK /\ SessionInvariant /\ [Next]_vars => [Gate!Next]_(Gate!gateVars)
  <2> SUFFICES ASSUME TypeOK, Coherent(c), [Next]_vars
               PROVE  [Gate!Next]_(Gate!gateVars)
    BY DEF SessionInvariant
  <2> USE DEF Gate!Next, Gate!gateVars
  <2>0. package.no \in Nat /\ checks.of \in Nat /\ checks.failed \in BOOLEAN
    BY DEF TypeOK, Package, CheckList
  <2>1. ASSUME UNCHANGED <<package, checks>>,
               phase' = phase \/ phase' # "strategy_approved"
        PROVE  [Gate!Next]_(Gate!gateVars)
    BY <2>1 DEF Gate!Withdraw
  <2>2. CASE Publish(c)
    <3>1. package'.no = package.no + 1 /\ checks' = checks /\ phase' = phase
          /\ checks.of = package.no
      BY <2>2 DEF Publish, Coherent, OnTrack, At
    <3> QED BY <2>0, <3>1 DEF Gate!Build
  <2>3. CASE RunChecks(c)
    <3>1. package' = package /\ phase' = phase /\ package.no > 0
          /\ checks.of # package.no /\ checks'.of = package.no
      BY <2>0, <2>3 DEF RunChecks, Verdicts, Coherent, OnTrack, At
    <3> QED BY <2>0, <3>1 DEF Gate!Review
  <2>4. CASE ApproveStrategy(c)
    <3>1. package' = package /\ checks' = checks /\ phase' = "strategy_approved"
          /\ package.no # 0 /\ checks.of = package.no /\ ~checks.failed
      BY <2>4 DEF ApproveStrategy, Approvable, Coherent, OnTrack, Idle, At
    <3> QED BY <3>1 DEF Gate!Approve
  <2>5. CASE Step(c) /\ ~Publish(c) /\ ~RunChecks(c)
    BY <2>1, <2>5 DEF Step, SettleSimulation, SettleFails, ArchiveRound, Train,
                      RoundFails, FinishIteration, sessionVars
  <2>6. CASE Call(c) /\ ~ApproveStrategy(c)
    <3>1. CASE SetDeployment(c)
      <4>1. phase' \in {"autonomous_active", "advice_only_active"}
        BY <3>1, DeployedPhases DEF SetDeployment
      <4> QED BY <2>1, <3>1, <4>1 DEF SetDeployment
    <3>2. CASE ~SetDeployment(c)
      BY <2>1, <2>6, <3>2 DEF Call, GenerateScenarios, AppendBehaviorEvent,
         InitializeMarket, AdvanceMarket, CompleteSimulation, SetTradingPreferences,
         SetTradeUniverse, RecordActivity, BeginIteration, SetActiveTradingStrategy,
         RefuseApproval, sessionVars
    <3> QED BY <3>1, <3>2
  <2>7. CASE UNCHANGED vars
    BY <2>1, <2>7 DEF vars
  <2> QED BY <2>2, <2>3, <2>4, <2>5, <2>6, <2>7 DEF Next
<1> QED BY <1>1, <1>2, TypeCorrect, SessionStaysCoherent, PTL DEF Spec
=============================================================================
