------------------------ MODULE TrainingData_proofs ------------------------
(***************************************************************************)
(* Proofs about DatasetPlan and TrainingData: the three dataset plans are  *)
(* sound for every period they are made for, and every package of a        *)
(* session was trained on a sound plan and rests on real bars of it, for   *)
(* any symbols, providers, windows and local files.                        *)
(***************************************************************************)
EXTENDS TrainingData, WellFoundedInduction, TLAPS

-----------------------------------------------------------------------------
(* The plans *)

Period == [from : Int, to : Int]

\* Where the lengths leave days to train on, the splits follow one another
\* from the first day of the period to the last.
LEMMA SplitsFollow ==
    ASSUME NEW from \in Int, NEW to \in Int, NEW val \in Nat \ {0}, NEW test \in Nat \ {0},
           to - from + 1 - val - test > 0
    PROVE  LET s == Splits([from |-> from, to |-> to], [validation |-> val, test |-> test])
           IN  /\ s.train.from = from
               /\ s.train.to = to - val - test
               /\ s.validation.from = to - val - test + 1
               /\ s.validation.to = to - test
               /\ s.test.from = to - test + 1
               /\ s.test.to = to
  BY DEF Splits, TrainDays, Days

\* The floors of a chosen window are never reached: half a year leaves more
\* than ninety days beside two sixths of it.
LEMMA WindowLengthsSuffice ==
    ASSUME NEW total \in Int, total >= 180
    PROVE  LET held == Clamp(30, 120, total \div 6)
           IN  /\ WindowLengths(total) = [validation |-> held, test |-> held]
               /\ held \in 30..120
               /\ total - 2 * held >= 90
  <1> DEFINE held == Clamp(30, 120, total \div 6)
  <1>1. held \in 30..120 /\ 6 * held <= total
    BY DEF Clamp, Larger, Smaller
  <1> HIDE DEF held
  <1>2. 90 - (total - 2 * held) <= 0
    BY <1>1
  <1>3. Shortened(total, held, 30, 90) = [validation |-> held, test |-> held]
    BY <1>1, <1>2 DEF Shortened
  <1> QED BY <1>1, <1>2, <1>3 DEF WindowLengths, held

\* Nor those of a recent listing: sixty days leave twenty.
LEMMA RecentLengthsSuffice ==
    ASSUME NEW total \in Int, total >= 60
    PROVE  LET held == Clamp(20, 40, total \div 4)
           IN  /\ RecentLengths(total) = [validation |-> held, test |-> held]
               /\ held \in 20..40
               /\ total - 2 * held >= 20
  <1> DEFINE held == Clamp(20, 40, total \div 4)
  <1>1. held \in 20..40 /\ (4 * held <= total \/ held = 20)
    BY DEF Clamp, Larger, Smaller
  <1> HIDE DEF held
  <1>2. 20 - (total - 2 * held) <= 0
    BY <1>1
  <1>3. Shortened(total, held, 20, 20) = [validation |-> held, test |-> held]
    BY <1>1, <1>2 DEF Shortened
  <1> QED BY <1>1, <1>2, <1>3 DEF RecentLengths, held

\* A walk-forward window begins its training in the period, ends it the day
\* before the evaluation, and is evaluated from its first day to its last.
LEMMA ForwardFields ==
    ASSUME NEW start \in Int, NEW first \in Int, NEW last \in Int, NEW span \in Int
    PROVE  /\ Forward(start, first, last, span).train.from \in Int
           /\ start <= Forward(start, first, last, span).train.from
           /\ Forward(start, first, last, span).train.to = first - 1
           /\ Forward(start, first, last, span).validation.from = first
           /\ Forward(start, first, last, span).validation.to = last
  BY DEF Forward, Larger

\* What a walk-forward window of a plan must satisfy, beside its evaluation
\* staying in the validation split.
WalkIsSound(start, val, w) ==
    /\ start <= w.train.from
    /\ w.train.from < w.train.to
    /\ w.train.to < w.validation.from
    /\ w.validation.from <= w.validation.to
    /\ val.from <= w.validation.from
    /\ w.validation.to <= val.to

\* The windows of a chosen period.
LEMMA WindowWalksAreSound ==
    ASSUME NEW s, s.train.from \in Int, s.train.to \in Int,
           s.validation.from \in Int, s.validation.to \in Int,
           NEW w \in WindowWalks(s)
    PROVE  WalkIsSound(s.train.from, s.validation, w)
  <1> DEFINE val  == s.validation
             step == Clamp(20, 60, Days(val) \div 2)
             span == Clamp(120, 365, Days(s.train))
             Walk(i) == Forward(s.train.from, val.to - (i + 1) * step + 1,
                                val.to - i * step, span)
  <1>1. step \in 20..60 /\ span \in Int
    BY DEF Clamp, Larger, Smaller, Days
  <1>2. PICK i \in 0..2 : w = Walk(i)
    BY DEF WindowWalks
  <1>3. w.validation.from >= val.from /\ w.train.to > w.train.from
    BY DEF WindowWalks
  <1> HIDE DEF step, span
  <1>4. /\ (i + 1) * step \in Int /\ i * step \in Int
        /\ (i + 1) * step >= i * step + 20 /\ i * step >= 0
    <2>1. CASE i = 0
      BY <1>1, <2>1
    <2>2. CASE i = 1
      BY <1>1, <2>2
    <2>3. CASE i = 2
      BY <1>1, <2>3
    <2> QED BY <2>1, <2>2, <2>3
  <1> DEFINE start == s.train.from
             first == val.to - (i + 1) * step + 1
             last  == val.to - i * step
  <1>5. /\ start \in Int /\ first \in Int /\ last \in Int
        /\ first <= last /\ last <= val.to
    BY <1>4
  <1>6. w = Forward(start, first, last, span)
    BY <1>2
  <1> HIDE DEF start, first, last
  <1>7. /\ w.train.from \in Int /\ start <= w.train.from
        /\ w.train.to = first - 1
        /\ w.validation.from = first
        /\ w.validation.to = last
    BY <1>1, <1>5, <1>6, ForwardFields
  <1> QED BY <1>3, <1>5, <1>7 DEF WalkIsSound, start

\* The window of a recent listing.
LEMMA RecentWalksAreSound ==
    ASSUME NEW s, s.train.from \in Int, s.train.to \in Int,
           s.validation.from \in Int, s.validation.to \in Int,
           Days(s.validation) >= 20,
           NEW w \in RecentWalks(s)
    PROVE  WalkIsSound(s.train.from, s.validation, w)
  <1> DEFINE val   == s.validation
             first == val.to - Clamp(10, 20, Days(val)) + 1
             span  == Larger(20, Smaller(Days(s.train), 90))
  <1>1. first \in Int /\ span \in Int /\ val.from <= first /\ first <= val.to
    BY DEF Clamp, Larger, Smaller, Days
  <1> DEFINE start == s.train.from
             last  == val.to
  <1>2. w.train.to > w.train.from
    BY DEF RecentWalks
  <1>3. w = Forward(start, first, last, span)
    BY DEF RecentWalks
  <1>4. start \in Int /\ first \in Int /\ last \in Int /\ span \in Int
    BY <1>1
  <1> HIDE DEF first, span, start, last
  <1>5. /\ w.train.from \in Int /\ start <= w.train.from
        /\ w.train.to = first - 1
        /\ w.validation.from = first
        /\ w.validation.to = last
    <2>1. /\ Forward(start, first, last, span).train.from \in Int
          /\ start <= Forward(start, first, last, span).train.from
      BY <1>4, ForwardFields
    <2>2. Forward(start, first, last, span).train.to = first - 1
      BY <1>4, ForwardFields
    <2>3. Forward(start, first, last, span).validation.from = first
      BY <1>4, ForwardFields
    <2>4. Forward(start, first, last, span).validation.to = last
      BY <1>4, ForwardFields
    <2> QED BY <1>3, <2>1, <2>2, <2>3, <2>4
  <1> QED BY <1>1, <1>2, <1>4, <1>5 DEF WalkIsSound, start, last

\* Splits that follow one another and sound windows make a sound plan.
LEMMA PlanOfSoundParts ==
    ASSUME NEW kind, NEW s, NEW walks,
           s.train.from <= s.train.to,
           s.validation.from = s.train.to + 1, s.validation.from <= s.validation.to,
           s.test.from = s.validation.to + 1, s.test.from <= s.test.to,
           \A w \in walks : WalkIsSound(s.train.from, s.validation, w)
    PROVE  SoundPlan(Plan(kind, s, walks))
  BY DEF Plan, SoundPlan, Consecutive, NoLookAhead, TestIsKept, WalkIsSound

\* A window that is accepted can always be cut, and its plan is sound: the
\* refusal for too few days of training never happens.
THEOREM WindowPlanIsSound ==
    ASSUME NEW p \in Period, WindowAccepted(p)
    PROVE  WindowPossible(p) /\ SoundPlan(WindowPlan(p))
  <1> DEFINE total == Days(p)
             held == Clamp(30, 120, total \div 6)
             s == Splits(p, WindowLengths(total))
  <1>1. total \in Int /\ total >= 180 /\ p.from \in Int /\ p.to \in Int
    BY DEF Period, WindowAccepted, Days
  <1>2. /\ WindowLengths(total) = [validation |-> held, test |-> held]
        /\ held \in 30..120
        /\ total - 2 * held >= 90
    BY <1>1, WindowLengthsSuffice
  <1> HIDE DEF held
  <1>3. WindowPossible(p)
    BY <1>1, <1>2 DEF WindowPossible, TrainDays
  <1>4. /\ s.train.from = p.from
        /\ s.train.to = p.to - held - held
        /\ s.validation.from = p.to - held - held + 1
        /\ s.validation.to = p.to - held
        /\ s.test.from = p.to - held + 1
        /\ s.test.to = p.to
    BY <1>1, <1>2, SplitsFollow, p = [from |-> p.from, to |-> p.to] DEF Days, Period
  <1>5. total = p.to - p.from + 1
    BY DEF Days
  <1> HIDE DEF total, s
  <1>6. \A w \in WindowWalks(s) : WalkIsSound(s.train.from, s.validation, w)
    BY <1>1, <1>2, <1>4, WindowWalksAreSound
  <1>7. SoundPlan(Plan("window", s, WindowWalks(s)))
    BY <1>1, <1>2, <1>4, <1>5, <1>6, PlanOfSoundParts
  <1> QED BY <1>3, <1>7 DEF WindowPlan, s, total

\* So can a recent listing of sixty days, which covers its plan.
THEOREM RecentPlanIsSound ==
    ASSUME NEW p \in Period, RecentAccepted(p)
    PROVE  /\ RecentPossible(p)
           /\ SoundPlan(RecentPlan(p))
           /\ Covers(p, RecentPlan(p))
  <1> DEFINE total == Days(p)
             held == Clamp(20, 40, total \div 4)
             s == Splits(p, RecentLengths(total))
  <1>1. total \in Int /\ total >= 60 /\ p.from \in Int /\ p.to \in Int
    BY DEF Period, RecentAccepted, Days
  <1>2. /\ RecentLengths(total) = [validation |-> held, test |-> held]
        /\ held \in 20..40
        /\ total - 2 * held >= 20
    BY <1>1, RecentLengthsSuffice
  <1> HIDE DEF held
  <1>3. RecentPossible(p)
    BY <1>1, <1>2 DEF RecentPossible, TrainDays
  <1>4. /\ s.train.from = p.from
        /\ s.train.to = p.to - held - held
        /\ s.validation.from = p.to - held - held + 1
        /\ s.validation.to = p.to - held
        /\ s.test.from = p.to - held + 1
        /\ s.test.to = p.to
    BY <1>1, <1>2, SplitsFollow, p = [from |-> p.from, to |-> p.to] DEF Days, Period
  <1>5. total = p.to - p.from + 1
    BY DEF Days
  <1> HIDE DEF total, s
  <1>6. \A w \in RecentWalks(s) : WalkIsSound(s.train.from, s.validation, w)
    <2>1. Days(s.validation) >= 20
      BY <1>1, <1>2, <1>4 DEF Days
    <2> QED BY <1>1, <1>2, <1>4, <2>1, RecentWalksAreSound
  <1>7. SoundPlan(Plan("recent", s, RecentWalks(s)))
    BY <1>1, <1>2, <1>4, <1>5, <1>6, PlanOfSoundParts
  <1>8. Covers(p, Plan("recent", s, RecentWalks(s)))
    BY <1>1, <1>4 DEF Covers, Plan
  <1> QED BY <1>3, <1>7, <1>8 DEF RecentPlan, s, total

\* And so can the two and a half years before the day of any round.
THEOREM DefaultPlanIsSound ==
    ASSUME NEW today \in Int, NEW n \in Nat
    PROVE  SoundPlan(DefaultPlan(today, n))
  <1> DEFINE last == today - (n - 1) * 7
             s == Splits([from |-> last - 909, to |-> last], [validation |-> 90, test |-> 90])
             Walk(i) == LET anchor == s.validation.to - i * 90
                        IN  [train      |-> [from |-> anchor - 179, to |-> anchor],
                             validation |-> [from |-> anchor + 1, to |-> anchor + 45]]
             walks == {Walk(i) : i \in 0..2}
  <1>1. last \in Int
    OBVIOUS
  <1> HIDE DEF last
  <1>2. /\ s.train.from = last - 909
        /\ s.train.to = last - 90 - 90
        /\ s.validation.from = last - 90 - 90 + 1
        /\ s.validation.to = last - 90
        /\ s.test.from = last - 90 + 1
        /\ s.test.to = last
    BY <1>1, SplitsFollow
  <1> HIDE DEF s
  <1>3. ASSUME NEW w \in walks
        PROVE  /\ s.train.from <= w.train.from /\ w.train.from < w.train.to
               /\ w.train.to < w.validation.from /\ w.validation.from <= w.validation.to
    <2>1. PICK i \in 0..2 : w = Walk(i)
      BY <1>3
    <2>2. i = 0 \/ i = 1 \/ i = 2
      OBVIOUS
    <2> QED BY <1>1, <1>2, <2>1, <2>2
  <1>4. SoundPlan(Plan("default", s, walks))
    BY <1>1, <1>2, <1>3 DEF Plan, SoundPlan, Consecutive, NoLookAhead
  <1> QED BY <1>4 DEF DefaultPlan, last, s
-----------------------------------------------------------------------------
(* Histories *)

MaybeHistory == Histories \cup {NoHistory}

\* A set of days has a first one.
LEMMA FirstDayExists ==
    ASSUME NEW T \in SUBSET Nat, T # {}
    PROVE  \E x \in T : \A y \in T : x <= y
  <1> DEFINE R == OpToRel(<, Nat)
  <1>1. PICK x \in T : \A y \in T : ~ (<<y, x>> \in R)
    BY NatLessThanWellFounded, WFMin, Zenon
  <1>2. ASSUME NEW y \in T PROVE x <= y
    <2>1. ~ (<<y, x>> \in {ss \in Nat \X Nat : ss[1] < ss[2]})
      BY <1>1 DEF OpToRel
    <2> QED BY <2>1
  <1> QED BY <1>2

\* And, when no day is later than the latest bars, a last one.
LEMMA LastDayExists ==
    ASSUME NEW T \in SUBSET (0..LastBar), T # {}, LastBar \in Nat
    PROVE  \E x \in T : \A y \in T : y <= x
  <1> DEFINE U == {LastBar - y : y \in T}
  <1>1. U \in SUBSET Nat /\ U # {}
    OBVIOUS
  <1>2. PICK u \in U : \A v \in U : u <= v
    BY <1>1, FirstDayExists
  <1>3. PICK x \in T : u = LastBar - x
    BY <1>2
  <1>4. ASSUME NEW y \in T PROVE y <= x
    BY <1>2, <1>3
  <1> QED BY <1>4

\* The shared period is one from the first day of some history to the last of
\* some.
LEMMA CommonIsPeriod ==
    ASSUME NEW h, \A s \in Symbols : h[s] \in Histories
    PROVE  Common(h) \in Period
  <1> DEFINE firsts == {h[s].from : s \in Symbols}
             lasts  == {h[s].to : s \in Symbols}
  <1>1. \A s \in Symbols : h[s].from \in 0..LastBar /\ h[s].to \in 0..LastBar
    BY DEF Histories
  <1>2. /\ LastBar \in Nat /\ Symbols # {}
        /\ firsts \in SUBSET (0..LastBar) /\ firsts # {}
        /\ lasts \in SUBSET Nat /\ lasts # {}
    BY <1>1, TrainingDataAssumption
  <1>3. \E d \in firsts : \A s \in Symbols : h[s].from <= d
    BY <1>2, LastDayExists
  <1>4. \E d \in lasts : \A s \in Symbols : d <= h[s].to
    <2>1. PICK d \in lasts : \A y \in lasts : d <= y
      BY <1>2, FirstDayExists
    <2> QED BY <2>1
  <1> DEFINE first == CHOOSE d \in firsts : \A s \in Symbols : h[s].from <= d
             last  == CHOOSE d \in lasts : \A s \in Symbols : d <= h[s].to
  <1>5. first \in firsts /\ last \in lasts
    BY <1>3, <1>4
  <1>6. Common(h) = [from |-> first, to |-> last]
    BY DEF Common
  <1> HIDE DEF first, last, firsts, lasts
  <1> QED BY <1>2, <1>5, <1>6 DEF Period

\* A cache of responses holds histories.
HoldsHistories(cache) == \A r \in cache : r.history \in MaybeHistory

\* The local files and the cached responses hold histories.
HistoriesHeld ==
    /\ local \in [Symbols -> MaybeHistory]
    /\ HoldsHistories(responses)

LEMMA HeldIsHistory ==
    ASSUME HistoriesHeld, NEW cache, HoldsHistories(cache), NEW p, NEW s \in Symbols, NEW span
    PROVE  Held(p, s, span, cache) \in MaybeHistory
  <1>1. Listed[s] \in 0..LastBar /\ LastBar \in Nat
    BY TrainingDataAssumption
  <1>2. /\ Yahoo(s, span) \in Histories
        /\ Alphavantage(s) \in Histories
        /\ Finnhub(s) \in Histories
        /\ Akshare(s) \in Histories
    BY <1>1 DEF Yahoo, Alphavantage, Finnhub, Akshare, Bars, Histories, Larger
  <1>3. LocalFile(s) \in MaybeHistory
    BY DEF HistoriesHeld, LocalFile
  <1>4. CASE Responses(p, s, span, cache) # {}
    <2>1. (CHOOSE r \in Responses(p, s, span, cache) : TRUE) \in Responses(p, s, span, cache)
      BY <1>4
    <2>2. (CHOOSE r \in Responses(p, s, span, cache) : TRUE) \in cache
      BY <2>1 DEF Responses
    <2> QED BY <1>4, <2>2 DEF Held, HoldsHistories
  <1>5. CASE Responses(p, s, span, cache) = {}
    BY <1>2, <1>3, <1>5 DEF Held, MaybeHistory
  <1> QED BY <1>4, <1>5

\* Whoever serves the symbols, what is collected and what the cache holds
\* afterwards are histories.
LEMMA CollectedAreHistories ==
    ASSUME HistoriesHeld, NEW cache, HoldsHistories(cache), NEW w, NEW span
    PROVE  /\ HistoriesOf(w, span, cache) \in [Symbols -> MaybeHistory]
           /\ HoldsHistories(Asked(w, span, cache))
  <1>1. HistoriesOf(w, span, cache) \in [Symbols -> MaybeHistory]
    BY HeldIsHistory DEF HistoriesOf, MaybeHistory
  <1>2. ASSUME NEW r \in Asked(w, span, cache) PROVE r.history \in MaybeHistory
    <2> DEFINE Response(p, s, history) ==
                   [provider |-> p, symbol |-> s, span |-> span, history |-> history]
               served == {s \in Symbols : w[s].by \notin {"nobody", "generated"}}
    <2>1. CASE r \in cache
      BY <2>1 DEF HoldsHistories
    <2>2. CASE r \in {Response(w[s].by, s, Held(w[s].by, s, span, cache)) : s \in served}
      <3>1. PICK s \in Symbols : r = Response(w[s].by, s, Held(w[s].by, s, span, cache))
        BY <2>2
      <3> QED BY <3>1, HeldIsHistory
    <2>3. CASE r \in UNION {{Response(p, s, NoHistory) : p \in w[s].empty} : s \in Symbols}
      <3>1. PICK s \in Symbols : r \in {Response(p, s, NoHistory) : p \in w[s].empty}
        BY <2>3
      <3>2. PICK p \in w[s].empty : r = Response(p, s, NoHistory)
        BY <3>1
      <3> QED BY <3>2 DEF MaybeHistory
    <2> QED BY <1>2, <2>1, <2>2, <2>3 DEF Asked
  <1> QED BY <1>1, <1>2 DEF HoldsHistories

-----------------------------------------------------------------------------
(* The requests *)

Real == "local_history_backtest"

\* Every split of a plan has bars of some symbol.
RestsOnBars(bars, plan) ==
    \A split \in SplitsOf(plan) : \E s \in Symbols : InPeriod(bars[s], split)

\* A window that passed the checks of a request, or none.
Usable(window) == window # NoWindow => window \in Windows /\ WindowAccepted(window)

\* A request in progress has a sound plan and, once it evaluates, histories
\* that share every day of it.
RequestIsSound(request) ==
    /\ {"at", "stage", "plan", "common", "window", "rounds", "context"} \subseteq DOMAIN request
    /\ Usable(request.window)
    /\ SoundPlan(request.plan)
    /\ request.at = "evaluate" => Covers(request.common, request.plan)

\* A package was trained on a sound plan, its histories share every day of
\* it, and so do the bars of each evaluation it was chosen by.
PackageIsSound(made) ==
    /\ SoundPlan(made.plan)
    /\ Covers(made.common, made.plan)
    /\ \A e \in made.evaluated : e.key.plan = made.plan /\ RestsOnBars(e.bars, made.plan)

\* An evaluation that says it was made on history was.
EvaluationsAreLabelled ==
    \A e \in evaluations : e.source = Real => RestsOnBars(e.bars, e.key.plan)

\* The inductive invariant.
DataInvariant ==
    /\ HistoriesHeld
    /\ EvaluationsAreLabelled
    /\ package.iteration \in Nat
    /\ training # Idle => RequestIsSound(training)
    /\ package # NoPackage => PackageIsSound(package)

LEMMA InitData == Init => DataInvariant
  BY TrainingDataAssumption
  DEF Init, DataInvariant, HistoriesHeld, HoldsHistories, EvaluationsAreLabelled, MaybeHistory, NoPackage

\* A round begins with a sound plan.
LEMMA RoundIsSound ==
    ASSUME NEW context, NEW window, NEW iteration \in Nat, NEW rounds, Usable(window)
    PROVE  RequestIsSound(Round(context, window, iteration, rounds))
  <1>1. SoundPlan(Planned(window, iteration))
    <2>1. CASE window = NoWindow
      BY <2>1, TrainingDataAssumption, DefaultPlanIsSound DEF Planned
    <2>2. CASE window # NoWindow
      <3>1. window \in Period /\ WindowAccepted(window)
        BY <2>2, TrainingDataAssumption DEF Usable, Period
      <3> QED BY <2>2, <3>1, WindowPlanIsSound DEF Planned
    <2> QED BY <2>1, <2>2
  <1> DEFINE plan == Planned(window, iteration)
  <1> HIDE DEF plan
  <1>2. Round(context, window, iteration, rounds) =
            [at |-> "collect", stage |-> "first", context |-> context,
             window |-> window, rounds |-> rounds, plan |-> plan, common |-> NoHistory]
    BY DEF Round, plan
  <1>3. SoundPlan(plan)
    BY <1>1 DEF plan
  <1> QED BY <1>2, <1>3 DEF RequestIsSound

\* A request that goes on to evaluate keeps its window.
LEMMA EvaluatingIsSound ==
    ASSUME NEW request, RequestIsSound(request), NEW plan, NEW period,
           SoundPlan(plan), Covers(period, plan)
    PROVE  RequestIsSound([request EXCEPT !.at = "evaluate", !.plan = plan, !.common = period])
  BY DEF RequestIsSound

\* A request that goes on to a backfill, or back from it, keeps its plan.
LEMMA WaitingIsSound ==
    ASSUME NEW request, RequestIsSound(request), NEW stage
    PROVE  /\ RequestIsSound([request EXCEPT !.at = "backfill", !.stage = stage])
           /\ RequestIsSound([request EXCEPT !.at = "collect"])
  BY DEF RequestIsSound

-----------------------------------------------------------------------------
(* The steps *)

LEMMA BeginKeepsData ==
    ASSUME DataInvariant, NEW type, NEW needs, NEW window \in Windows \cup {NoWindow},
           NEW rounds, NEW feedback, Begin(type, needs, window, rounds, feedback)
    PROVE  DataInvariant'
  <1>1. UNCHANGED <<local, responses, evaluations, package>>
    BY DEF Begin, marketVars
  <1>2. training' # Idle => RequestIsSound(training')
    <2> DEFINE prof == IF feedback THEN profile + 1 ELSE profile
               context == Context(type, prof)
               iteration == package.iteration + 1
    <2>1. \/ training' = Idle
          \/ /\ training' = Round(context, window, iteration, rounds)
             /\ window # NoWindow => WindowAccepted(window)
      BY DEF Begin, Refuse
    <2>2. iteration \in Nat
      BY DEF DataInvariant
    <2> HIDE DEF context, iteration
    <2> QED BY <2>1, <2>2, RoundIsSound DEF Usable
  <1> QED BY <1>1, <1>2 DEF DataInvariant, HistoriesHeld, EvaluationsAreLabelled

\* What the histories lead to.
LEMMA ResolveIsSound ==
    ASSUME DataInvariant, training # Idle, NEW h \in [Symbols -> MaybeHistory], Resolve(h)
    PROVE  training' # Idle => RequestIsSound(training')
  <1>0. RequestIsSound(training)
    BY DEF DataInvariant
  <1>1. CASE training' = Idle
    BY <1>1
  <1>2. CASE \E stage : Backfill(stage)
    <2>1. PICK stage : training' = [training EXCEPT !.at = "backfill", !.stage = stage]
      BY <1>2 DEF Backfill
    <2> DEFINE backfill == [training EXCEPT !.at = "backfill", !.stage = stage]
    <2>2. RequestIsSound(backfill)
      BY <1>0, WaitingIsSound
    <2> QED BY <2>1, <2>2
  <1>3. CASE /\ Missing(h) = {}
             /\ \E period \in {Common(h)} :
                  \/ Covers(period, training.plan) /\ Evaluate(training.plan, period)
                  \/ RecentAccepted(period) /\ Evaluate(RecentPlan(period), period)
    <2>1. \A s \in Symbols : h[s] \in Histories
      BY <1>3 DEF Missing, MaybeHistory
    <2>2. Common(h) \in Period
      BY <2>1, CommonIsPeriod
    <2>3. CASE Covers(Common(h), training.plan) /\ Evaluate(training.plan, Common(h))
      BY <1>0, <2>3, EvaluatingIsSound DEF Evaluate, RequestIsSound
    <2>4. CASE RecentAccepted(Common(h)) /\ Evaluate(RecentPlan(Common(h)), Common(h))
      <3>1. SoundPlan(RecentPlan(Common(h))) /\ Covers(Common(h), RecentPlan(Common(h)))
        BY <2>2, <2>4, RecentPlanIsSound
      <3> QED BY <1>0, <2>4, <3>1, EvaluatingIsSound DEF Evaluate
    <2> QED BY <1>3, <2>3, <2>4
  <1> QED BY <1>1, <1>2, <1>3 DEF Resolve, Refuse

LEMMA CollectKeepsData ==
    ASSUME DataInvariant, Collect
    PROVE  DataInvariant'
  <1>1. UNCHANGED <<local, evaluations, package>>
    BY DEF Collect
  <1>2. training # Idle
    BY DEF Collect, Idle
  <1>3. PICK w \in Servings(Providers, "10y", responses) :
            /\ responses' = Asked(w, "10y", responses)
            /\ Resolve(HistoriesOf(w, "10y", responses))
    BY DEF Collect
  <1>4. HistoriesHeld /\ HoldsHistories(responses)
    BY DEF DataInvariant, HistoriesHeld
  <1>5. /\ HistoriesOf(w, "10y", responses) \in [Symbols -> MaybeHistory]
        /\ HoldsHistories(responses')
    BY <1>3, <1>4, CollectedAreHistories
  <1>6. training' # Idle => RequestIsSound(training')
    BY <1>2, <1>3, <1>5, ResolveIsSound
  <1> QED BY <1>1, <1>5, <1>6 DEF DataInvariant, HistoriesHeld, EvaluationsAreLabelled

LEMMA BackfilledKeepsData ==
    ASSUME DataInvariant, Backfilled
    PROVE  DataInvariant'
  <1>1. UNCHANGED <<evaluations, package>> /\ training # Idle
    BY DEF Backfilled, Idle
  <1>2. RequestIsSound(training')
    BY <1>1, WaitingIsSound DEF Backfilled, DataInvariant
  <1>3. PICK early \in SUBSET Symbols :
            \E cache \in {CachedFor(early)} :
            \E w \in Servings(BackfillOrder, "10y", cache) :
               /\ local' = [s \in Symbols |-> IF s \in Brings(w)
                               THEN HistoriesOf(w, "10y", cache)[s] ELSE local[s]]
               /\ \E late \in SUBSET Symbols :
                     responses' = {r \in Asked(w, "10y", cache) : r.symbol \in late}
    BY DEF Backfilled
  <1> DEFINE cache == CachedFor(early)
  <1>4. PICK w \in Servings(BackfillOrder, "10y", cache), late \in SUBSET Symbols :
            /\ local' = [s \in Symbols |-> IF s \in Brings(w)
                            THEN HistoriesOf(w, "10y", cache)[s] ELSE local[s]]
            /\ responses' = {r \in Asked(w, "10y", cache) : r.symbol \in late}
    BY <1>3
  <1>5. HistoriesHeld /\ HoldsHistories(cache)
    BY DEF DataInvariant, HistoriesHeld, HoldsHistories, CachedFor
  <1>6. /\ HistoriesOf(w, "10y", cache) \in [Symbols -> MaybeHistory]
        /\ HoldsHistories(Asked(w, "10y", cache))
    BY <1>5, CollectedAreHistories
  <1>7. local' \in [Symbols -> MaybeHistory]
    BY <1>4, <1>5, <1>6 DEF HistoriesHeld
  <1>8. HoldsHistories(responses')
    BY <1>4, <1>6 DEF HoldsHistories
  <1> QED BY <1>1, <1>2, <1>7, <1>8 DEF DataInvariant, HistoriesHeld, EvaluationsAreLabelled

\* An evaluation of the request's plan that is labelled for what it rests on.
Labelled(e) ==
    /\ e.key.plan = training.plan
    /\ e.source = Real => RestsOnBars(e.bars, e.key.plan)

\* Every evaluation made in the round is.
LEMMA EvaluationIsLabelled ==
    ASSUME NEW who, NEW bars
    PROVE  Labelled(Evaluation(who, bars))
  <1>1. /\ Evaluation(who, bars).key.plan = training.plan
        /\ Evaluation(who, bars).bars = bars
        /\ Evaluation(who, bars).source = Real =>
               \A split \in SplitsOf(training.plan) : Measured(bars, split)
    BY DEF Evaluation, EvaluationKey, SourceOf, Real
  <1>2. ASSUME NEW split, Measured(bars, split)
        PROVE  \E s \in Symbols : InPeriod(bars[s], split)
    BY <1>2 DEF Measured, Tested
  <1> QED BY <1>1, <1>2 DEF Labelled, RestsOnBars

\* What a candidate is evaluated on is fetched into the cache of responses.
LEMMA EvaluatingHoldsHistories ==
    ASSUME HistoriesHeld, NEW who, NEW cache, HoldsHistories(cache),
           NEW candidate \in EvaluatedOn(who, cache)
    PROVE  HoldsHistories(candidate.cache)
  <1>1. CASE candidate \in {[bars |-> e.bars, cache |-> cache] : e \in Kept(who)}
    BY <1>1
  <1>2. CASE \E w \in Servings(Providers, "6mo", cache) :
                 candidate = [bars  |-> HistoriesOf(w, "6mo", cache),
                              cache |-> Asked(w, "6mo", cache)]
    BY <1>2, CollectedAreHistories
  <1> QED BY <1>1, <1>2 DEF EvaluatedOn

\* A round that ends well leaves a package that rests on its evaluations.
LEMMA FinishIsSound ==
    ASSUME DataInvariant, training # Idle, training.at = "evaluate",
           NEW evaluated, Finish(evaluated),
           \A e \in evaluated : Labelled(e)
    PROVE  /\ package'.iteration \in Nat
           /\ package' # NoPackage => PackageIsSound(package')
           /\ training' # Idle => RequestIsSound(training')
  <1>1. RequestIsSound(training) /\ package.iteration \in Nat
    BY DEF DataInvariant
  <1>2. CASE Refuse("surrogate", {}) /\ UNCHANGED package
    BY <1>2 DEF Refuse, DataInvariant
  <1>3. CASE /\ \A e \in evaluated : e.source = Real
             /\ package' = [iteration |-> package.iteration + 1, plan |-> training.plan,
                            common |-> training.common, evaluated |-> evaluated]
             /\ \/ training' = Idle
                \/ training' = Round(training.context, training.window,
                                     package'.iteration + 1, training.rounds - 1)
    <2>1. package'.iteration \in Nat
      BY <1>1, <1>3
    <2>2. PackageIsSound(package')
      BY <1>1, <1>3 DEF RequestIsSound, PackageIsSound, Labelled
    <2>3. training' # Idle => RequestIsSound(training')
      BY <1>1, <1>3, <2>1, RoundIsSound DEF RequestIsSound
    <2> QED BY <2>1, <2>2, <2>3
  <1> QED BY <1>2, <1>3 DEF Finish, Real

LEMMA TrainKeepsData ==
    ASSUME DataInvariant, Train
    PROVE  DataInvariant'
  <1>1. UNCHANGED local /\ training # Idle /\ training.at = "evaluate"
    BY DEF Train, Idle
  <1>2. PICK variant \in EvaluatedOn("variant", responses) :
            \E base \in EvaluatedOn("baseline", variant.cache) :
               /\ responses' = base.cache
               /\ \E evaluated \in {{Evaluation("variant", variant.bars),
                                    Evaluation("baseline", base.bars)}} :
                     evaluations' = evaluations \cup evaluated /\ Finish(evaluated)
    BY DEF Train
  <1>3. PICK base, evaluated :
             /\ base \in EvaluatedOn("baseline", variant.cache)
             /\ evaluated = {Evaluation("variant", variant.bars),
                             Evaluation("baseline", base.bars)}
             /\ responses' = base.cache
             /\ evaluations' = evaluations \cup evaluated
             /\ Finish(evaluated)
    BY <1>2
  <1>4. /\ HoldsHistories(variant.cache) /\ HoldsHistories(base.cache)
        /\ \A e \in evaluated : Labelled(e)
    BY <1>2, <1>3, EvaluatingHoldsHistories, EvaluationIsLabelled DEF DataInvariant, HistoriesHeld
  <1>5. /\ package'.iteration \in Nat
        /\ package' # NoPackage => PackageIsSound(package')
        /\ training' # Idle => RequestIsSound(training')
    BY <1>1, <1>3, <1>4, FinishIsSound
  <1>6. EvaluationsAreLabelled'
    BY <1>3, <1>4 DEF DataInvariant, EvaluationsAreLabelled, Labelled
  <1>7. HistoriesHeld'
    BY <1>1, <1>3, <1>4 DEF DataInvariant, HistoriesHeld
  <1> QED BY <1>5, <1>6, <1>7 DEF DataInvariant

-----------------------------------------------------------------------------
(* Types, the sizes of the caches, and the rounds                          *)

Recall == [section : Sections, found : {"full", "bare"}]
ContextOf == [type : Types, profile : Nat, features : SUBSET Sections]

\* The rounds a request in progress has left are among those that were asked for and
\* have given no package yet; a backfill is never the first attempt at a round.
RoundsAreAsked ==
    /\ {"at", "stage", "rounds"} \subseteq DOMAIN training
    /\ training.at \in {"collect", "backfill", "evaluate"}
    /\ training.stage \in {"first", "again", "last"}
    /\ training.at = "backfill" => training.stage # "first"
    /\ training.rounds \in Nat \ {0}
    /\ package.iteration + training.rounds <= asked

AnswerKinds == {"snapshot", "sections", "window", "dates", "history", "surrogate"}

TypesInvariant ==
    /\ latest \in [Sections -> {"none", "full", "bare", "error"}]
    /\ recalled \in Seq(Recall) /\ Len(recalled) <= RecallSize
    /\ profile \in 0..MaxProfile /\ asked \in 0..MaxRounds
    /\ contexts \in Seq(ContextOf) /\ Len(contexts) <= ContextSize
    /\ generated \in BOOLEAN
    /\ DOMAIN local = Symbols
    /\ package.iteration \in 0..asked
    /\ training = Idle \/ RoundsAreAsked
    /\ answer.kind \in AnswerKinds

\* A cache never grows over its size.
LEMMA RememberIs ==
    ASSUME NEW S, NEW cache \in Seq(S), NEW entry \in S, NEW size \in Nat, Len(cache) <= size
    PROVE  Remember(cache, entry, size) \in Seq(S) /\ Len(Remember(cache, entry, size)) <= size
  <1> DEFINE longer == Append(cache, entry)
  <1>1. longer \in Seq(S) /\ Len(longer) = Len(cache) + 1 /\ Len(cache) \in Nat
    OBVIOUS
  <1> HIDE DEF longer
  <1>2. CASE Len(longer) > size
    <2>1. longer # <<>>
      BY <1>1
    <2>2. Tail(longer) \in Seq(S) /\ Len(Tail(longer)) = Len(longer) - 1
      BY <1>1, <2>1
    <2> QED BY <1>1, <1>2, <2>2 DEF Remember, longer
  <1>3. CASE ~(Len(longer) > size)
    BY <1>1, <1>3 DEF Remember, longer
  <1> QED BY <1>2, <1>3

LEMMA InitTypes == Init => TypesInvariant
  <1> SUFFICES ASSUME Init PROVE TypesInvariant
    OBVIOUS
  <1>1. /\ latest = [sec \in Sections |-> "none"] /\ recalled = <<>> /\ profile = 0
        /\ contexts = <<>> /\ generated = FALSE /\ local = LocalAtStart
        /\ training = Idle /\ asked = 0 /\ package = NoPackage /\ answer = Snapshot
    BY DEF Init
  <1>2. /\ 0 \in 0..MaxProfile /\ 0 \in 0..MaxRounds /\ 0 <= RecallSize /\ 0 <= ContextSize
        /\ DOMAIN LocalAtStart = Symbols
    BY TrainingDataAssumption
  <1>3. package.iteration = 0 /\ answer.kind = "snapshot"
    BY <1>1 DEF NoPackage, Snapshot
  <1>4. /\ recalled \in Seq(Recall) /\ Len(recalled) <= RecallSize
        /\ contexts \in Seq(ContextOf) /\ Len(contexts) <= ContextSize
    BY <1>1, <1>2
  <1>5. latest \in [Sections -> {"none", "full", "bare", "error"}]
    BY <1>1
  <1>6. /\ profile \in 0..MaxProfile /\ asked \in 0..MaxRounds /\ package.iteration \in 0..asked
        /\ generated \in BOOLEAN /\ DOMAIN local = Symbols /\ training = Idle
        /\ answer.kind \in AnswerKinds
    <2>1. asked = 0 /\ profile = 0 /\ generated = FALSE /\ local = LocalAtStart /\ training = Idle
      BY <1>1
    <2>2. package.iteration \in 0..asked
      BY <1>3, <2>1
    <2>3. answer.kind \in AnswerKinds
      BY <1>3 DEF AnswerKinds
    <2> QED BY <1>2, <2>1, <2>2, <2>3
  <1> QED BY <1>4, <1>5, <1>6 DEF TypesInvariant

LEMMA FetchKeepsTypes ==
    ASSUME TypesInvariant, NEW sec \in Sections, NEW found \in Results, Fetch(sec, found)
    PROVE  TypesInvariant'
  <1>1. UNCHANGED <<profile, contexts, generated, local, training, asked, package, answer>>
    BY DEF Fetch, marketVars, requestVars
  <1>2. /\ latest \in [Sections -> {"none", "full", "bare", "error"}]
        /\ recalled \in Seq(Recall) /\ Len(recalled) <= RecallSize
        /\ found \in {"full", "bare", "error"} /\ RecallSize \in Nat
    BY TrainingDataAssumption DEF TypesInvariant
  <1>3. CASE \E entry \in Recalls(sec) :
                 latest' = [latest EXCEPT ![sec] = Repeated(sec, entry)] /\ UNCHANGED recalled
    <2>1. PICK entry \in Recalls(sec) :
              latest' = [latest EXCEPT ![sec] = Repeated(sec, entry)] /\ UNCHANGED recalled
      BY <1>3
    <2>2. entry \in Recall
      BY <1>2, <2>1 DEF Recalls, Range
    <2>3. Repeated(sec, entry) \in {"full", "bare"}
      BY <2>2 DEF Repeated, Recall
    <2>4. latest' \in [Sections -> {"none", "full", "bare", "error"}]
      BY <1>2, <2>1, <2>3
    <2> QED BY <1>1, <1>2, <2>1, <2>4 DEF TypesInvariant, RoundsAreAsked
  <1>4. CASE /\ latest' = [latest EXCEPT ![sec] = found]
             /\ recalled' = IF found = "error" THEN recalled
                            ELSE Remember(recalled, [section |-> sec, found |-> found], RecallSize)
    <2>1. latest' \in [Sections -> {"none", "full", "bare", "error"}]
      BY <1>2, <1>4
    <2>2. found # "error" => [section |-> sec, found |-> found] \in Recall
      BY <1>2 DEF Recall
    <2>3. recalled' \in Seq(Recall) /\ Len(recalled') <= RecallSize
      BY <1>2, <1>4, <2>2, RememberIs
    <2> QED BY <1>1, <2>1, <2>3 DEF TypesInvariant, RoundsAreAsked
  <1> QED BY <1>3, <1>4 DEF Fetch

\* A request brings as many rounds as it asks for.
LEMMA BeginKeepsTypes ==
    ASSUME TypesInvariant, NEW type \in Types, NEW needs, NEW window, NEW rounds \in 1..MaxRounds,
           NEW feedback, Begin(type, needs, window, rounds, feedback)
    PROVE  TypesInvariant'
  <1> DEFINE prof == IF feedback THEN profile + 1 ELSE profile
             context == Context(type, prof)
  <1>1. /\ asked + rounds <= MaxRounds /\ prof <= MaxProfile
        /\ asked' = asked + rounds /\ profile' = prof
        /\ contexts' = IF Cached(type, prof) # {} THEN contexts
                       ELSE Remember(contexts, context, ContextSize)
        /\ UNCHANGED <<latest, recalled, generated, local, package>>
    BY DEF Begin, informationVars, marketVars
  <1>2. /\ profile \in 0..MaxProfile /\ asked \in 0..MaxRounds /\ MaxProfile \in Nat
        /\ MaxRounds \in Nat /\ contexts \in Seq(ContextOf) /\ Len(contexts) <= ContextSize
        /\ ContextSize \in Nat /\ package.iteration \in 0..asked
    BY TrainingDataAssumption DEF TypesInvariant
  <1>3. prof \in 0..MaxProfile /\ prof \in Nat /\ asked' \in 0..MaxRounds
    BY <1>1, <1>2
  <1> HIDE DEF prof
  <1>4. contexts' \in Seq(ContextOf) /\ Len(contexts') <= ContextSize
    <2>1. CASE Cached(type, prof) # {}
      BY <1>1, <1>2, <2>1
    <2>2. CASE Cached(type, prof) = {}
      <3>1. context = [type |-> type, profile |-> prof, features |-> Features]
        BY <2>2 DEF Context
      <3>2. context \in ContextOf
        BY <1>3, <3>1 DEF ContextOf, Features
      <3> HIDE DEF context
      <3> QED BY <1>1, <1>2, <2>2, <3>2, RememberIs
    <2> QED BY <2>1, <2>2
  <1>5. training' = Idle \/ RoundsAreAsked'
    <2>1. CASE training' = Idle
      BY <2>1
    <2>2. CASE training' = Round(context, window, package.iteration + 1, rounds)
      <3>1. /\ {"at", "stage", "rounds"} \subseteq DOMAIN training'
            /\ training'.at = "collect" /\ training'.stage = "first" /\ training'.rounds = rounds
        BY <2>2 DEF Round
      <3>2. package'.iteration + rounds <= asked' /\ rounds \in Nat \ {0}
        BY <1>1, <1>2
      <3> QED BY <3>1, <3>2 DEF RoundsAreAsked
    <2> QED BY <2>1, <2>2 DEF Begin, Refuse, prof
  <1>6. answer'.kind \in AnswerKinds
    BY DEF Begin, Refuse, TypesInvariant, AnswerKinds
  <1>7. package'.iteration \in 0..asked'
    BY <1>1, <1>2
  <1> QED BY <1>1, <1>3, <1>4, <1>5, <1>6, <1>7 DEF TypesInvariant

\* Collecting and backfilling keep the rounds, or end the request.
LEMMA ResolveKeepsTypes ==
    ASSUME RoundsAreAsked, UNCHANGED <<package, asked>>, answer.kind \in AnswerKinds,
           NEW h, Resolve(h)
    PROVE  (training' = Idle \/ RoundsAreAsked') /\ answer'.kind \in AnswerKinds
  <1>1. CASE \E why \in AnswerKinds : Refuse(why, {})
    BY <1>1 DEF Refuse
  <1>2. CASE \E stage \in {"again", "last"} : Backfill(stage)
    <2>1. PICK stage \in {"again", "last"} :
              /\ training' = [training EXCEPT !.at = "backfill", !.stage = stage]
              /\ UNCHANGED answer
      BY <1>2 DEF Backfill
    <2>2. /\ DOMAIN training' = DOMAIN training /\ training'.at = "backfill"
          /\ training'.stage = stage /\ training'.rounds = training.rounds
      BY <2>1 DEF RoundsAreAsked
    <2> QED BY <2>1, <2>2 DEF RoundsAreAsked
  <1>3. CASE \E plan, period : Evaluate(plan, period)
    <2>1. PICK plan, period :
              /\ training' = [training EXCEPT !.at = "evaluate", !.plan = plan, !.common = period]
              /\ UNCHANGED answer
      BY <1>3 DEF Evaluate
    <2>2. /\ DOMAIN training' = DOMAIN training /\ training'.at = "evaluate"
          /\ training'.stage = training.stage /\ training'.rounds = training.rounds
      BY <2>1 DEF RoundsAreAsked
    <2> QED BY <2>1, <2>2 DEF RoundsAreAsked
  <1>4. \/ \E why \in {"dates", "history", "window"} : Refuse(why, {})
        \/ \E stage \in {"again", "last"} : Backfill(stage)
        \/ \E plan, period : Evaluate(plan, period)
    BY DEF Resolve
  <1> QED BY <1>1, <1>2, <1>3, <1>4 DEF AnswerKinds

\* A round that ends well turns one of the rounds left into an iteration.
LEMMA FinishKeepsTypes ==
    ASSUME TypesInvariant, RoundsAreAsked, UNCHANGED asked, NEW evaluated, Finish(evaluated)
    PROVE  /\ package'.iteration \in 0..asked'
           /\ training' = Idle \/ RoundsAreAsked'
           /\ answer'.kind \in AnswerKinds
  <1>1. /\ package.iteration \in Nat /\ asked \in Nat /\ training.rounds \in Nat \ {0}
        /\ package.iteration + training.rounds <= asked /\ package.iteration \in 0..asked
    BY TrainingDataAssumption DEF TypesInvariant, RoundsAreAsked
  <1>2. CASE Refuse("surrogate", {}) /\ UNCHANGED package
    BY <1>1, <1>2 DEF Refuse, AnswerKinds
  <1>3. CASE /\ package' = [iteration |-> package.iteration + 1, plan |-> training.plan,
                            common |-> training.common, evaluated |-> evaluated]
             /\ answer' = Snapshot
             /\ \/ training' = Idle
                \/ /\ training.rounds > 1
                   /\ training' = Round(training.context, training.window,
                                        package'.iteration + 1, training.rounds - 1)
    <2>1. package'.iteration = package.iteration + 1 /\ answer'.kind = "snapshot"
      BY <1>3 DEF Snapshot
    <2>2. CASE training' = Idle
      BY <1>1, <2>1, <2>2 DEF AnswerKinds
    <2>3. CASE /\ training.rounds > 1
               /\ training' = Round(training.context, training.window,
                                    package'.iteration + 1, training.rounds - 1)
      <3>1. /\ {"at", "stage", "rounds"} \subseteq DOMAIN training'
            /\ training'.at = "collect" /\ training'.stage = "first"
            /\ training'.rounds = training.rounds - 1
        BY <2>3 DEF Round
      <3> QED BY <1>1, <2>1, <2>3, <3>1 DEF AnswerKinds, RoundsAreAsked
    <2> QED BY <1>3, <2>2, <2>3
  <1> QED BY <1>2, <1>3 DEF Finish

LEMMA TypesAreInductive == TypesInvariant /\ [Next]_vars => TypesInvariant'
  <1> SUFFICES ASSUME TypesInvariant, [Next]_vars
               PROVE  TypesInvariant'
    OBVIOUS
  <1>1. CASE \E sec \in Sections, found \in Results : Fetch(sec, found)
    BY <1>1, FetchKeepsTypes
  <1>2. CASE AddSource
    <2>1. UNCHANGED <<latest, recalled, profile, contexts, local, training, asked, package, answer>>
      BY <1>2 DEF AddSource, informationVars, marketVars, requestVars
    <2> QED BY <1>2, <2>1 DEF AddSource, TypesInvariant, RoundsAreAsked
  <1>3. CASE \E type \in Types, needs \in SUBSET Sections,
                window \in Windows \cup {NoWindow}, rounds \in 1..MaxRounds,
                feedback \in BOOLEAN : Begin(type, needs, window, rounds, feedback)
    BY <1>3, BeginKeepsTypes
  <1>4. CASE Collect
    <2>1. UNCHANGED <<latest, recalled, profile, contexts, generated, local, asked, package>>
      BY <1>4 DEF Collect, informationVars
    <2>2. PICK h : Resolve(h)
      BY <1>4 DEF Collect
    <2>3. RoundsAreAsked /\ answer.kind \in AnswerKinds
      BY <1>4 DEF Collect, Idle, TypesInvariant
    <2>4. (training' = Idle \/ RoundsAreAsked') /\ answer'.kind \in AnswerKinds
      BY <2>1, <2>2, <2>3, ResolveKeepsTypes
    <2> QED BY <2>1, <2>4 DEF TypesInvariant
  <1>5. CASE Backfilled
    <2>1. /\ UNCHANGED <<latest, recalled, profile, contexts, generated, asked, package, answer>>
          /\ training.at = "backfill" /\ training' = [training EXCEPT !.at = "collect"]
      BY <1>5 DEF Backfilled, informationVars
    <2>2. DOMAIN local' = Symbols
      BY <1>5 DEF Backfilled
    <2>3. RoundsAreAsked
      BY <2>1 DEF Idle, TypesInvariant
    <2>4. /\ DOMAIN training' = DOMAIN training /\ training'.at = "collect"
          /\ training'.stage = training.stage /\ training'.rounds = training.rounds
      BY <2>1, <2>3 DEF RoundsAreAsked
    <2>5. RoundsAreAsked'
      BY <2>1, <2>3, <2>4 DEF RoundsAreAsked
    <2> QED BY <2>1, <2>2, <2>5 DEF TypesInvariant
  <1>6. CASE Train
    <2>1. /\ UNCHANGED <<latest, recalled, profile, contexts, generated, local, asked>>
          /\ training.at = "evaluate"
      BY <1>6 DEF Train, informationVars
    <2>2. PICK evaluated : Finish(evaluated)
      BY <1>6 DEF Train
    <2>3. RoundsAreAsked
      BY <2>1 DEF Idle, TypesInvariant
    <2>4. /\ package'.iteration \in 0..asked' /\ (training' = Idle \/ RoundsAreAsked')
          /\ answer'.kind \in AnswerKinds
      BY <2>1, <2>2, <2>3, FinishKeepsTypes
    <2> QED BY <2>1, <2>4 DEF TypesInvariant
  <1>7. CASE UNCHANGED vars
    BY <1>7 DEF vars, informationVars, marketVars, requestVars, TypesInvariant, RoundsAreAsked
  <1> QED BY <1>1, <1>2, <1>3, <1>4, <1>5, <1>6, <1>7 DEF Next

-----------------------------------------------------------------------------
(* The steps left to a request *)

\* What StepsLeft is at each place of a request.
LEMMA StepsLeftAt ==
    ASSUME RoundsAreAsked
    PROVE  LET rounds == 6 * (training.rounds - 1)
           IN  /\ rounds \in Nat
               /\ training.at = "evaluate" => StepsLeft = rounds + 1
               /\ training.at = "collect" /\ training.stage = "first" => StepsLeft = rounds + 6
               /\ training.at = "collect" /\ training.stage = "again" => StepsLeft = rounds + 4
               /\ training.at = "collect" /\ training.stage = "last" => StepsLeft = rounds + 2
               /\ training.at = "backfill" /\ training.stage = "again" => StepsLeft = rounds + 5
               /\ training.at = "backfill" /\ training.stage = "last" => StepsLeft = rounds + 3
  <1>1. training # Idle
    BY DEF RoundsAreAsked, Idle
  <1>2. training.rounds \in Nat \ {0}
    BY DEF RoundsAreAsked
  <1> QED BY <1>1, <1>2 DEF StepsLeft

LEMMA ResolveGetsNearer ==
    ASSUME RoundsAreAsked, training.at = "collect", NEW h, Resolve(h)
    PROVE  StepsLeft' \in 0 .. (StepsLeft - 1)
  <1> DEFINE rounds == 6 * (training.rounds - 1)
  <1>1. rounds \in Nat /\ StepsLeft \in Nat /\ StepsLeft >= rounds + 2
    BY StepsLeftAt DEF RoundsAreAsked
  <1>2. CASE training' = Idle
    BY <1>1, <1>2 DEF StepsLeft
  <1>3. CASE \E plan, period :
                 training' = [training EXCEPT !.at = "evaluate", !.plan = plan, !.common = period]
    <2>1. training'.at = "evaluate" /\ training'.rounds = training.rounds /\ training' # Idle
      BY <1>3 DEF RoundsAreAsked, Idle
    <2>2. StepsLeft' = rounds + 1
      BY <2>1 DEF StepsLeft
    <2> QED BY <1>1, <2>2
  <1>4. CASE \E stage \in {"again", "last"} :
                 /\ training' = [training EXCEPT !.at = "backfill", !.stage = stage]
                 /\ stage = "again" => training.stage = "first"
                 /\ stage = "last" => training.stage # "last"
    <2>1. PICK stage \in {"again", "last"} :
              /\ training' = [training EXCEPT !.at = "backfill", !.stage = stage]
              /\ stage = "again" => training.stage = "first"
              /\ stage = "last" => training.stage # "last"
      BY <1>4
    <2>2. /\ training'.at = "backfill" /\ training'.stage = stage
          /\ training'.rounds = training.rounds /\ training' # Idle
      BY <2>1 DEF RoundsAreAsked, Idle
    <2>3. StepsLeft' = rounds + (IF stage = "again" THEN 5 ELSE 3)
      BY <2>2 DEF StepsLeft
    <2>4. StepsLeft = rounds + (IF training.stage = "first" THEN 6
                                ELSE IF training.stage = "again" THEN 4 ELSE 2)
      BY StepsLeftAt DEF RoundsAreAsked
    <2> QED BY <1>1, <2>1, <2>3, <2>4 DEF RoundsAreAsked
  <1> QED BY <1>2, <1>3, <1>4 DEF Resolve, Refuse, Backfill, Evaluate

LEMMA FinishGetsNearer ==
    ASSUME RoundsAreAsked, training.at = "evaluate", NEW evaluated, Finish(evaluated)
    PROVE  StepsLeft' \in 0 .. (StepsLeft - 1)
  <1>1. StepsLeft = 6 * (training.rounds - 1) + 1 /\ training.rounds \in Nat \ {0}
    BY StepsLeftAt DEF RoundsAreAsked
  <1>2. CASE training' = Idle
    BY <1>1, <1>2 DEF StepsLeft
  <1>3. CASE /\ training.rounds > 1
             /\ training' = Round(training.context, training.window,
                                  package'.iteration + 1, training.rounds - 1)
    <2>1. /\ training'.at = "collect" /\ training'.stage = "first"
          /\ training'.rounds = training.rounds - 1 /\ training' # Idle
      BY <1>3 DEF Round, Idle
    <2>2. StepsLeft' = 6 * (training.rounds - 2) + 6
      BY <1>1, <2>1 DEF StepsLeft
    <2> QED BY <1>1, <1>3, <2>2
  <1> QED BY <1>2, <1>3 DEF Finish, Refuse

LEMMA BackfilledGetsNearer ==
    ASSUME RoundsAreAsked, training.at = "backfill",
           training' = [training EXCEPT !.at = "collect"]
    PROVE  StepsLeft' \in 0 .. (StepsLeft - 1)
  <1> DEFINE rounds == 6 * (training.rounds - 1)
  <1>1. /\ training'.at = "collect" /\ training'.stage = training.stage
        /\ training'.rounds = training.rounds /\ training' # Idle
        /\ training.stage \in {"again", "last"}
    BY DEF RoundsAreAsked, Idle
  <1>2. /\ rounds \in Nat
        /\ StepsLeft = rounds + (IF training.stage = "again" THEN 5 ELSE 3)
    BY <1>1, StepsLeftAt
  <1>3. StepsLeft' = rounds + (IF training.stage = "again" THEN 4 ELSE 2)
    BY <1>1 DEF StepsLeft
  <1> QED BY <1>2, <1>3

-----------------------------------------------------------------------------
(* The theorems *)

LEMMA DataIsInductive == DataInvariant /\ [Next]_vars => DataInvariant'
  <1> SUFFICES ASSUME DataInvariant, [Next]_vars
               PROVE  DataInvariant'
    OBVIOUS
  <1>1. CASE \E sec \in Sections, found \in Results : Fetch(sec, found)
    <2>1. UNCHANGED <<local, responses, evaluations, training, package>>
      BY <1>1 DEF Fetch, marketVars, requestVars
    <2> QED BY <2>1 DEF DataInvariant, HistoriesHeld, EvaluationsAreLabelled
  <1>2. CASE AddSource
    <2>1. UNCHANGED <<local, responses, evaluations, training, package>>
      BY <1>2 DEF AddSource, marketVars, requestVars
    <2> QED BY <2>1 DEF DataInvariant, HistoriesHeld, EvaluationsAreLabelled
  <1>3. CASE \E type \in Types, needs \in SUBSET Sections,
                window \in Windows \cup {NoWindow}, rounds \in 1..MaxRounds,
                feedback \in BOOLEAN : Begin(type, needs, window, rounds, feedback)
    BY <1>3, BeginKeepsData
  <1>4. CASE Collect
    BY <1>4, CollectKeepsData
  <1>5. CASE Backfilled
    BY <1>5, BackfilledKeepsData
  <1>6. CASE Train
    BY <1>6, TrainKeepsData
  <1>7. CASE UNCHANGED vars
    <2>1. UNCHANGED <<local, responses, evaluations, training, package>>
      BY <1>7 DEF vars, marketVars, requestVars
    <2> QED BY <2>1 DEF DataInvariant, HistoriesHeld, EvaluationsAreLabelled
  <1> QED BY <1>1, <1>2, <1>3, <1>4, <1>5, <1>6, <1>7 DEF Next

\* In every session the histories stay histories, evaluations are labelled
\* for what they rest on, and requests and packages keep to sound plans.
THEOREM DataStaysSound == Spec => []DataInvariant
  BY InitData, DataIsInductive, PTL DEF Spec

\* No package is trained on what it is tested on, nor on anything ahead of
\* a walk-forward window, whatever the windows, providers and files
\* (_build_strategy_dataset_plan and the plans it is replaced by).
THEOREM PackagesAreSplitSoundly == Spec => []SplitsAreSound
  <1>1. DataInvariant => SplitsAreSound
    BY DEF DataInvariant, PackageIsSound, SplitsAreSound
  <1> QED BY <1>1, DataStaysSound, PTL

\* Every package is made from real bars of every split of its plan, however
\* the providers fail between planning and evaluation
\* (_assert_real_strategy_training_evaluations).
THEOREM PackagesAreReal == Spec => []PackagesRestOnRealHistory
  <1>1. DataInvariant => PackagesRestOnRealHistory
    BY DEF DataInvariant, PackageIsSound, RestsOnBars, PackagesRestOnRealHistory
  <1> QED BY <1>1, DataStaysSound, PTL

\* The caches of a session's service stay within their sizes, and no request makes more
\* packages than the iterations that were asked for, however its rounds end
\* (iterate_strategy, _get_iteration_context).
THEOREM RoundsStayAsked == Spec => []TypeOK
  <1>1. ASSUME TypesInvariant PROVE TypeOK
    <2>1. /\ latest \in [Sections -> {"none", "full", "bare", "error"}]
          /\ profile \in 0..MaxProfile /\ asked \in 0..MaxRounds
          /\ generated \in BOOLEAN /\ DOMAIN local = Symbols /\ package.iteration \in 0..asked
          /\ answer.kind \in {"snapshot", "sections", "window", "dates", "history", "surrogate"}
      BY <1>1 DEF TypesInvariant, AnswerKinds
    <2>2. /\ Len(recalled) <= RecallSize
          /\ \A e \in Range(recalled) : e.section \in Sections /\ e.found \in {"full", "bare"}
      <3>1. recalled \in Seq(Recall) /\ Len(recalled) <= RecallSize
        BY <1>1 DEF TypesInvariant
      <3>2. \A e \in Range(recalled) : e \in Recall
        BY <3>1 DEF Range
      <3> QED BY <3>1, <3>2 DEF Recall
    <2>3. /\ Len(contexts) <= ContextSize
          /\ \A c \in Range(contexts) : c.type \in Types /\ c.features \subseteq Sections
      <3>1. contexts \in Seq(ContextOf) /\ Len(contexts) <= ContextSize
        BY <1>1 DEF TypesInvariant
      <3>2. \A c \in Range(contexts) : c \in ContextOf
        BY <3>1 DEF Range
      <3> QED BY <3>1, <3>2 DEF ContextOf
    <2>4. /\ training.at \in {"idle", "collect", "backfill", "evaluate"}
          /\ training # Idle => training.stage \in {"first", "again", "last"}
      BY <1>1 DEF TypesInvariant, RoundsAreAsked, Idle
    <2> QED BY <2>1, <2>2, <2>3, <2>4 DEF TypeOK
  <1> QED BY <1>1, InitTypes, TypesAreInductive, PTL DEF Spec


\* Each step of a request, whatever providers and caches answer, uses up one of the steps
\* its rounds allow: no backfill is tried for ever
\* (_resolve_real_training_dataset_plan, iterate_strategy).
THEOREM TrainingsComeNearer == Spec => TrainingGetsNearer
  <1>1. ASSUME TypesInvariant, Collect \/ Backfilled \/ Train
        PROVE  StepsLeft' \in 0 .. (StepsLeft - 1)
    <2>1. RoundsAreAsked
      BY <1>1 DEF TypesInvariant, Collect, Backfilled, Train, Idle
    <2>2. CASE Collect
      BY <2>1, <2>2, ResolveGetsNearer DEF Collect
    <2>3. CASE Backfilled
      BY <2>1, <2>3, BackfilledGetsNearer DEF Backfilled
    <2>4. CASE Train
      BY <2>1, <2>4, FinishGetsNearer DEF Train
    <2> QED BY <1>1, <2>2, <2>3, <2>4
  <1> QED BY <1>1, InitTypes, TypesAreInductive, PTL DEF Spec, TrainingGetsNearer
=============================================================================
