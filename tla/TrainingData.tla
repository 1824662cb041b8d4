---------------------------- MODULE TrainingData ----------------------------
(***************************************************************************)
(* The data a training request of one session rests on: the information    *)
(* runs the session collects (intelligence, financials, dark pool,         *)
(* options), the caches between them and the training, the check of the    *)
(* sections a strategy needs, and the history of the universe that is read *)
(* from the providers, backfilled into local files, planned over and       *)
(* evaluated on (api/workflow_service.py, infra/free_market_data.py,       *)
(* backtesting/metrics.py, analysis/feature_pipeline.py).                  *)
(*                                                                         *)
(* What a run found is one of "full" (factors or documents), "bare" (a     *)
(* payload without factors, a search without documents) and "error"; all   *)
(* runs of a section ask the same question.  A history is the period of    *)
(* its bars and whether their timestamps are dates: some providers answer  *)
(* with seconds since 1970, which no reader of the training turns into a   *)
(* date.                                                                   *)
(***************************************************************************)
EXTENDS DatasetPlan, FiniteSets, SequencesExt

CONSTANTS
    Symbols,          \* the expanded trade universe
    Results,          \* what a run may find, of "full", "bare" and "error"
    Sections,         \* kinds of information a strategy may need
    Types,            \* strategy types
    Windows,          \* training windows a user may ask for
    NoWindow,         \* a request without dates
    Providers,        \* sequence: the enabled market data providers in order
    Listed,           \* the first day a symbol was traded
    LastBar,          \* the day of the latest bars of every provider
    NoHistory,        \* no bars, no file, or a failed call
    LocalAtStart,     \* the local history files before the first request
    Today,            \* the day all of this happens
    MaxRounds,        \* bound on the iterations all requests ask for
    MaxProfile,       \* bound on the profile changes by feedback
    RecallSize,       \* size of the cache of information runs
    ContextSize       \* size of the cache of iteration contexts

\* The histories there may be: days are counted from before all of them.
Histories == [from : 0..LastBar, to : 0..LastBar, dated : BOOLEAN]

ASSUME TrainingDataAssumption ==
    /\ Today \in Int /\ LastBar \in Nat
    /\ Symbols # {} /\ Listed \in [Symbols -> 0..LastBar]
    /\ LocalAtStart \in [Symbols -> Histories \cup {NoHistory}]
    /\ Windows \subseteq [from : Int, to : Int]
    /\ {MaxRounds, MaxProfile} \subseteq Nat
    /\ {RecallSize, ContextSize} \subseteq Nat \ {0}
    /\ Results \subseteq {"full", "bare", "error"}
    /\ "local_file" \in Range(Providers) /\ "generated" \notin Range(Providers)

VARIABLES
    latest,       \* what the last of session.*_runs found, by section
    recalled,     \* WorkflowService._intelligence_cache, oldest first
    profile,      \* how often feedback changed the effective profile
    contexts,     \* WorkflowService._iteration_context_cache, oldest first
    generated,    \* whether a generated market data source is ready to use
    local,        \* the {symbol}_1d.csv files
    responses,    \* FreeMarketDataService._response_cache, the histories in it
    evaluations,  \* WorkflowService._candidate_eval_cache
    training,     \* the training request in progress
    asked,        \* how many iterations the requests asked for
    package,      \* session.strategy_package, what it was trained on
    answer        \* what the last finished training request was answered

informationVars == <<latest, recalled>>
marketVars      == <<local, responses>>
requestVars     == <<training, asked, package, answer>>
vars == <<informationVars, profile, contexts, generated, marketVars,
          evaluations, requestVars>>

Idle      == [at |-> "idle"]
NoPackage == [iteration |-> 0]
Snapshot  == [kind |-> "snapshot", missing |-> {}]

\* A cache of the service: at most size entries, the oldest goes first.
Remember(cache, entry, size) ==
    LET longer == Append(cache, entry)
    IN  IF Len(longer) > size THEN Tail(longer) ELSE longer

Init ==
    /\ latest = [sec \in Sections |-> "none"]
    /\ recalled = <<>>
    /\ profile = 0
    /\ contexts = <<>>
    /\ generated = FALSE
    /\ local = LocalAtStart
    /\ responses = {}
    /\ evaluations = {}
    /\ training = Idle
    /\ asked = 0
    /\ package = NoPackage
    /\ answer = Snapshot

(***************************************************************************)
(* Information runs                                                        *)
(***************************************************************************)

Recalls(sec) == {e \in Range(recalled) : e.section = sec}

\* What a run answered from the cache offers: the entry of a search holds its
\* report and documents, that of an enrichment the payload without factors.
Repeated(sec, entry) == IF sec = "intelligence" THEN entry.found ELSE "bare"

\* One run of a section: search_intelligence, fetch_financials_data,
\* fetch_dark_pool_data, fetch_options_data, and each fetch of the enrichment
\* that follows a search.  It is repeated from the cache, or asked for; an
\* error is recorded as a run and not cached.
Fetch(sec, found) ==
    /\ \/ \E entry \in Recalls(sec) :
            /\ latest' = [latest EXCEPT ![sec] = Repeated(sec, entry)]
            /\ UNCHANGED recalled
       \/ /\ Recalls(sec) = {}
          /\ latest' = [latest EXCEPT ![sec] = found]
          /\ recalled' = IF found = "error" THEN recalled
                         ELSE Remember(recalled, [section |-> sec, found |-> found],
                                       RecallSize)
    /\ UNCHANGED <<profile, contexts, generated, marketVars, evaluations,
                   requestVars>>

\* A run of the data source expansion becomes usable for a backfill.
AddSource ==
    /\ ~generated
    /\ generated' = TRUE
    /\ UNCHANGED <<informationVars, profile, contexts, marketVars, evaluations,
                   requestVars>>

(***************************************************************************)
(* The context of an iteration and the sections a strategy needs           *)
(***************************************************************************)

\* Only the latest run of a section counts.
Provides(sec) == latest[sec] = "full"

Features == {sec \in Sections : Provides(sec)}

\* The contexts cached for a strategy type and a profile; the runs the
\* features are built from are not part of the key.
Cached(type, prof) ==
    {c \in Range(contexts) : c.type = type /\ c.profile = prof}

Context(type, prof) ==
    IF Cached(type, prof) # {} THEN CHOOSE c \in Cached(type, prof) : TRUE
    ELSE [type |-> type, profile |-> prof, features |-> Features]

Planned(window, iteration) ==
    IF window = NoWindow THEN DefaultPlan(Today, iteration) ELSE WindowPlan(window)

\* Mutant: the rounds are not counted.
RoundUncounted(context, window, iteration, rounds) ==
    [at |-> "collect", stage |-> "first", context |-> context,
     window |-> window, rounds |-> 2,
     plan |-> Planned(window, iteration), common |-> NoHistory]

\* One round of the loop of iterate_strategy.
Round(context, window, iteration, rounds) ==
    [at |-> "collect", stage |-> "first", context |-> context,
     window |-> window, rounds |-> rounds,
     plan |-> Planned(window, iteration), common |-> NoHistory]

Refuse(why, missing) ==
    /\ answer' = [kind |-> why, missing |-> missing]
    /\ training' = Idle

\* iterate_strategy up to the plan: feedback changes the profile first, then
\* the context is taken, the sections are asserted and the dates are checked.
Begin(type, needs, window, rounds, feedback) ==
    LET prof    == IF feedback THEN profile + 1 ELSE profile
        context == Context(type, prof)
        missing == needs \ context.features
        dated   == window # NoWindow => WindowAccepted(window) /\ WindowPossible(window)
    IN  /\ training = Idle
        /\ asked + rounds <= MaxRounds /\ prof <= MaxProfile
        /\ asked' = asked + rounds
        /\ profile' = prof
        /\ contexts' = IF Cached(type, prof) # {} THEN contexts
                       ELSE Remember(contexts, context, ContextSize)
        /\ \/ missing # {} /\ Refuse("sections", missing)
           \/ missing = {} /\ ~dated /\ Refuse("window", {})
           \/ /\ missing = {} /\ dated
              /\ training' = Round(context, window, package.iteration + 1, rounds)
              /\ UNCHANGED answer
        /\ UNCHANGED <<informationVars, generated, marketVars, evaluations,
                       package>>

(***************************************************************************)
(* Histories                                                               *)
(***************************************************************************)

Bars(s, days, dated) ==
    [from |-> Larger(Listed[s], LastBar - days + 1), to |-> LastBar, dated |-> dated]

\* What the providers answer: yahoo is asked for the lookback; alphavantage
\* for its last 100 bars, whatever the lookback; finnhub knows no "10y" and
\* is asked for half a year; akshare and a generated source are asked for all.
Yahoo(s, span)  == Bars(s, IF span = "10y" THEN 3650 ELSE 182, FALSE)
Alphavantage(s) == Bars(s, 140, TRUE)
Finnhub(s)      == Bars(s, 180, FALSE)
Akshare(s)      == [from |-> Listed[s], to |-> LastBar, dated |-> TRUE]
LocalFile(s)    == local[s]

\* fetch_history: the response in the cache, or what the provider answers.
\* "10y" is asked for to plan, and the default "6mo" to evaluate.
Responses(p, s, span, cache) ==
    {r \in cache : r.provider = p /\ r.symbol = s /\ r.span = span}

Held(p, s, span, cache) ==
    IF Responses(p, s, span, cache) # {}
    THEN (CHOOSE r \in Responses(p, s, span, cache) : TRUE).history
    ELSE CASE p = "local_file"   -> LocalFile(s)
           [] p = "yahoo"        -> Yahoo(s, span)
           [] p = "alphavantage" -> Alphavantage(s)
           [] p = "finnhub"      -> Finnhub(s)
           [] p \in {"akshare", "generated"} -> Akshare(s)
           [] OTHER              -> NoHistory   \* unsupported

\* A call to a provider may fail, a cached response or a local file does not.
Certain(p, s, span, cache) == Responses(p, s, span, cache) # {} \/ p = "local_file"

\* Providers are asked in order and the first that answers with bars is
\* taken, however few they are: any that none with certain bars comes before,
\* and nobody when no bars are certain.
MayServe(order, s, span, cache) ==
    LET has  == {i \in DOMAIN order : Held(order[i], s, span, cache) # NoHistory}
        sure == {i \in has : Certain(order[i], s, span, cache)}
    IN  {order[i] : i \in {k \in has : \A j \in sure : k <= j}}
            \cup {p \in {"nobody"} : sure = {}}

\* The providers that were asked in vain before who answered.
AskedBefore(order, who) ==
    {order[i] : i \in {k \in DOMAIN order : \A j \in 1..k : order[j] # who}}

\* Who serves a symbol, and which providers asked before answered without
\* bars instead of failing: only these answers, a notice of a rate limit for
\* one, are cached.
Serving(order, s, span, cache) ==
    UNION {{[by |-> p, empty |-> e] :
              e \in SUBSET {q \in AskedBefore(order, p) \ {"generated"} :
                             ~Certain(q, s, span, cache)}} :
           p \in MayServe(order, s, span, cache)}

\* The ways in which all symbols may be served.
Servings(order, span, cache) ==
    LET serving == [s \in Symbols |-> Serving(order, s, span, cache)]
    IN  {w \in [Symbols -> UNION Range(serving)] : \A s \in Symbols : w[s] \in serving[s]}

HistoriesOf(w, span, cache) ==
    [s \in Symbols |-> IF w[s].by = "nobody" THEN NoHistory
                       ELSE Held(w[s].by, s, span, cache)]

\* What the cache holds after every symbol was asked for; a local file that is
\* missing raises and a generated source has no cache.
Asked(w, span, cache) ==
    LET served == {s \in Symbols : w[s].by \notin {"nobody", "generated"}}
        Response(p, s, history) ==
            [provider |-> p, symbol |-> s, span |-> span, history |-> history]
    IN  cache \cup {Response(w[s].by, s, Held(w[s].by, s, span, cache)) : s \in served}
              \cup UNION {{Response(p, s, NoHistory) : p \in w[s].empty} : s \in Symbols}

\* The period all histories share.  The comparison of dates raises on a
\* timestamp that is none.
Undated(h) == {s \in Symbols : h[s] # NoHistory /\ ~h[s].dated}

Missing(h) == {s \in Symbols : h[s] = NoHistory}

Common(h) ==
    LET latestFirst == CHOOSE d \in {h[s].from : s \in Symbols} :
                           \A s \in Symbols : h[s].from <= d
        firstLast   == CHOOSE d \in {h[s].to : s \in Symbols} :
                           \A s \in Symbols : d <= h[s].to
    IN  [from |-> latestFirst, to |-> firstLast]

Shared(h) == Missing(h) = {} /\ Common(h).from <= Common(h).to

Covers(period, plan) ==
    period.from <= plan.train.from /\ plan.test.to <= period.to

RecentListing(period) == Days(period) < 180 /\ Today - period.from <= 365

Evaluate(plan, period) ==
    /\ training' = [training EXCEPT !.at = "evaluate", !.plan = plan,
                                    !.common = period]
    /\ UNCHANGED answer

\* Mutant: that a backfill was tried is forgotten.
BackfillAgain(stage) ==
    /\ training' = [training EXCEPT !.at = "backfill"]
    /\ UNCHANGED answer

Backfill(stage) ==
    /\ training' = [training EXCEPT !.at = "backfill", !.stage = stage]
    /\ UNCHANGED answer

\* _resolve_real_training_dataset_plan, once per collection of histories: the
\* first without a common period and the first with too short a one are each
\* followed by a backfill.
Resolve(h) ==
    \/ /\ Missing(h) = {} /\ Undated(h) # {}
       /\ Refuse("dates", {})
    \/ /\ ~Shared(h) /\ (Missing(h) # {} \/ Undated(h) = {})
       /\ IF training.stage = "first" THEN Backfill("again") ELSE Refuse("history", {})
    \/ /\ Missing(h) = {} /\ Undated(h) = {} /\ Shared(h)
       /\ \E period \in {Common(h)} :
            \/ Covers(period, training.plan) /\ Evaluate(training.plan, period)
            \/ /\ ~Covers(period, training.plan) /\ RecentListing(period)
               /\ IF RecentAccepted(period) /\ RecentPossible(period)
                  THEN Evaluate(RecentPlan(period), period)
                  ELSE Refuse("window", {})
            \/ /\ ~Covers(period, training.plan) /\ ~RecentListing(period)
               /\ IF training.stage # "last" THEN Backfill("last")
                  ELSE Refuse("history", {})

Collect ==
    /\ training.at = "collect"
    /\ UNCHANGED <<informationVars, profile, contexts, generated, local,
                   evaluations, asked, package>>
    /\ \E w \in Servings(Providers, "10y", responses) :
          /\ responses' = Asked(w, "10y", responses)
          /\ \E h \in {HistoriesOf(w, "10y", responses)} : Resolve(h)

\* _attempt_auto_backfill_real_training_history: for every symbol, not only
\* the missing ones, the generated source first and the built-in providers
\* after it; what they return replaces the local file and clears the cache.
BackfillOrder ==
    (IF generated THEN <<"generated">> ELSE <<>>)
        \o SelectSeq(Providers, LAMBDA p : p # "local_file")

CachedFor(symbols) == {r \in responses : r.symbol \in symbols}

\* The symbols a file is written for.
Brings(w) == {s \in Symbols : w[s].by # "nobody"}

\* Symbols are taken in some order: early ones, up to the first that brings a
\* file, meet the cache as it was; what is asked for late ones, after the last
\* file is written, stays cached.
InSomeOrder(early, found, late) ==
    IF found = {} THEN early = Symbols /\ late = Symbols
    ELSE /\ Cardinality(early \cap found) = 1
         /\ late \cap (early \cup found) = {}
         /\ found \subseteq early => early \cup late = Symbols

Backfilled ==
    /\ training.at = "backfill"
    /\ training' = [training EXCEPT !.at = "collect"]
    /\ UNCHANGED <<informationVars, profile, contexts, generated, evaluations,
                   asked, package, answer>>
    /\ \E early \in SUBSET Symbols :
       \E cache \in {CachedFor(early)} :
       \E w \in Servings(BackfillOrder, "10y", cache) :
          /\ local' = [s \in Symbols |-> IF s \in Brings(w)
                          THEN HistoriesOf(w, "10y", cache)[s] ELSE local[s]]
          /\ \E late \in SUBSET Symbols :
                /\ InSomeOrder(early, Brings(w), late)
                /\ responses' = {r \in Asked(w, "10y", cache) : r.symbol \in late}

(***************************************************************************)
(* Evaluation                                                              *)
(***************************************************************************)

SplitsOf(plan) == {plan.train, plan.validation, plan.test}

\* Bars with a date in a period; bars whose timestamp is no date are dropped.
InPeriod(history, period) ==
    /\ history # NoHistory
    /\ history.dated /\ history.from <= period.to /\ period.from <= history.to

\* Markets are open five days of seven.
HasBars(days, n) == 5 * days >= 7 * n

\* A symbol with fewer than twenty bars is left out of a backtest.
Tested(bars) ==
    {s \in Symbols : /\ bars[s] # NoHistory /\ bars[s].dated
                     /\ HasBars(Days(bars[s]), 20)}

\* A split can be measured when some symbol has bars in it, and every one that
\* has any has two.
Measured(bars, split) ==
    LET inside == {s \in Tested(bars) : InPeriod(bars[s], split)}
    IN  /\ inside # {}
        /\ \A s \in inside :
              HasBars(Smaller(bars[s].to, split.to) - Larger(bars[s].from, split.from) + 1, 2)

\* Mutant: one split that can be measured is enough.
SourceOfAny(bars, plan) ==
    IF \E split \in SplitsOf(plan) : Measured(bars, split)
    THEN "local_history_backtest" ELSE "heuristic_surrogate"

\* A backtest measures every split; without it the formula is scored instead,
\* and the result says so.
SourceOf(bars, plan) ==
    IF \A split \in SplitsOf(plan) : Measured(bars, split)
    THEN "local_history_backtest" ELSE "heuristic_surrogate"

EvaluationKey == [context |-> training.context, plan |-> training.plan]

\* The evaluations cached for the baseline, or for variants, of this round.
Kept(who) ==
    {e \in evaluations : e.who = who /\ e.key = EvaluationKey}

\* The rest of the round once every candidate is evaluated: all of them must
\* rest on real bars; the next round begins while the checks of the new
\* package fail or the mode is free, neither of which is modelled here.
Finish(evaluated) ==
    \/ /\ \E e \in evaluated : e.source # "local_history_backtest"
       /\ Refuse("surrogate", {})
       /\ UNCHANGED package
    \/ /\ \A e \in evaluated : e.source = "local_history_backtest"
       /\ package' = [iteration |-> package.iteration + 1, plan |-> training.plan,
                      common |-> training.common, evaluated |-> evaluated]
       /\ answer' = Snapshot
       /\ \/ training' = Idle
          \/ /\ training.rounds > 1
             /\ training' = Round(training.context, training.window,
                                  package'.iteration + 1, training.rounds - 1)

\* _evaluate_strategy_candidate: the evaluation of a candidate on some bars.
Evaluation(who, bars) ==
    [who |-> who, key |-> EvaluationKey, bars |-> bars,
     source |-> SourceOf(bars, training.plan)]

\* The bars a candidate may be evaluated on, and the cache of responses after.
\* A candidate evaluated before on the plan keeps that evaluation, and the bars
\* it was made from, unless the targets were others or the cache was trimmed
\* since; any other fetches its histories again.
EvaluatedOn(who, cache) ==
    {[bars |-> e.bars, cache |-> cache] : e \in Kept(who)}
        \cup {[bars  |-> HistoriesOf(w, "6mo", cache),
               cache |-> Asked(w, "6mo", cache)] : w \in Servings(Providers, "6mo", cache)}

\* The variants are evaluated before the baseline.  "variant" stands for each
\* of them: a package is made of as many evaluations as there are candidates,
\* and is refused for any of them.
Train ==
    /\ training.at = "evaluate"
    /\ UNCHANGED <<informationVars, profile, contexts, generated, local, asked>>
    /\ \E variant \in EvaluatedOn("variant", responses) :
       \E base \in EvaluatedOn("baseline", variant.cache) :
          /\ responses' = base.cache
          /\ \E evaluated \in {{Evaluation("variant", variant.bars),
                               Evaluation("baseline", base.bars)}} :
                /\ evaluations' = evaluations \cup evaluated
                /\ Finish(evaluated)

Next ==
    \/ \E sec \in Sections, found \in Results : Fetch(sec, found)
    \/ AddSource
    \/ \E type \in Types, needs \in SUBSET Sections,
          window \in Windows \cup {NoWindow}, rounds \in 1..MaxRounds,
          feedback \in BOOLEAN : Begin(type, needs, window, rounds, feedback)
    \/ Collect \/ Backfilled \/ Train

\* A request that was begun runs to its answer: nothing in it waits for anyone.
Spec == Init /\ [][Next]_vars /\ WF_vars(Collect \/ Backfilled \/ Train)

-----------------------------------------------------------------------------
TypeOK ==
    /\ latest \in [Sections -> {"none", "full", "bare", "error"}]
    /\ Len(recalled) <= RecallSize
    /\ \A e \in Range(recalled) : e.section \in Sections /\ e.found \in {"full", "bare"}
    /\ profile \in 0..MaxProfile /\ asked \in 0..MaxRounds
    /\ Len(contexts) <= ContextSize
    /\ \A c \in Range(contexts) : c.type \in Types /\ c.features \subseteq Sections
    /\ generated \in BOOLEAN
    /\ DOMAIN local = Symbols
    /\ training.at \in {"idle", "collect", "backfill", "evaluate"}
    /\ training # Idle => training.stage \in {"first", "again", "last"}
    /\ package.iteration \in 0..asked
    /\ answer.kind \in {"snapshot", "sections", "window", "dates", "history", "surrogate"}

\* A package is only made from real bars: the histories that were found
\* share every day of its plan, and each evaluation it was chosen by was made
\* on that plan, from histories with dated bars in every split, however the
\* providers failed, the files were overwritten and the caches answered
\* between planning and evaluation
\* (_assert_real_strategy_training_evaluations).
PackagesRestOnRealHistory ==
    package # NoPackage =>
        /\ Covers(package.common, package.plan)
        /\ \A e \in package.evaluated :
              /\ e.key.plan = package.plan
              /\ \A split \in SplitsOf(package.plan) :
                    \E s \in Symbols : InPeriod(e.bars[s], split)

\* What a package was tested on it was not trained on, whichever of the three
\* plans was taken, and walk-forward windows look at nothing ahead of them
\* (_build_strategy_dataset_plan and the two plans it is replaced by).
SplitsAreSound == package # NoPackage => SoundPlan(package.plan)

\* At most so many steps are left to the request in progress: a round collects, is
\* backfilled twice at most and collects again each time, and is evaluated.
StepsLeft ==
    IF training = Idle THEN 0
    ELSE 6 * (training.rounds - 1)
         + CASE training.at = "evaluate" -> 1
             [] training.at = "collect"  -> [first |-> 6, again |-> 4, last |-> 2][training.stage]
             [] training.at = "backfill" -> [again |-> 5, last |-> 3][training.stage]

\* No step of a request is repeated: each uses up one of a number of steps that its
\* rounds allow, whatever the providers and the caches answer in between.
TrainingGetsNearer ==
    [][Collect \/ Backfilled \/ Train => StepsLeft' \in 0 .. (StepsLeft - 1)]_vars

\* A training request is answered: at most two backfills are tried, and every
\* round ends (_resolve_real_training_dataset_plan).
TrainingEnds == (training # Idle) ~> (training = Idle)

\* The refusal ends in the words that the missing data be supplied and the
\* training be tried again (_assert_strategy_data_requirements): a request
\* refused for sections lacks one of them at that moment.
SuppliedDataUnblocks ==
    [][asked' # asked /\ answer'.kind = "sections" =>
          \E sec \in answer'.missing : ~Provides(sec)]_vars

LocalSuffices(plan) ==
    \A s \in Symbols : local[s] # NoHistory /\ local[s].dated /\ Covers(local[s], plan)

\* With enough local history the training goes ahead: no request is refused
\* for its histories while the local files have dated bars of the whole plan.
LocalHistorySuffices ==
    [][training # Idle /\ training' = Idle /\ answer'.kind \in {"dates", "history"} =>
          ~LocalSuffices(training.plan)]_vars
=============================================================================
