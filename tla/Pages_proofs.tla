---------------------------- MODULE Pages_proofs ----------------------------
(***************************************************************************)
(* Proofs about Pages for any number of handlers, sessions, symbols and    *)
(* behaviour events: types, the buttons, what a training asks for and what *)
(* the page shows after a handler that ran alone.                          *)
(***************************************************************************)
EXTENDS Pages, SequenceTheorems, FiniteSetTheorems, WellFoundedInduction, TLAPS

-----------------------------------------------------------------------------
(* The invariant *)

\* The lists of calls a handler may have left, by the handler.
EventsThen(k, last) ==
    [i \in 1..(k + 3) |-> CASE i <= k -> "event"
                            [] i = k + 1 -> "complete"
                            [] i = k + 2 -> "preferences"
                            [] OTHER -> last]
Preparing(last) ==
    {<<"universe", "profile", "preferences", last>>, <<"preferences", last>>, <<last>>}
    \cup {EventsThen(k, last) : k \in 0..BootEvents}

\* Every symbol's market data ends with its options.
Enriched(calls) ==
    \/ \A i \in 1..Len(calls) : calls[i] = "search"
    \/ calls[Len(calls)] = "options"
Searching == {calls \in Seq({"search"} \cup MarketData) : calls # <<>> /\ Enriched(calls)}

Intelligence == {"search", "watchlist", "refresh_market"}
ConfigHandlers == {"reload_config", "save_config", "test_config"}
SimulationHandlers == {"market", "advance", "event", "complete", "retrain"}

Left == [create |-> {<<"create", "universe", "profile", "preferences", "health">>}
                    \cup Preparing("health"),
         load |-> {<<"read", "health">>, <<"health">>},
         train |-> Preparing("iterate"),
         universe |-> {<<"universe">>},
         approve |-> {<<"other">>}, select |-> {<<"other">>}, programmer |-> {<<"other">>},
         market |-> {<<"market">>}, advance |-> {<<"advance">>}, event |-> {<<"event">>},
         complete |-> {<<"complete">>}, retrain |-> {<<"retrain">>},
         preferences |-> {<<"preferences">>},
         expand_source |-> {<<"other", "health">>, <<"health">>},
         edit_source |-> {<<"other", "health_or_not">>, <<"health_or_not">>},
         check_sources |-> {<<"health">>},
         provider |-> {<<"provider", "health_or_not">>, <<"health_or_not">>},
         terminal |-> {<<"other">>}, operations |-> {<<"other">>},
         search |-> Searching, watchlist |-> Searching, refresh_market |-> Searching,
         reload_config |-> {<<"read_config">>}, save_config |-> {<<"write_config">>},
         test_config |-> {<<"test_config">>}]

CallNames == {"create", "universe", "profile", "preferences", "health", "read", "iterate",
              "other", "market", "advance", "event", "complete", "retrain", "health_or_not",
              "search"} \cup MarketData \cup ConfigCallNames

Chosen == Sessions \cup {NoSession}

Runs == [handler : Handlers \cup {"none"}, calls : Seq(CallNames), local : Snapshot,
         session : Chosen, content : Nat, answer : {"none", "awaited", "answered", "failed"},
         reply : Data, tries : Nat, alone : BOOLEAN, steady : BOOLEAN]

Orphans == [what : CallNames, session : Chosen, content : Nat]

Typed ==
    /\ server \in [Sessions -> Data]
    /\ file \in Nat
    /\ page \in [session : Chosen, snapshot : Snapshot, opened : BOOLEAN, editor : Nat]
    /\ off \in SUBSET Groups
    /\ task \in [Slots -> Runs]
    /\ orphan \in SUBSET Orphans
    /\ starts \in 0..MaxStarts /\ faults \in 0..MaxFaults
    /\ settled \in SUBSET {"session", "config"}

\* A handler that needs no session selected before it starts.
Unselected(h) == h \in {"create", "load", "provider"} \cup ConfigHandlers

\* A handler in flight has calls left, and a session to make them about.
Working(t) ==
    /\ Busy(t) <=> task[t].answer # "none"
    /\ task[t].alone => Busy(t)
    /\ Busy(t) =>
           /\ task[t].calls \in Left[task[t].handler]
           /\ Doing(t) \notin ConfigCallNames => task[t].session \in Sessions
           /\ ~Unselected(task[t].handler) => page.session \in Sessions
           /\ task[t].handler \in {"create", "load"} /\ ~Selects(Doing(t))
              => page.session \in Sessions

\* What an earlier look at a session has shown to be there is still there.
Below(data, later) == /\ data.universe => later.universe
                      /\ data.report => later.report
SoFar(s) == SessionData(server, s)
Seen(t) ==
    /\ Below(task[t].local.data, SoFar(task[t].local.of))
    /\ task[t].answer = "answered" =>
           /\ Below(task[t].reply, SoFar(task[t].session))
           /\ Doing(t) = "universe" => SoFar(task[t].session).universe
           /\ Doing(t) = "complete" => SoFar(task[t].session).report

\* A training that no other handler has disturbed is past what its session has.
Prepared(t) ==
    Busy(t) /\ task[t].handler = "train" /\ task[t].steady =>
        /\ task[t].session = page.session
        /\ Doing(t) # "universe" => SoFar(page.session).universe
        /\ Doing(t) \in {"preferences", "iterate"} => SoFar(page.session).report

\* The page shows the selected session as the server has it.
Shown == page.session # NoSession =>
             page.snapshot = [of |-> page.session, data |-> server[page.session]]

\* A handler that runs alone has the last word on what it is about.
Alone(t) ==
    task[t].alone =>
        /\ orphan = {}
        /\ \A u \in Slots : u # t => ~Busy(u)
        /\ task[t].answer = "answered" =>
               task[t].reply = SoFar(task[t].session) /\ task[t].content = file
        /\ ~Selects(Doing(t)) => task[t].session = page.session
        /\ task[t].handler = "test_config" => task[t].content = page.editor
        /\ "session" \in About(task[t].handler) /\ Doing(t) \in {"health", "health_or_not"}
           => Shown

\* What is settled is so, and no handler in flight is about it.
Settled ==
    /\ "session" \in settled => Shown
    /\ "config" \in settled => page.editor = file
    /\ \A t \in Slots : Busy(t) => settled \cap About(task[t].handler) = {}

PagesInvariant ==
    /\ Typed
    /\ ButtonsAreHeld
    /\ Below(page.snapshot.data, SoFar(page.snapshot.of))
    /\ \A t \in Slots : Working(t) /\ Seen(t) /\ Prepared(t) /\ Alone(t)
    /\ Settled

-----------------------------------------------------------------------------
(* The handlers and their programs *)

LEMMA GroupNames ==
    Groups = {"session", "strategy", "ungrouped", "simulation", "preferences", "data_source",
              "terminal", "operations", "intelligence", "config"}
  BY PagesAssumption DEF Groups, Buttons

\* The handlers of each group.
Members ==
    [session |-> {"create", "load"}, strategy |-> {"train", "universe", "approve", "select"},
     ungrouped |-> {"programmer"}, simulation |-> SimulationHandlers,
     preferences |-> {"preferences"},
     data_source |-> {"expand_source", "edit_source", "check_sources", "provider"},
     terminal |-> {"terminal"}, operations |-> {"operations"}, intelligence |-> Intelligence,
     config |-> ConfigHandlers]

LEMMA GroupDomains ==
    ASSUME NEW n \in 0..MaxSymbols, NEW g \in Groups
    PROVE  DOMAIN Buttons[n][g] = Members[g]
  <1>1. Buttons[n] =
            [session |-> SessionCalls, strategy |-> StrategyCalls,
             ungrouped |-> ProgrammerCalls, simulation |-> SimulationCalls,
             preferences |-> PreferencesCalls, data_source |-> SourceCalls,
             terminal |-> TerminalCalls, operations |-> OperationsCalls,
             intelligence |-> IntelligenceCalls(n), config |-> ConfigCalls]
    BY DEF Buttons
  <1>2. /\ DOMAIN SessionCalls = {"create", "load"}
        /\ DOMAIN StrategyCalls = {"train", "universe", "approve", "select"}
        /\ DOMAIN ProgrammerCalls = {"programmer"}
        /\ DOMAIN SimulationCalls = SimulationHandlers
        /\ DOMAIN PreferencesCalls = {"preferences"}
        /\ DOMAIN SourceCalls = {"expand_source", "edit_source", "check_sources", "provider"}
        /\ DOMAIN TerminalCalls = {"terminal"}
        /\ DOMAIN OperationsCalls = {"operations"}
        /\ DOMAIN IntelligenceCalls(n) = Intelligence
        /\ DOMAIN ConfigCalls = ConfigHandlers
    BY DEF SessionCalls, StrategyCalls, ProgrammerCalls, SimulationCalls, PreferencesCalls,
           SourceCalls, TerminalCalls, OperationsCalls, IntelligenceCalls, ConfigCalls,
           SimulationHandlers, Intelligence, ConfigHandlers
  <1> QED BY <1>1, <1>2, GroupNames DEF Members

LEMMA HandlerNames ==
    Handlers = {"create", "load", "train", "universe", "approve", "select", "programmer",
                "preferences", "expand_source", "edit_source", "check_sources", "provider",
                "terminal", "operations"}
               \cup SimulationHandlers \cup Intelligence \cup ConfigHandlers
  <1>0. 0 \in 0..MaxSymbols
    BY PagesAssumption
  <1>1. Handlers = UNION {Members[g] : g \in Groups}
    BY <1>0, GroupDomains DEF Handlers
  <1>2. Handlers = Members["session"] \cup Members["strategy"] \cup Members["ungrouped"]
             \cup Members["simulation"] \cup Members["preferences"]
             \cup Members["data_source"] \cup Members["terminal"]
             \cup Members["operations"] \cup Members["intelligence"]
             \cup Members["config"]
    BY <1>1, GroupNames
  <1> QED BY <1>2 DEF Members

\* A handler is in one group.
LEMMA GroupIs ==
    ASSUME NEW h \in Handlers
    PROVE  GroupOf[h] \in Groups /\ h \in Members[GroupOf[h]]
  <1>0. 0 \in 0..MaxSymbols
    BY PagesAssumption
  <1>1. PICK g \in Groups : h \in DOMAIN Buttons[0][g]
    BY DEF Handlers
  <1>2. GroupOf[h] \in Groups /\ h \in DOMAIN Buttons[0][GroupOf[h]]
    BY <1>1 DEF GroupOf
  <1> QED BY <1>0, <1>2, GroupDomains

LEMMA GroupsOfHandlers ==
    ASSUME NEW h \in Handlers
    PROVE  /\ GroupOf[h] = "intelligence" <=> h \in Intelligence
           /\ GroupOf[h] = "config" <=> h \in ConfigHandlers
           /\ GroupOf[h] = "session" <=> h \in {"create", "load"}
           /\ GroupOf[h] = "strategy" <=> h \in {"train", "universe", "approve", "select"}
  <1> DEFINE g == GroupOf[h]
  <1>1. g \in Groups /\ h \in Members[g]
    BY GroupIs
  <1> HIDE DEF g
  <1>2. \A k \in Groups : h \in Members[k] =>
            /\ k = "intelligence" <=> h \in Intelligence
            /\ k = "config" <=> h \in ConfigHandlers
            /\ k = "session" <=> h \in {"create", "load"}
            /\ k = "strategy" <=> h \in {"train", "universe", "approve", "select"}
    BY GroupNames DEF Members, Intelligence, ConfigHandlers, SimulationHandlers
  <1> QED BY <1>1, <1>2 DEF g

LEMMA ProgramIs ==
    ASSUME NEW n \in 0..MaxSymbols, NEW h \in Handlers
    PROVE  /\ h = "create" =>
                  Program(h, n) = <<"create", "universe", "profile", "preferences", "health">>
           /\ h = "load" => Program(h, n) = <<"read", "health">>
           /\ h = "train" => Program(h, n) = <<"universe", "profile", "preferences", "iterate">>
           /\ h = "universe" => Program(h, n) = <<"universe">>
           /\ h \in {"approve", "select", "programmer", "terminal", "operations"}
                  => Program(h, n) = <<"other">>
           /\ h \in SimulationHandlers => Program(h, n) = <<h>>
           /\ h = "preferences" => Program(h, n) = <<"preferences">>
           /\ h = "expand_source" => Program(h, n) = <<"other", "health">>
           /\ h = "edit_source" => Program(h, n) = <<"other", "health_or_not">>
           /\ h = "check_sources" => Program(h, n) = <<"health">>
           /\ h = "provider" => Program(h, n) = <<"provider", "health_or_not">>
           /\ h \in Intelligence => Program(h, n) = IntelligenceCalls(n)[h]
           /\ h = "reload_config" => Program(h, n) = <<"read_config">>
           /\ h = "save_config" => Program(h, n) = <<"write_config">>
           /\ h = "test_config" => Program(h, n) = <<"test_config">>
  <1> DEFINE g == GroupOf[h]
  <1>1. g \in Groups /\ h \in Members[g]
    BY GroupIs
  <1>2. Program(h, n) = Buttons[n][g][h]
    BY DEF Program
  <1>3. Buttons[n] =
            [session |-> SessionCalls, strategy |-> StrategyCalls,
             ungrouped |-> ProgrammerCalls, simulation |-> SimulationCalls,
             preferences |-> PreferencesCalls, data_source |-> SourceCalls,
             terminal |-> TerminalCalls, operations |-> OperationsCalls,
             intelligence |-> IntelligenceCalls(n), config |-> ConfigCalls]
    BY DEF Buttons
  <1> HIDE DEF g
  <1> USE DEF Members, Intelligence, ConfigHandlers, SimulationHandlers
  <1>a. CASE g = "session"
    BY <1>1, <1>2, <1>3, <1>a DEF SessionCalls
  <1>b. CASE g = "strategy"
    BY <1>1, <1>2, <1>3, <1>b DEF StrategyCalls
  <1>c. CASE g = "ungrouped"
    BY <1>1, <1>2, <1>3, <1>c DEF ProgrammerCalls
  <1>d. CASE g = "simulation"
    BY <1>1, <1>2, <1>3, <1>d DEF SimulationCalls
  <1>e. CASE g = "preferences"
    BY <1>1, <1>2, <1>3, <1>e DEF PreferencesCalls
  <1>f. CASE g = "data_source"
    BY <1>1, <1>2, <1>3, <1>f DEF SourceCalls
  <1>g. CASE g = "terminal"
    BY <1>1, <1>2, <1>3, <1>g DEF TerminalCalls
  <1>h. CASE g = "operations"
    BY <1>1, <1>2, <1>3, <1>h DEF OperationsCalls
  <1>i. CASE g = "intelligence"
    BY <1>1, <1>2, <1>3, <1>i
  <1>j. CASE g = "config"
    BY <1>1, <1>2, <1>3, <1>j DEF ConfigCalls
  <1> QED
    BY <1>1, <1>a, <1>b, <1>c, <1>d, <1>e, <1>f, <1>g, <1>h, <1>i, <1>j, GroupNames

-----------------------------------------------------------------------------
(* Minima, maxima and the calls that remain *)

\* A nonempty set of numbers has a least one.
LEMMA LeastExists ==
    ASSUME NEW T \in SUBSET Nat, T # {}
    PROVE  \E x \in T : \A y \in T : x <= y
  <1> DEFINE R == OpToRel(<, Nat)
  <1>1. PICK x \in T : \A y \in T : ~ (<<y, x>> \in R)
    BY NatLessThanWellFounded, WFMin, Zenon
  <1>2. ASSUME NEW y \in T PROVE x <= y
    <2>1. ~ (<<y, x>> \in {ss \in Nat \X Nat : ss[1] < ss[2]})
      BY <1>1 DEF OpToRel
    <2> QED BY <2>1
  <1> QED BY <1>2

LEMMA MinIsLeast ==
    ASSUME NEW T \in SUBSET Nat, T # {}
    PROVE  Min(T) \in T /\ \A y \in T : Min(T) <= y
  BY LeastExists DEF Min

LEMMA MinIs ==
    ASSUME NEW T \in SUBSET Nat, NEW m \in T, \A y \in T : m <= y
    PROVE  Min(T) = m
  <1> DEFINE k == Min(T)
  <1>1. k \in T /\ k <= m
    BY MinIsLeast
  <1> HIDE DEF k
  <1>2. k \in Nat /\ m \in Nat /\ m <= k
    BY <1>1
  <1>3. k = m
    BY <1>1, <1>2
  <1> QED BY <1>3 DEF k

\* The content an edit brings is a number: a largest one exists in the page and its handlers.
LEMMA LargestExists ==
    ASSUME NEW N \in Nat, NEW f \in [1..N -> Nat], NEW x \in Nat, NEW y \in Nat
    PROVE  \E m \in {x, y} \cup {f[t] : t \in 1..N} :
               \A z \in {x, y} \cup {f[t] : t \in 1..N} : m >= z
  <1> DEFINE Has(k) == \E m \in {x, y} \cup {f[t] : t \in 1..k} :
                           \A z \in {x, y} \cup {f[t] : t \in 1..k} : m >= z
             T == {k \in 0..N : ~Has(k)}
  <1>1. Has(0)
    OBVIOUS
  <1>2. ASSUME NEW k \in 1..N, Has(k - 1) PROVE Has(k)
    <2>1. PICK m \in {x, y} \cup {f[t] : t \in 1..(k - 1)} :
              \A z \in {x, y} \cup {f[t] : t \in 1..(k - 1)} : m >= z
      BY <1>2
    <2>2. m \in Nat /\ f[k] \in Nat
      BY <2>1
    <2>3. {x, y} \cup {f[t] : t \in 1..k} = {x, y} \cup {f[t] : t \in 1..(k - 1)} \cup {f[k]}
      OBVIOUS
    <2>4. CASE m >= f[k]
      BY <2>1, <2>2, <2>3, <2>4
    <2>5. CASE f[k] > m
      <3> DEFINE q == f[k]
                 P == {x, y} \cup {f[t] : t \in 1..(k - 1)}
      <3>1. \A z \in P : z \in Nat /\ q >= z
        BY <2>1, <2>2, <2>5
      <3>2. q \in Nat /\ {x, y} \cup {f[t] : t \in 1..k} = P \cup {q}
        BY <2>2, <2>3
      <3> HIDE DEF P, q
      <3>3. q \in P \cup {q} /\ \A z \in P \cup {q} : q >= z
        BY <3>1, <3>2
      <3> QED BY <3>2, <3>3
    <2> QED BY <2>2, <2>4, <2>5
  <1>3. T = {}
    <2> SUFFICES ASSUME T # {} PROVE FALSE
      OBVIOUS
    <2> HIDE DEF Has
    <2>1. T \in SUBSET Nat
      OBVIOUS
    <2>2. PICK k \in T : \A j \in T : k <= j
      BY <2>1, LeastExists, Zenon
    <2>3. k # 0
      BY <1>1
    <2>4. k - 1 \in 0..N /\ k - 1 \notin T
      BY <2>2, <2>3
    <2> QED BY <1>2, <2>3, <2>4
  <1>4. Has(N)
    <2> HIDE DEF Has
    <2> QED BY <1>3
  <1> QED BY <1>4

LEMMA MaxIsNatural ==
    ASSUME NEW N \in Nat, NEW f \in [1..N -> Nat], NEW x \in Nat, NEW y \in Nat
    PROVE  Max({x, y} \cup {f[t] : t \in 1..N}) \in Nat
  <1> DEFINE T == {x, y} \cup {f[t] : t \in 1..N}
  <1>1. \E m \in T : \A z \in T : m >= z
    BY LargestExists
  <1>2. T \subseteq Nat
    OBVIOUS
  <1> HIDE DEF T
  <1>3. Max(T) \in T
    BY <1>1 DEF Max
  <1> QED BY <1>2, <1>3 DEF T

LEMMA NothingRemains ==
    ASSUME NEW h, NEW data, NEW session
    PROVE  Remaining(h, <<>>, data, session) = <<>>
  BY DEF Remaining

\* A profile is made of events and the completed simulation.
Profiled(calls) == [i \in 1..BootEvents |-> "event"] \o <<"complete">> \o Tail(calls)

\* The calls left start with the first one needed.
LEMMA RemainsFrom ==
    ASSUME NEW h, NEW data, NEW session, NEW calls \in Seq(CallNames), calls # <<>>,
           Needed(h, calls[1], data, session)
    PROVE  /\ calls[1] # "profile" => Remaining(h, calls, data, session) = calls
           /\ calls[1] = "profile" =>
                  Remaining(h, calls, data, session) = Profiled(calls)
  <1> DEFINE needed == {i \in DOMAIN calls : Needed(h, calls[i], data, session)}
             rest == IF needed = {} THEN <<>> ELSE SubSeq(calls, Min(needed), Len(calls))
  <1>1. 1 \in needed /\ needed \in SUBSET Nat
    OBVIOUS
  <1>2. \A y \in needed : 1 <= y
    OBVIOUS
  <1>3. Min(needed) = 1
    <2> HIDE DEF needed
    <2> QED BY <1>1, <1>2, MinIs
  <1>4. rest = calls
    <2> HIDE DEF needed
    <2>1. rest = SubSeq(calls, 1, Len(calls))
      BY <1>1, <1>3
    <2> HIDE DEF rest
    <2> QED BY <2>1
  <1>5. Remaining(h, calls, data, session) =
            IF rest # <<>> /\ rest[1] = "profile"
            THEN [i \in 1..BootEvents |-> "event"] \o <<"complete">> \o Tail(rest)
            ELSE rest
    BY DEF Remaining
  <1> HIDE DEF rest
  <1> QED BY <1>4, <1>5 DEF Profiled

\* A call not needed is dropped.
LEMMA RemainsOf ==
    ASSUME NEW h, NEW data, NEW session, NEW calls \in Seq(CallNames), calls # <<>>,
           ~Needed(h, calls[1], data, session)
    PROVE  Remaining(h, calls, data, session) = Remaining(h, Tail(calls), data, session)
  <1> DEFINE tail == Tail(calls)
             I == {i \in DOMAIN calls : Needed(h, calls[i], data, session)}
             J == {i \in DOMAIN tail : Needed(h, tail[i], data, session)}
             restI == IF I = {} THEN <<>> ELSE SubSeq(calls, Min(I), Len(calls))
             restJ == IF J = {} THEN <<>> ELSE SubSeq(tail, Min(J), Len(tail))
  <1>0. /\ tail \in Seq(CallNames) /\ Len(tail) = Len(calls) - 1
        /\ \A i \in 1..Len(tail) : tail[i] = calls[i + 1]
    BY HeadTailProperties
  <1>1. I \in SUBSET Nat /\ J \in SUBSET Nat
    BY <1>0
  <1>2. \A i \in J : i + 1 \in I
    BY <1>0
  <1>3. \A i \in I : i - 1 \in J
    <2> TAKE i \in I
    <2>1. i \in 1..Len(calls) /\ i # 1
      OBVIOUS
    <2>2. i - 1 \in 1..Len(tail) /\ tail[i - 1] = calls[i]
      BY <1>0, <2>1
    <2> QED BY <1>0, <2>2
  <1>4. restI = restJ
    <2>1. CASE I = {}
      BY <1>2, <2>1
    <2>2. CASE I # {}
      <3>1. J # {}
        BY <1>3, <2>2
      <3> J \subseteq 1..Len(tail) /\ I \subseteq 1..Len(calls)
        BY <1>0
      <3> HIDE DEF I, J
      <3> DEFINE m == Min(J)
      <3>2. m \in J /\ \A y \in J : m <= y
        BY <1>1, <3>1, MinIsLeast
      <3> HIDE DEF m
      <3>4. m \in 1..Len(tail)
        BY <3>2
      <3>6. m + 1 \in I
        BY <1>2, <3>2
      <3>7. ASSUME NEW y \in I PROVE m + 1 <= y
        <4>1. y - 1 \in J
          BY <1>3
        <4>2. m <= y - 1
          BY <3>2, <4>1
        <4> QED BY <3>4, <4>2
      <3>3. Min(I) = m + 1
        BY <1>1, <3>6, <3>7, MinIs
      <3>5. SubSeq(calls, m + 1, Len(calls)) = SubSeq(tail, m, Len(tail))
        <4> HIDE DEF tail
        <4>1. Len(calls) \in Nat /\ Len(tail) = Len(calls) - 1
          BY <1>0
        <4>2. SubSeq(calls, m + 1, Len(calls))
              = [i \in 1..(Len(calls) - m) |-> calls[i + m]]
          BY <3>4, <4>1
        <4>3. SubSeq(tail, m, Len(tail)) = [i \in 1..(Len(calls) - m) |-> tail[i + m - 1]]
          BY <1>0, <3>4, <4>1
        <4>4. \A i \in 1..(Len(calls) - m) : tail[i + m - 1] = calls[i + m]
          BY <1>0, <3>4, <4>1
        <4> QED BY <4>2, <4>3, <4>4
      <3> QED BY <2>2, <3>1, <3>3, <3>5 DEF m
    <2> QED BY <2>1, <2>2
  <1>5. Remaining(h, calls, data, session) =
            IF restI # <<>> /\ restI[1] = "profile"
            THEN [i \in 1..BootEvents |-> "event"] \o <<"complete">> \o Tail(restI)
            ELSE restI
    BY DEF Remaining
  <1>6. Remaining(h, tail, data, session) =
            IF restJ # <<>> /\ restJ[1] = "profile"
            THEN [i \in 1..BootEvents |-> "event"] \o <<"complete">> \o Tail(restJ)
            ELSE restJ
    BY DEF Remaining
  <1> HIDE DEF restI, restJ
  <1>7. Remaining(h, calls, data, session) = Remaining(h, tail, data, session)
    <2> HIDE DEF tail
    <2> QED BY <1>4, <1>5, <1>6
  <1> QED BY <1>7

-----------------------------------------------------------------------------
(* The lists of calls a session is prepared with *)

Lasts == {"health", "iterate"}
Preparers == {"create", "train"}

LEMMA EventsElements ==
    ASSUME NEW k \in Nat, NEW last \in Lasts
    PROVE  /\ EventsThen(k, last) \in Seq(CallNames)
           /\ Len(EventsThen(k, last)) = k + 3
           /\ \A i \in 1..k : EventsThen(k, last)[i] = "event"
           /\ EventsThen(k, last)[k + 1] = "complete"
           /\ EventsThen(k, last)[k + 2] = "preferences"
           /\ EventsThen(k, last)[k + 3] = last
  <1> DEFINE f == [i \in 1..(k + 3) |-> CASE i <= k -> "event"
                                          [] i = k + 1 -> "complete"
                                          [] i = k + 2 -> "preferences"
                                          [] OTHER -> last]
  <1>0. {"event", "complete", "preferences", last} \subseteq CallNames
    BY DEF Lasts, CallNames
  <1>1. f \in [1..(k + 3) -> CallNames]
    BY <1>0
  <1>2. /\ \A i \in 1..k : f[i] = "event"
        /\ f[k + 1] = "complete" /\ f[k + 2] = "preferences" /\ f[k + 3] = last
    OBVIOUS
  <1>3. EventsThen(k, last) = f
    BY DEF EventsThen
  <1> HIDE DEF f
  <1>4. f \in Seq(CallNames) /\ Len(f) = k + 3
    BY <1>1
  <1> QED BY <1>2, <1>3, <1>4

LEMMA AreEvents ==
    ASSUME NEW k \in Nat, NEW last \in Lasts, NEW list \in Seq(CallNames),
           Len(list) = k + 3, \A i \in 1..k : list[i] = "event",
           list[k + 1] = "complete", list[k + 2] = "preferences", list[k + 3] = last
    PROVE  list = EventsThen(k, last)
  <1>1. ASSUME NEW other \in Seq(CallNames), Len(other) = k + 3,
               \A i \in 1..k : other[i] = "event", other[k + 1] = "complete",
               other[k + 2] = "preferences", other[k + 3] = last
        PROVE  list = other
    <2>1. \A i \in 1..Len(list) : list[i] = other[i]
      <3> TAKE i \in 1..Len(list)
      <3>1. i \in 1..k \/ i = k + 1 \/ i = k + 2 \/ i = k + 3
        OBVIOUS
      <3> QED BY <1>1, <3>1
    <2> QED BY <1>1, <2>1, SeqEqual
  <1> QED BY <1>1, EventsElements

LEMMA EventsAre ==
    ASSUME NEW k \in Nat, NEW last \in Lasts
    PROVE  /\ EventsThen(k, last) \in Seq(CallNames)
           /\ EventsThen(k, last) # <<>>
           /\ EventsThen(k, last)[1] = (IF k = 0 THEN "complete" ELSE "event")
           /\ k = 0 => Tail(EventsThen(k, last)) = <<"preferences", last>>
           /\ k > 0 => Tail(EventsThen(k, last)) = EventsThen(k - 1, last)
  <1> DEFINE list == EventsThen(k, last)
             tail == Tail(list)
  <1>1. /\ list \in Seq(CallNames) /\ Len(list) = k + 3
        /\ \A i \in 1..k : list[i] = "event"
        /\ list[k + 1] = "complete" /\ list[k + 2] = "preferences" /\ list[k + 3] = last
    BY EventsElements
  <1> HIDE DEF list
  <1>2. list # <<>> /\ list[1] = (IF k = 0 THEN "complete" ELSE "event")
    BY <1>1
  <1>3. /\ tail \in Seq(CallNames) /\ Len(tail) = k + 2
        /\ \A i \in 1..(k + 2) : tail[i] = list[i + 1]
    BY <1>1, <1>2, HeadTailProperties
  <1> HIDE DEF tail
  <1>4. k = 0 => tail = <<"preferences", last>>
    BY <1>1, <1>3
  <1>5. k > 0 => tail = EventsThen(k - 1, last)
    <2> SUFFICES ASSUME k > 0 PROVE tail = EventsThen(k - 1, last)
      OBVIOUS
    <2>1. /\ k - 1 \in Nat /\ Len(tail) = (k - 1) + 3
          /\ \A i \in 1..(k - 1) : tail[i] = "event"
          /\ tail[(k - 1) + 1] = "complete" /\ tail[(k - 1) + 2] = "preferences"
          /\ tail[(k - 1) + 3] = last
      BY <1>1, <1>3
    <2> QED BY <1>3, <2>1, AreEvents
  <1> QED BY <1>1, <1>2, <1>4, <1>5 DEF list, tail

LEMMA ProfileIsEvents ==
    ASSUME NEW last \in Lasts
    PROVE  [i \in 1..BootEvents |-> "event"] \o <<"complete">> \o <<"preferences", last>>
           = EventsThen(BootEvents, last)
  <1> DEFINE events == [i \in 1..BootEvents |-> "event"]
             k == BootEvents
             first == events \o <<"complete">>
             list == first \o <<"preferences", last>>
  <1>0. k \in Nat
    BY PagesAssumption
  <1>1. /\ "event" \in CallNames /\ "complete" \in CallNames
        /\ "preferences" \in CallNames /\ last \in CallNames
    BY DEF CallNames, Lasts
  <1>2. events \in Seq(CallNames) /\ Len(events) = k /\ \A i \in 1..k : events[i] = "event"
    BY <1>0, <1>1
  <1>3. <<"complete">> \in Seq(CallNames) /\ <<"preferences", last>> \in Seq(CallNames)
    BY <1>1
  <1> HIDE DEF events, k
  <1>4. /\ first \in Seq(CallNames) /\ Len(first) = k + 1
        /\ \A i \in 1..k : first[i] = "event"
        /\ first[k + 1] = "complete"
    BY <1>0, <1>2, <1>3, ConcatProperties
  <1> HIDE DEF first
  <1>5. /\ list \in Seq(CallNames) /\ Len(list) = k + 3
        /\ \A i \in 1..k : list[i] = "event"
        /\ list[k + 1] = "complete" /\ list[k + 2] = "preferences" /\ list[k + 3] = last
    BY <1>0, <1>3, <1>4, ConcatProperties
  <1> HIDE DEF list
  <1>6. list = EventsThen(k, last)
    BY <1>0, <1>5, AreEvents
  <1> QED BY <1>6 DEF list, first, events, k

LEMMA NeededIs ==
    ASSUME NEW h, NEW what, NEW data, NEW session
    PROVE  /\ what \notin {"universe", "profile", "preferences", "health_or_not"}
              => Needed(h, what, data, session)
           /\ h \notin Preparers /\ what # "health_or_not" => Needed(h, what, data, session)
           /\ h \in Preparers =>
                  /\ what = "universe" => (Needed(h, what, data, session) <=> ~data.universe)
                  /\ what = "profile" => (Needed(h, what, data, session) <=> ~data.report)
                  /\ what = "preferences" =>
                         (Needed(h, what, data, session) <=> ~data.preferences)
           /\ what = "health_or_not" =>
                  (Needed(h, what, data, session) <=> session # NoSession)
  <1>1. CASE h \in Preparers
    <2>1. Prerequisites(h) = {"universe", "profile", "event", "complete", "preferences"}
      BY <1>1 DEF Prerequisites, Preparers
    <2> QED BY <1>1, <2>1 DEF Needed
  <1>2. CASE h \notin Preparers
    <2>1. Prerequisites(h) = {}
      BY <1>2 DEF Prerequisites, Preparers
    <2> QED BY <1>2, <2>1 DEF Needed
  <1> QED BY <1>1, <1>2

Whole(last) == <<"universe", "profile", "preferences", last>>
FromProfile(last) == <<"profile", "preferences", last>>
FromPreferences(last) == <<"preferences", last>>
Only(last) == <<last>>

\* What is left of preparing a session, from each of its calls on.
LEMMA PreparingRemains ==
    ASSUME NEW h \in Preparers, NEW last \in Lasts, NEW data, NEW session
    PROVE  /\ Remaining(h, Only(last), data, session) = Only(last)
           /\ Remaining(h, FromPreferences(last), data, session)
              \in {FromPreferences(last), Only(last)}
           /\ Remaining(h, FromProfile(last), data, session)
              \in {EventsThen(BootEvents, last), FromPreferences(last), Only(last)}
           /\ ~data.report =>
                  Remaining(h, FromProfile(last), data, session)
                  = EventsThen(BootEvents, last)
           /\ data.universe =>
                  Remaining(h, Whole(last), data, session)
                  = Remaining(h, FromProfile(last), data, session)
           /\ ~data.universe =>
                  Remaining(h, Whole(last), data, session)
                  = Whole(last)
  <1> DEFINE R(calls) == Remaining(h, calls, data, session)
  <1>0. /\ "universe" \in CallNames /\ "profile" \in CallNames
        /\ "preferences" \in CallNames /\ last \in CallNames
        /\ last \notin {"universe", "profile", "preferences", "health_or_not"}
    BY DEF CallNames, Lasts
  <1> DEFINE A == Whole(last)
             B == FromProfile(last)
             C == FromPreferences(last)
             D == Only(last)
  <1>1. /\ A \in Seq(CallNames) /\ A # <<>> /\ A[1] = "universe" /\ Tail(A) = B
        /\ B \in Seq(CallNames) /\ B # <<>> /\ B[1] = "profile" /\ Tail(B) = C
        /\ C \in Seq(CallNames) /\ C # <<>> /\ C[1] = "preferences" /\ Tail(C) = D
        /\ D \in Seq(CallNames) /\ D # <<>> /\ D[1] = last
    BY <1>0 DEF Whole, FromProfile, FromPreferences, Only
  <1>2. Profiled(B) = EventsThen(BootEvents, last)
    BY <1>1, ProfileIsEvents DEF Profiled, FromPreferences
  <1> DEFINE N(what) == Needed(h, what, data, session)
  <1>a. \A list \in Seq(CallNames) : list # <<>> =>
            /\ N(list[1]) /\ list[1] # "profile" => R(list) = list
            /\ N(list[1]) /\ list[1] = "profile" => R(list) = Profiled(list)
            /\ ~N(list[1]) => R(list) = R(Tail(list))
    BY RemainsFrom, RemainsOf
  <1>b. /\ N(last)
        /\ N("universe") <=> ~data.universe
        /\ N("profile") <=> ~data.report
    BY <1>0, NeededIs
  <1> HIDE DEF A, B, C, D, R, N
  <1>3. R(D) = D
    BY <1>0, <1>1, <1>a, <1>b
  <1>4. R(C) \in {C, D}
    <2>1. CASE N(C[1])
      BY <1>1, <2>1, <1>a
    <2>2. CASE ~N(C[1])
      BY <1>1, <1>3, <2>2, <1>a
    <2> QED BY <2>1, <2>2
  <1>6. /\ ~data.report => R(B) = EventsThen(BootEvents, last)
        /\ data.report => R(B) = R(C)
    BY <1>1, <1>2, <1>a, <1>b
  <1>8. /\ ~data.universe => R(A) = A
        /\ data.universe => R(A) = R(B)
    BY <1>1, <1>a, <1>b
  <1>9. /\ R(D) = D
        /\ R(C) \in {C, D}
        /\ R(B) \in {EventsThen(BootEvents, last), C, D}
        /\ ~data.report => R(B) = EventsThen(BootEvents, last)
        /\ data.universe => R(A) = R(B)
        /\ ~data.universe => R(A) = A
    BY <1>3, <1>4, <1>6, <1>8
  <1> QED BY <1>9 DEF R, A, B, C, D

\* The next call of a handler that prepares a session, and what its absence shows.
LEMMA PreparingOnward ==
    ASSUME NEW h \in Preparers, NEW last \in Lasts, NEW data, NEW session,
           NEW calls \in Preparing(last)
    PROVE  LET rest == Remaining(h, Tail(calls), data, session)
           IN  /\ calls = <<last>> => rest = <<>>
               /\ calls # <<last>> => rest \in Preparing(last)
               /\ calls[1] = last => calls = <<last>>
               /\ rest # <<>> => rest[1] # "universe"
               /\ calls[1] = "event" => rest[1] \in {"event", "complete"}
               /\ calls[1] = "universe" /\ ~data.report => rest[1] = "event"
  <1> DEFINE R(list) == Remaining(h, list, data, session)
             A == Whole(last)
             B == FromProfile(last)
             C == FromPreferences(last)
             D == Only(last)
             Goal(list) == 
               /\ list = D => R(Tail(list)) = <<>>
               /\ list # D => R(Tail(list)) \in Preparing(last)
               /\ list[1] = last => list = D
               /\ R(Tail(list)) # <<>> => R(Tail(list))[1] # "universe"
               /\ list[1] = "event" => R(Tail(list))[1] \in {"event", "complete"}
               /\ list[1] = "universe" /\ ~data.report => R(Tail(list))[1] = "event"
  <1>0. /\ last \in CallNames
        /\ last \notin {"universe", "profile", "preferences", "event", "complete"}
    BY DEF CallNames, Lasts
  <1>1. /\ A[1] = "universe" /\ Tail(A) = B /\ A # D
        /\ C[1] = "preferences" /\ Tail(C) = D /\ C # D /\ C # <<>>
        /\ D[1] = last /\ Tail(D) = <<>> /\ D # <<>>
    BY <1>0 DEF Whole, FromProfile, FromPreferences, Only
  <1>2. /\ R(<<>>) = <<>>
        /\ R(D) = D
        /\ R(C) \in {C, D}
        /\ R(B) \in {EventsThen(BootEvents, last), C, D}
        /\ ~data.report => R(B) = EventsThen(BootEvents, last)
    BY PreparingRemains, NothingRemains
  <1>3. /\ Preparing(last) = {A, C, D} \cup {EventsThen(k, last) : k \in 0..BootEvents}
        /\ BootEvents \in 0..BootEvents /\ BootEvents # 0
    BY PagesAssumption DEF Preparing, Whole, FromPreferences, Only
  <1>4. \A k \in 0..BootEvents :
            /\ k \in Nat
            /\ EventsThen(k, last) # <<>>
            /\ EventsThen(k, last)[1] = (IF k = 0 THEN "complete" ELSE "event")
            /\ k = 0 => Tail(EventsThen(k, last)) = C
            /\ k > 0 => Tail(EventsThen(k, last)) = EventsThen(k - 1, last)
    <2> TAKE k \in 0..BootEvents
    <2>1. k \in Nat
      OBVIOUS
    <2> QED BY <2>1, EventsAre, Zenon DEF FromPreferences
  <1>5. \A k \in 0..BootEvents : R(EventsThen(k, last)) = EventsThen(k, last)
    <2> TAKE k \in 0..BootEvents
    <2> DEFINE list == EventsThen(k, last)
    <2>0. k \in Nat
      OBVIOUS
    <2>4. list \in Seq(CallNames)
      BY <2>0, EventsAre, Zenon
    <2>1. list \in Seq(CallNames) /\ list # <<>> /\ list[1] \in {"event", "complete"}
      BY <1>4, <2>4
    <2> HIDE DEF list
    <2>2. Needed(h, list[1], data, session) /\ list[1] # "profile"
      BY <2>1, NeededIs
    <2>3. R(list) = list
      BY <2>1, <2>2, RemainsFrom
    <2> QED BY <2>3 DEF list
  <1> HIDE DEF R, A, B, C, D
  <1>6. Goal(A)
    BY <1>0, <1>1, <1>2, <1>3, <1>4
  <1>7. Goal(C)
    BY <1>0, <1>1, <1>2, <1>3
  <1>8. Goal(D)
    BY <1>0, <1>1, <1>2, <1>3
  <1>9. ASSUME NEW k \in 0..BootEvents PROVE Goal(EventsThen(k, last))
    <2> DEFINE list == EventsThen(k, last)
    <2>1. list # <<>> /\ list[1] \in {"event", "complete"} /\ list[1] # last /\ list # D
      BY <1>0, <1>1, <1>4
    <2>2. CASE k = 0
      <3>1. list[1] = "complete" /\ Tail(list) = C
        BY <1>4, <2>2
      <3> HIDE DEF list
      <3>2. Goal(list)
        BY <1>0, <1>1, <1>2, <1>3, <2>1, <3>1
      <3> QED BY <3>2 DEF list
    <2>3. CASE k # 0
      <3>1. k - 1 \in 0..BootEvents
        BY <2>3, PagesAssumption
      <3>2. /\ list[1] = "event" /\ Tail(list) = EventsThen(k - 1, last)
            /\ EventsThen(k - 1, last)[1] \in {"event", "complete"}
            /\ EventsThen(k - 1, last) # <<>>
            /\ R(EventsThen(k - 1, last)) = EventsThen(k - 1, last)
            /\ EventsThen(k - 1, last) \in Preparing(last)
        BY <1>3, <1>4, <1>5, <2>3, <3>1
      <3> HIDE DEF list
      <3>3. Goal(list)
        BY <2>1, <3>2
      <3> QED BY <3>3 DEF list
    <2> QED BY <2>2, <2>3
  <1> HIDE DEF Goal
  <1>10. Goal(calls)
    BY <1>3, <1>6, <1>7, <1>8, <1>9
  <1> QED BY <1>10 DEF Goal, R, D, Only

-----------------------------------------------------------------------------
(* The lists of calls of a search *)

Sought == {"search"} \cup MarketData

LEMMA SearchingIs ==
    ASSUME NEW calls \in Seq(Sought), calls # <<>>,
           calls[Len(calls)] = "options" \/ \A i \in 1..Len(calls) : calls[i] = "search"
    PROVE  calls \in Searching
  BY DEF Searching, Enriched, Sought

LEMMA SearchingHas ==
    ASSUME NEW calls \in Searching
    PROVE  /\ calls \in Seq(Sought) /\ calls # <<>> /\ Len(calls) \in Nat \ {0}
           /\ calls[1] \in Sought
           /\ \/ calls[Len(calls)] = "options"
              \/ \A i \in 1..Len(calls) : calls[i] = "search"
           /\ calls \in Seq(CallNames)
  <1>1. calls \in Seq(Sought) /\ calls # <<>>
    BY DEF Searching, Sought
  <1>2. calls[Len(calls)] = "options" \/ \A i \in 1..Len(calls) : calls[i] = "search"
    BY DEF Searching, Enriched
  <1>3. Sought \subseteq CallNames
    BY DEF Sought, CallNames
  <1>4. Len(calls) \in Nat \ {0} /\ calls[1] \in Sought
    BY <1>1
  <1>5. calls \in Seq(CallNames)
    BY <1>1, <1>3, SeqMonotonic
  <1> QED BY <1>1, <1>2, <1>4, <1>5

\* A suffix of a search is one, or nothing.
LEMMA SearchingSuffix ==
    ASSUME NEW calls \in Searching, NEW k \in 1..Len(calls)
    PROVE  SubSeq(calls, k + 1, Len(calls)) \in Searching \cup {<<>>}
  <1> DEFINE n == Len(calls)
             rest == SubSeq(calls, k + 1, n)
  <1>1. /\ calls \in Seq(Sought) /\ n \in Nat
        /\ calls[n] = "options" \/ \A i \in 1..n : calls[i] = "search"
    BY SearchingHas
  <1>2. /\ rest \in Seq(Sought) /\ Len(rest) = n - k
        /\ \A i \in 1..(n - k) : rest[i] = calls[k + i]
    BY <1>1
  <1> HIDE DEF rest
  <1>3. CASE k = n
    BY <1>2, <1>3, <1>1
  <1>4. CASE k # n
    <2>1. Len(rest) \in 1..n /\ rest[Len(rest)] = calls[n]
      BY <1>1, <1>2, <1>4
    <2>2. (\A i \in 1..n : calls[i] = "search") => \A i \in 1..Len(rest) : rest[i] = "search"
      BY <1>1, <1>2
    <2>4. rest # <<>> /\ rest \in Seq(Sought)
      BY <1>1, <1>2, <1>4
    <2>5. rest[Len(rest)] = "options" \/ \A i \in 1..Len(rest) : rest[i] = "search"
      BY <1>1, <2>1, <2>2
    <2>3. rest \in Searching
      BY <2>4, <2>5, SearchingIs
    <2> QED BY <2>3 DEF rest
  <1> QED BY <1>3, <1>4 DEF rest

LEMMA SearchingTail ==
    ASSUME NEW calls \in Searching
    PROVE  Tail(calls) \in Searching \cup {<<>>}
  <1>1. calls \in Seq(Sought) /\ calls # <<>> /\ Len(calls) \in Nat \ {0}
    BY SearchingHas
  <1>2. Tail(calls) = SubSeq(calls, 2, Len(calls))
    BY <1>1
  <1>3. SubSeq(calls, 2, Len(calls)) \in Searching \cup {<<>>}
    <2>1. \A k \in 1..Len(calls) : SubSeq(calls, k + 1, Len(calls)) \in Searching \cup {<<>>}
      BY SearchingSuffix
    <2>2. 1 \in 1..Len(calls) /\ 1 + 1 = 2
      BY <1>1
    <2> QED BY <2>1, <2>2
  <1> QED BY <1>2, <1>3

\* A search goes on with the rest of its list, or after a failure behind the options.
LEMMA SearchingOnward ==
    ASSUME NEW h \in Intelligence, NEW data, NEW session, NEW calls \in Searching
    PROVE  /\ Remaining(h, calls, data, session) = calls
           /\ Remaining(h, Tail(calls), data, session) \in Searching \cup {<<>>}
           /\ calls[1] \in MarketData => AfterFailure(calls) \in Searching \cup {<<>>}
  <1>1. ASSUME NEW list \in Searching PROVE Remaining(h, list, data, session) = list
    <2>1. list \in Seq(CallNames) /\ list # <<>> /\ list[1] \in Sought
      BY SearchingHas
    <2>2. list[1] # "health_or_not" /\ list[1] # "profile" /\ h \notin Preparers
      BY <2>1 DEF Sought, MarketData, Intelligence, Preparers
    <2>3. Needed(h, list[1], data, session)
      BY <2>2, NeededIs
    <2> QED BY <2>1, <2>2, <2>3, RemainsFrom
  <1>2. Remaining(h, Tail(calls), data, session) \in Searching \cup {<<>>}
    BY <1>1, SearchingTail, NothingRemains
  <1>3. ASSUME calls[1] \in MarketData
        PROVE  AfterFailure(calls) \in Searching \cup {<<>>}
    <2> DEFINE I == {i \in DOMAIN calls : calls[i] = "options"}
    <2>1. /\ calls \in Seq(Sought) /\ Len(calls) \in Nat \ {0}
          /\ calls[Len(calls)] = "options" \/ \A i \in 1..Len(calls) : calls[i] = "search"
      BY SearchingHas
    <2>2. calls[1] # "search"
      BY <1>3 DEF MarketData
    <2>3. I \in SUBSET (1..Len(calls)) /\ Len(calls) \in I
      BY <2>1, <2>2
    <2>4. AfterFailure(calls) = SubSeq(calls, Min(I) + 1, Len(calls))
      BY <1>3 DEF AfterFailure, MarketData
    <2> HIDE DEF I
    <2>5. Min(I) \in 1..Len(calls)
      <3>1. I \in SUBSET Nat /\ I # {}
        BY <2>3
      <3>2. Min(I) \in I
        BY <3>1, MinIsLeast, Zenon
      <3> QED BY <2>3, <3>2
    <2> QED BY <2>4, <2>5, SearchingSuffix
  <1> QED BY <1>1, <1>2, <1>3

LEMMA EnrichmentIs ==
    ASSUME NEW n \in Nat
    PROVE  /\ Enrichment(n) \in Seq(Sought) /\ Len(Enrichment(n)) = 3 * n
           /\ n > 0 => Enrichment(n)[3 * n] = "options"
  <1> DEFINE three == <<"financials", "dark_pool", "options">>
             f == [i \in 1..(3 * n) |-> three[1 + ((i - 1) % 3)]]
  <1>1. three[1] \in Sought /\ three[2] \in Sought /\ three[3] \in Sought /\ three[3] = "options"
    BY DEF Sought, MarketData
  <1>2. Enrichment(n) = f
    BY DEF Enrichment
  <1> HIDE DEF three
  <1>3. \A i \in 1..(3 * n) : three[1 + ((i - 1) % 3)] \in Sought
    <2> TAKE i \in 1..(3 * n)
    <2>1. (i - 1) % 3 = 0 \/ (i - 1) % 3 = 1 \/ (i - 1) % 3 = 2
      OBVIOUS
    <2>2. 1 + ((i - 1) % 3) = 1 \/ 1 + ((i - 1) % 3) = 2 \/ 1 + ((i - 1) % 3) = 3
      BY <2>1
    <2> QED BY <1>1, <2>2
  <1>4. n > 0 => f[3 * n] = three[3]
    <2> SUFFICES ASSUME n > 0 PROVE f[3 * n] = three[3]
      OBVIOUS
    <2>1. 3 * n \in 1..(3 * n) /\ 1 + ((3 * n - 1) % 3) = 3
      OBVIOUS
    <2> QED BY <2>1
  <1>5. f \in [1..(3 * n) -> Sought] /\ 3 * n \in Nat
    BY <1>3
  <1> HIDE DEF f
  <1>6. f \in Seq(Sought) /\ Len(f) = 3 * n
    BY <1>5
  <1> QED BY <1>1, <1>2, <1>4, <1>6

\* The programs of the searches are searches.
LEMMA SearchingStarts ==
    ASSUME NEW h \in Intelligence, NEW n \in ListsFor(h)
    PROVE  n \in 0..MaxSymbols /\ IntelligenceCalls(n)[h] \in Searching
  <1>0. n \in 0..MaxSymbols /\ (h # "search" => n > 0)
    BY PagesAssumption DEF ListsFor, Intelligence
  <1>a. n \in Nat
    BY <1>0, PagesAssumption
  <1> DEFINE e == Enrichment(n)
             list == [i \in 1..n |-> "search"]
  <1>1. e \in Seq(Sought) /\ Len(e) = 3 * n /\ (n > 0 => e[3 * n] = "options")
    BY <1>a, EnrichmentIs
  <1>2. "search" \in Sought
    BY DEF Sought
  <1>3. list \in Seq(Sought) /\ Len(list) = n
    BY <1>a, <1>2
  <1>4. IntelligenceCalls(n) = [search |-> <<"search">> \o e, watchlist |-> list \o e,
                                refresh_market |-> e]
    BY DEF IntelligenceCalls
  <1> HIDE DEF e, list
  <1>5. ASSUME NEW first \in Seq(Sought), n > 0 PROVE first \o e \in Searching
    <2> DEFINE calls == first \o e
               m == 3 * n
               l == Len(first)
    <2>0. m \in Nat /\ m > 0 /\ l \in Nat /\ Len(e) = m /\ e[m] = "options"
      BY <1>a, <1>1, <1>5
    <2> HIDE DEF m
    <2>1. /\ calls \in Seq(Sought) /\ Len(calls) = l + m
          /\ \A i \in 1..(l + m) : calls[i] = IF i <= l THEN first[i] ELSE e[i - l]
      BY <1>1, <2>0, ConcatProperties
    <2> HIDE DEF calls, l
    <2>2. calls # <<>> /\ calls[Len(calls)] = "options"
      BY <2>0, <2>1
    <2>3. calls \in Searching
      BY <2>1, <2>2, SearchingIs
    <2> QED BY <2>3 DEF calls
  <1>6. CASE h = "search"
    <2>1. <<"search">> \in Seq(Sought)
      BY <1>2
    <2>4. IntelligenceCalls(n)[h] = <<"search">> \o e
      BY <1>4, <1>6
    <2>2. CASE n > 0
      <3>1. \A first \in Seq(Sought) : first \o e \in Searching
        BY <1>5, <2>2
      <3> QED BY <1>0, <2>1, <2>4, <3>1, Zenon
    <2>3. CASE n = 0
      <3>1. e = <<>>
        BY <1>1, <2>3
      <3>2. <<"search">> \o e = <<"search">>
        BY <2>1, <3>1, ConcatEmptySeq
      <3> DEFINE calls == <<"search">>
      <3>3. /\ calls # <<>> /\ \A i \in 1..Len(calls) : calls[i] = "search"
            /\ calls \in Seq(Sought)
        BY <2>1
      <3> HIDE DEF calls
      <3>4. calls \in Searching
        BY <3>3, SearchingIs
      <3> QED BY <1>0, <2>4, <3>2, <3>4, Zenon DEF calls
    <2> QED BY <1>a, <2>2, <2>3
  <1>7. CASE h = "watchlist"
    BY <1>0, <1>3, <1>4, <1>5, <1>7
  <1>8. CASE h = "refresh_market"
    <2>1. e # <<>> /\ e[Len(e)] = "options"
      BY <1>0, <1>a, <1>1, <1>8
    <2>2. e \in Searching
      BY <1>1, <2>1, SearchingIs
    <2> QED BY <1>0, <1>4, <1>8, <2>2
  <1> QED BY <1>6, <1>7, <1>8 DEF Intelligence

-----------------------------------------------------------------------------
(* The calls a handler has left *)

\* The handlers that neither prepare a session nor search.
Plain == Handlers \ (Preparers \cup Intelligence)

LEMMA PreparingIs ==
    ASSUME NEW last \in Lasts, NEW calls \in Preparing(last)
    PROVE  /\ calls \in Seq(CallNames) /\ calls # <<>>
           /\ calls[1] \in {"universe", "event", "complete", "preferences", last}
  <1>0. /\ "universe" \in CallNames /\ "profile" \in CallNames
        /\ "preferences" \in CallNames /\ last \in CallNames
    BY DEF CallNames, Lasts
  <1>1. CASE calls \in {Whole(last), FromPreferences(last), Only(last)}
    <2>1. CASE calls = Whole(last)
      BY <1>0, <2>1 DEF Whole
    <2>2. CASE calls = FromPreferences(last)
      BY <1>0, <2>2 DEF FromPreferences
    <2>3. CASE calls = Only(last)
      BY <1>0, <2>3 DEF Only
    <2> QED BY <1>1, <2>1, <2>2, <2>3
  <1>2. ASSUME NEW k \in 0..BootEvents, calls = EventsThen(k, last)
        PROVE  /\ calls \in Seq(CallNames) /\ calls # <<>>
               /\ calls[1] \in {"event", "complete"}
    <2>1. k \in Nat
      OBVIOUS
    <2> QED BY <1>2, <2>1, EventsAre
  <1>3. \/ calls \in {Whole(last), FromPreferences(last), Only(last)}
        \/ \E k \in 0..BootEvents : calls = EventsThen(k, last)
    BY DEF Preparing, Whole, FromPreferences, Only
  <1> QED BY <1>1, <1>2, <1>3

LEMMA PlainLeft ==
    ASSUME NEW h \in Plain, NEW calls \in Left[h]
    PROVE  /\ h \in {"approve", "select", "programmer", "terminal", "operations"}
              => calls = <<"other">>
           /\ h \in {"universe", "preferences"} \cup SimulationHandlers => calls = <<h>>
           /\ h = "load" => calls \in {<<"read", "health">>, <<"health">>}
           /\ h = "expand_source" => calls \in {<<"other", "health">>, <<"health">>}
           /\ h = "edit_source"
              => calls \in {<<"other", "health_or_not">>, <<"health_or_not">>}
           /\ h = "check_sources" => calls = <<"health">>
           /\ h = "provider" => calls \in {<<"provider", "health_or_not">>, <<"health_or_not">>}
           /\ h = "reload_config" => calls = <<"read_config">>
           /\ h = "save_config" => calls = <<"write_config">>
           /\ h = "test_config" => calls = <<"test_config">>
  BY HandlerNames
     DEF Plain, Left, Preparers, Intelligence, SimulationHandlers, ConfigHandlers

LEMMA OneCall ==
    ASSUME NEW a \in CallNames
    PROVE  <<a>> \in Seq(CallNames) /\ <<a>> # <<>> /\ <<a>>[1] = a
  OBVIOUS

LEMMA TwoCalls ==
    ASSUME NEW a \in CallNames, NEW b \in CallNames
    PROVE  <<a, b>> \in Seq(CallNames) /\ <<a, b>> # <<>> /\ <<a, b>>[1] = a
  OBVIOUS

LEMMA LeftIs ==
    ASSUME NEW h \in Handlers, NEW calls \in Left[h]
    PROVE  /\ calls \in Seq(CallNames) /\ calls # <<>> /\ calls[1] \in CallNames
           /\ h = "reload_config" <=> calls[1] = "read_config"
           /\ h = "save_config" <=> calls[1] = "write_config"
           /\ h = "test_config" <=> calls[1] = "test_config"
           /\ h = "provider" => calls[1] \in {"provider", "health_or_not"}
           /\ calls[1] = "provider" => h = "provider"
           /\ Selects(calls[1]) => h \in {"create", "load"}
           /\ calls[1] = "iterate" => h = "train"
           /\ calls[1] \in Sought <=> h \in Intelligence
           /\ calls[1] \in {"health", "health_or_not"} =>
                  h \in {"create", "load", "expand_source", "edit_source", "check_sources",
                         "provider"}
           /\ h = "check_sources" => calls[1] = "health"
  <1> DEFINE first == calls[1]
             Goal ==
                 /\ h = "reload_config" <=> first = "read_config"
                 /\ h = "save_config" <=> first = "write_config"
                 /\ h = "test_config" <=> first = "test_config"
                 /\ h = "provider" => first \in {"provider", "health_or_not"}
                 /\ first = "provider" => h = "provider"
                 /\ Selects(first) => h \in {"create", "load"}
                 /\ first = "iterate" => h = "train"
                 /\ first \in Sought <=> h \in Intelligence
                 /\ first \in {"health", "health_or_not"} =>
                        h \in {"create", "load", "expand_source", "edit_source",
                               "check_sources", "provider"}
                 /\ h = "check_sources" => first = "health"
  <1>1. CASE h \in Intelligence
    <2>1. calls \in Searching
      BY <1>1 DEF Left, Intelligence
    <2>2. calls \in Seq(CallNames) /\ calls # <<>> /\ first \in Sought
      BY <2>1, SearchingHas
    <2> HIDE DEF first
    <2>3. Goal
      BY <1>1, <2>2 DEF Intelligence, Sought, MarketData, Selects
    <2> HIDE DEF Goal
    <2>4. calls \in Seq(CallNames) /\ calls # <<>> /\ Goal
      BY <2>2, <2>3
    <2>5. first \in CallNames
      BY <2>2 DEF CallNames, Sought
    <2> QED BY <2>4, <2>5 DEF Goal, first
  <1>2. CASE h = "create"
    <2>1. \/ calls = <<"create", "universe", "profile", "preferences", "health">>
          \/ calls \in Preparing("health")
      BY <1>2 DEF Left
    <2>2. CASE calls = <<"create", "universe", "profile", "preferences", "health">>
      <3>1. calls \in Seq(CallNames) /\ calls # <<>> /\ first = "create"
        BY <2>2 DEF CallNames
      <3> HIDE DEF first
      <3>2. Goal /\ first \in CallNames
        BY <1>2, <3>1 DEF Intelligence, Sought, MarketData, Selects, CallNames
      <3> QED BY <3>1, <3>2 DEF first
    <2>3. CASE calls \in Preparing("health")
      <3>1. /\ calls \in Seq(CallNames) /\ calls # <<>>
            /\ first \in {"universe", "event", "complete", "preferences", "health"}
        BY <2>3, PreparingIs DEF Lasts
      <3> HIDE DEF first
      <3>2. Goal /\ first \in CallNames
        BY <1>2, <3>1 DEF Intelligence, Sought, MarketData, Selects, CallNames
      <3> QED BY <3>1, <3>2 DEF first
    <2> QED BY <2>1, <2>2, <2>3
  <1>3. CASE h = "train"
    <2>1. calls \in Preparing("iterate")
      BY <1>3 DEF Left
    <2>2. /\ calls \in Seq(CallNames) /\ calls # <<>>
          /\ first \in {"universe", "event", "complete", "preferences", "iterate"}
      BY <2>1, PreparingIs DEF Lasts
    <2> HIDE DEF first
    <2>3. Goal /\ first \in CallNames
      BY <1>3, <2>2 DEF Intelligence, Sought, MarketData, Selects, CallNames
    <2> QED BY <2>2, <2>3 DEF first
  <1>4. CASE h \in Plain
    <2>1. /\ calls \in Seq(CallNames) /\ calls # <<>>
          /\ h \in {"approve", "select", "programmer", "terminal", "operations"}
             => first = "other"
          /\ h \in {"universe", "preferences"} \cup SimulationHandlers => first = h
          /\ h = "load" => first \in {"read", "health"}
          /\ h = "expand_source" => first \in {"other", "health"}
          /\ h = "edit_source" => first \in {"other", "health_or_not"}
          /\ h = "check_sources" => first = "health"
          /\ h = "provider" => first \in {"provider", "health_or_not"}
          /\ h = "reload_config" => first = "read_config"
          /\ h = "save_config" => first = "write_config"
          /\ h = "test_config" => first = "test_config"
      <3>1. CASE h \in {"approve", "select", "programmer", "terminal", "operations"}
        <4>1. calls = <<"other">>
          BY <1>4, <3>1, PlainLeft
        <4>2. "other" \in CallNames
          BY <3>1 DEF CallNames, ConfigCallNames, SimulationHandlers
        <4>3. calls \in Seq(CallNames) /\ calls # <<>> /\ first = "other"
          BY <4>1, <4>2, OneCall, Zenon
        <4> HIDE DEF first
        <4> QED BY <3>1, <4>3 DEF SimulationHandlers
      <3>2. CASE h \in {"universe", "preferences"} \cup SimulationHandlers
        <4>1. calls = <<h>>
          BY <1>4, <3>2, PlainLeft
        <4>2. h \in CallNames
          BY <3>2 DEF CallNames, ConfigCallNames, SimulationHandlers
        <4>3. calls \in Seq(CallNames) /\ calls # <<>> /\ first = h
          BY <4>1, <4>2, OneCall, Zenon
        <4> HIDE DEF first
        <4> QED BY <3>2, <4>3 DEF SimulationHandlers
      <3>3. CASE h = "load"
        <4>1. calls \in {<<"read", "health">>, <<"health">>}
          BY <1>4, <3>3, PlainLeft
        <4>2. "read" \in CallNames /\ "health" \in CallNames
          BY DEF CallNames, ConfigCallNames
        <4>3. calls \in Seq(CallNames) /\ calls # <<>> /\ first \in {"read", "health"}
          <5>1. CASE calls = <<"read", "health">>
            BY <4>2, <5>1, TwoCalls, Zenon
          <5>2. CASE calls = <<"health">>
            BY <4>2, <5>2, OneCall, Zenon
          <5> QED BY <4>1, <5>1, <5>2
        <4> HIDE DEF first
        <4> QED BY <3>3, <4>3 DEF SimulationHandlers
      <3>4. CASE h = "expand_source"
        <4>1. calls \in {<<"other", "health">>, <<"health">>}
          BY <1>4, <3>4, PlainLeft
        <4>2. "other" \in CallNames /\ "health" \in CallNames
          BY DEF CallNames, ConfigCallNames
        <4>3. calls \in Seq(CallNames) /\ calls # <<>> /\ first \in {"other", "health"}
          <5>1. CASE calls = <<"other", "health">>
            BY <4>2, <5>1, TwoCalls, Zenon
          <5>2. CASE calls = <<"health">>
            BY <4>2, <5>2, OneCall, Zenon
          <5> QED BY <4>1, <5>1, <5>2
        <4> HIDE DEF first
        <4> QED BY <3>4, <4>3 DEF SimulationHandlers
      <3>5. CASE h = "edit_source"
        <4>1. calls \in {<<"other", "health_or_not">>, <<"health_or_not">>}
          BY <1>4, <3>5, PlainLeft
        <4>2. "other" \in CallNames /\ "health_or_not" \in CallNames
          BY DEF CallNames, ConfigCallNames
        <4>3. calls \in Seq(CallNames) /\ calls # <<>> /\ first \in {"other", "health_or_not"}
          <5>1. CASE calls = <<"other", "health_or_not">>
            BY <4>2, <5>1, TwoCalls, Zenon
          <5>2. CASE calls = <<"health_or_not">>
            BY <4>2, <5>2, OneCall, Zenon
          <5> QED BY <4>1, <5>1, <5>2
        <4> HIDE DEF first
        <4> QED BY <3>5, <4>3 DEF SimulationHandlers
      <3>6. CASE h = "check_sources"
        <4>1. calls = <<"health">>
          BY <1>4, <3>6, PlainLeft
        <4>2. "health" \in CallNames
          BY <3>6 DEF CallNames, ConfigCallNames, SimulationHandlers
        <4>3. calls \in Seq(CallNames) /\ calls # <<>> /\ first = "health"
          BY <4>1, <4>2, OneCall, Zenon
        <4> HIDE DEF first
        <4> QED BY <3>6, <4>3 DEF SimulationHandlers
      <3>7. CASE h = "provider"
        <4>1. calls \in {<<"provider", "health_or_not">>, <<"health_or_not">>}
          BY <1>4, <3>7, PlainLeft
        <4>2. "provider" \in CallNames /\ "health_or_not" \in CallNames
          BY DEF CallNames, ConfigCallNames
        <4>3. calls \in Seq(CallNames) /\ calls # <<>> /\ first \in {"provider", "health_or_not"}
          <5>1. CASE calls = <<"provider", "health_or_not">>
            BY <4>2, <5>1, TwoCalls, Zenon
          <5>2. CASE calls = <<"health_or_not">>
            BY <4>2, <5>2, OneCall, Zenon
          <5> QED BY <4>1, <5>1, <5>2
        <4> HIDE DEF first
        <4> QED BY <3>7, <4>3 DEF SimulationHandlers
      <3>8. CASE h = "reload_config"
        <4>1. calls = <<"read_config">>
          BY <1>4, <3>8, PlainLeft
        <4>2. "read_config" \in CallNames
          BY <3>8 DEF CallNames, ConfigCallNames, SimulationHandlers
        <4>3. calls \in Seq(CallNames) /\ calls # <<>> /\ first = "read_config"
          BY <4>1, <4>2, OneCall, Zenon
        <4> HIDE DEF first
        <4> QED BY <3>8, <4>3 DEF SimulationHandlers
      <3>10. CASE h = "save_config"
        <4>1. calls = <<"write_config">>
          BY <1>4, <3>10, PlainLeft
        <4>2. "write_config" \in CallNames
          BY <3>10 DEF CallNames, ConfigCallNames, SimulationHandlers
        <4>3. calls \in Seq(CallNames) /\ calls # <<>> /\ first = "write_config"
          BY <4>1, <4>2, OneCall, Zenon
        <4> HIDE DEF first
        <4> QED BY <3>10, <4>3 DEF SimulationHandlers
      <3>11. CASE h = "test_config"
        <4>1. calls = <<"test_config">>
          BY <1>4, <3>11, PlainLeft
        <4>2. "test_config" \in CallNames
          BY <3>11 DEF CallNames, ConfigCallNames, SimulationHandlers
        <4>3. calls \in Seq(CallNames) /\ calls # <<>> /\ first = "test_config"
          BY <4>1, <4>2, OneCall, Zenon
        <4> HIDE DEF first
        <4> QED BY <3>11, <4>3 DEF SimulationHandlers
      <3>9. \/ h \in {"approve", "select", "programmer", "terminal", "operations"}
            \/ h \in {"universe", "preferences"} \cup SimulationHandlers
            \/ h \in {"load", "expand_source", "edit_source", "check_sources", "provider"}
            \/ h \in ConfigHandlers
        BY <1>4, HandlerNames DEF Plain, Preparers
      <3> HIDE DEF first
      <3> QED
        BY <3>1, <3>2, <3>3, <3>4, <3>5, <3>6, <3>7, <3>8, <3>9, <3>10, <3>11
           DEF ConfigHandlers
    <2> HIDE DEF first
    <2>2. Goal /\ first \in CallNames
      BY <1>4, <2>1, HandlerNames
         DEF Plain, Preparers, Intelligence, SimulationHandlers, ConfigHandlers, Sought,
             MarketData, Selects, CallNames, ConfigCallNames
    <2> QED BY <2>1, <2>2 DEF first
  <1> QED BY <1>1, <1>2, <1>3, <1>4 DEF Plain, Preparers

\* A handler starts with calls of its program, a preparation with the first one missing.
LEMMA Starts ==
    ASSUME NEW h \in Handlers, NEW n \in ListsFor(h), NEW data, NEW session
    PROVE  LET calls == Remaining(h, Program(h, n), data, session)
           IN  /\ calls \in Left[h]
               /\ h \in {"create", "load"} => Selects(calls[1])
               /\ h # "check_sources" => calls[1] \notin {"health", "health_or_not"}
               /\ h = "train" =>
                      /\ calls[1] # "universe" => data.universe
                      /\ calls[1] \in {"preferences", "iterate"} => data.report
  <1>0. n \in 0..MaxSymbols
    <2>1. CASE h \in Intelligence
      BY <2>1, SearchingStarts
    <2>2. CASE h \notin Intelligence
      BY <2>2, PagesAssumption DEF ListsFor, Intelligence
    <2> QED BY <2>1, <2>2
  <1> DEFINE program == Program(h, n)
             calls == Remaining(h, program, data, session)
             Goal(list) ==
                 /\ list \in Left[h]
                 /\ h \in {"create", "load"} => Selects(list[1])
                 /\ h # "check_sources" => list[1] \notin {"health", "health_or_not"}
                 /\ h = "train" =>
                        /\ list[1] # "universe" => data.universe
                        /\ list[1] \in {"preferences", "iterate"} => data.report
  <1>1. ASSUME h \in Intelligence PROVE Goal(calls)
    <2>1. program = IntelligenceCalls(n)[h]
      BY <1>0, <1>1, ProgramIs
    <2>2. program \in Searching
      BY <1>1, <2>1, SearchingStarts
    <2> HIDE DEF program
    <2>3. calls = program
      BY <1>1, <2>2, SearchingOnward
    <2>4. calls \in Searching /\ calls[1] \in Sought
      BY <2>2, <2>3, SearchingHas
    <2> HIDE DEF calls
    <2> QED BY <1>1, <2>4 DEF Left, Intelligence, Sought, MarketData
  <1>2. ASSUME h = "create" PROVE Goal(calls)
    <2>1. program = <<"create", "universe", "profile", "preferences", "health">>
      BY <1>0, <1>2, ProgramIs
    <2>2. program \in Left[h] /\ program # <<>> /\ program[1] = "create"
      BY <1>2, <2>1 DEF Left
    <2>3. program \in Seq(CallNames)
      BY <2>2, LeftIs
    <2> HIDE DEF program
    <2>4. Needed(h, program[1], data, session)
      BY <2>2, NeededIs
    <2>5. calls = program
      BY <2>2, <2>3, <2>4, RemainsFrom
    <2> HIDE DEF calls
    <2> QED BY <1>2, <2>2, <2>5 DEF Selects
  <1>3. ASSUME h = "train" PROVE Goal(calls)
    <2>1. program = Whole("iterate")
      BY <1>0, <1>3, ProgramIs DEF Whole
    <2> DEFINE E == EventsThen(BootEvents, "iterate")
               W == Whole("iterate")
               P == FromPreferences("iterate")
               L == Only("iterate")
    <2>2. /\ ~data.universe => calls = W
          /\ data.universe => calls \in {E, P, L}
          /\ data.universe /\ ~data.report => calls = E
      BY <1>3, <2>1, PreparingRemains DEF Preparers, Lasts
    <2>3. W[1] = "universe" /\ P[1] = "preferences" /\ L[1] = "iterate"
      BY DEF Whole, FromPreferences, Only
    <2>4. E[1] = "event"
      <3>1. BootEvents \in Nat /\ BootEvents # 0 /\ "iterate" \in Lasts
        BY PagesAssumption DEF Lasts
      <3> QED BY <3>1, EventsAre
    <2>5. {E, W, P, L} \subseteq Preparing("iterate")
      BY PagesAssumption DEF Preparing, Whole, FromPreferences, Only
    <2>6. Left[h] = Preparing("iterate")
      BY <1>3 DEF Left
    <2> HIDE DEF calls, E, W, P, L
    <2> QED BY <1>3, <2>2, <2>3, <2>4, <2>5, <2>6
  <1>4. ASSUME h \in Plain PROVE Goal(calls)
    <2>1. /\ program \in Left[h]
          /\ h = "load" => program[1] = "read"
          /\ h # "check_sources" => program[1] \notin {"health", "health_or_not"}
      BY <1>0, <1>4, ProgramIs, HandlerNames
         DEF Left, Plain, Preparers, Intelligence, SimulationHandlers, ConfigHandlers
    <2> HIDE DEF program
    <2>2. program \in Seq(CallNames) /\ program # <<>>
      BY <2>1, LeftIs
    <2>3. program[1] \notin {"profile", "health_or_not"}
      <3>1. CASE h = "check_sources"
        BY <2>1, <3>1, LeftIs
      <3>2. CASE h # "check_sources"
        <4>1. program[1] # "profile"
          BY <1>4, <2>1, HandlerNames, PlainLeft
             DEF Plain, Preparers, Intelligence, SimulationHandlers, ConfigHandlers
        <4> QED BY <2>1, <3>2, <4>1
      <3> QED BY <3>1, <3>2
    <2>4. Needed(h, program[1], data, session)
      BY <1>4, <2>3, NeededIs DEF Plain
    <2>5. calls = program
      BY <2>2, <2>3, <2>4, RemainsFrom
    <2> HIDE DEF calls
    <2> QED BY <1>4, <2>1, <2>5 DEF Plain, Preparers, Selects
  <1> HIDE DEF Goal
  <1>5. Goal(calls)
    BY <1>1, <1>2, <1>3, <1>4 DEF Plain, Preparers
  <1> QED BY <1>5 DEF Goal

\* What a handler goes on with once a call is done.
LEMMA Onward ==
    ASSUME NEW h \in Handlers, NEW calls \in Left[h], NEW data, NEW session
    PROVE  LET rest == Remaining(h, Tail(calls), data, session)
           IN  /\ rest = <<>> \/ rest \in Left[h]
               /\ Selects(calls[1]) => rest # <<>>
               /\ rest # <<>> => ~Selects(rest[1])
               /\ rest # <<>> /\ rest[1] = "health_or_not" => session # NoSession
               /\ rest # <<>> /\ rest[1] \in {"health", "health_or_not"} /\ h # "provider"
                  => calls[1] # "search" /\ Displays(h, calls[1], rest)
               /\ h = "train" /\ rest # <<>> /\ rest[1] \in {"preferences", "iterate"}
                  => data.report \/ calls[1] \in {"complete", "preferences", "iterate"}
  <1> DEFINE R(list) == Remaining(h, Tail(list), data, session)
             Goal(list) ==
                 /\ R(list) = <<>> \/ R(list) \in Left[h]
                 /\ Selects(list[1]) => R(list) # <<>>
                 /\ R(list) # <<>> => ~Selects(R(list)[1])
                 /\ R(list) # <<>> /\ R(list)[1] = "health_or_not" => session # NoSession
                 /\ R(list) # <<>> /\ R(list)[1] \in {"health", "health_or_not"}
                    /\ h # "provider"
                    => list[1] # "search" /\ Displays(h, list[1], R(list))
                 /\ h = "train" /\ R(list) # <<>> /\ R(list)[1] \in {"preferences", "iterate"}
                    => data.report \/ list[1] \in {"complete", "preferences", "iterate"}
  <1>0. ASSUME NEW what, what \notin NoSnapshotCalls, h \notin Intelligence, NEW rest,
               rest # <<>>, rest[1] \notin Prerequisites(h)
        PROVE  Displays(h, what, rest)
    <2>1. GroupOf[h] # "intelligence"
      BY <1>0, GroupsOfHandlers
    <2> QED BY <1>0, <2>1 DEF Displays
  <1>b. "health" \notin Prerequisites(h) /\ "health_or_not" \notin Prerequisites(h)
    BY DEF Prerequisites
  <1>1. CASE h \in Intelligence
    <2>1. Left[h] = Searching
      BY <1>1 DEF Left, Intelligence
    <2>2. calls[1] \in Sought /\ (R(calls) = <<>> \/ R(calls) \in Searching)
      BY <1>1, <2>1, SearchingHas, SearchingOnward
    <2> HIDE DEF R
    <2>3. R(calls) # <<>> => R(calls)[1] \in Sought
      BY <2>2, SearchingHas
    <2>4. Goal(calls)
      BY <1>1, <2>1, <2>2, <2>3 DEF Intelligence, Sought, MarketData, Selects
    <2> HIDE DEF Goal
    <2> QED BY <2>4 DEF Goal, R
  <1>2. ASSUME NEW last \in Lasts, calls \in Preparing(last),
               (h = "create" /\ last = "health") \/ (h = "train" /\ last = "iterate")
        PROVE  Goal(calls)
    <2>0. h \in Preparers
      BY <1>2 DEF Preparers
    <2>1. /\ calls = <<last>> => R(calls) = <<>>
          /\ calls # <<last>> => R(calls) \in Preparing(last)
          /\ calls[1] = last => calls = <<last>>
          /\ calls[1] = "event" => R(calls)[1] \in {"event", "complete"}
          /\ calls[1] = "universe" /\ ~data.report => R(calls)[1] = "event"
      BY <1>2, <2>0, PreparingOnward
    <2>2. calls[1] \in {"universe", "event", "complete", "preferences", last}
      BY <1>2, PreparingIs
    <2>3. R(calls) # <<>> =>
              R(calls)[1] \in {"universe", "event", "complete", "preferences", last}
      BY <2>1, PreparingIs
    <2>4. Preparing(last) \subseteq Left[h]
      BY <1>2 DEF Left
    <2> HIDE DEF R
    <2>5. R(calls) # <<>> => calls[1] \notin NoSnapshotCalls \cup {"search"}
      BY <1>2, <2>1, <2>2 DEF NoSnapshotCalls, ConfigWrites, Reads, Lasts
    <2>6. R(calls) # <<>> /\ R(calls)[1] \in {"health", "health_or_not"}
          => calls[1] # "search" /\ Displays(h, calls[1], R(calls))
      <3>1. h \notin Intelligence
        BY <2>0 DEF Preparers, Intelligence
      <3> QED BY <1>0, <1>b, <2>5, <3>1
    <2>7. R(calls) # <<>> => R(calls)[1] # "health_or_not" /\ ~Selects(R(calls)[1])
      BY <1>2, <2>3 DEF Selects
    <2>8. ~Selects(calls[1])
      BY <1>2, <2>2 DEF Selects
    <2>9. h = "train" /\ R(calls) # <<>> /\ R(calls)[1] \in {"preferences", "iterate"}
          => data.report \/ calls[1] \in {"complete", "preferences", "iterate"}
      BY <1>2, <2>1, <2>2
    <2> QED BY <2>1, <2>4, <2>6, <2>7, <2>8, <2>9
  <1>3. ASSUME h = "create", calls = <<"create", "universe", "profile", "preferences", "health">>
        PROVE  Goal(calls)
    <2>1. Tail(calls) = Whole("health") /\ calls[1] = "create"
      BY <1>3 DEF Whole
    <2> DEFINE E == EventsThen(BootEvents, "health")
               W == Whole("health")
               P == FromPreferences("health")
               L == Only("health")
    <2>2. R(calls) \in {E, W, P, L}
      BY <1>3, <2>1, PreparingRemains DEF Preparers, Lasts
    <2>3. {E, W, P, L} \subseteq Preparing("health")
      BY PagesAssumption DEF Preparing, Whole, FromPreferences, Only
    <2>4. R(calls) \in Preparing("health")
      BY <2>2, <2>3
    <2> HIDE DEF R
    <2>5. /\ R(calls) # <<>>
          /\ R(calls)[1] \in {"universe", "event", "complete", "preferences", "health"}
      BY <2>4, PreparingIs DEF Lasts
    <2>6. R(calls)[1] \in {"health", "health_or_not"}
          => calls[1] # "search" /\ Displays(h, calls[1], R(calls))
      <3>1. h \notin Intelligence /\ calls[1] \notin NoSnapshotCalls
        BY <1>3, <2>1 DEF Intelligence, NoSnapshotCalls, ConfigWrites, Reads
      <3> QED BY <1>0, <1>b, <2>1, <2>5, <3>1
    <2>7. R(calls) \in Left[h]
      BY <1>3, <2>4 DEF Left
    <2> QED BY <1>3, <2>1, <2>5, <2>6, <2>7 DEF Selects
  <1>4. ASSUME h \in Plain PROVE Goal(calls)
    <2>0. h \notin Preparers /\ h \notin Intelligence
      BY <1>4 DEF Plain
    <2>1. ASSUME NEW c, calls = <<c>>, ~Selects(c) PROVE Goal(calls)
      <3>1. Tail(calls) = <<>> /\ calls[1] = c
        BY <2>1
      <3>2. R(calls) = <<>>
        BY <3>1, NothingRemains
      <3> HIDE DEF R
      <3> QED BY <2>1, <3>1, <3>2
    <2>2. ASSUME NEW c, calls = <<c, "health">>, <<"health">> \in Left[h],
                 c \in {"read", "other"}
          PROVE  Goal(calls)
      <3>1. Tail(calls) = <<"health">> /\ calls[1] = c
        BY <2>2
      <3>2. Needed(h, "health", data, session)
        BY NeededIs
      <3>3. "health" \in CallNames
        BY DEF CallNames
      <3>4. R(calls) = <<"health">>
        <4> DEFINE list == <<"health">>
        <4>1. list \in Seq(CallNames) /\ list # <<>> /\ list[1] = "health"
          BY <3>3
        <4> HIDE DEF list
        <4>2. R(calls) = Remaining(h, list, data, session)
          BY <3>1 DEF list
        <4>3. R(calls) = list
          BY <3>2, <4>1, <4>2, RemainsFrom
        <4> QED BY <4>3 DEF list
      <3>5. R(calls) # <<>> /\ R(calls)[1] = "health" /\ R(calls) \in Left[h]
        BY <2>2, <3>4
      <3> HIDE DEF R
      <3>6. c \notin NoSnapshotCalls
        BY <2>2 DEF NoSnapshotCalls, Reads, ConfigWrites
      <3>7. Displays(h, c, R(calls))
        BY <1>0, <1>b, <2>0, <3>5, <3>6
      <3>8. ~Selects("health")
        BY DEF Selects
      <3> QED BY <2>2, <3>1, <3>5, <3>7, <3>8
    <2>3. ASSUME NEW c, calls = <<c, "health_or_not">>, <<"health_or_not">> \in Left[h],
                 c = "other" \/ (c = "provider" /\ h = "provider")
          PROVE  Goal(calls)
      <3>1. Tail(calls) = <<"health_or_not">> /\ calls[1] = c
        BY <2>3
      <3>2. Needed(h, "health_or_not", data, session) <=> session # NoSession
        BY NeededIs
      <3>3. "health_or_not" \in CallNames
        BY DEF CallNames
      <3>4. /\ session # NoSession => R(calls) = <<"health_or_not">>
            /\ session = NoSession => R(calls) = <<>>
        <4> DEFINE list == <<"health_or_not">>
        <4>1. /\ list \in Seq(CallNames) /\ list # <<>> /\ list[1] = "health_or_not"
              /\ Tail(list) = <<>>
          BY <3>3
        <4> HIDE DEF list
        <4>2. R(calls) = Remaining(h, list, data, session)
          BY <3>1 DEF list
        <4>3. session # NoSession => R(calls) = list
          BY <3>2, <4>1, <4>2, RemainsFrom
        <4>4. session = NoSession => R(calls) = <<>>
          <5> SUFFICES ASSUME session = NoSession PROVE R(calls) = <<>>
            OBVIOUS
          <5>1. ~Needed(h, list[1], data, session)
            BY <3>2, <4>1
          <5>2. Remaining(h, list, data, session) = Remaining(h, <<>>, data, session)
            BY <4>1, <5>1, RemainsOf
          <5> QED BY <4>2, <5>2, NothingRemains
        <4> QED BY <4>3, <4>4 DEF list
      <3>5. R(calls) # <<>> => /\ session # NoSession /\ R(calls)[1] = "health_or_not"
                               /\ R(calls) \in Left[h]
        BY <2>3, <3>4
      <3> HIDE DEF R
      <3>6. h # "provider" => c \notin NoSnapshotCalls
        BY <2>3 DEF NoSnapshotCalls, Reads, ConfigWrites
      <3>7. h # "provider" /\ R(calls) # <<>> => Displays(h, c, R(calls))
        BY <1>0, <1>b, <2>0, <3>5, <3>6
      <3>8. ~Selects("health_or_not") /\ ~Selects(c)
        BY <2>3 DEF Selects
      <3>9. c # "search" /\ h # "train"
        BY <2>0, <2>3 DEF Preparers
      <3> QED BY <2>3, <3>1, <3>4, <3>5, <3>7, <3>8, <3>9
    <2> HIDE DEF Goal
    <2>4. CASE h \in {"approve", "select", "programmer", "terminal", "operations"}
      BY <1>4, <2>1, <2>4, PlainLeft DEF Selects
    <2>5. CASE h \in {"universe", "preferences"} \cup SimulationHandlers
      BY <1>4, <2>1, <2>5, PlainLeft DEF Selects, SimulationHandlers
    <2>6. CASE h \in {"load", "expand_source"}
      <3>1. <<"health">> \in Left[h]
        BY <2>6 DEF Left
      <3>2. CASE calls = <<"health">>
        BY <2>1, <3>2 DEF Selects
      <3>3. calls \in {<<"read", "health">>, <<"other", "health">>, <<"health">>}
        BY <1>4, <2>6, PlainLeft
      <3> QED BY <2>2, <3>1, <3>2, <3>3
    <2>7. CASE h \in {"edit_source", "provider"}
      <3>1. <<"health_or_not">> \in Left[h]
        BY <2>7 DEF Left
      <3>2. CASE calls = <<"health_or_not">>
        BY <2>1, <3>2 DEF Selects
      <3>3. \/ calls = <<"other", "health_or_not">>
            \/ (calls = <<"provider", "health_or_not">> /\ h = "provider")
            \/ calls = <<"health_or_not">>
        BY <1>4, <2>7, PlainLeft
      <3>4. CASE calls = <<"other", "health_or_not">>
        BY <2>3, <3>1, <3>4
      <3>5. CASE calls = <<"provider", "health_or_not">> /\ h = "provider"
        BY <2>3, <3>1, <3>5
      <3> QED BY <3>2, <3>3, <3>4, <3>5
    <2>8. CASE h = "check_sources"
      BY <1>4, <2>1, <2>8, PlainLeft DEF Selects
    <2>9. CASE h \in ConfigHandlers
      BY <1>4, <2>1, <2>9, PlainLeft DEF Selects, ConfigHandlers
    <2> QED BY <1>4, <2>4, <2>5, <2>6, <2>7, <2>8, <2>9, HandlerNames DEF Plain, Preparers
  <1> HIDE DEF Goal
  <1>5. CASE h = "create"
    <2>1. \/ calls = <<"create", "universe", "profile", "preferences", "health">>
          \/ calls \in Preparing("health")
      BY <1>5 DEF Left
    <2>3. CASE calls \in Preparing("health")
      <3>1. "health" \in Lasts
        BY DEF Lasts
      <3> QED BY <1>2, <1>5, <2>3, <3>1 DEF Goal, R
    <2>2. CASE calls = <<"create", "universe", "profile", "preferences", "health">>
      BY <1>3, <1>5, <2>2 DEF Goal, R
    <2> QED BY <2>1, <2>2, <2>3
  <1>6. CASE h = "train"
    <2>1. Left[h] = Preparing("iterate")
      BY <1>6 DEF Left
    <2>2. Goal(calls)
      BY <1>2, <1>6, <2>1 DEF Lasts
    <2> QED BY <2>2 DEF Goal, R
  <1>7. CASE h \in Plain
    BY <1>4, <1>7 DEF Goal, R
  <1> QED BY <1>1, <1>5, <1>6, <1>7 DEF Plain, Preparers

\* What a handler goes on with after a failure it survives.
LEMMA AfterFailureIs ==
    ASSUME NEW h \in Handlers, NEW calls \in Left[h],
           \/ calls[1] \in MarketData \cup {"health_or_not"}
           \/ calls[1] = "complete" /\ h \in Preparers
    PROVE  /\ AfterFailure(calls) = <<>> \/ AfterFailure(calls) \in Left[h]
           /\ calls[1] = "health_or_not" => AfterFailure(calls) = <<>>
           /\ calls[1] = "complete" => AfterFailure(calls) = calls
           /\ calls[1] \in MarketData => h \in Intelligence
  <1>1. CASE calls[1] \in MarketData
    <2>1. h \in Intelligence
      BY <1>1, LeftIs DEF Sought
    <2>2. Left[h] = Searching
      BY <2>1 DEF Left, Intelligence
    <2>3. AfterFailure(calls) \in Searching \cup {<<>>}
      BY <1>1, <2>1, <2>2, SearchingOnward
    <2> QED BY <1>1, <2>1, <2>2, <2>3 DEF MarketData
  <1>2. CASE calls[1] = "complete"
    <2>1. AfterFailure(calls) = calls
      BY <1>2 DEF AfterFailure, MarketData
    <2> QED BY <1>2, <2>1 DEF MarketData
  <1>3. CASE calls[1] = "health_or_not"
    <2>1. AfterFailure(calls) = Tail(calls)
      BY <1>3 DEF AfterFailure, MarketData
    <2>2. h \in {"create", "load", "expand_source", "edit_source", "check_sources", "provider"}
      BY <1>3, LeftIs
    <2>3. h # "create"
      <3>1. ASSUME calls \in Preparing("health") PROVE FALSE
        BY <1>3, <3>1, PreparingIs DEF Lasts
      <3> QED BY <1>3, <3>1 DEF Left
    <2>4. h \in Plain
      BY <2>2, <2>3 DEF Plain, Preparers, Intelligence
    <2>5. calls = <<"health_or_not">>
      BY <1>3, <2>2, <2>3, <2>4, PlainLeft
    <2>6. Tail(calls) = <<>>
      BY <2>5
    <2> QED BY <1>3, <2>1, <2>6 DEF MarketData
  <1> QED BY <1>1, <1>2, <1>3

-----------------------------------------------------------------------------
(* What the server does to a session *)

LEMMA ChangedIs ==
    ASSUME NEW what, NEW data \in Data
    PROVE  /\ Changed(what, data) \in Data
           /\ Below(data, Changed(what, data))
           /\ what = "universe" => Changed(what, data).universe
           /\ what = "complete" => Changed(what, data).report
  <1> DEFINE new == Changed(what, data)
             market == CASE what = "market" -> "loaded"
                         [] what = "advance" -> "moved"
                         [] OTHER -> data.market
  <1>1. new = [changes |-> data.changes + 1,
               universe |-> data.universe \/ what = "universe",
               market |-> market,
               acted |-> data.acted \/ what = "event",
               report |-> data.report \/ what \in {"complete", "retrain"},
               preferences |-> data.preferences \/ what = "preferences"]
    BY DEF Changed
  <1>2. market \in {"unset", "loaded", "moved"}
    BY DEF Data
  <1>3. data.changes + 1 \in Nat
    BY DEF Data
  <1> HIDE DEF market
  <1>4. new \in Data
    <2> DEFINE u == data.universe \/ what = "universe"
               a == data.acted \/ what = "event"
               r == data.report \/ what \in {"complete", "retrain"}
               p == data.preferences \/ what = "preferences"
    <2>1. u \in BOOLEAN /\ a \in BOOLEAN /\ r \in BOOLEAN /\ p \in BOOLEAN
      OBVIOUS
    <2>2. new = [changes |-> data.changes + 1, universe |-> u, market |-> market, acted |-> a,
                 report |-> r, preferences |-> p]
      BY <1>1
    <2> HIDE DEF new, u, a, r, p
    <2> QED BY <1>2, <1>3, <2>1, <2>2 DEF Data
  <1>5. /\ new.universe = (data.universe \/ what = "universe")
        /\ new.report = (data.report \/ what \in {"complete", "retrain"})
    BY <1>1
  <1> HIDE DEF new
  <1>6. /\ Below(data, new)
        /\ what = "universe" => new.universe
        /\ what = "complete" => new.report
    BY <1>5, Zenon DEF Below
  <1> QED BY <1>4, <1>6 DEF new

LEMMA AbsentIs == Absent \in Data /\ ~Absent.universe /\ ~Absent.report
  BY DEF Absent, Data

\* The sessions before and after, as the page can tell them apart.
Grown == \A s \in Chosen : Below(SoFar(s), SessionData(server', s))

LEMMA SoFarIs ==
    ASSUME Typed, NEW s \in Chosen
    PROVE  SoFar(s) \in Data
  BY AbsentIs DEF Typed, SoFar, SessionData, Chosen

LEMMA NewContentIs ==
    ASSUME Typed
    PROVE  NewContent \in Nat
  <1> DEFINE f == [t \in Slots |-> task[t].content]
  <1>1. f \in [1..MaxRunning -> Nat] /\ MaxRunning \in Nat
    BY PagesAssumption DEF Typed, Runs, Slots
  <1>2. file \in Nat /\ page.editor \in Nat
    BY DEF Typed
  <1>3. {task[t].content : t \in Slots} = {f[t] : t \in 1..MaxRunning}
    BY DEF Slots
  <1> HIDE DEF f
  <1>4. Max({file, page.editor} \cup {f[t] : t \in 1..MaxRunning}) \in Nat
    BY <1>1, <1>2, MaxIsNatural
  <1>5. Max({file, page.editor} \cup {task[t].content : t \in Slots}) \in Nat
    BY <1>3, <1>4
  <1> QED BY <1>5 DEF NewContent

LEMMA UnchangedGrows ==
    ASSUME server' = server
    PROVE  Grown
  BY DEF Grown, Below, SoFar, SessionData

LEMMA ServedIs ==
    ASSUME Typed, NEW call \in Orphans, Served(call)
    PROVE  /\ server' \in [Sessions -> Data] /\ file' \in Nat
           /\ Grown
           /\ call.what \in Reads \cup ConfigWrites => server' = server
           /\ call.what \notin ConfigWrites => file' = file
           /\ call.what \in {"write_config", "test_config"} => file' = call.content
           /\ call.what = "universe" /\ call.session \in Sessions =>
                  SessionData(server', call.session).universe
           /\ call.what = "complete" /\ call.session \in Sessions =>
                  SessionData(server', call.session).report
  <1>1. file' \in Nat
    BY NewContentIs DEF Served, Orphans, Typed
  <1>2. CASE call.what \in Reads \cup ConfigWrites
    <2>1. server' = server
      BY <1>2 DEF Served
    <2>2. call.what # "universe" /\ call.what # "complete"
      BY <1>2 DEF Reads, ConfigWrites
    <2> QED BY <1>1, <2>1, <2>2, UnchangedGrows DEF Typed, Served, ConfigWrites
  <1>3. CASE call.what \notin Reads \cup ConfigWrites
    <2> DEFINE c == call.session
               new == Changed(call.what, server[c])
    <2>1. server' = [server EXCEPT ![c] = new]
      BY <1>3 DEF Served
    <2>2. server \in [Sessions -> Data]
      BY DEF Typed
    <2>3. ASSUME c \in Sessions
          PROVE  /\ new \in Data /\ Below(server[c], new)
                 /\ call.what = "universe" => new.universe
                 /\ call.what = "complete" => new.report
      BY <2>2, <2>3, ChangedIs
    <2> HIDE DEF c, new
    <2>4. server' \in [Sessions -> Data]
      BY <2>1, <2>2, <2>3
    <2>5. \A s \in Sessions : server'[s] = IF s = c THEN new ELSE server[s]
      BY <2>1, <2>2
    <2>6. Grown
      BY <2>3, <2>5 DEF Grown, Below, SoFar, SessionData, Chosen
    <2>7. file' = file
      BY <1>3 DEF Served, ConfigWrites
    <2>8. c \in Sessions => SessionData(server', c) = new
      BY <2>5, PagesAssumption DEF SessionData
    <2>9. call.what \notin {"write_config", "test_config"}
      BY <1>3 DEF ConfigWrites
    <2> QED BY <1>1, <1>3, <2>3, <2>4, <2>6, <2>7, <2>8, <2>9 DEF c
  <1> QED BY <1>2, <1>3

LEMMA BelowTransitive ==
    ASSUME NEW a, NEW b, NEW c, Below(a, b), Below(b, c)
    PROVE  Below(a, c)
  BY DEF Below

-----------------------------------------------------------------------------
(* The handlers that a step does not run *)

\* Handler u goes on as before; it may have lost its quiet.
Resting(u) ==
    /\ task'[u].handler = task[u].handler /\ task'[u].calls = task[u].calls
    /\ task'[u].local = task[u].local /\ task'[u].session = task[u].session
    /\ task'[u].answer = task[u].answer /\ task'[u].reply = task[u].reply
    /\ task'[u].alone => task[u].alone
    /\ task'[u].steady => task[u].steady /\ page'.session = page.session

LEMMA RestingWorks ==
    ASSUME NEW u \in Slots, Working(u), Resting(u),
           page.session \in Sessions => page'.session \in Sessions
    PROVE  Working(u)'
  BY DEF Working, Resting, Busy, Doing

LEMMA RestingHasSeen ==
    ASSUME Typed, NEW u \in Slots, Seen(u), Resting(u), Grown
    PROVE  Seen(u)'
  <1>1. task[u].local.of \in Chosen /\ task[u].session \in Chosen
    BY DEF Typed, Runs, Snapshot, Chosen
  <1>2. \A s \in Chosen : Below(SoFar(s), SoFar(s)')
    BY DEF Grown, SoFar
  <1> QED BY <1>1, <1>2, BelowTransitive DEF Seen, Resting, Below, Doing

LEMMA RestingIsPrepared ==
    ASSUME Typed, NEW u \in Slots, Prepared(u), Resting(u), Grown
    PROVE  Prepared(u)'
  <1>1. page.session \in Chosen
    BY DEF Typed
  <1>2. Below(SoFar(page.session), SessionData(server', page.session))
    BY <1>1 DEF Grown
  <1>3. task'[u].steady => page'.session = page.session /\ task[u].steady
    BY DEF Resting
  <1> SUFFICES ASSUME task'[u].handler # "none", task'[u].handler = "train", task'[u].steady
               PROVE  /\ task'[u].session = page'.session
                      /\ task'[u].calls[1] # "universe"
                         => SessionData(server', page'.session).universe
                      /\ task'[u].calls[1] \in {"preferences", "iterate"}
                         => SessionData(server', page'.session).report
    BY DEF Prepared, Busy, Doing, SoFar
  <1> QED BY <1>2, <1>3 DEF Prepared, Resting, Busy, Doing, SoFar, Below

\* A handler that ran alone no longer does once another runs.
LEMMA RestingIsNotAlone ==
    ASSUME NEW t \in Slots, NEW u \in Slots, u # t, Alone(u), Resting(u), Busy(t)
    PROVE  Alone(u)'
  BY DEF Alone, Resting, Busy

-----------------------------------------------------------------------------
(* A handler begins *)

LEMMA LocksAre ==
    ASSUME NEW h \in Handlers
    PROVE  Locks(h) \subseteq Groups
  BY GroupIs, GroupNames DEF Locks

LEMMA HandlersAreNotNone == "none" \notin Handlers
  BY HandlerNames DEF SimulationHandlers, Intelligence, ConfigHandlers

LEMMA IdleIs ==
    /\ Idle \in Runs /\ Idle.handler = "none" /\ Idle.answer = "none" /\ ~Idle.alone
    /\ Idle.local = NoSnapshot
  <1>1. <<>> \in Seq(CallNames)
    OBVIOUS
  <1>2. NoSession \in Chosen /\ NoSnapshot \in Snapshot
    BY AbsentIs DEF Chosen, NoSnapshot, Snapshot
  <1>3. Absent \in Data
    BY AbsentIs
  <1>4. Idle \in Runs
    BY <1>1, <1>2, <1>3 DEF Idle, Runs
  <1> QED BY <1>4 DEF Idle

LEMMA SentIs ==
    ASSUME NEW run \in Runs, NEW calls \in Seq(CallNames), NEW s \in Chosen
    PROVE  /\ Sent(run, calls, s) \in Runs
           /\ Sent(run, calls, s).handler = run.handler
           /\ Sent(run, calls, s).calls = calls
           /\ Sent(run, calls, s).local = run.local
           /\ Sent(run, calls, s).session = s
           /\ Sent(run, calls, s).content = run.content
           /\ Sent(run, calls, s).answer = "awaited"
           /\ Sent(run, calls, s).alone = run.alone
           /\ Sent(run, calls, s).steady = run.steady
  BY AbsentIs DEF Sent, Runs

PageType == [session : Chosen, snapshot : Snapshot, opened : BOOLEAN, editor : Nat]

LEMMA LaunchKeeps ==
    ASSUME PagesInvariant, NEW t \in Slots, NEW h \in Handlers, NEW n \in ListsFor(h),
           NEW s \in Chosen, NEW content \in Nat, Free(t), Launch(t, h, n, s, content),
           page' \in PageType, page'.session = page.session, page'.snapshot = page.snapshot,
           h \in {"create", "load"} => s \in Sessions,
           h \notin {"create", "load"} => s = page.session,
           ~Unselected(h) => page.session \in Sessions,
           h = "test_config" => content = page'.editor,
           "config" \notin About(h) => page'.editor = page.editor
    PROVE  PagesInvariant'
  <1> DEFINE calls == Remaining(h, Program(h, n), page.snapshot.data, s)
             quiet == orphan = {} /\ \A u \in Slots : ~Busy(u)
             steady == page.snapshot.of = page.session
             begun == [Idle EXCEPT !.handler = h, !.local = page.snapshot,
                                   !.content = content, !.alone = quiet, !.steady = steady]
             run == Sent(begun, calls, s)
  <1>1. /\ Typed /\ ButtonsAreHeld /\ Settled
        /\ Below(page.snapshot.data, SoFar(page.snapshot.of))
        /\ \A u \in Slots : Working(u) /\ Seen(u) /\ Prepared(u) /\ Alone(u)
    BY DEF PagesInvariant
  <1>2. /\ server' = server /\ file' = file /\ orphan' = orphan /\ faults' = faults
        /\ off' = off \cup Locks(h) /\ starts' = starts + 1 /\ starts < MaxStarts
        /\ settled' = settled \ About(h)
    BY DEF Launch
  <1>3. task' = [u \in Slots |-> IF u = t THEN run ELSE [task[u] EXCEPT !.alone = FALSE]]
    BY DEF Launch
  <1>4. /\ calls \in Left[h]
        /\ h \in {"create", "load"} => Selects(calls[1])
        /\ h # "check_sources" => calls[1] \notin {"health", "health_or_not"}
        /\ h = "train" => /\ calls[1] # "universe" => page.snapshot.data.universe
                          /\ calls[1] \in {"preferences", "iterate"} => page.snapshot.data.report
    BY Starts
  <1>5. calls \in Seq(CallNames)
    BY <1>4, LeftIs
  <1>6. quiet \in BOOLEAN /\ steady \in BOOLEAN
    OBVIOUS
  <1>7. h # "none" /\ ~Busy(t)
    BY HandlersAreNotNone DEF Free
  <1> HIDE DEF calls, quiet, steady
  <1>a. /\ begun \in Runs /\ begun.handler = h /\ begun.local = page.snapshot
        /\ begun.content = content /\ begun.alone = quiet /\ begun.steady = steady
    BY <1>1, <1>6, IdleIs DEF Runs, Typed
  <1> HIDE DEF begun
  <1>8. run \in Runs
    BY <1>5, <1>a, SentIs
  <1>9. /\ task'[t].handler = h /\ task'[t].calls = calls /\ task'[t].local = page.snapshot
        /\ task'[t].session = s /\ task'[t].content = content
        /\ task'[t].answer = "awaited" /\ task'[t].alone = quiet
        /\ task'[t].steady = steady
    BY <1>3, <1>5, <1>a, SentIs
  <1> HIDE DEF run
  <1>10. task' \in [Slots -> Runs]
    <2>1. \A r \in Runs : [r EXCEPT !.alone = FALSE] \in Runs
      BY DEF Runs
    <2>2. \A u \in Slots : task[u] \in Runs
      BY <1>1 DEF Typed
    <2> QED BY <1>3, <1>8, <2>1, <2>2
  <1>11. \A u \in Slots \ {t} : Resting(u) /\ task'[u].alone = FALSE
    BY <1>1, <1>3 DEF Typed, Runs, Resting
  <1>12. Grown /\ \A q : SoFar(q)' = SoFar(q)
    BY <1>2, UnchangedGrows DEF SoFar
  <1>13. Typed'
    <2>1. off' \in SUBSET Groups
      BY <1>1, <1>2, LocksAre DEF Typed
    <2>2. starts' \in 0..MaxStarts
      BY <1>1, <1>2, PagesAssumption DEF Typed
    <2>3. settled' \in SUBSET {"session", "config"}
      BY <1>1, <1>2 DEF Typed
    <2> QED BY <1>1, <1>2, <1>10, <2>1, <2>2, <2>3 DEF Typed, PageType
  <1>14. ButtonsAreHeld'
    <2> SUFFICES ASSUME NEW g \in off'
                 PROVE  \E u \in Slots : Busy(u)' /\ g \in Locks(task'[u].handler)
      BY DEF ButtonsAreHeld
    <2>1. CASE g \in Locks(h)
      BY <1>7, <1>9, <2>1 DEF Busy
    <2>2. CASE g \in off
      <3>1. PICK u \in Slots : Busy(u) /\ g \in Locks(task[u].handler)
        BY <1>1, <2>2 DEF ButtonsAreHeld
      <3>2. u # t
        BY <1>7, <3>1
      <3> QED BY <1>11, <3>1, <3>2 DEF Resting, Busy
    <2> QED BY <1>2, <2>1, <2>2
  <1>15. ASSUME NEW u \in Slots \ {t} PROVE (Working(u) /\ Seen(u) /\ Prepared(u) /\ Alone(u))'
    <2>1. Working(u)'
      BY <1>1, <1>11, RestingWorks
    <2>2. Seen(u)'
      BY <1>1, <1>11, <1>12, RestingHasSeen
    <2>3. Prepared(u)'
      BY <1>1, <1>11, <1>12, RestingIsPrepared
    <2>4. Alone(u)'
      BY <1>11 DEF Alone
    <2> QED BY <2>1, <2>2, <2>3, <2>4
  <1>16. Working(t)'
    <2>1. calls[1] \notin ConfigCallNames => s \in Sessions
      <3>1. CASE h \in {"create", "load"}
        BY <3>1
      <3>2. CASE ~Unselected(h)
        BY <3>2 DEF Unselected
      <3>3. CASE h = "provider"
        BY <1>4, <3>3, LeftIs DEF ConfigCallNames
      <3>4. CASE h \in ConfigHandlers
        BY <1>4, <3>4, LeftIs DEF ConfigCallNames, ConfigHandlers
      <3> QED BY <3>1, <3>2, <3>3, <3>4 DEF Unselected
    <2>2. ~Unselected(h) => page'.session \in Sessions
      OBVIOUS
    <2> QED BY <1>4, <1>7, <1>9, <2>1, <2>2 DEF Working, Busy, Doing
  <1>17. Seen(t)'
    BY <1>1, <1>9, <1>12 DEF Seen
  <1>18. Prepared(t)'
    <2> SUFFICES ASSUME h = "train", steady
                 PROVE  /\ s = page'.session
                        /\ calls[1] # "universe" => SoFar(page.session).universe
                        /\ calls[1] \in {"preferences", "iterate"}
                           => SoFar(page.session).report
      BY <1>2, <1>9 DEF Prepared, Doing, SoFar
    <2>1. s = page.session /\ page.snapshot.of = page.session
      BY DEF steady
    <2>2. Below(page.snapshot.data, SoFar(page.session))
      BY <1>1, <2>1
    <2> QED BY <1>4, <1>12, <2>1, <2>2 DEF Below
  <1>19. Alone(t)'
    <2> SUFFICES ASSUME quiet
                 PROVE  /\ orphan' = {}
                        /\ \A u \in Slots : u # t => ~Busy(u)'
                        /\ ~Selects(calls[1]) => s = page'.session
                        /\ h = "test_config" => content = page'.editor
                        /\ ~ ("session" \in About(h)
                              /\ calls[1] \in {"health", "health_or_not"})
      BY <1>9 DEF Alone, Doing
    <2>1. orphan' = {} /\ \A u \in Slots : u # t => ~Busy(u)'
      BY <1>2, <1>11 DEF quiet, Busy, Resting
    <2>2. ~ ("session" \in About(h) /\ calls[1] \in {"health", "health_or_not"})
      BY <1>4 DEF About
    <2> QED BY <1>4, <2>1, <2>2
  <1>20. Settled'
    <2>1. Shown' = Shown
      BY <1>2 DEF Shown
    <2>2. "config" \in settled' => page'.editor = file'
      BY <1>1, <1>2 DEF Settled
    <2>3. ASSUME NEW u \in Slots, Busy(u)' PROVE settled' \cap About(task'[u].handler) = {}
      <3>1. CASE u = t
        BY <1>2, <1>9, <3>1
      <3>2. CASE u # t
        BY <1>1, <1>2, <1>11, <2>3, <3>2 DEF Settled, Resting, Busy
      <3> QED BY <3>1, <3>2
    <2> QED BY <1>1, <1>2, <2>1, <2>2, <2>3 DEF Settled
  <1>21. Below(page.snapshot.data, SoFar(page.snapshot.of))'
    BY <1>1, <1>12
  <1> QED BY <1>13, <1>14, <1>15, <1>16, <1>17, <1>18, <1>19, <1>20, <1>21
          DEF PagesInvariant

LEMMA BeginKeeps ==
    ASSUME PagesInvariant, NEW t \in Slots, NEW h \in Handlers, Begin(t, h)
    PROVE  PagesInvariant'
  <1> DEFINE content == IF h = "save_config" \/ h = "test_config" THEN page.editor ELSE 0
  <1>1. PICK n \in ListsFor(h), s \in Named(h) : Launch(t, h, n, s, content)
    BY DEF Begin
  <1>2. Free(t) /\ page' = page /\ page \in PageType
    BY DEF Begin, PagesInvariant, Typed, PageType
  <1>3. page.session \in Chosen /\ page.editor \in Nat
    BY <1>2 DEF PageType
  <1>4. \/ page.session \in Sessions
        \/ h \in {"create", "load", "provider"} \cup ConfigHandlers
    BY <1>3, GroupsOfHandlers DEF Begin, Startable, Chosen
  <1>5. /\ s \in Chosen
        /\ h \in {"create", "load"} => s \in Sessions
        /\ h \notin {"create", "load"} => s = page.session
    BY <1>3 DEF Named, Unused, Chosen
  <1>6. content \in Nat /\ (h = "test_config" => content = page.editor)
    BY <1>3
  <1> HIDE DEF content
  <1> QED BY <1>1, <1>2, <1>4, <1>5, <1>6, LaunchKeeps DEF Unselected

LEMMA BeginEditedKeeps ==
    ASSUME PagesInvariant, NEW t \in Slots, NEW h \in {"save_config", "test_config"},
           BeginEdited(t, h)
    PROVE  PagesInvariant'
  <1>1. Typed /\ page \in PageType
    BY DEF PagesInvariant, Typed, PageType
  <1>2. /\ h \in Handlers /\ 0 \in ListsFor(h) /\ Unselected(h) /\ h \notin {"create", "load"}
        /\ "config" \in About(h)
    BY HandlerNames DEF ConfigHandlers, ListsFor, Unselected, About
  <1>3. NewContent \in Nat
    BY <1>1, NewContentIs
  <1>4. /\ page' = [page EXCEPT !.editor = NewContent]
        /\ Free(t) /\ Launch(t, h, 0, page.session, NewContent)
    BY DEF BeginEdited
  <1>5. /\ page' \in PageType /\ page'.session = page.session
        /\ page'.snapshot = page.snapshot /\ page'.editor = NewContent
        /\ page.session \in Chosen
    BY <1>1, <1>3, <1>4 DEF PageType
  <1> QED BY <1>2, <1>3, <1>4, <1>5, LaunchKeeps

LEMMA BootstrapKeeps ==
    ASSUME PagesInvariant, NEW t \in Slots, Bootstrap(t)
    PROVE  PagesInvariant'
  <1>1. Typed /\ page \in PageType
    BY DEF PagesInvariant, Typed, PageType
  <1>2. /\ page' \in PageType /\ page'.session = page.session
        /\ page'.snapshot = page.snapshot /\ page'.editor = page.editor
    BY <1>1 DEF Bootstrap, PageType
  <1>3. CASE page.session = NoSession
    <2>1. PICK s \in Unused : Launch(t, "create", 0, s, 0)
      BY <1>3 DEF Bootstrap
    <2>2. /\ "create" \in Handlers /\ 0 \in ListsFor("create") /\ Unselected("create")
          /\ s \in Sessions /\ s \in Chosen /\ Free(t)
      BY HandlerNames DEF ListsFor, Unselected, Unused, Chosen, Bootstrap
    <2> QED BY <1>2, <2>1, <2>2, LaunchKeeps
  <1>4. CASE page.session # NoSession
    <2>1. UNCHANGED <<server, file, off, task, orphan, starts, faults, settled>>
      BY <1>4 DEF Bootstrap
    <2>2. Typed'
      BY <1>1, <1>2, <2>1 DEF Typed, PageType
    <2>3. ButtonsAreHeld'
      BY <2>1 DEF PagesInvariant, ButtonsAreHeld, Busy
    <2>4. Shown' = Shown
      BY <1>2, <2>1 DEF Shown
    <2>5. \A s : SoFar(s)' = SoFar(s)
      BY <2>1 DEF SoFar
    <2>6. ASSUME NEW u \in Slots PROVE (Working(u) /\ Seen(u) /\ Prepared(u) /\ Alone(u))'
      <3>1. Working(u) /\ Seen(u) /\ Prepared(u) /\ Alone(u)
        BY DEF PagesInvariant
      <3>2. Resting(u) /\ Grown
        BY <1>2, <2>1, UnchangedGrows DEF Resting
      <3>3. Working(u)' /\ Seen(u)' /\ Prepared(u)'
        BY <1>1, <1>2, <3>1, <3>2, RestingWorks, RestingHasSeen, RestingIsPrepared
      <3>4. Alone(u)'
        BY <1>2, <2>1, <2>4, <2>5, <3>1 DEF Alone, Busy, Doing
      <3> QED BY <3>3, <3>4
    <2>7. Settled'
      BY <1>2, <2>1, <2>4 DEF PagesInvariant, Settled, Busy
    <2>8. Below(page.snapshot.data, SoFar(page.snapshot.of))'
      BY <1>2, <2>5 DEF PagesInvariant
    <2> QED BY <2>2, <2>3, <2>6, <2>7, <2>8 DEF PagesInvariant
  <1> QED BY <1>3, <1>4

-----------------------------------------------------------------------------
(* The server answers a call, or does not *)

LEMMA CallEnds ==
    ASSUME PagesInvariant, NEW t \in Slots, Busy(t),
           UNCHANGED <<page, off, starts, settled>>, faults' \in 0..MaxFaults,
           Served(CallOf(t)) \/ UNCHANGED <<server, file>>,
           orphan' \in SUBSET Orphans, task' \in [Slots -> Runs],
           \A u \in Slots \ {t} : task'[u] = task[u],
           task'[t].handler = task[t].handler, task'[t].calls = task[t].calls,
           task'[t].local = task[t].local, task'[t].session = task[t].session,
           task'[t].steady = task[t].steady,
           task'[t].alone => task[t].alone /\ orphan' = orphan,
           \/ /\ task'[t].answer = "answered" /\ Served(CallOf(t))
              /\ task'[t].reply = SessionData(server', task[t].session)
              /\ task'[t].content = file'
           \/ task'[t].answer = "failed" /\ task'[t].content = task[t].content
    PROVE  PagesInvariant'
  <1>1. /\ Typed /\ ButtonsAreHeld /\ Settled
        /\ Below(page.snapshot.data, SoFar(page.snapshot.of))
        /\ \A u \in Slots : Working(u) /\ Seen(u) /\ Prepared(u) /\ Alone(u)
    BY DEF PagesInvariant
  <1> DEFINE h == task[t].handler
             call == CallOf(t)
  <1>2. /\ h \in Handlers /\ task[t].calls \in Left[h]
        /\ Doing(t) \notin ConfigCallNames => task[t].session \in Sessions
    BY <1>1 DEF Working, Busy, Typed, Runs
  <1>3. /\ call \in Orphans /\ call.what = Doing(t) /\ call.session = task[t].session
        /\ call.content = task[t].content
    <2>1. Doing(t) \in CallNames
      BY <1>2, LeftIs DEF Doing
    <2> QED BY <1>1, <2>1 DEF CallOf, Orphans, Typed, Runs
  <1> HIDE DEF call
  <1>4. /\ server' \in [Sessions -> Data] /\ file' \in Nat
        /\ Grown
        /\ Doing(t) \in Reads \cup ConfigWrites => server' = server
        /\ Doing(t) \notin ConfigWrites => file' = file
    BY <1>1, <1>3, ServedIs, UnchangedGrows DEF Typed, call
  <1>5. Served(call) =>
            /\ Doing(t) \in {"write_config", "test_config"} => file' = task[t].content
            /\ Doing(t) = "universe" => SessionData(server', task[t].session).universe
            /\ Doing(t) = "complete" => SessionData(server', task[t].session).report
    BY <1>1, <1>2, <1>3, ServedIs DEF ConfigCallNames
  <1>6. \A u \in Slots \ {t} : Resting(u)
    BY DEF Resting
  <1>7. \A u \in Slots : task'[u].handler = task[u].handler /\ (Busy(u)' <=> Busy(u))
    BY DEF Busy
  <1>8. Typed'
    BY <1>1, <1>4 DEF Typed
  <1>9. ButtonsAreHeld'
    BY <1>1, <1>7 DEF ButtonsAreHeld
  <1>10. ASSUME NEW u \in Slots \ {t} PROVE (Working(u) /\ Seen(u) /\ Prepared(u) /\ Alone(u))'
    <2>1. Working(u)'
      BY <1>1, <1>6, RestingWorks
    <2>2. Seen(u)'
      BY <1>1, <1>4, <1>6, RestingHasSeen
    <2>3. Prepared(u)'
      BY <1>1, <1>4, <1>6, RestingIsPrepared
    <2>4. Alone(u)'
      BY <1>1, <1>6, RestingIsNotAlone
    <2> QED BY <2>1, <2>2, <2>3, <2>4
  <1>11. Working(t)'
    BY <1>1 DEF Working, Busy, Doing
  <1>12. Seen(t)'
    <2>1. Below(task[t].local.data, SessionData(server', task[t].local.of))
      <3>1. task[t].local.of \in Chosen
        BY <1>1 DEF Typed, Runs, Snapshot, Chosen
      <3> QED BY <1>1, <1>4, <3>1, BelowTransitive DEF Grown, Seen
    <2>2. ASSUME task'[t].answer = "answered"
          PROVE  /\ Below(task'[t].reply, SessionData(server', task[t].session))
                 /\ Doing(t) = "universe" => SessionData(server', task[t].session).universe
                 /\ Doing(t) = "complete" => SessionData(server', task[t].session).report
      BY <1>5, <2>2 DEF Below, call
    <2> QED BY <2>1, <2>2 DEF Seen, Doing, SoFar
  <1>13. Prepared(t)'
    <2>1. Resting(t) \/ task'[t].steady = task[t].steady
      OBVIOUS
    <2>2. page.session \in Chosen /\ page' = page
      BY <1>1 DEF Typed
    <2>3. Below(SoFar(page.session), SessionData(server', page.session))
      BY <1>4, <2>2 DEF Grown
    <2> SUFFICES ASSUME h # "none", h = "train", task[t].steady
                 PROVE  /\ task[t].session = page.session
                        /\ Doing(t) # "universe" => SessionData(server', page.session).universe
                        /\ Doing(t) \in {"preferences", "iterate"}
                           => SessionData(server', page.session).report
      BY DEF Prepared, Busy, Doing, SoFar
    <2> QED BY <1>1, <2>3 DEF Prepared, Busy, Below
  <1>14. Shown => Shown' \/ Doing(t) \notin Reads \cup ConfigWrites
    BY <1>4 DEF Shown
  <1>15. Alone(t)'
    <2> SUFFICES ASSUME task'[t].alone PROVE Alone(t)'
      BY DEF Alone
    <2>1. /\ orphan' = {} /\ \A u \in Slots : u # t => ~Busy(u)'
          /\ ~Selects(Doing(t)) => task[t].session = page.session
          /\ h = "test_config" => task[t].content = page.editor
          /\ "session" \in About(h) /\ Doing(t) \in {"health", "health_or_not"} => Shown
      BY <1>1, <1>7 DEF Alone
    <2>2. h = "test_config" => task'[t].content = page.editor
      BY <1>2, <1>5, <2>1, LeftIs DEF call, Doing
    <2>3. "session" \in About(h) /\ Doing(t) \in {"health", "health_or_not"} => Shown'
      BY <1>14, <2>1 DEF Reads
    <2> QED BY <2>1, <2>2, <2>3 DEF Alone, Doing, SoFar
  <1>16. Settled'
    <2>1. settled \cap About(h) = {}
      BY <1>1 DEF Settled
    <2>2. "session" \in settled => Doing(t) \in Reads \cup ConfigWrites
      <3>1. "session" \in settled =>
                h \in {"provider", "reload_config", "save_config", "test_config", "check_sources"}
        BY <2>1 DEF About
      <3>2. h \in {"provider", "reload_config", "save_config", "test_config", "check_sources"}
            => Doing(t) \in {"read_config", "write_config", "test_config", "provider",
                             "health_or_not", "health"}
        BY <1>2, LeftIs DEF Doing
      <3> QED BY <3>1, <3>2 DEF Reads, ConfigWrites
    <2>3. "config" \in settled => Doing(t) \notin ConfigWrites
      <3>1. "config" \in settled =>
                h \notin {"provider", "reload_config", "save_config", "test_config"}
        BY <2>1 DEF About
      <3>2. Doing(t) \in ConfigWrites => h \in {"provider", "save_config", "test_config"}
        BY <1>2, LeftIs DEF Doing, ConfigWrites
      <3> QED BY <3>1, <3>2
    <2>4. "session" \in settled => Shown'
      BY <1>1, <1>14, <2>2 DEF Settled
    <2>5. "config" \in settled => page'.editor = file'
      BY <1>1, <1>4, <2>3 DEF Settled
    <2> QED BY <1>1, <1>7, <2>4, <2>5 DEF Settled
  <1>17. Below(page.snapshot.data, SoFar(page.snapshot.of))'
    <2>1. page.snapshot.of \in Chosen
      BY <1>1 DEF Typed, Snapshot, Chosen
    <2> QED BY <1>1, <1>4, <2>1, BelowTransitive DEF Grown, SoFar
  <1> QED BY <1>8, <1>9, <1>10, <1>11, <1>12, <1>13, <1>15, <1>16, <1>17 DEF PagesInvariant

\* The call of a handler in flight is one the server may be left with.
LEMMA CallIs ==
    ASSUME PagesInvariant, NEW t \in Slots, Busy(t)
    PROVE  CallOf(t) \in Orphans
  <1>1. /\ Typed /\ task[t].handler \in Handlers /\ task[t].calls \in Left[task[t].handler]
    BY DEF PagesInvariant, Working, Busy, Typed, Runs
  <1>2. Doing(t) \in CallNames
    BY <1>1, LeftIs DEF Doing
  <1> QED BY <1>1, <1>2 DEF CallOf, Orphans, Typed, Runs

LEMMA AnswerKeeps ==
    ASSUME PagesInvariant, NEW t \in Slots, Answer(t)
    PROVE  PagesInvariant'
  <1>1. Typed /\ task \in [Slots -> Runs] /\ task[t] \in Runs
    BY DEF PagesInvariant, Typed
  <1>2. Busy(t) /\ Served(CallOf(t)) /\ UNCHANGED <<page, off, orphan, starts, faults, settled>>
    BY DEF Answer
  <1> DEFINE reply == SessionData(server', task[t].session)
             content == file'
  <1>3. reply \in Data /\ content \in Nat
    <2>1. CallOf(t) \in Orphans
      BY <1>2, CallIs
    <2>2. server' \in [Sessions -> Data] /\ file' \in Nat
      BY <1>1, <1>2, <2>1, ServedIs
    <2> QED BY <1>1, <2>2, AbsentIs DEF SessionData, Runs, Chosen
  <1>4. task' = [task EXCEPT ![t].answer = "answered", ![t].reply = reply,
                             ![t].content = content]
    BY DEF Answer
  <1> HIDE DEF reply, content
  <1>5. /\ task' \in [Slots -> Runs]
        /\ \A u \in Slots \ {t} : task'[u] = task[u]
        /\ task'[t].handler = task[t].handler /\ task'[t].calls = task[t].calls
        /\ task'[t].local = task[t].local /\ task'[t].session = task[t].session
        /\ task'[t].steady = task[t].steady /\ task'[t].alone = task[t].alone
        /\ task'[t].answer = "answered" /\ task'[t].reply = reply
        /\ task'[t].content = content
    BY <1>1, <1>3, <1>4 DEF Runs
  <1>6. faults' \in 0..MaxFaults /\ orphan' \in SUBSET Orphans
    BY <1>1, <1>2 DEF Typed
  <1> QED BY <1>2, <1>5, <1>6, CallEnds DEF reply, content

LEMMA RefuseKeeps ==
    ASSUME PagesInvariant, NEW t \in Slots, Refuse(t)
    PROVE  PagesInvariant'
  <1>1. Typed /\ task \in [Slots -> Runs] /\ task[t] \in Runs
    BY DEF PagesInvariant, Typed
  <1>2. Busy(t) /\ UNCHANGED <<page, off, orphan, starts, settled>>
    BY DEF Refuse
  <1>3. Served(CallOf(t)) \/ UNCHANGED <<server, file>>
    BY DEF Refuse
  <1>4. task' = [task EXCEPT ![t].answer = "failed"]
    BY DEF Refuse
  <1>5. /\ task' \in [Slots -> Runs]
        /\ \A u \in Slots \ {t} : task'[u] = task[u]
        /\ task'[t].handler = task[t].handler /\ task'[t].calls = task[t].calls
        /\ task'[t].local = task[t].local /\ task'[t].session = task[t].session
        /\ task'[t].steady = task[t].steady /\ task'[t].alone = task[t].alone
        /\ task'[t].answer = "failed" /\ task'[t].content = task[t].content
    BY <1>1, <1>4 DEF Runs
  <1>6. faults' \in 0..MaxFaults /\ orphan' \in SUBSET Orphans
    BY <1>1, <1>2, PagesAssumption DEF Typed, Refuse
  <1> QED BY <1>2, <1>3, <1>5, <1>6, CallEnds

LEMMA TimeOutKeeps ==
    ASSUME PagesInvariant, NEW t \in Slots, TimeOut(t)
    PROVE  PagesInvariant'
  <1>1. Typed /\ task \in [Slots -> Runs] /\ task[t] \in Runs
    BY DEF PagesInvariant, Typed
  <1>2. Busy(t) /\ UNCHANGED <<server, file, page, off, starts, settled>>
    BY DEF TimeOut
  <1>3. CallOf(t) \in Orphans
    BY <1>2, CallIs
  <1>4. task' = [task EXCEPT ![t].answer = "failed", ![t].alone = FALSE]
    BY DEF TimeOut
  <1>5. /\ task' \in [Slots -> Runs]
        /\ \A u \in Slots \ {t} : task'[u] = task[u]
        /\ task'[t].handler = task[t].handler /\ task'[t].calls = task[t].calls
        /\ task'[t].local = task[t].local /\ task'[t].session = task[t].session
        /\ task'[t].steady = task[t].steady /\ ~task'[t].alone
        /\ task'[t].answer = "failed" /\ task'[t].content = task[t].content
    BY <1>1, <1>4 DEF Runs
  <1>6. faults' \in 0..MaxFaults /\ orphan' \in SUBSET Orphans
    BY <1>1, <1>3, PagesAssumption DEF Typed, TimeOut
  <1> QED BY <1>2, <1>5, <1>6, CallEnds

LEMMA ServeLateKeeps ==
    ASSUME PagesInvariant, ServeLate
    PROVE  PagesInvariant'
  <1>1. /\ Typed /\ ButtonsAreHeld
        /\ Below(page.snapshot.data, SoFar(page.snapshot.of))
        /\ \A u \in Slots : Working(u) /\ Seen(u) /\ Prepared(u)
    BY DEF PagesInvariant
  <1>2. PICK call \in orphan :
            /\ Served(call) \/ UNCHANGED <<server, file>>
            /\ orphan' = orphan \ {call}
    BY DEF ServeLate
  <1>3. /\ task' = [u \in Slots |-> [task[u] EXCEPT !.alone = FALSE]]
        /\ settled' = {} /\ UNCHANGED <<page, off, starts, faults>>
    BY DEF ServeLate
  <1>4. server' \in [Sessions -> Data] /\ file' \in Nat /\ Grown
    BY <1>1, <1>2, ServedIs, UnchangedGrows DEF Typed
  <1>5. \A u \in Slots : task[u] \in Runs
    BY <1>1 DEF Typed
  <1>6. \A r \in Runs : [r EXCEPT !.alone = FALSE] \in Runs
    BY DEF Runs
  <1>7. task' \in [Slots -> Runs]
    BY <1>3, <1>5, <1>6
  <1>8. \A u \in Slots : Resting(u) /\ task'[u].alone = FALSE
    BY <1>3, <1>5 DEF Runs, Resting
  <1>9. Typed'
    BY <1>1, <1>2, <1>3, <1>4, <1>7 DEF Typed
  <1>10. ButtonsAreHeld'
    BY <1>1, <1>3, <1>8 DEF ButtonsAreHeld, Busy, Resting
  <1>11. ASSUME NEW u \in Slots PROVE (Working(u) /\ Seen(u) /\ Prepared(u) /\ Alone(u))'
    <2>1. Working(u)'
      BY <1>1, <1>3, <1>8, RestingWorks
    <2>2. Seen(u)'
      BY <1>1, <1>4, <1>8, RestingHasSeen
    <2>3. Prepared(u)'
      BY <1>1, <1>4, <1>8, RestingIsPrepared
    <2>4. Alone(u)'
      BY <1>8 DEF Alone
    <2> QED BY <2>1, <2>2, <2>3, <2>4
  <1>12. Settled'
    BY <1>3 DEF Settled
  <1>13. Below(page.snapshot.data, SoFar(page.snapshot.of))'
    <2>1. page.snapshot.of \in Chosen
      BY <1>1 DEF Typed, Snapshot, Chosen
    <2> QED BY <1>1, <1>3, <1>4, <2>1, BelowTransitive DEF Grown, SoFar
  <1> QED BY <1>9, <1>10, <1>11, <1>12, <1>13 DEF PagesInvariant

-----------------------------------------------------------------------------
(* A handler ends, or goes on *)

LEMMA EndKeeps ==
    ASSUME PagesInvariant, NEW t \in Slots, Busy(t), NEW succeeded, NEW fresh,
           End(t, succeeded, fresh), UNCHANGED <<server, file, orphan, starts, faults>>,
           page' \in PageType, page'.session = page.session,
           Below(page'.snapshot.data, SoFar(page'.snapshot.of)),
           "session" \notin About(task[t].handler) => page'.snapshot = page.snapshot,
           "config" \notin About(task[t].handler) => page'.editor = page.editor,
           succeeded /\ fresh /\ task[t].alone =>
               /\ "session" \in Refreshes(task[t].handler) => Shown'
               /\ "config" \in Refreshes(task[t].handler) => page'.editor = file
    PROVE  PagesInvariant'
  <1> DEFINE h == task[t].handler
  <1>1. /\ Typed /\ ButtonsAreHeld /\ Settled
        /\ \A u \in Slots : Working(u) /\ Seen(u) /\ Prepared(u) /\ Alone(u)
    BY DEF PagesInvariant
  <1>2. /\ task' = [task EXCEPT ![t] = Idle]
        /\ off' = off \ Locks(h)
        /\ settled' = IF succeeded /\ fresh /\ task[t].alone
                      THEN settled \cup Refreshes(h) ELSE settled
    BY DEF End, Unlocked
  <1>3. task' \in [Slots -> Runs] /\ task'[t] = Idle /\ \A u \in Slots \ {t} : task'[u] = task[u]
    BY <1>1, <1>2, IdleIs DEF Typed
  <1>4. \A u \in Slots \ {t} : Resting(u)
    BY <1>3 DEF Resting
  <1>5. Grown /\ \A s : SoFar(s)' = SoFar(s)
    BY UnchangedGrows DEF SoFar
  <1>6. Typed'
    <2>1. settled' \in SUBSET {"session", "config"}
      BY <1>1, <1>2 DEF Typed, Refreshes, About
    <2> QED BY <1>1, <1>2, <1>3, <2>1 DEF Typed, PageType
  <1>7. ButtonsAreHeld'
    <2> SUFFICES ASSUME NEW g \in off'
                 PROVE  \E u \in Slots : Busy(u)' /\ g \in Locks(task'[u].handler)
      BY DEF ButtonsAreHeld
    <2>1. PICK u \in Slots : Busy(u) /\ g \in Locks(task[u].handler)
      BY <1>1, <1>2 DEF ButtonsAreHeld
    <2>2. u # t
      BY <1>2, <2>1
    <2> QED BY <1>3, <2>1, <2>2 DEF Busy
  <1>8. ASSUME NEW u \in Slots \ {t} PROVE (Working(u) /\ Seen(u) /\ Prepared(u) /\ Alone(u))'
    <2>1. Working(u)'
      BY <1>1, <1>4, RestingWorks
    <2>2. Seen(u)'
      BY <1>1, <1>4, <1>5, RestingHasSeen
    <2>3. Prepared(u)'
      BY <1>1, <1>4, <1>5, RestingIsPrepared
    <2>4. Alone(u)'
      BY <1>1, <1>4, RestingIsNotAlone
    <2> QED BY <2>1, <2>2, <2>3, <2>4
  <1>9. (Working(t) /\ Seen(t) /\ Prepared(t) /\ Alone(t))'
    <2>1. Working(t)' /\ Prepared(t)' /\ Alone(t)'
      BY <1>3, IdleIs DEF Working, Prepared, Alone, Busy
    <2>2. Seen(t)'
      BY <1>3, IdleIs, AbsentIs DEF Seen, Below, NoSnapshot
    <2> QED BY <2>1, <2>2
  <1>10. Settled'
    <2>0. settled \cap About(h) = {}
      BY <1>1 DEF Settled
    <2>1. "session" \in settled' => Shown'
      <3>1. CASE "session" \in settled
        BY <1>1, <2>0, <3>1 DEF Settled, Shown
      <3> QED BY <1>2, <3>1
    <2>2. "config" \in settled' => page'.editor = file'
      <3>1. CASE "config" \in settled
        BY <1>1, <2>0, <3>1 DEF Settled
      <3> QED BY <1>2, <3>1
    <2>3. ASSUME NEW u \in Slots, Busy(u)' PROVE settled' \cap About(task'[u].handler) = {}
      <3>1. u # t /\ Busy(u) /\ task'[u] = task[u]
        BY <1>3, <2>3, IdleIs DEF Busy
      <3>2. ~task[t].alone
        BY <1>1, <3>1 DEF Alone
      <3> QED BY <1>1, <1>2, <3>1, <3>2 DEF Settled
    <2> QED BY <2>1, <2>2, <2>3 DEF Settled
  <1>11. Below(page.snapshot.data, SoFar(page.snapshot.of))'
    BY <1>5 DEF SoFar
  <1> QED BY <1>6, <1>7, <1>8, <1>9, <1>10, <1>11 DEF PagesInvariant

LEMMA ContinueKeeps ==
    ASSUME PagesInvariant, NEW t \in Slots, Busy(t), NEW run \in Runs,
           run.handler = task[t].handler, run.content = task[t].content,
           run.alone = task[t].alone, run.steady = task[t].steady,
           Below(run.local.data, SoFar(run.local.of)),
           NEW rest \in Left[task[t].handler], ~Selects(rest[1]),
           NEW session \in Chosen, page.session \in Sessions => session \in Sessions,
           rest[1] \notin ConfigCallNames => session \in Sessions,
           Continue(t, run, rest, session), UNCHANGED <<server, file, orphan, starts, faults>>,
           page' \in PageType, page'.session = session,
           Below(page'.snapshot.data, SoFar(page'.snapshot.of)),
           "session" \notin About(task[t].handler) =>
               page'.snapshot = page.snapshot /\ session = page.session,
           "config" \notin About(task[t].handler) \/ task[t].handler = "test_config" =>
               page'.editor = page.editor,
           ~Unselected(task[t].handler) \/ task[t].handler \in {"create", "load"} =>
               session \in Sessions,
           task[t].alone /\ "session" \in About(task[t].handler)
           /\ rest[1] \in {"health", "health_or_not"} => Shown',
           task[t].handler = "train" /\ task[t].steady /\ session = page.session =>
               /\ rest[1] # "universe" => SoFar(session).universe
               /\ rest[1] \in {"preferences", "iterate"} => SoFar(session).report
    PROVE  PagesInvariant'
  <1> DEFINE h == task[t].handler
             same == session = page.session
             sent == Sent(run, rest, session)
             tasks == [task EXCEPT ![t] = sent]
  <1>1. /\ Typed /\ ButtonsAreHeld /\ Settled
        /\ \A u \in Slots : Working(u) /\ Seen(u) /\ Prepared(u) /\ Alone(u)
    BY DEF PagesInvariant
  <1>2. task \in [Slots -> Runs] /\ h \in Handlers
    BY <1>1 DEF Typed, Runs, Busy
  <1>3. /\ task' = [u \in Slots |-> [tasks[u] EXCEPT !.steady = @ /\ same]]
        /\ off' = off /\ settled' = settled
    BY DEF Continue, Unsteady
  <1>4. rest \in Seq(CallNames) /\ rest # <<>>
    BY <1>2, LeftIs
  <1>5. /\ sent \in Runs /\ sent.handler = h /\ sent.calls = rest /\ sent.local = run.local
        /\ sent.session = session /\ sent.content = task[t].content /\ sent.answer = "awaited"
        /\ sent.alone = task[t].alone /\ sent.steady = task[t].steady
    BY <1>4, SentIs
  <1> HIDE DEF sent
  <1>6. /\ \A u \in Slots : tasks[u] \in Runs
        /\ tasks[t] = sent /\ \A u \in Slots \ {t} : tasks[u] = task[u]
    BY <1>2, <1>5
  <1> HIDE DEF tasks
  <1>7. ASSUME NEW r \in Runs
        PROVE  LET q == [r EXCEPT !.steady = @ /\ same]
               IN  /\ q \in Runs /\ q.handler = r.handler /\ q.calls = r.calls
                   /\ q.local = r.local /\ q.session = r.session /\ q.content = r.content
                   /\ q.answer = r.answer /\ q.reply = r.reply /\ q.alone = r.alone
                   /\ q.steady = (r.steady /\ same)
    <2> DEFINE b == r.steady /\ same
               q == [r EXCEPT !.steady = b]
    <2>1. b \in BOOLEAN
      OBVIOUS
    <2> HIDE DEF b
    <2>2. /\ q \in Runs /\ q.handler = r.handler /\ q.calls = r.calls
          /\ q.local = r.local /\ q.session = r.session /\ q.content = r.content
          /\ q.answer = r.answer /\ q.reply = r.reply /\ q.alone = r.alone
          /\ q.steady = b
      BY <2>1 DEF Runs
    <2> QED BY <2>2 DEF b
  <1> HIDE DEF same
  <1>8. /\ task' \in [Slots -> Runs]
        /\ \A u \in Slots :
               /\ task'[u].handler = tasks[u].handler /\ task'[u].calls = tasks[u].calls
               /\ task'[u].local = tasks[u].local /\ task'[u].session = tasks[u].session
               /\ task'[u].content = tasks[u].content /\ task'[u].answer = tasks[u].answer
               /\ task'[u].reply = tasks[u].reply /\ task'[u].alone = tasks[u].alone
               /\ task'[u].steady = (tasks[u].steady /\ same)
    BY <1>3, <1>6, <1>7
  <1>9. \A u \in Slots \ {t} : Resting(u)
    <2> TAKE u \in Slots \ {t}
    <2>1. tasks[u] = task[u]
      BY <1>6
    <2>2. task'[u].steady => tasks[u].steady /\ same
      BY <1>8, Zenon
    <2>3. task'[u].steady => task[u].steady /\ page'.session = page.session
      BY <2>1, <2>2 DEF same
    <2>4. task'[u].alone => task[u].alone
      BY <1>8, <2>1, Zenon
    <2> QED BY <1>8, <2>1, <2>3, <2>4 DEF Resting
  <1>10. \A u \in Slots : task'[u].handler = task[u].handler /\ (Busy(u)' <=> Busy(u))
    BY <1>5, <1>6, <1>8 DEF Busy
  <1>11. Grown /\ \A s : SoFar(s)' = SoFar(s)
    BY UnchangedGrows DEF SoFar
  <1>12. Typed'
    BY <1>1, <1>3, <1>8 DEF Typed, PageType
  <1>13. ButtonsAreHeld'
    BY <1>1, <1>3, <1>10 DEF ButtonsAreHeld
  <1>14. ASSUME NEW u \in Slots \ {t} PROVE (Working(u) /\ Seen(u) /\ Prepared(u) /\ Alone(u))'
    <2>1. Working(u)'
      BY <1>1, <1>9, RestingWorks
    <2>2. Seen(u)'
      BY <1>1, <1>9, <1>11, RestingHasSeen
    <2>3. Prepared(u)'
      BY <1>1, <1>9, <1>11, RestingIsPrepared
    <2>4. Alone(u)'
      BY <1>1, <1>9, RestingIsNotAlone
    <2> QED BY <2>1, <2>2, <2>3, <2>4
  <1>15. /\ task'[t].handler = h /\ task'[t].calls = rest /\ task'[t].local = run.local
         /\ task'[t].session = session /\ task'[t].content = task[t].content
         /\ task'[t].answer = "awaited" /\ task'[t].alone = task[t].alone
         /\ task'[t].steady = (task[t].steady /\ same)
    BY <1>5, <1>6, <1>8
  <1>16. Working(t)'
    BY <1>2, <1>15, HandlersAreNotNone DEF Working, Busy, Doing
  <1>17. Seen(t)'
    BY <1>11, <1>15 DEF Seen
  <1>18. Prepared(t)'
    BY <1>11, <1>15 DEF Prepared, Doing, same
  <1>19. Alone(t)'
    <2> SUFFICES ASSUME task[t].alone PROVE Alone(t)'
      BY <1>15 DEF Alone
    <2>1. orphan' = {} /\ \A u \in Slots : u # t => ~Busy(u)'
      BY <1>1, <1>10 DEF Alone
    <2>2. h = "test_config" => task'[t].content = page'.editor
      BY <1>1, <1>15 DEF Alone
    <2> QED BY <1>15, <2>1, <2>2 DEF Alone, Doing
  <1>20. Settled'
    <2>0. settled \cap About(h) = {}
      BY <1>1 DEF Settled
    <2>1. "session" \in settled => Shown'
      BY <1>1, <2>0 DEF Settled, Shown
    <2>2. "config" \in settled => page'.editor = file'
      BY <1>1, <2>0 DEF Settled
    <2> QED BY <1>1, <1>3, <1>10, <2>1, <2>2 DEF Settled
  <1>21. Below(page.snapshot.data, SoFar(page.snapshot.of))'
    BY <1>11 DEF SoFar
  <1> QED BY <1>12, <1>13, <1>14, <1>16, <1>17, <1>18, <1>19, <1>20, <1>21 DEF PagesInvariant

\* Which calls keep the snapshot on display, and which the handlers of each part make.
LEMMA HandlersCall ==
    ASSUME NEW h \in Handlers, NEW calls \in Left[h]
    PROVE  /\ "session" \notin About(h) => calls[1] \in NoSnapshotCalls /\ ~Selects(calls[1])
           /\ "session" \in About(h) /\ calls[1] \in NoSnapshotCalls
              => calls[1] \in {"health", "health_or_not"}
           /\ "config" \notin About(h) => calls[1] \notin {"read_config", "write_config"}
           /\ h = "train" => calls[1] \notin NoSnapshotCalls \cup {"search"}
           /\ calls[1] = "create" \/ calls[1] = "read" => calls[1] \notin ConfigCallNames
  <1>1. "session" \notin About(h) =>
            h \in {"provider", "reload_config", "save_config", "test_config", "check_sources"}
    BY DEF About
  <1>2. "session" \in About(h) =>
            h \notin {"provider", "reload_config", "save_config", "test_config", "check_sources"}
    BY DEF About
  <1>3. "config" \notin About(h) =>
            h \notin {"provider", "reload_config", "save_config", "test_config"}
    BY DEF About
  <1>4. /\ h = "reload_config" <=> calls[1] = "read_config"
        /\ h = "save_config" <=> calls[1] = "write_config"
        /\ h = "test_config" <=> calls[1] = "test_config"
        /\ h = "provider" => calls[1] \in {"provider", "health_or_not"}
        /\ calls[1] = "provider" => h = "provider"
        /\ h = "check_sources" => calls[1] = "health"
        /\ calls[1] \in Sought <=> h \in Intelligence
        /\ calls[1] \in {"health", "health_or_not"} => h # "train"
    BY LeftIs
  <1> DEFINE first == calls[1]
  <1> HIDE DEF first
  <1>5. first \in NoSnapshotCalls <=>
            first \in {"write_config", "test_config", "provider", "health", "health_or_not",
                       "read_config"}
    BY DEF NoSnapshotCalls, ConfigWrites, Reads
  <1>6. h = "train" => first # "search"
    BY <1>4 DEF first, Sought, Intelligence
  <1> QED BY <1>1, <1>2, <1>3, <1>4, <1>5, <1>6 DEF first, Selects, ConfigCallNames

LEMMA ResumeKeeps ==
    ASSUME PagesInvariant, NEW t \in Slots, Resume(t)
    PROVE  PagesInvariant'
  <1> DEFINE run == task[t]
             h == run.handler
             what == Doing(t)
             session == IF Selects(what) THEN run.session ELSE page.session
             local == CASE what \in NoSnapshotCalls -> run.local
                        [] what = "search" -> page.snapshot
                        [] OTHER -> [of |-> run.session, data |-> run.reply]
             rest == Remaining(h, Tail(run.calls), local.data, session)
             shown == IF Displays(h, what, rest) THEN local ELSE page.snapshot
             editor == IF what \in {"read_config", "write_config"} THEN run.content
                       ELSE page.editor
  <1>1. /\ Typed /\ Settled
        /\ Below(page.snapshot.data, SoFar(page.snapshot.of))
        /\ Working(t) /\ Seen(t) /\ Prepared(t) /\ Alone(t)
    BY DEF PagesInvariant
  <1>2. /\ Busy(t) /\ run.answer = "answered"
        /\ page' = [page EXCEPT !.session = session, !.snapshot = shown, !.editor = editor]
        /\ IF rest = <<>> THEN End(t, TRUE, what # "search")
           ELSE Continue(t, [run EXCEPT !.local = local], rest, session)
        /\ UNCHANGED <<server, file, orphan, starts, faults>>
    BY DEF Resume
  <1>3. /\ run \in Runs /\ h \in Handlers /\ run.calls \in Left[h] /\ page \in PageType
        /\ h # "none"
    BY <1>1, <1>2 DEF Typed, Runs, Working, Busy, PageType
  <1>4. /\ run.session \in Chosen /\ page.session \in Chosen /\ run.reply \in Data
        /\ run.local \in Snapshot /\ page.snapshot \in Snapshot /\ run.content \in Nat
        /\ page.editor \in Nat
    BY <1>3 DEF Runs, PageType
  <1>5. Selects(what) => run.session \in Sessions
    BY <1>1, <1>2, <1>3, HandlersCall DEF Working, Selects, Doing
  <1>6. session \in Chosen /\ (page.session \in Sessions => session \in Sessions)
    BY <1>4, <1>5
  <1>7. local \in Snapshot
    <2>1. [of |-> run.session, data |-> run.reply] \in Snapshot
      BY <1>4 DEF Snapshot, Chosen
    <2> QED BY <1>4, <2>1
  <1>8. Below(local.data, SoFar(local.of))
    <2>1. /\ Below(run.local.data, SoFar(run.local.of))
          /\ Below(run.reply, SoFar(run.session))
      BY <1>1, <1>2 DEF Seen
    <2> QED BY <1>1, <2>1
  <1>9. /\ what \notin NoSnapshotCalls \cup {"search"} =>
               local = [of |-> run.session, data |-> run.reply]
    OBVIOUS
  <1>10. /\ rest = <<>> \/ rest \in Left[h]
         /\ Selects(what) => rest # <<>>
         /\ rest # <<>> => ~Selects(rest[1])
         /\ rest # <<>> /\ rest[1] = "health_or_not" => session # NoSession
         /\ rest # <<>> /\ rest[1] \in {"health", "health_or_not"} /\ h # "provider"
            => what # "search" /\ Displays(h, what, rest)
         /\ h = "train" /\ rest # <<>> /\ rest[1] \in {"preferences", "iterate"}
            => local.data.report \/ what \in {"complete", "preferences", "iterate"}
    <2> HIDE DEF local, session
    <2> QED BY <1>3, Onward DEF Doing
  <1>11. what \in NoSnapshotCalls => ~Displays(h, what, rest)
    <2>1. what \in NoSnapshotCalls =>
              what \notin Prerequisites(h) /\ what \notin Sought
      BY DEF NoSnapshotCalls, ConfigWrites, Reads, Prerequisites, Sought, MarketData
    <2>2. what \in Sought <=> h \in Intelligence
      BY <1>3, LeftIs DEF Doing
    <2>3. GroupOf[h] = "intelligence" <=> h \in Intelligence
      BY <1>3, GroupsOfHandlers
    <2> HIDE DEF rest, what, h
    <2> QED BY <2>1, <2>2, <2>3 DEF Displays
  <1>12. rest = <<>> /\ what \notin NoSnapshotCalls => Displays(h, what, rest)
    BY DEF Displays
  <1>13. /\ "session" \notin About(h) => what \in NoSnapshotCalls /\ ~Selects(what)
         /\ "session" \in About(h) /\ what \in NoSnapshotCalls
            => what \in {"health", "health_or_not"}
         /\ "config" \notin About(h) => what \notin {"read_config", "write_config"}
         /\ h = "train" => what \notin NoSnapshotCalls \cup {"search"}
    BY <1>3, HandlersCall DEF Doing
  <1>14. task[t].alone =>
             /\ run.reply = SoFar(run.session) /\ run.content = file
             /\ ~Selects(what) => run.session = page.session
             /\ h = "test_config" => run.content = page.editor
             /\ "session" \in About(h) /\ what \in {"health", "health_or_not"} => Shown
    BY <1>1, <1>2 DEF Alone
  <1> HIDE DEF rest, local
  <1>15. /\ page' \in PageType /\ page'.session = session /\ page'.snapshot = shown
         /\ page'.editor = editor
    <2>1. shown \in Snapshot /\ editor \in Nat
      BY <1>4, <1>7
    <2> HIDE DEF shown, editor, session
    <2> QED BY <1>2, <1>3, <1>6, <2>1 DEF PageType
  <1>16. Below(page'.snapshot.data, SoFar(page'.snapshot.of))
    BY <1>1, <1>8, <1>15
  <1>17. "session" \notin About(h) => page'.snapshot = page.snapshot /\ session = page.session
    BY <1>11, <1>13, <1>15
  <1>18. "config" \notin About(h) => page'.editor = page.editor
    BY <1>13, <1>15
  <1>19. ASSUME task[t].alone, Displays(h, what, rest), what # "search" PROVE Shown'
    <2>1. what \notin NoSnapshotCalls
      BY <1>11, <1>19
    <2>2. page'.snapshot = [of |-> run.session, data |-> run.reply]
      BY <1>9, <1>15, <1>19, <2>1
    <2>3. page'.session = run.session
      BY <1>14, <1>15, <1>19
    <2> QED BY <1>2, <1>4, <1>14, <1>19, <2>2, <2>3 DEF Shown, SoFar, SessionData
  <1>20. ASSUME rest = <<>> PROVE PagesInvariant'
    <2>1. End(t, TRUE, what # "search") /\ page'.session = page.session
      BY <1>2, <1>10, <1>15, <1>20
    <2>2. ASSUME what # "search", task[t].alone, "session" \in Refreshes(h) PROVE Shown'
      <3>1. "session" \in About(h)
        BY <2>2 DEF Refreshes
      <3>2. CASE what \in NoSnapshotCalls
        <4>1. Shown /\ page'.snapshot = page.snapshot
          BY <1>11, <1>13, <1>14, <1>15, <2>2, <3>1, <3>2
        <4> QED BY <1>2, <2>1, <4>1 DEF Shown
      <3>3. CASE what \notin NoSnapshotCalls
        BY <1>12, <1>19, <1>20, <2>2, <3>3
      <3> QED BY <3>2, <3>3
    <2>3. ASSUME task[t].alone, "config" \in Refreshes(h) PROVE page'.editor = file
      <3>1. h \in {"reload_config", "save_config", "test_config"}
        BY <2>3 DEF Refreshes, About
      <3>2. what \in {"read_config", "write_config"} \/ h = "test_config"
        BY <1>3, <3>1, LeftIs DEF Doing
      <3> QED BY <1>14, <1>15, <2>3, <3>2
    <2> HIDE DEF session, shown, editor
    <2> QED BY <1>2, <1>15, <1>16, <1>17, <1>18, <2>1, <2>2, <2>3, EndKeeps
  <1>21. ASSUME rest # <<>> PROVE PagesInvariant'
    <2> DEFINE next == [run EXCEPT !.local = local]
    <2>1. Continue(t, next, rest, session)
      BY <1>2, <1>21
    <2>2. /\ next \in Runs /\ next.handler = h /\ next.content = run.content
          /\ next.alone = run.alone /\ next.steady = run.steady /\ next.local = local
      BY <1>3, <1>7 DEF Runs
    <2> HIDE DEF next
    <2>3. rest \in Left[h] /\ ~Selects(rest[1])
      BY <1>10, <1>21
    <2>4. ~Unselected(h) \/ h \in {"create", "load"} => session \in Sessions
      BY <1>1, <1>2, <1>5, <1>6 DEF Working
    <2>5. rest[1] \notin ConfigCallNames => session \in Sessions
      <3>1. CASE h = "provider"
        <4>1. rest[1] \in {"provider", "health_or_not"}
          BY <1>3, <2>3, <3>1, LeftIs
        <4> QED BY <1>6, <1>10, <1>21, <4>1 DEF ConfigCallNames, Chosen
      <3>2. CASE h \in ConfigHandlers
        BY <1>3, <2>3, <3>2, LeftIs DEF ConfigCallNames, ConfigHandlers
      <3> QED BY <2>4, <3>1, <3>2 DEF Unselected
    <2>6. "config" \notin About(h) \/ h = "test_config" => page'.editor = page.editor
      <3>1. h = "test_config" => what = "test_config"
        BY <1>3, LeftIs DEF Doing
      <3> QED BY <1>15, <1>18, <3>1
    <2>7. task[t].alone /\ "session" \in About(h) /\ rest[1] \in {"health", "health_or_not"}
          => Shown'
      <3>1. "session" \in About(h) => h # "provider"
        BY DEF About
      <3> QED BY <1>10, <1>19, <1>21, <3>1
    <2>8. ASSUME h = "train", task[t].steady, session = page.session
          PROVE  /\ rest[1] # "universe" => SoFar(session).universe
                 /\ rest[1] \in {"preferences", "iterate"} => SoFar(session).report
      <3>1. /\ run.session = page.session
            /\ what # "universe" => SoFar(page.session).universe
            /\ what \in {"preferences", "iterate"} => SoFar(page.session).report
        BY <1>1, <1>2, <2>8 DEF Prepared
      <3>2. /\ what = "universe" => SoFar(run.session).universe
            /\ what = "complete" => SoFar(run.session).report
        BY <1>1, <1>2 DEF Seen
      <3>3. local.of = run.session
        BY <1>9, <1>13, <2>8
      <3>4. rest[1] \in {"preferences", "iterate"}
            => local.data.report \/ what \in {"complete", "preferences", "iterate"}
        BY <1>10, <1>21, <2>8
      <3>5. local.data.report => SoFar(page.session).report
        BY <1>8, <3>1, <3>3 DEF Below
      <3> HIDE DEF session
      <3> QED BY <2>8, <3>1, <3>2, <3>4, <3>5
    <2> HIDE DEF session, shown, editor
    <2> QED BY <1>2, <1>6, <1>8, <1>15, <1>16, <1>17, <2>1, <2>2, <2>3, <2>4, <2>5, <2>6,
               <2>7, <2>8, ContinueKeeps
  <1> QED BY <1>20, <1>21

LEMMA RecoverKeeps ==
    ASSUME PagesInvariant, NEW t \in Slots, Recover(t)
    PROVE  PagesInvariant'
  <1> DEFINE run == task[t]
             h == run.handler
             what == run.calls[1]
             rest == AfterFailure(run.calls)
             tries == Min({run.tries + 1, 2})
  <1>1. /\ Typed /\ Settled
        /\ Below(page.snapshot.data, SoFar(page.snapshot.of))
        /\ Working(t) /\ Seen(t) /\ Prepared(t) /\ Alone(t)
    BY DEF PagesInvariant
  <1>2. /\ Busy(t) /\ Survives(run)
        /\ page' = IF rest = <<>> /\ GroupOf[h] = "intelligence"
                   THEN [page EXCEPT !.snapshot = run.local] ELSE page
        /\ IF rest = <<>> THEN End(t, TRUE, what = "health_or_not")
           ELSE Continue(t, [run EXCEPT !.tries = tries], rest, page.session)
        /\ UNCHANGED <<server, file, orphan, starts, faults>>
    BY DEF Recover
  <1>3. /\ run \in Runs /\ h \in Handlers /\ run.calls \in Left[h] /\ page \in PageType
        /\ h # "none"
    BY <1>1, <1>2 DEF Typed, Runs, Working, Busy, PageType
  <1>4. /\ page.session \in Chosen /\ run.local \in Snapshot /\ page.snapshot \in Snapshot
    BY <1>3 DEF Runs, PageType
  <1>5. what \in MarketData \cup {"health_or_not"} \/ (what = "complete" /\ h \in Preparers)
    BY <1>2 DEF Survives, Preparers
  <1>6. /\ rest = <<>> \/ rest \in Left[h]
        /\ what = "health_or_not" => rest = <<>>
        /\ what = "complete" => rest = run.calls
        /\ what \in MarketData => h \in Intelligence
    BY <1>3, <1>5, AfterFailureIs
  <1>7. tries \in Nat
    <2> DEFINE T == {run.tries + 1, 2}
    <2>1. T \in SUBSET Nat /\ T # {}
      BY <1>3 DEF Runs
    <2> HIDE DEF T
    <2>2. Min(T) \in T
      BY <2>1, MinIsLeast
    <2>3. Min(T) \in Nat
      BY <2>1, <2>2
    <2> QED BY <2>3 DEF T
  <1>8. GroupOf[h] = "intelligence" <=> h \in Intelligence
    BY <1>3, GroupsOfHandlers
  <1>9. h \in Intelligence => "session" \in About(h)
    BY DEF Intelligence, About
  <1> HIDE DEF rest, tries
  <1>10. /\ page' \in PageType /\ page'.session = page.session /\ page'.editor = page.editor
         /\ h \notin Intelligence => page'.snapshot = page.snapshot
         /\ page'.snapshot = page.snapshot \/ page'.snapshot = run.local
    <2>1. CASE rest = <<>> /\ GroupOf[h] = "intelligence"
      <3>1. page' = [page EXCEPT !.snapshot = run.local]
        BY <1>2, <2>1
      <3> QED BY <1>3, <1>4, <1>8, <2>1, <3>1 DEF PageType
    <2>2. CASE ~ (rest = <<>> /\ GroupOf[h] = "intelligence")
      <3>1. page' = page
        BY <1>2, <2>2
      <3> QED BY <1>3, <3>1
    <2> QED BY <2>1, <2>2
  <1>11. Below(page'.snapshot.data, SoFar(page'.snapshot.of))
    BY <1>1, <1>10 DEF Seen
  <1>12. "session" \notin About(h) => page'.snapshot = page.snapshot
    BY <1>9, <1>10
  <1>13. ASSUME rest = <<>> PROVE PagesInvariant'
    <2>1. End(t, TRUE, what = "health_or_not")
      BY <1>2, <1>13
    <2>2. ASSUME what = "health_or_not", task[t].alone, "session" \in Refreshes(h) PROVE Shown'
      <3>1. "session" \in About(h)
        BY <2>2 DEF Refreshes
      <3>2. h \notin Intelligence
        BY <1>3, <2>2, LeftIs DEF Intelligence
      <3>3. Shown
        BY <1>1, <2>2, <3>1 DEF Alone, Doing
      <3> QED BY <1>2, <1>10, <3>2, <3>3 DEF Shown
    <2>3. ASSUME what = "health_or_not" PROVE "config" \notin Refreshes(h)
      <3>1. h \in {"create", "load", "expand_source", "edit_source", "check_sources",
                   "provider"}
        BY <1>3, <2>3, LeftIs
      <3> QED BY <3>1 DEF Refreshes, About
    <2> QED BY <1>2, <1>10, <1>11, <1>12, <2>1, <2>2, <2>3, EndKeeps
  <1>14. ASSUME rest # <<>> PROVE PagesInvariant'
    <2> DEFINE next == [run EXCEPT !.tries = tries]
    <2>1. Continue(t, next, rest, page.session)
      BY <1>2, <1>14
    <2>2. /\ next \in Runs /\ next.handler = h /\ next.content = run.content
          /\ next.alone = run.alone /\ next.steady = run.steady /\ next.local = run.local
      BY <1>3, <1>7 DEF Runs
    <2> HIDE DEF next
    <2>3. rest \in Left[h]
      BY <1>6, <1>14
    <2>4. \/ rest = run.calls /\ what = "complete" /\ h \in Preparers
          \/ h \in Intelligence /\ rest[1] \in Sought
      BY <1>3, <1>5, <1>6, <1>14, <2>3, LeftIs
    <2>5. ~Selects(rest[1]) /\ rest[1] \notin {"health", "health_or_not"}
      BY <2>4 DEF Selects, Sought, MarketData
    <2>6. page.session \in Sessions
      BY <1>1, <1>2, <2>4, <2>5
         DEF Working, Unselected, Intelligence, Preparers, ConfigHandlers, Doing
    <2>7. Below(next.local.data, SoFar(next.local.of))
      BY <1>1, <2>2 DEF Seen
    <2>8. ASSUME h = "train", task[t].steady
          PROVE  /\ rest[1] # "universe" => SoFar(page.session).universe
                 /\ rest[1] \in {"preferences", "iterate"} => SoFar(page.session).report
      <3>1. rest = run.calls
        BY <2>4, <2>8 DEF Intelligence
      <3> QED BY <1>1, <1>2, <2>8, <3>1 DEF Prepared, Doing
    <2> QED BY <1>2, <1>4, <1>10, <1>11, <1>12, <2>1, <2>2, <2>3, <2>5, <2>6, <2>7, <2>8,
               ContinueKeeps
  <1> QED BY <1>13, <1>14

LEMMA GiveUpKeeps ==
    ASSUME PagesInvariant, NEW t \in Slots, GiveUp(t)
    PROVE  PagesInvariant'
  <1>1. /\ Busy(t) /\ End(t, FALSE, FALSE)
        /\ UNCHANGED <<server, file, page, orphan, starts, faults>>
    BY DEF GiveUp
  <1>2. page' \in PageType /\ Below(page'.snapshot.data, SoFar(page'.snapshot.of))
    BY <1>1 DEF PagesInvariant, Typed, PageType
  <1> QED BY <1>1, <1>2, EndKeeps

-----------------------------------------------------------------------------
(* The invariant holds of every page *)

LEMMA InitHolds ==
    ASSUME Init
    PROVE  PagesInvariant
  <1>1. PICK data \in Earlier :
            /\ server = [s \in Sessions |-> IF s = Old THEN data ELSE Absent]
            /\ page \in {[session |-> NoSession, snapshot |-> NoSnapshot,
                          opened |-> FALSE, editor |-> 1],
                         [session |-> Old, snapshot |-> [of |-> Old, data |-> data],
                          opened |-> TRUE, editor |-> 1]}
    BY DEF Init
  <1>2. /\ file = 1 /\ off = {} /\ task = [t \in Slots |-> Idle] /\ orphan = {}
        /\ starts = 0 /\ faults = 0 /\ settled = {"session", "config"}
    BY DEF Init
  <1>3. Old \in Sessions /\ NoSession \notin Sessions
    BY PagesAssumption
  <1>4. data \in Data /\ Absent \in Data
    <2>2. Absent \in Data
      BY AbsentIs
    <2>3. [Absent EXCEPT !.changes = 1] \in Data
      BY <2>2 DEF Data
    <2>4. [Absent EXCEPT !.changes = 1, !.market = "moved", !.acted = TRUE] \in Data
      BY <2>2 DEF Data
    <2>5. [changes |-> 1, universe |-> TRUE, market |-> "moved", acted |-> TRUE,
           report |-> TRUE, preferences |-> TRUE] \in Data
      BY DEF Data
    <2> QED BY <2>2, <2>3, <2>4, <2>5, Zenon DEF Earlier
  <1>5. server \in [Sessions -> Data] /\ server[Old] = data
    BY <1>1, <1>3, <1>4
  <1>6. /\ NoSnapshot \in Snapshot /\ NoSnapshot.of = NoSession /\ NoSnapshot.data = Absent
        /\ [of |-> Old, data |-> data] \in Snapshot
    BY <1>3, <1>4 DEF NoSnapshot, Snapshot
  <1>7. page \in PageType /\ page.editor = 1
    <2>1. [session |-> NoSession, snapshot |-> NoSnapshot, opened |-> FALSE, editor |-> 1]
              \in PageType
      BY <1>6 DEF PageType, Chosen
    <2>2. [session |-> Old, snapshot |-> [of |-> Old, data |-> data], opened |-> TRUE,
           editor |-> 1] \in PageType
      BY <1>3, <1>6 DEF PageType, Chosen
    <2>3. page \in PageType
      BY <1>1, <2>1, <2>2, Zenon
    <2> QED BY <1>1, <2>3 DEF PageType
  <1>8. Shown /\ Below(page.snapshot.data, SoFar(page.snapshot.of))
    <2>1. CASE page.session = NoSession
      <3>1. page.snapshot = NoSnapshot
        BY <1>1, <1>3, <2>1
      <3>2. SoFar(NoSession) = Absent
        BY DEF SoFar, SessionData
      <3> QED BY <1>6, <2>1, <3>1, <3>2 DEF Shown, Below
    <2>2. CASE page.session # NoSession
      <3>1. page.session = Old /\ page.snapshot = [of |-> Old, data |-> data]
        BY <1>1, <2>2
      <3>2. SoFar(Old) = data
        BY <1>3, <1>5 DEF SoFar, SessionData
      <3> QED BY <1>5, <3>1, <3>2 DEF Shown, Below
    <2> QED BY <2>1, <2>2
  <1>9. \A t \in Slots : task[t] = Idle
    BY <1>2
  <1>10. task \in [Slots -> Runs]
    BY <1>2, IdleIs
  <1>11. Typed
    <2>1. 0 \in 0..MaxStarts /\ 0 \in 0..MaxFaults
      BY PagesAssumption
    <2> QED BY <1>2, <1>5, <1>7, <1>10, <2>1 DEF Typed, PageType
  <1>12. \A t \in Slots : ~Busy(t)
    BY <1>9, IdleIs DEF Busy
  <1>13. \A t \in Slots : Working(t) /\ Seen(t) /\ Prepared(t) /\ Alone(t)
    <2> SUFFICES ASSUME NEW t \in Slots PROVE Working(t) /\ Seen(t) /\ Prepared(t) /\ Alone(t)
      OBVIOUS
    <2>1. task[t] = Idle /\ ~Busy(t)
      BY <1>9, <1>12
    <2>2. Working(t) /\ Prepared(t) /\ Alone(t)
      BY <2>1, IdleIs DEF Working, Prepared, Alone
    <2>3. Seen(t)
      BY <1>6, <2>1, IdleIs, AbsentIs DEF Seen, Below
    <2> QED BY <2>2, <2>3
  <1>14. ButtonsAreHeld
    BY <1>2 DEF ButtonsAreHeld
  <1>15. Settled
    BY <1>2, <1>7, <1>8, <1>12 DEF Settled
  <1> QED BY <1>8, <1>11, <1>13, <1>14, <1>15 DEF PagesInvariant

LEMMA StepKeeps ==
    ASSUME PagesInvariant, [Next]_vars
    PROVE  PagesInvariant'
  <1>1. CASE UNCHANGED vars
    BY <1>1 DEF vars, PagesInvariant, Typed, ButtonsAreHeld, Below, SoFar, SessionData, Working,
                Seen, Prepared, Alone, Settled, Shown, Busy, Doing
  <1>2. ASSUME NEW t \in Slots, NEW h \in Handlers, Begin(t, h) PROVE PagesInvariant'
    BY <1>2, BeginKeeps
  <1>3. ASSUME NEW t \in Slots, NEW h \in {"save_config", "test_config"}, BeginEdited(t, h)
        PROVE  PagesInvariant'
    BY <1>3, BeginEditedKeeps
  <1>4. ASSUME NEW t \in Slots, Bootstrap(t) PROVE PagesInvariant'
    BY <1>4, BootstrapKeeps
  <1>5. ASSUME NEW t \in Slots, Answer(t) PROVE PagesInvariant'
    BY <1>5, AnswerKeeps
  <1>6. ASSUME NEW t \in Slots, Refuse(t) PROVE PagesInvariant'
    BY <1>6, RefuseKeeps
  <1>7. ASSUME NEW t \in Slots, TimeOut(t) PROVE PagesInvariant'
    BY <1>7, TimeOutKeeps
  <1>8. ASSUME NEW t \in Slots, Resume(t) PROVE PagesInvariant'
    BY <1>8, ResumeKeeps
  <1>9. ASSUME NEW t \in Slots, Recover(t) PROVE PagesInvariant'
    BY <1>9, RecoverKeeps
  <1>10. ASSUME NEW t \in Slots, GiveUp(t) PROVE PagesInvariant'
    BY <1>10, GiveUpKeeps
  <1>11. CASE ServeLate
    BY <1>11, ServeLateKeeps
  <1> QED BY <1>1, <1>2, <1>3, <1>4, <1>5, <1>6, <1>7, <1>8, <1>9, <1>10, <1>11 DEF Next

\* Whatever handlers run at a time, are answered, refused or late: the shapes, the lists of
\* calls left, what the page and its handlers know of the sessions, and what a handler that
\* runs alone or prepares a training may rely on all stay as PagesInvariant says.
THEOREM PagesStaySound == Spec => []PagesInvariant
  <1>1. Init => PagesInvariant
    BY InitHolds
  <1>2. PagesInvariant /\ [Next]_vars => PagesInvariant'
    BY StepKeeps
  <1> QED BY <1>1, <1>2, PTL DEF Spec

\* The page, the handlers in flight and the server's sessions keep their shapes; no call
\* about a session is made while none is selected.
THEOREM PagesAreTyped == Spec => []TypeOK
  <1>1. ASSUME PagesInvariant PROVE TypeOK
    <2>1. Typed
      BY <1>1 DEF PagesInvariant
    <2>2. ASSUME NEW t \in Slots
          PROVE  /\ task[t].handler \in Handlers \cup {"none"}
                 /\ Busy(t) <=> task[t].answer # "none"
                 /\ Busy(t) => task[t].calls # <<>>
                 /\ task[t].session \in Sessions \cup {NoSession}
                 /\ Busy(t) /\ Doing(t) \notin ConfigCallNames => task[t].session \in Sessions
                 /\ task[t].local \in Snapshot /\ task[t].reply \in Data
      <3>1. task[t] \in Runs /\ Working(t)
        BY <1>1, <2>1 DEF PagesInvariant, Typed
      <3>2. /\ task[t].handler \in Handlers \cup {"none"}
            /\ task[t].session \in Sessions \cup {NoSession}
            /\ task[t].local \in Snapshot /\ task[t].reply \in Data
        BY <3>1 DEF Runs, Chosen
      <3>3. Busy(t) => task[t].calls # <<>>
        BY <3>1, <3>2, LeftIs DEF Working, Busy
      <3> QED BY <3>1, <3>2, <3>3 DEF Working
    <2>3. /\ server \in [Sessions -> Data] /\ file \in Nat
          /\ page \in [session : Sessions \cup {NoSession}, snapshot : Snapshot,
                       opened : BOOLEAN, editor : Nat]
          /\ off \subseteq Groups /\ starts \in 0..MaxStarts /\ faults \in 0..MaxFaults
          /\ settled \subseteq {"session", "config"}
      BY <2>1 DEF Typed, Chosen
    <2> QED BY <2>2, <2>3 DEF TypeOK
  <1> QED BY <1>1, PagesStaySound, PTL

\* No way out of a handler leaves its group of buttons disabled for good.
THEOREM ButtonsComeBack == Spec => []ButtonsAreHeld
  <1>1. PagesInvariant => ButtonsAreHeld
    BY DEF PagesInvariant
  <1> QED BY <1>1, PagesStaySound, PTL

\* A training that no other handler disturbs asks for an iteration only of a session that
\* has a universe and a behavioural report, whatever the page showed and whichever call
\* failed, was answered late or was left out as not needed.
THEOREM TrainingsArePrepared == Spec => []TrainingIsPrepared
  <1>1. ASSUME PagesInvariant PROVE TrainingIsPrepared
    <2> SUFFICES ASSUME NEW t \in Slots, Busy(t), Doing(t) = "iterate", task[t].steady
                 PROVE  server[task[t].session].universe /\ server[task[t].session].report
      BY DEF TrainingIsPrepared
    <2>1. Working(t) /\ Prepared(t) /\ task[t] \in Runs
      BY <1>1 DEF PagesInvariant, Typed
    <2>2. task[t].handler \in Handlers /\ task[t].calls \in Left[task[t].handler]
      BY <2>1 DEF Working, Busy, Runs
    <2>3. task[t].handler = "train"
      BY <2>2, LeftIs DEF Doing
    <2>4. task[t].session \in Sessions
      BY <2>1 DEF Working, ConfigCallNames
    <2>5. task[t].session = page.session /\ SoFar(page.session).universe
          /\ SoFar(page.session).report
      BY <2>1, <2>3 DEF Prepared
    <2>6. SoFar(task[t].session) = server[task[t].session]
      BY <2>4, PagesAssumption DEF SoFar, SessionData
    <2> QED BY <2>5, <2>6
  <1> QED BY <1>1, PagesStaySound, PTL

\* After a handler that ran alone and succeeded the page shows the selected session as the
\* server has it, and the editor holds the configuration file.
THEOREM PagesShowWhatIsSaved == Spec => []ShownIsSaved
  <1>1. PagesInvariant => ShownIsSaved
    BY DEF PagesInvariant, Settled, Shown, ShownIsSaved
  <1> QED BY <1>1, PagesStaySound, PTL

-----------------------------------------------------------------------------
(* The steps left to a handler *)

\* A list asks for a profile at most once.
Once(calls) == \A i, j \in DOMAIN calls : calls[i] = "profile" /\ calls[j] = "profile" => i = j

LEMMA CallsAreCounted ==
    ASSUME NEW calls \in Seq(CallNames)
    PROVE  /\ CallsLeft(calls) \in Nat
           /\ CallsLeft(calls) >= Len(calls)
           /\ calls # <<>> => CallsLeft(calls) >= 1
  <1>1. BootEvents \in Nat /\ Len(calls) \in Nat /\ (calls # <<>> => Len(calls) >= 1)
    BY PagesAssumption
  <1> QED BY <1>1 DEF CallsLeft

\* Calls left out or done are no longer counted.
LEMMA SuffixCosts ==
    ASSUME NEW calls \in Seq(CallNames), NEW k \in 0..Len(calls)
    PROVE  LET rest == SubSeq(calls, k + 1, Len(calls))
           IN  /\ rest \in Seq(CallNames)
               /\ CallsLeft(rest) <= CallsLeft(calls) - k
               /\ Once(calls) => Once(rest)
  <1> DEFINE rest == SubSeq(calls, k + 1, Len(calls))
  <1>1. /\ rest \in Seq(CallNames) /\ Len(rest) = Len(calls) - k
        /\ \A i \in 1..Len(rest) : rest[i] = calls[i + k]
    OBVIOUS
  <1>2. /\ DOMAIN rest = 1..Len(rest) /\ DOMAIN calls = 1..Len(calls)
        /\ \A i \in 1..Len(rest) : i + k \in 1..Len(calls)
    BY <1>1
  <1> HIDE DEF rest
  <1>3. (\E i \in DOMAIN rest : rest[i] = "profile")
        => \E i \in DOMAIN calls : calls[i] = "profile"
    BY <1>1, <1>2
  <1>4. CallsLeft(rest) <= CallsLeft(calls) - k
    <2>1. BootEvents \in Nat /\ Len(calls) \in Nat /\ k \in Nat
      BY PagesAssumption
    <2> QED BY <1>1, <1>3, <2>1 DEF CallsLeft
  <1>5. Once(calls) => Once(rest)
    <2> SUFFICES ASSUME Once(calls), NEW i \in 1..Len(rest), NEW j \in 1..Len(rest),
                        rest[i] = "profile", rest[j] = "profile"
                 PROVE  i = j
      BY <1>2 DEF Once
    <2>1. /\ i + k \in DOMAIN calls /\ j + k \in DOMAIN calls
          /\ calls[i + k] = "profile" /\ calls[j + k] = "profile"
      BY <1>1, <1>2
    <2>2. i + k = j + k
      BY <2>1 DEF Once
    <2> QED BY <2>2
  <1> QED BY <1>1, <1>4, <1>5 DEF rest

LEMMA TailCosts ==
    ASSUME NEW calls \in Seq(CallNames), calls # <<>>, Once(calls)
    PROVE  /\ Tail(calls) \in Seq(CallNames) /\ Once(Tail(calls))
           /\ CallsLeft(Tail(calls)) <= CallsLeft(calls) - 1
  <1>1. Tail(calls) = SubSeq(calls, 1 + 1, Len(calls)) /\ 1 \in 0..Len(calls)
    OBVIOUS
  <1> QED BY <1>1, SuffixCosts, Zenon

\* The events of a profile have been counted already.
LEMMA ProfileCosts ==
    ASSUME NEW calls \in Seq(CallNames), calls # <<>>, calls[1] = "profile", Once(calls)
    PROVE  CallsLeft(Profiled(calls)) = CallsLeft(calls)
  <1> DEFINE events == [i \in 1..BootEvents |-> "event"]
             k == BootEvents
             one == <<"complete">>
             first == events \o one
             tail == Tail(calls)
             list == first \o tail
  <1>0. k \in Nat
    BY PagesAssumption
  <1>1. "event" \in CallNames /\ "complete" \in CallNames
    BY DEF CallNames
  <1>2. events \in Seq(CallNames) /\ Len(events) = k /\ \A i \in 1..k : events[i] = "event"
    BY <1>0, <1>1
  <1>3. one \in Seq(CallNames) /\ Len(one) = 1 /\ one[1] = "complete"
    BY <1>1
  <1>4. /\ tail \in Seq(CallNames) /\ Len(tail) = Len(calls) - 1
        /\ \A i \in 1..Len(tail) : tail[i] = calls[i + 1]
    BY HeadTailProperties
  <1> HIDE DEF events, one, k
  <1>5. /\ first \in Seq(CallNames) /\ Len(first) = k + 1
        /\ \A i \in 1..k : first[i] = "event"
        /\ first[k + 1] = "complete"
    <2>1. /\ first \in Seq(CallNames) /\ Len(first) = Len(events) + Len(one)
          /\ \A i \in 1..(Len(events) + Len(one)) :
                first[i] = IF i <= Len(events) THEN events[i] ELSE one[i - Len(events)]
      BY <1>2, <1>3, ConcatProperties
    <2> HIDE DEF first
    <2> QED BY <1>0, <1>2, <1>3, <2>1
  <1> HIDE DEF first, tail
  <1>6. /\ list \in Seq(CallNames) /\ Len(list) = k + Len(calls)
        /\ \A i \in 1..(k + 1) : list[i] = first[i]
        /\ \A i \in 1..Len(tail) : list[i + k + 1] = tail[i]
    <2>1. /\ list \in Seq(CallNames) /\ Len(list) = Len(first) + Len(tail)
          /\ \A i \in 1..(Len(first) + Len(tail)) :
                list[i] = IF i <= Len(first) THEN first[i] ELSE tail[i - Len(first)]
      BY <1>4, <1>5, ConcatProperties
    <2>2. Len(calls) \in Nat /\ Len(tail) \in Nat
      BY <1>4
    <2> HIDE DEF list
    <2>3. Len(list) = k + Len(calls)
      BY <1>0, <1>4, <1>5, <2>1, <2>2
    <2>4. \A i \in 1..(k + 1) : list[i] = first[i]
      BY <1>0, <1>5, <2>1, <2>2
    <2>5. ASSUME NEW i \in 1..Len(tail) PROVE list[i + k + 1] = tail[i]
      <3>1. i + k + 1 \in 1..(Len(first) + Len(tail)) /\ ~(i + k + 1 <= Len(first))
            /\ (i + k + 1) - Len(first) = i
        BY <1>0, <1>5, <2>2
      <3> QED BY <2>1, <3>1
    <2> QED BY <2>1, <2>3, <2>4, <2>5
  <1> HIDE DEF list
  <1>7. \A i \in DOMAIN list : list[i] # "profile"
    <2> SUFFICES ASSUME NEW i \in 1..Len(list) PROVE list[i] # "profile"
      BY <1>6
    <2>1. CASE i \in 1..k
      BY <1>0, <1>5, <1>6, <2>1
    <2>2. CASE i = k + 1
      BY <1>0, <1>5, <1>6, <2>2
    <2>3. CASE i > k + 1
      <3> DEFINE j == i - (k + 1)
      <3>1. j \in 1..Len(tail) /\ i = j + k + 1 /\ j + 1 \in DOMAIN calls /\ j + 1 # 1
        BY <1>0, <1>4, <1>6, <2>3
      <3> HIDE DEF j
      <3>2. list[i] = calls[j + 1]
        BY <1>4, <1>6, <3>1
      <3>3. 1 \in DOMAIN calls
        OBVIOUS
      <3> QED BY <3>1, <3>2, <3>3 DEF Once
    <2> QED BY <1>0, <2>1, <2>2, <2>3
  <1>8. CallsLeft(list) = k + Len(calls)
    BY <1>6, <1>7 DEF CallsLeft
  <1>9. CallsLeft(calls) = Len(calls) + k
    <2>1. \E i \in DOMAIN calls : calls[i] = "profile"
      OBVIOUS
    <2> QED BY <2>1 DEF CallsLeft, k
  <1>10. CallsLeft(list) = CallsLeft(calls)
    <2>1. Len(calls) \in Nat
      OBVIOUS
    <2> QED BY <1>0, <1>8, <1>9, <2>1
  <1> QED BY <1>10 DEF Profiled, list, first, tail, events, one

\* What remains of a list costs no more than the list.
LEMMA RemainingCosts ==
    ASSUME NEW h, NEW data, NEW session, NEW calls \in Seq(CallNames), Once(calls)
    PROVE  CallsLeft(Remaining(h, calls, data, session)) <= CallsLeft(calls)
  <1> DEFINE needed == {i \in DOMAIN calls : Needed(h, calls[i], data, session)}
             rest == IF needed = {} THEN <<>> ELSE SubSeq(calls, Min(needed), Len(calls))
  <1>1. CallsLeft(calls) \in Nat /\ CallsLeft(<<>>) = 0
    <2>1. CallsLeft(calls) \in Nat
      BY CallsAreCounted
    <2> QED BY <2>1 DEF CallsLeft
  <1>2. rest \in Seq(CallNames) /\ CallsLeft(rest) <= CallsLeft(calls) /\ Once(rest)
    <2>1. CASE needed = {}
      <3>1. rest = <<>>
        BY <2>1
      <3> HIDE DEF rest
      <3>2. <<>> \in Seq(CallNames) /\ Once(<<>>)
        BY DEF Once
      <3> QED BY <1>1, <3>1, <3>2
    <2>2. CASE needed # {}
      <3> DEFINE m == Min(needed)
      <3>1. needed \in SUBSET Nat /\ needed \subseteq 1..Len(calls)
        OBVIOUS
      <3>2. rest = SubSeq(calls, m, Len(calls))
        BY <2>2
      <3> HIDE DEF needed, rest
      <3>3. m \in needed
        BY <2>2, <3>1, MinIsLeast, Zenon
      <3> HIDE DEF m
      <3>4. m - 1 \in 0..Len(calls) /\ (m - 1) + 1 = m
        BY <3>1, <3>3
      <3>5. /\ rest \in Seq(CallNames)
            /\ CallsLeft(rest) <= CallsLeft(calls) - (m - 1)
            /\ Once(rest)
        BY <3>2, <3>4, SuffixCosts
      <3>6. CallsLeft(rest) \in Nat /\ m \in 1..Len(calls)
        BY <3>1, <3>3, <3>5, CallsAreCounted
      <3> QED BY <1>1, <3>5, <3>6
    <2> QED BY <2>1, <2>2
  <1>3. Remaining(h, calls, data, session) =
            IF rest # <<>> /\ rest[1] = "profile"
            THEN [i \in 1..BootEvents |-> "event"] \o <<"complete">> \o Tail(rest)
            ELSE rest
    BY DEF Remaining
  <1> HIDE DEF rest
  <1>4. CASE rest # <<>> /\ rest[1] = "profile"
    <2>1. Remaining(h, calls, data, session) = Profiled(rest)
      BY <1>3, <1>4 DEF Profiled
    <2>2. CallsLeft(Profiled(rest)) = CallsLeft(rest)
      BY <1>2, <1>4, ProfileCosts
    <2> QED BY <1>2, <2>1, <2>2
  <1>5. CASE ~(rest # <<>> /\ rest[1] = "profile")
    BY <1>2, <1>3, <1>5
  <1> QED BY <1>4, <1>5

\* No list a handler may have left asks for a profile twice.
LEMMA PreparingIsOnce ==
    ASSUME NEW last \in Lasts, NEW calls \in Preparing(last)
    PROVE  Once(calls)
  <1>0. last # "profile"
    BY DEF Lasts
  <1>1. CASE calls \in {Whole(last), FromPreferences(last), Only(last)}
    <2>1. CASE calls = Whole(last)
      BY <1>0, <2>1 DEF Whole, Once
    <2>2. CASE calls = FromPreferences(last)
      BY <1>0, <2>2 DEF FromPreferences, Once
    <2>3. CASE calls = Only(last)
      BY <1>0, <2>3 DEF Only, Once
    <2> QED BY <1>1, <2>1, <2>2, <2>3
  <1>2. ASSUME NEW k \in 0..BootEvents, calls = EventsThen(k, last)
        PROVE  Once(calls)
    <2>0. k \in Nat
      OBVIOUS
    <2> DEFINE list == EventsThen(k, last)
    <2>3. /\ list \in Seq(CallNames) /\ Len(list) = k + 3
          /\ \A i \in 1..k : list[i] = "event"
          /\ list[k + 1] = "complete" /\ list[k + 2] = "preferences" /\ list[k + 3] = last
      BY <2>0, EventsElements
    <2> HIDE DEF list
    <2>1. /\ calls \in Seq(CallNames) /\ Len(calls) = k + 3
          /\ \A i \in 1..k : calls[i] = "event"
          /\ calls[k + 1] = "complete" /\ calls[k + 2] = "preferences" /\ calls[k + 3] = last
      BY <1>2, <2>3 DEF list
    <2>2. ASSUME NEW i \in 1..(k + 3) PROVE calls[i] # "profile"
      <3>1. i \in 1..k \/ i = k + 1 \/ i = k + 2 \/ i = k + 3
        BY <2>0
      <3> QED BY <1>0, <2>1, <3>1
    <2> QED BY <2>1, <2>2 DEF Once
  <1>3. \/ calls \in {Whole(last), FromPreferences(last), Only(last)}
        \/ \E k \in 0..BootEvents : calls = EventsThen(k, last)
    BY DEF Preparing, Whole, FromPreferences, Only
  <1> QED BY <1>1, <1>2, <1>3

LEMMA LeftIsOnce ==
    ASSUME NEW h \in Handlers, NEW calls \in Left[h]
    PROVE  Once(calls)
  <1>1. CASE h \in Intelligence
    <2>1. calls \in Searching
      BY <1>1 DEF Left, Intelligence
    <2>2. calls \in Seq(Sought)
      BY <2>1, SearchingHas
    <2>3. "profile" \notin Sought
      BY DEF Sought, MarketData
    <2>4. \A i \in DOMAIN calls : calls[i] # "profile"
      BY <2>2, <2>3
    <2> QED BY <2>4 DEF Once
  <1>2. CASE h = "create"
    <2>1. \/ calls = <<"create", "universe", "profile", "preferences", "health">>
          \/ calls \in Preparing("health")
      BY <1>2 DEF Left
    <2>2. CASE calls = <<"create", "universe", "profile", "preferences", "health">>
      BY <2>2 DEF Once
    <2>3. CASE calls \in Preparing("health")
      BY <2>3, PreparingIsOnce DEF Lasts
    <2> QED BY <2>1, <2>2, <2>3
  <1>3. CASE h = "train"
    BY <1>3, PreparingIsOnce DEF Left, Lasts
  <1>4. CASE h \in Plain
    <2>1. \A i \in DOMAIN calls : calls[i] # "profile"
      BY <1>4, PlainLeft, HandlerNames
         DEF Plain, Preparers, Intelligence, SimulationHandlers, ConfigHandlers
    <2> QED BY <2>1 DEF Once
  <1> QED BY <1>1, <1>2, <1>3, <1>4 DEF Plain, Preparers

\* Going on behind an answered call, or behind a failure, leaves fewer calls.
LEMMA OnwardCosts ==
    ASSUME NEW h \in Handlers, NEW calls \in Left[h], NEW data, NEW session
    PROVE  CallsLeft(Remaining(h, Tail(calls), data, session)) <= CallsLeft(calls) - 1
  <1>1. calls \in Seq(CallNames) /\ calls # <<>> /\ Once(calls)
    BY LeftIs, LeftIsOnce
  <1>2. /\ Tail(calls) \in Seq(CallNames) /\ Once(Tail(calls))
        /\ CallsLeft(Tail(calls)) <= CallsLeft(calls) - 1
    BY <1>1, TailCosts
  <1> DEFINE rest == Remaining(h, Tail(calls), data, session)
  <1>3. CallsLeft(rest) <= CallsLeft(Tail(calls))
    BY <1>2, RemainingCosts
  <1>4. rest = <<>> \/ rest \in Left[h]
    BY Onward
  <1>5. CallsLeft(calls) \in Nat /\ CallsLeft(Tail(calls)) \in Nat
    BY <1>1, <1>2, CallsAreCounted
  <1>6. CallsLeft(rest) \in Nat
    <2>1. <<>> \in Seq(CallNames)
      OBVIOUS
    <2> HIDE DEF rest
    <2>2. rest \in Seq(CallNames)
      BY <1>4, <2>1, LeftIs
    <2> QED BY <2>2, CallsAreCounted
  <1> HIDE DEF rest
  <1>7. CallsLeft(rest) <= CallsLeft(calls) - 1
    BY <1>2, <1>3, <1>5, <1>6
  <1> QED BY <1>7 DEF rest

LEMMA SkippingCosts ==
    ASSUME NEW h \in Handlers, NEW calls \in Left[h], calls[1] \in MarketData
    PROVE  CallsLeft(AfterFailure(calls)) <= CallsLeft(calls) - 1
  <1>1. h \in Intelligence
    BY LeftIs DEF Sought
  <1>2. calls \in Searching
    BY <1>1 DEF Left, Intelligence
  <1> DEFINE I == {i \in DOMAIN calls : calls[i] = "options"}
             m == Min(I)
  <1>3. /\ calls \in Seq(CallNames) /\ Len(calls) \in Nat \ {0}
        /\ calls[Len(calls)] = "options" \/ \A i \in 1..Len(calls) : calls[i] = "search"
    BY <1>2, SearchingHas
  <1>4. I \in SUBSET (1..Len(calls)) /\ Len(calls) \in I
    <2>1. calls[1] # "search"
      BY DEF MarketData
    <2> QED BY <1>3, <2>1
  <1>5. AfterFailure(calls) = SubSeq(calls, m + 1, Len(calls))
    BY DEF AfterFailure, MarketData
  <1> HIDE DEF I
  <1>6. m \in 1..Len(calls)
    <2>1. I \in SUBSET Nat /\ I # {}
      BY <1>4
    <2>2. Min(I) \in I
      BY <2>1, MinIsLeast, Zenon
    <2> QED BY <1>4, <2>2
  <1> HIDE DEF m
  <1>7. m \in 0..Len(calls) /\ m >= 1
    BY <1>3, <1>6
  <1>8. /\ AfterFailure(calls) \in Seq(CallNames)
        /\ CallsLeft(AfterFailure(calls)) <= CallsLeft(calls) - m
    BY <1>3, <1>5, <1>7, SuffixCosts
  <1>9. CallsLeft(AfterFailure(calls)) \in Nat /\ CallsLeft(calls) \in Nat
    BY <1>3, <1>8, CallsAreCounted
  <1> QED BY <1>7, <1>8, <1>9

\* A handler counts no more than two failed tries.
Few == \A t \in Slots : task[t].tries \in 0..2

LEMMA OneMoreTry ==
    ASSUME NEW tries \in 0..2
    PROVE  Min({tries + 1, 2}) = IF tries = 2 THEN 2 ELSE tries + 1
  <1> DEFINE T == {tries + 1, 2}
             m == IF tries = 2 THEN 2 ELSE tries + 1
  <1>1. T \in SUBSET Nat /\ m \in T /\ \A y \in T : m <= y
    OBVIOUS
  <1> HIDE DEF T, m
  <1>2. Min(T) = m
    BY <1>1, MinIs
  <1> QED BY <1>2 DEF T, m

LEMMA ContinueIs ==
    ASSUME PagesInvariant, NEW t \in Slots, NEW run, NEW rest, NEW session,
           Continue(t, run, rest, session)
    PROVE  /\ task'[t].handler = Sent(run, rest, session).handler
           /\ task'[t].calls = Sent(run, rest, session).calls
           /\ task'[t].answer = Sent(run, rest, session).answer
           /\ task'[t].tries = Sent(run, rest, session).tries
           /\ \A u \in Slots : u # t => task'[u].tries = task[u].tries
  <1> DEFINE same == session = page.session
             tasks == [task EXCEPT ![t] = Sent(run, rest, session)]
  <1>1. task' = [u \in Slots |-> [tasks[u] EXCEPT !.steady = @ /\ same]]
    BY DEF Continue, Unsteady
  <1>2. task \in [Slots -> Runs]
    BY DEF PagesInvariant, Typed
  <1>3. tasks[t] = Sent(run, rest, session) /\ \A u \in Slots : u # t => tasks[u] = task[u]
    BY <1>2
  <1> HIDE DEF tasks, same
  <1>4. /\ task'[t] = [tasks[t] EXCEPT !.steady = @ /\ same]
        /\ \A u \in Slots : task'[u] = [tasks[u] EXCEPT !.steady = @ /\ same]
    BY <1>1
  <1>5. task'[t] = [Sent(run, rest, session) EXCEPT !.steady = @ /\ same]
    BY <1>3, <1>4
  <1>6. \A u \in Slots : u # t => task'[u].tries = task[u].tries
    <2> SUFFICES ASSUME NEW u \in Slots, u # t PROVE task'[u].tries = task[u].tries
      OBVIOUS
    <2>1. task'[u] = [task[u] EXCEPT !.steady = @ /\ same] /\ task[u] \in Runs
      BY <1>2, <1>3, <1>4
    <2> QED BY <2>1 DEF Runs
  <1> QED BY <1>5, <1>6 DEF Sent

LEMMA FewStay ==
    ASSUME PagesInvariant, Few, [Next]_vars
    PROVE  Few'
  <1>1. task \in [Slots -> Runs] /\ \A u \in Slots : task[u].tries \in 0..2
    BY DEF PagesInvariant, Typed, Few
  <1>2. Idle.tries = 0
    BY DEF Idle
  <1>3. ASSUME task' = task PROVE Few'
    BY <1>1, <1>3 DEF Few
  <1>4. ASSUME NEW t \in Slots, NEW h, NEW n, NEW s, NEW content, Launch(t, h, n, s, content)
        PROVE  Few'
    <2> DEFINE quiet == orphan = {} /\ \A u \in Slots : ~Busy(u)
               begun == [Idle EXCEPT !.handler = h, !.local = page.snapshot,
                                     !.content = content, !.alone = quiet,
                                     !.steady = page.snapshot.of = page.session]
               run == Sent(begun, Remaining(h, Program(h, n), page.snapshot.data, s), s)
    <2>1. task' = [u \in Slots |-> IF u = t THEN run ELSE [task[u] EXCEPT !.alone = FALSE]]
      BY <1>4 DEF Launch
    <2>2. run.tries = 0
      BY <1>2 DEF Sent, Idle
    <2> HIDE DEF run
    <2>3. ASSUME NEW u \in Slots PROVE task'[u].tries \in 0..2
      <3>1. task'[u] = run \/ task'[u] = [task[u] EXCEPT !.alone = FALSE]
        BY <2>1
      <3>2. [task[u] EXCEPT !.alone = FALSE].tries = task[u].tries
        BY <1>1 DEF Runs
      <3>3. CASE task'[u] = run
        BY <2>2, <3>3
      <3>4. CASE task'[u] = [task[u] EXCEPT !.alone = FALSE]
        BY <1>1, <3>2, <3>4
      <3> QED BY <3>1, <3>3, <3>4
    <2> QED BY <2>3 DEF Few
  <1>5. ASSUME NEW t \in Slots, Answer(t) \/ Refuse(t) \/ TimeOut(t) PROVE Few'
    <2>1. /\ \A u \in Slots : u # t => task'[u] = task[u]
          /\ task'[t].tries = task[t].tries
      <3>1. CASE Answer(t)
        BY <1>1, <3>1 DEF Answer, Runs
      <3>2. CASE Refuse(t)
        BY <1>1, <3>2 DEF Refuse, Runs
      <3>3. CASE TimeOut(t)
        BY <1>1, <3>3 DEF TimeOut, Runs
      <3> QED BY <1>5, <3>1, <3>2, <3>3
    <2> QED BY <1>1, <2>1 DEF Few
  <1>6. CASE ServeLate
    <2>1. task' = [t \in Slots |-> [task[t] EXCEPT !.alone = FALSE]]
      BY <1>6 DEF ServeLate
    <2>2. \A u \in Slots : task'[u].tries = task[u].tries
      BY <1>1, <2>1 DEF Runs
    <2> QED BY <1>1, <2>2 DEF Few
  <1>7. ASSUME NEW t \in Slots, NEW succeeded, NEW fresh, End(t, succeeded, fresh) PROVE Few'
    BY <1>1, <1>2, <1>7 DEF End, Few
  <1>8. ASSUME NEW t \in Slots, NEW run, run.tries \in 0..2, NEW rest, NEW session,
               Sent(run, rest, session).tries = run.tries, Continue(t, run, rest, session)
        PROVE  Few'
    BY <1>1, <1>8, ContinueIs DEF Few
  <1>9. ASSUME NEW t \in Slots, Resume(t) PROVE Few'
    <2>1. PICK succeeded, fresh, local, rest, session :
              \/ End(t, succeeded, fresh)
              \/ Continue(t, [task[t] EXCEPT !.local = local], rest, session)
      BY <1>9 DEF Resume
    <2>2. /\ [task[t] EXCEPT !.local = local].tries = task[t].tries
          /\ Sent([task[t] EXCEPT !.local = local], rest, session).tries = task[t].tries
      BY <1>1 DEF Runs, Sent
    <2> QED BY <1>1, <1>7, <1>8, <2>1, <2>2
  <1>10. ASSUME NEW t \in Slots, Recover(t) PROVE Few'
    <2> DEFINE run == [task[t] EXCEPT !.tries = Min({task[t].tries + 1, 2})]
    <2>1. PICK succeeded, fresh, rest, session :
              \/ End(t, succeeded, fresh)
              \/ Continue(t, run, rest, session)
      BY <1>10 DEF Recover
    <2>2. Min({task[t].tries + 1, 2}) \in 0..2
      <3> DEFINE tries == task[t].tries
      <3>1. tries \in 0..2
        BY <1>1
      <3> HIDE DEF tries
      <3>2. Min({tries + 1, 2}) = IF tries = 2 THEN 2 ELSE tries + 1
        BY <3>1, OneMoreTry
      <3>3. (IF tries = 2 THEN 2 ELSE tries + 1) \in 0..2
        BY <3>1
      <3>4. Min({tries + 1, 2}) \in 0..2
        BY <3>2, <3>3, Zenon
      <3> QED BY <3>4 DEF tries
    <2>3. run.tries \in 0..2 /\ Sent(run, rest, session).tries = run.tries
      BY <1>1, <2>2 DEF Runs, Sent
    <2> HIDE DEF run
    <2> QED BY <1>7, <1>8, <2>1, <2>3
  <1>11. ASSUME NEW t \in Slots, NEW h, Begin(t, h) PROVE Few'
    BY <1>4, <1>11 DEF Begin
  <1>12. ASSUME NEW t \in Slots, NEW h, BeginEdited(t, h) PROVE Few'
    BY <1>4, <1>12 DEF BeginEdited
  <1>13. ASSUME NEW t \in Slots, Bootstrap(t) PROVE Few'
    BY <1>3, <1>4, <1>13 DEF Bootstrap
  <1>14. ASSUME NEW t \in Slots, GiveUp(t) PROVE Few'
    BY <1>7, <1>14 DEF GiveUp
  <1>15. CASE UNCHANGED vars
    BY <1>3, <1>15 DEF vars
  <1> QED BY <1>5, <1>6, <1>9, <1>10, <1>11, <1>12, <1>13, <1>14, <1>15 DEF Next

LEMMA StepsAre ==
    ASSUME PagesInvariant, Few, NEW t \in Slots, Busy(t)
    PROVE  /\ task[t] \in Runs /\ task[t].handler \in Handlers
           /\ task[t].calls \in Left[task[t].handler]
           /\ task[t].tries \in 0..2
           /\ CallsLeft(task[t].calls) \in Nat /\ CallsLeft(task[t].calls) >= 1
           /\ StepsLeft(t) = 2 * (CallsLeft(task[t].calls) + 2 - task[t].tries)
                             + (IF task[t].answer = "awaited" THEN 1 ELSE 0)
  <1>1. /\ task[t] \in Runs /\ task[t].handler \in Handlers
        /\ task[t].calls \in Left[task[t].handler]
    BY DEF PagesInvariant, Typed, Runs, Working, Busy
  <1>2. CallsLeft(task[t].calls) \in Nat /\ CallsLeft(task[t].calls) >= 1
    BY <1>1, LeftIs, CallsAreCounted
  <1> QED BY <1>1, <1>2 DEF Few, StepsLeft

\* A handler that goes on has its next call to make, and one more to hear of.
LEMMA GoingOnCosts ==
    ASSUME PagesInvariant, Few, NEW t \in Slots, Busy(t), task[t].answer # "awaited",
           NEW run \in Runs, run.handler = task[t].handler, run.tries \in 0..2,
           NEW rest \in Left[task[t].handler], NEW session, Continue(t, run, rest, session),
           CallsLeft(rest) - run.tries <= CallsLeft(task[t].calls) - task[t].tries - 1
    PROVE  StepsLeft(t)' \in 0 .. (StepsLeft(t) - 1)
  <1>1. /\ task[t].handler \in Handlers /\ task[t].tries \in 0..2
        /\ CallsLeft(task[t].calls) \in Nat
        /\ StepsLeft(t) = 2 * (CallsLeft(task[t].calls) + 2 - task[t].tries)
    BY StepsAre
  <1>2. /\ Sent(run, rest, session).handler = run.handler
        /\ Sent(run, rest, session).calls = rest
        /\ Sent(run, rest, session).answer = "awaited"
        /\ Sent(run, rest, session).tries = run.tries
    BY DEF Sent, Runs
  <1>3. /\ task'[t].handler = task[t].handler /\ task'[t].calls = rest
        /\ task'[t].answer = "awaited" /\ task'[t].tries = run.tries
    BY <1>2, ContinueIs
  <1>4. CallsLeft(rest) \in Nat
    BY <1>1, LeftIs, CallsAreCounted
  <1>5. CallsLeft(task[t].calls)' = CallsLeft(rest)
    BY <1>3 DEF CallsLeft
  <1>6. StepsLeft(t)' = 2 * (CallsLeft(rest) + 2 - run.tries) + 1
    BY <1>3, <1>5 DEF StepsLeft, Busy
  <1> QED BY <1>1, <1>4, <1>6

LEMMA EndingCosts ==
    ASSUME PagesInvariant, Few, NEW t \in Slots, Busy(t), NEW succeeded, NEW fresh,
           End(t, succeeded, fresh)
    PROVE  StepsLeft(t)' \in 0 .. (StepsLeft(t) - 1)
  <1>1. /\ task[t].tries \in 0..2 /\ CallsLeft(task[t].calls) \in Nat
        /\ CallsLeft(task[t].calls) >= 1
        /\ StepsLeft(t) = 2 * (CallsLeft(task[t].calls) + 2 - task[t].tries)
                          + (IF task[t].answer = "awaited" THEN 1 ELSE 0)
    BY StepsAre
  <1>2. task' = [task EXCEPT ![t] = Idle] /\ task \in [Slots -> Runs]
    BY DEF End, PagesInvariant, Typed
  <1>3. StepsLeft(t)' = 0
    BY <1>2, IdleIs DEF StepsLeft, Busy
  <1> QED BY <1>1, <1>3

LEMMA CallsCost ==
    ASSUME PagesInvariant, Few, NEW t \in Slots, Answer(t) \/ Refuse(t) \/ TimeOut(t)
    PROVE  StepsLeft(t)' \in 0 .. (StepsLeft(t) - 1)
  <1>1. Busy(t) /\ task[t].answer = "awaited" /\ task \in [Slots -> Runs]
    BY DEF Answer, Refuse, TimeOut, PagesInvariant, Typed
  <1>2. /\ task[t].tries \in 0..2 /\ CallsLeft(task[t].calls) \in Nat
        /\ StepsLeft(t) = 2 * (CallsLeft(task[t].calls) + 2 - task[t].tries) + 1
    BY <1>1, StepsAre
  <1>3. /\ task'[t].handler = task[t].handler /\ task'[t].calls = task[t].calls
        /\ task'[t].tries = task[t].tries /\ task'[t].answer # "awaited"
    <2>1. CASE Answer(t)
      BY <1>1, <2>1 DEF Answer, Runs
    <2>2. CASE Refuse(t)
      BY <1>1, <2>2 DEF Refuse, Runs
    <2>3. CASE TimeOut(t)
      BY <1>1, <2>3 DEF TimeOut, Runs
    <2> QED BY <2>1, <2>2, <2>3
  <1>4. CallsLeft(task'[t].calls) = CallsLeft(task[t].calls) /\ task'[t].handler # "none"
    BY <1>1, <1>3 DEF Busy
  <1>5. StepsLeft(t)' = 2 * (CallsLeft(task[t].calls) + 2 - task[t].tries)
    BY <1>1, <1>2, <1>3, <1>4 DEF StepsLeft, Busy
  <1> QED BY <1>2, <1>5

LEMMA ResumingCosts ==
    ASSUME PagesInvariant, Few, NEW t \in Slots, Resume(t)
    PROVE  StepsLeft(t)' \in 0 .. (StepsLeft(t) - 1)
  <1> DEFINE run == task[t]
             h == run.handler
             what == Doing(t)
             session == IF Selects(what) THEN run.session ELSE page.session
             local == CASE what \in NoSnapshotCalls -> run.local
                        [] what = "search" -> page.snapshot
                        [] OTHER -> [of |-> run.session, data |-> run.reply]
             rest == Remaining(h, Tail(run.calls), local.data, session)
             next == [run EXCEPT !.local = local]
  <1>1. /\ Busy(t) /\ run.answer = "answered"
        /\ IF rest = <<>> THEN End(t, TRUE, what # "search")
           ELSE Continue(t, next, rest, session)
    BY DEF Resume
  <1>2. /\ run \in Runs /\ h \in Handlers /\ run.calls \in Left[h] /\ run.tries \in 0..2
        /\ CallsLeft(run.calls) \in Nat
    BY <1>1, StepsAre
  <1>3. local \in Snapshot
    <2>1. run.local \in Snapshot /\ run.session \in Chosen /\ run.reply \in Data
      BY <1>2 DEF Runs
    <2>2. page.snapshot \in Snapshot
      BY DEF PagesInvariant, Typed
    <2> QED BY <2>1, <2>2 DEF Snapshot, Chosen
  <1>4. rest = <<>> \/ rest \in Left[h]
    BY <1>2, Onward
  <1>5. CallsLeft(rest) <= CallsLeft(run.calls) - 1
    BY <1>2, OnwardCosts
  <1>6. next \in Runs /\ next.handler = h /\ next.tries = run.tries
    BY <1>2, <1>3 DEF Runs
  <1> HIDE DEF rest, local, next, session
  <1>7. CASE rest = <<>>
    BY <1>1, <1>7, EndingCosts
  <1>8. CASE rest # <<>>
    <2>1. rest \in Left[h] /\ Continue(t, next, rest, session)
      BY <1>1, <1>4, <1>8
    <2>2. CallsLeft(rest) \in Nat
      BY <1>2, <2>1, LeftIs, CallsAreCounted
    <2>3. CallsLeft(rest) - next.tries <= CallsLeft(run.calls) - run.tries - 1
      BY <1>2, <1>5, <1>6, <2>2
    <2> QED BY <1>1, <1>6, <1>2, <2>1, <2>3, GoingOnCosts
  <1> QED BY <1>7, <1>8

LEMMA RecoveringCosts ==
    ASSUME PagesInvariant, Few, NEW t \in Slots, Recover(t)
    PROVE  StepsLeft(t)' \in 0 .. (StepsLeft(t) - 1)
  <1> DEFINE run == task[t]
             h == run.handler
             what == run.calls[1]
             rest == AfterFailure(run.calls)
             tries == Min({run.tries + 1, 2})
             next == [run EXCEPT !.tries = tries]
  <1>1. /\ Busy(t) /\ run.answer = "failed" /\ Survives(run)
        /\ IF rest = <<>> THEN End(t, TRUE, what = "health_or_not")
           ELSE Continue(t, next, rest, page.session)
    BY DEF Recover
  <1>2. /\ run \in Runs /\ h \in Handlers /\ run.calls \in Left[h] /\ run.tries \in 0..2
        /\ CallsLeft(run.calls) \in Nat
    BY <1>1, StepsAre
  <1>3. \/ what \in MarketData \cup {"health_or_not"}
        \/ what = "complete" /\ h \in Preparers /\ run.tries < 2
    BY <1>1 DEF Survives, Preparers
  <1>4. /\ rest = <<>> \/ rest \in Left[h]
        /\ what = "health_or_not" => rest = <<>>
        /\ what = "complete" => rest = run.calls
    BY <1>2, <1>3, AfterFailureIs
  <1>5. what \in MarketData => CallsLeft(rest) <= CallsLeft(run.calls) - 1
    BY <1>2, SkippingCosts
  <1>6. tries = IF run.tries = 2 THEN 2 ELSE run.tries + 1
    BY <1>2, OneMoreTry
  <1> HIDE DEF tries
  <1>7. next \in Runs /\ next.handler = h /\ next.tries = tries /\ tries \in 0..2
    BY <1>2, <1>6 DEF Runs
  <1> HIDE DEF rest, next
  <1>8. CASE rest = <<>>
    BY <1>1, <1>8, EndingCosts
  <1>9. CASE rest # <<>>
    <2>1. rest \in Left[h] /\ Continue(t, next, rest, page.session)
      BY <1>1, <1>4, <1>9
    <2>2. CallsLeft(rest) \in Nat
      BY <1>2, <2>1, LeftIs, CallsAreCounted
    <2>3. CallsLeft(rest) - tries <= CallsLeft(run.calls) - run.tries - 1
      <3>1. CASE what \in MarketData
        BY <1>2, <1>5, <1>6, <2>2, <3>1
      <3>2. CASE what = "complete" /\ run.tries < 2
        BY <1>2, <1>4, <1>6, <2>2, <3>2
      <3> QED BY <1>3, <1>4, <1>9, <3>1, <3>2
    <2> QED BY <1>1, <1>2, <1>7, <2>1, <2>3, GoingOnCosts
  <1> QED BY <1>8, <1>9

\* Every step of a handler uses up one of the steps that its calls and tries allow, however
\* many handlers run and whatever the server answers: with the fairness of Spec this is why
\* every handler ends.
THEOREM HandlersComeNearer == Spec => HandlersGetNearer
  <1>1. Init => Few
    <2>1. Idle.tries = 0
      BY DEF Idle
    <2> QED BY <2>1 DEF Init, Few
  <1>2. PagesInvariant /\ Few /\ [Next]_vars => Few'
    BY FewStay
  <1>3. PagesInvariant /\ Few =>
            \A t \in Slots :
                Answer(t) \/ Refuse(t) \/ TimeOut(t) \/ Resume(t) \/ Recover(t) \/ GiveUp(t)
                => StepsLeft(t)' \in 0 .. (StepsLeft(t) - 1)
    <2> SUFFICES ASSUME PagesInvariant, Few, NEW t \in Slots,
                        \/ Answer(t) \/ Refuse(t) \/ TimeOut(t)
                        \/ Resume(t) \/ Recover(t) \/ GiveUp(t)
                 PROVE  StepsLeft(t)' \in 0 .. (StepsLeft(t) - 1)
      OBVIOUS
    <2>1. CASE Answer(t) \/ Refuse(t) \/ TimeOut(t)
      BY <2>1, CallsCost
    <2>2. CASE Resume(t)
      BY <2>2, ResumingCosts
    <2>3. CASE Recover(t)
      BY <2>3, RecoveringCosts
    <2>4. CASE GiveUp(t)
      BY <2>4, EndingCosts DEF GiveUp
    <2> QED BY <2>1, <2>2, <2>3, <2>4
  <1>4. PagesInvariant /\ Few =>
            [\A t \in Slots :
                Answer(t) \/ Refuse(t) \/ TimeOut(t) \/ Resume(t) \/ Recover(t) \/ GiveUp(t)
                => StepsLeft(t)' \in 0 .. (StepsLeft(t) - 1)]_vars
    BY <1>3
  <1>5. Spec => []PagesInvariant
    BY PagesStaySound
  <1> QED BY <1>1, <1>2, <1>4, <1>5, PTL DEF Spec, HandlersGetNearer

=============================================================================
