------------------------ MODULE IntegrationRuns_proofs ------------------------
(***************************************************************************)
(* Proofs about IntegrationRuns for any number of threads and requests:    *)
(* types, and what the results and summaries shown with a run say of the   *)
(* code it carries.                                                        *)
(***************************************************************************)
EXTENDS IntegrationRuns, SequenceTheorems, FiniteSetTheorems, WellFoundedInduction,
        TLAPS

-----------------------------------------------------------------------------
(* The invariant *)

Verdicts == {"not_tested", "ok", "warning", "error"}
Results == [of : Nat, status : Verdicts, live : {"not_run", "skipped", "ok", "failed"}]
RuntimeSummaries == [status : Summaries \cup {"none"},
                     confidence : {"none", "low", "partial", "full"}]
Reliabilities == Summaries \cup {"none"}

Objects == [name : Numbers, kind : SourceKinds \cup TerminalKinds, test : Results,
            apply : Nat, runtime : RuntimeSummaries, reliability : Reliabilities]

Places == {"idle", "analysing", "storing", "replacing", "deleting", "testing", "applying",
           "summing", "storing_runtime", "storing_reliability"}

Requests == [pc : Places, op : {"none", "expand", "update", "delete", "test", "apply"},
             run : Nat, new : Nat, index : Nat, kept : Seq(Nat), keyed : BOOLEAN,
             runtime : RuntimeSummaries, reliability : Reliabilities]

Typed ==
    /\ family \in Families
    /\ objs \in Seq(Objects)
    /\ runs \in Seq(Nat)
    /\ keys \in SUBSET Numbers
    /\ threads \in [Threads -> Requests]
    /\ requests \in 0..MaxRequests

\* A list has runs that exist, each once.
IsList(list) == ToSet(list) \subseteq 1..Len(objs) /\ IsInjective(list)

Lists == IsList(runs) /\ \A t \in Threads : IsList(threads[t].kept)

\* What a request holds at each of its places.
Holds(th) ==
    /\ th.pc \in {"analysing", "storing"} => th.op \in {"expand", "update"}
    /\ th.pc = "replacing" => th.op = "update"
    /\ th.op = "expand" => th.pc \in {"analysing", "storing"}
    /\ {th.run, th.new} \subseteq 0..Len(objs)
    /\ th.pc # "idle" /\ th.op # "expand" => th.run # None
    /\ th.pc \in {"storing", "replacing"} => th.new # None
    /\ th.pc \in {"summing", "storing_runtime", "storing_reliability"} => family = "terminal"

\* A dictionary about to be listed is in no list, and no other request is about to list it.
Listing(t) == threads[t].pc \in {"storing", "replacing"}
Fresh ==
    \A t \in Threads : Listing(t) =>
        /\ threads[t].new \notin ToSet(runs)
        /\ \A u \in Threads : /\ threads[t].new \notin ToSet(threads[u].kept)
                              /\ Listing(u) /\ u # t => threads[u].new # threads[t].new

\* A number is left for every expansion in progress, whichever list a deletion puts in place.
Expanding == {t \in Threads : threads[t].op = "expand"}
Room(list) == Len(list) + Cardinality(Expanding) <= requests
Numbered ==
    /\ IsFiniteSet(Expanding)
    /\ Room(runs)
    /\ \A t \in Threads : threads[t].pc = "deleting" => Room(threads[t].kept)

\* A terminal that has passed the smoke test with the code it carries.
Passed(o) == objs[o].kind = "complete" /\ objs[o].test.status = "ok" /\ objs[o].test.of = o

ObjectSound(o) ==
    /\ objs[o].kind \in Kinds
    /\ {objs[o].test.of, objs[o].apply} \subseteq {None, o}
    /\ objs[o].test.status # "not_tested" => objs[o].test.of = o
    /\ family = "terminal" =>
           /\ objs[o].test.status \in {"not_tested", SmokeVerdict(objs[o].kind)}
           /\ {objs[o].runtime.status, objs[o].reliability} \subseteq Summaries
           /\ "healthy" \in {objs[o].runtime.status, objs[o].reliability} => Passed(o)
    /\ family = "data_source" =>
           /\ objs[o].reliability = "none"
           /\ objs[o].test.status = "ok" => objs[o].test.live \in {"ok", "skipped"}

\* A summary on its way to a terminal calls it healthy only if it has passed.
SummarySound(th) ==
    /\ th.pc = "storing_runtime" =>
           th.runtime.status \in Summaries /\ (th.runtime.status = "healthy" => Passed(th.run))
    /\ th.pc = "storing_reliability" =>
           th.reliability \in Summaries /\ (th.reliability = "healthy" => Passed(th.run))

IntegrationInvariant ==
    /\ Typed
    /\ Lists
    /\ \A t \in Threads : Holds(threads[t]) /\ SummarySound(threads[t])
    /\ Fresh
    /\ Numbered
    /\ \A o \in 1..Len(objs) : ObjectSound(o)

-----------------------------------------------------------------------------
(* Lists of runs *)

\* A nonempty set of numbers has a least one.
LEMMA LeastExists ==
    ASSUME NEW T \in SUBSET Nat, T # {}
    PROVE  \E x \in T : \A y \in T : x <= y
  <1> DEFINE R == OpToRel(<, Nat)
  <1>1. PICK x \in T : \A y \in T : ~ (<<y, x>> \in R)
    BY NatLessThanWellFounded, WFMin, Zenon
  <1>2. ASSUME NEW y \in T PROVE x <= y
    <2>1. ~ (<<y, x>> \in {ss \in Nat \X Nat : ss[1] < ss[2]})
      BY <1>1 DEF OpToRel
    <2> QED BY <2>1
  <1> QED BY <1>2

\* Min names an element of a nonempty set of indices.
LEMMA MinIsElement ==
    ASSUME NEW I \in SUBSET Nat, I # {}
    PROVE  Min(I) \in I
  BY LeastExists DEF Min

\* Find returns None or a run of the list.
LEMMA FindIsListed ==
    ASSUME NEW name, runs \in Seq(Nat)
    PROVE  Find(name) = None \/ \E i \in 1..Len(runs) : Find(name) = runs[i]
  <1> DEFINE I == {i \in 1..Len(runs) : objs[runs[i]].name = name}
  <1>0. I \in SUBSET Nat
    OBVIOUS
  <1>1. I # {} => Min(I) \in I
    BY <1>0, MinIsElement, Zenon
  <1> QED BY <1>1 DEF Find, SelectInSeq

\* The same of what a test or an apply chooses.
LEMMA ChooseIsListed ==
    ASSUME NEW name, runs \in Seq(Nat)
    PROVE  Choose(name) = None \/ \E i \in 1..Len(runs) : Choose(name) = runs[i]
  <1>1. runs # << >> => Len(runs) \in 1..Len(runs)
    OBVIOUS
  <1> QED BY <1>1, FindIsListed DEF Choose, Last

\* The list a deletion computes is well defined: one step of its recursion after the other.
Keep(name, i, kept) ==
    IF i = 0 THEN << >>
    ELSE IF objs[runs[i]].name = name THEN kept[i - 1]
    ELSE Append(kept[i - 1], runs[i])

LEMMA KeptExists ==
    ASSUME NEW name, runs \in Seq(Nat)
    PROVE  \E kept : kept = [i \in 0..Len(runs) |-> Keep(name, i, kept)]
  <1> DEFINE Has(n) == \E kept : kept = [i \in 0..n |-> Keep(name, i, kept)]
             Bad == {n \in 0..Len(runs) : ~ Has(n)}
  <1>1. SUFFICES ASSUME Bad # {} PROVE FALSE
    BY <1>1
  <1>0. Bad \in SUBSET Nat
    OBVIOUS
  <1>2. PICK n \in Bad : \A m \in Bad : n <= m
    BY <1>0, <1>1, LeastExists, Zenon
  <1>3. CASE n = 0
    <2> DEFINE g == [i \in 0..0 |-> << >>]
    <2>1. g = [i \in 0..0 |-> Keep(name, i, g)]
      BY DEF Keep
    <2> QED BY <1>2, <1>3, <2>1
  <1>4. CASE n # 0
    <2>1. n - 1 \in 0..Len(runs) /\ n - 1 \notin Bad
      BY <1>2, <1>4
    <2>2. PICK f : f = [i \in 0..(n - 1) |-> Keep(name, i, f)]
      BY <2>1
    <2> DEFINE g == [i \in 0..n |-> IF i = n THEN Keep(name, n, f) ELSE f[i]]
    <2>3. ASSUME NEW i \in 0..n PROVE g[i] = Keep(name, i, g)
      <3>1. CASE i = n
        <4>1. g[n - 1] = f[n - 1]
          BY <1>2, <1>4
        <4> QED BY <1>4, <3>1, <4>1 DEF Keep
      <3>2. CASE i # n
        <4>0. i \in 0..(n - 1)
          BY <1>2, <3>2
        <4>1. g[i] = f[i] /\ f[i] = Keep(name, i, f)
          BY <2>2, <3>2, <4>0
        <4>2. i # 0 => i - 1 \in 0..n /\ i - 1 # n /\ g[i - 1] = f[i - 1]
          BY <1>2, <4>0
        <4> QED BY <4>1, <4>2 DEF Keep
      <3> QED BY <3>1, <3>2
    <2>4. g = [i \in 0..n |-> Keep(name, i, g)]
      BY <2>3
    <2> QED BY <1>2, <2>4
  <1> QED BY <1>3, <1>4

\* What a deletion keeps are runs of the list, each once, and no more than there were.
LEMMA WithoutKeeps ==
    ASSUME NEW name, NEW S \in SUBSET Nat, runs \in Seq(S)
    PROVE  /\ Without(name) \in Seq(S)
           /\ Len(Without(name)) <= Len(runs)
           /\ ToSet(Without(name)) \subseteq ToSet(runs)
           /\ IsInjective(runs) => IsInjective(Without(name))
  <1>0. runs \in Seq(Nat)
    BY SeqMonotonic
  <1> DEFINE kept == CHOOSE k : k = [i \in 0..Len(runs) |-> Keep(name, i, k)]
  <1>1. kept = [i \in 0..Len(runs) |-> Keep(name, i, kept)]
    BY <1>0, KeptExists
  <1>2. Without(name) = kept[Len(runs)]
    BY DEF Without, Keep
  <1> HIDE DEF kept
  <1> DEFINE Good(n) ==
                 /\ kept[n] \in Seq(S) /\ Len(kept[n]) <= n
                 /\ \A k \in 1..Len(kept[n]) : \E i \in 1..n : kept[n][k] = runs[i]
                 /\ IsInjective(runs) =>
                        \A j, k \in 1..Len(kept[n]) : kept[n][j] = kept[n][k] => j = k
             Bad == {n \in 0..Len(runs) : ~ Good(n)}
  <1>3. Bad = {}
    <2>1. SUFFICES ASSUME Bad # {} PROVE FALSE
      OBVIOUS
    <2>0. Bad \in SUBSET Nat
      OBVIOUS
    <2>2. PICK n \in Bad : \A m \in Bad : n <= m
      BY <2>0, <2>1, LeastExists, Zenon
    <2>3. kept[n] = Keep(name, n, kept)
      BY <1>1, <2>2
    <2>4. n # 0
      <3>1. SUFFICES ASSUME n = 0 PROVE FALSE
        OBVIOUS
      <3>2. kept[n] = << >>
        BY <2>3, <3>1 DEF Keep
      <3>3. /\ << >> \in Seq(S) /\ Len(<< >>) = 0
            /\ \A k \in 1..Len(<< >>) : FALSE
        OBVIOUS
      <3>4. Good(n)
        BY <3>1, <3>2, <3>3
      <3> QED BY <2>2, <3>4
    <2>5. n - 1 \in 0..Len(runs) /\ Good(n - 1)
      BY <2>2, <2>4
    <2>6. runs[n] \in S /\ n \in 1..Len(runs)
      BY <2>2, <2>4
    <2>7. CASE objs[runs[n]].name = name
      <3>1. kept[n] = kept[n - 1]
        BY <2>3, <2>4, <2>7 DEF Keep
      <3>2. Good(n)
        BY <2>5, <2>6, <3>1
      <3> QED BY <2>2, <3>2
    <2>8. CASE objs[runs[n]].name # name
      <3> DEFINE s == kept[n - 1]
      <3>1. kept[n] = Append(s, runs[n])
        BY <2>3, <2>4, <2>8 DEF Keep
      <3>2. s \in Seq(S) /\ Len(s) <= n - 1
        BY <2>5
      <3>3. /\ kept[n] \in Seq(S) /\ Len(kept[n]) = Len(s) + 1
            /\ kept[n][Len(s) + 1] = runs[n]
            /\ \A k \in 1..Len(s) : kept[n][k] = s[k]
        BY <2>6, <3>1, <3>2
      <3>4. \A k \in 1..Len(kept[n]) : \E i \in 1..n : kept[n][k] = runs[i]
        <4> TAKE k \in 1..Len(kept[n])
        <4>1. CASE k \in 1..Len(s)
          <5>1. PICK i \in 1..(n - 1) : s[k] = runs[i]
            BY <2>5, <4>1
          <5> QED BY <2>2, <3>3, <4>1, <5>1
        <4>2. CASE k = Len(s) + 1
          BY <2>6, <3>3, <4>2
        <4> QED BY <3>2, <3>3, <4>1, <4>2
      <3>5. ASSUME IsInjective(runs) PROVE \A k \in 1..Len(s) : s[k] # runs[n]
        <4> TAKE k \in 1..Len(s)
        <4>1. PICK i \in 1..(n - 1) : s[k] = runs[i]
          BY <2>5
        <4> QED BY <2>6, <3>5, <4>1 DEF IsInjective
      <3>6. IsInjective(runs) =>
                \A j, k \in 1..Len(kept[n]) : kept[n][j] = kept[n][k] => j = k
        <4> SUFFICES ASSUME IsInjective(runs), NEW j \in 1..Len(kept[n]), NEW k \in 1..Len(kept[n]),
                            kept[n][j] = kept[n][k]
                     PROVE  j = k
          BY Zenon
        <4>1. /\ j \in 1..Len(s) \/ j = Len(s) + 1
              /\ k \in 1..Len(s) \/ k = Len(s) + 1
          BY <3>2, <3>3
        <4>2. \A a, b \in 1..Len(s) : s[a] = s[b] => a = b
          BY <2>5
        <4> QED BY <3>3, <3>5, <4>1, <4>2
      <3>7. Good(n)
        BY <2>5, <2>6, <3>2, <3>3, <3>4, <3>6
      <3> QED BY <2>2, <3>7
    <2> QED BY <2>7, <2>8
  <1>4. Good(Len(runs))
    BY <1>3
  <1> QED BY <1>2, <1>4 DEF ToSet, IsInjective

-----------------------------------------------------------------------------
(* Packages and summaries *)

LEMMA RequestTypes == Idle \in Requests /\ NotTested \in Results
  BY DEF Idle, Requests, Places, NoSummary, RuntimeSummaries, Reliabilities, NotTested, Results,
         Verdicts, None

\* The runtime summary of a terminal is healthy only after a passed test of a complete package.
LEMMA RuntimeMeaning ==
    ASSUME NEW run, run.kind \in TerminalKinds, run.test.status \in Verdicts
    PROVE  /\ RuntimeSummary(run) \in RuntimeSummaries
           /\ RuntimeSummary(run).status \in Summaries
           /\ RuntimeSummary(run).status = "healthy" =>
                  run.kind = "complete" /\ run.test.status = "ok"
           /\ run.test.status = "not_tested" => RuntimeSummary(run).status = "fragile"
  <1>1. Confidence(run) \in {"low", "partial", "full"}
    BY DEF Confidence
  <1>2. run.test.status = "not_tested" => Confidence(run) = "low"
    BY DEF Confidence
  <1>3. Readiness(run.kind) = "ready" => run.kind = "complete"
    BY DEF Readiness, TerminalKinds
  <1> QED BY <1>1, <1>2, <1>3 DEF RuntimeSummary, RuntimeSummaries, Summaries

\* So is the reliability summary.
LEMMA ReliabilityMeaning ==
    ASSUME NEW run, run.kind \in TerminalKinds
    PROVE  /\ ReliabilitySummary(run) \in Summaries
           /\ ReliabilitySummary(run) = "healthy" =>
                  run.kind = "complete" /\ run.test.status = "ok"
           /\ run.runtime.status = "fragile" => ReliabilitySummary(run) = "fragile"
  <1>1. Readiness(run.kind) = "ready" => run.kind = "complete"
    BY DEF Readiness, TerminalKinds
  <1> QED BY <1>1 DEF ReliabilitySummary, Summaries

\* A package is an untested run with the name and the kind it was built for.
LEMMA PackageMeaning ==
    ASSUME family \in Families, NEW name \in Numbers, NEW kind \in Kinds
    PROVE  /\ Package(name, kind) \in Objects
           /\ Package(name, kind).kind = kind
           /\ Package(name, kind).test = NotTested
           /\ Package(name, kind).apply = None
           /\ family = "terminal" => /\ Package(name, kind).runtime.status = "fragile"
                                     /\ Package(name, kind).reliability = "fragile"
           /\ family = "data_source" => Package(name, kind).reliability = "none"
  <1> DEFINE bare == [name |-> name, kind |-> kind, test |-> NotTested, apply |-> None,
                      runtime |-> NoSummary, reliability |-> "none"]
             summed == [bare EXCEPT !.runtime = RuntimeSummary(bare)]
  <1>1. bare \in Objects
    BY RequestTypes DEF Objects, Kinds, None, NoSummary, RuntimeSummaries, Reliabilities
  <1>2. CASE family = "terminal"
    <2>1. kind \in TerminalKinds
      BY <1>2 DEF Kinds
    <2>2. bare.kind = kind /\ bare.test = NotTested /\ bare.test.status = "not_tested"
      BY DEF NotTested
    <2>3. RuntimeSummary(bare) \in RuntimeSummaries /\ RuntimeSummary(bare).status = "fragile"
      BY <2>1, <2>2, RuntimeMeaning DEF Verdicts
    <2>4. /\ summed \in Objects
          /\ summed.kind = kind /\ summed.test = NotTested /\ summed.apply = None
          /\ summed.runtime = RuntimeSummary(bare)
      BY <1>1, <2>3 DEF Objects
    <2> HIDE DEF summed, bare
    <2>5. ReliabilitySummary(summed) = "fragile"
      BY <2>1, <2>3, <2>4, ReliabilityMeaning
    <2>6. Package(name, kind) = [summed EXCEPT !.reliability = ReliabilitySummary(summed)]
      BY <1>2 DEF Package, summed, bare
    <2> QED BY <1>2, <2>3, <2>4, <2>5, <2>6 DEF Objects, Reliabilities, Summaries
  <1>3. CASE family = "data_source"
    BY <1>1, <1>3 DEF Package
  <1> QED BY <1>2, <1>3 DEF Families

-----------------------------------------------------------------------------
(* Steps of one request *)

\* When one request changes, an expansion that ends leaves room for one more number.
LEMMA Retire ==
    ASSUME threads \in [Threads -> Requests], IsFiniteSet(Expanding),
           NEW t \in Threads, NEW th \in Requests, threads' = [threads EXCEPT ![t] = th],
           th.op = "expand" => threads[t].op = "expand"
    PROVE  /\ IsFiniteSet(Expanding')
           /\ Cardinality(Expanding) \in Nat /\ Cardinality(Expanding') \in Nat
           /\ Cardinality(Expanding') <= Cardinality(Expanding)
           /\ threads[t].op = "expand" /\ th.op # "expand" =>
                  Cardinality(Expanding') = Cardinality(Expanding) - 1
  <1>1. CASE threads[t].op = "expand" /\ th.op # "expand"
    <2>1. t \in Expanding /\ Expanding' = Expanding \ {t}
      BY <1>1 DEF Expanding
    <2>2. /\ IsFiniteSet(Expanding')
          /\ Cardinality(Expanding') = Cardinality(Expanding) - 1
      BY <2>1, FS_RemoveElement
    <2>3. Cardinality(Expanding) \in Nat /\ Cardinality(Expanding') \in Nat
      BY <2>2, FS_CardinalityType
    <2> QED BY <2>2, <2>3
  <1>2. CASE ~ (threads[t].op = "expand" /\ th.op # "expand")
    <2>1. Expanding' = Expanding
      BY <1>2 DEF Expanding
    <2> QED BY <1>2, <2>1, FS_CardinalityType
  <1> QED BY <1>1, <1>2

\* A step of a request keeps the invariant if what it leaves in the heap, in the list and
\* in its own record is sound, and it brings no new dictionary into play.
LEMMA RequestStep ==
    ASSUME IntegrationInvariant,
           NEW t \in Threads, NEW th \in Requests, threads' = [threads EXCEPT ![t] = th],
           UNCHANGED family,
           objs' \in Seq(Objects), Len(objs') = Len(objs),
           \A o \in 1..Len(objs) : ObjectSound(o)' /\ (Passed(o) => Passed(o)'),
           runs' \in Seq(Nat), keys' \in SUBSET Numbers, requests' \in 0..MaxRequests,
           Holds(th), SummarySound(th)',
           IsList(runs'), IsList(th.kept),
           th.pc \in {"storing", "replacing"} => Listing(t) /\ th.new = threads[t].new,
           ToSet(th.kept) \subseteq ToSet(runs) \cup ToSet(threads[t].kept),
           ToSet(runs') \subseteq ToSet(runs) \cup ToSet(threads[t].kept)
                                \cup (IF Listing(t) /\ th.pc \notin {"storing", "replacing"}
                                      THEN {threads[t].new} ELSE {}),
           th.op = "expand" => threads[t].op = "expand",
           requests <= requests',
           Room(runs)', th.pc = "deleting" => Room(th.kept)'
    PROVE  IntegrationInvariant'
  <1> USE DEF IntegrationInvariant
  <1>1. Typed'
    BY DEF Typed
  <1>2. threads'[t] = th /\ \A u \in Threads : u # t => threads'[u] = threads[u]
    BY DEF Typed
  <1>3. \A list : IsList(list) <=> IsList(list)'
    BY DEF IsList
  <1>4. Lists'
    BY <1>2, <1>3 DEF Lists
  <1>5. ASSUME NEW u \in Threads PROVE Holds(threads[u])' /\ SummarySound(threads[u])'
    <2>1. CASE u = t
      BY <1>2, <2>1 DEF Holds
    <2>2. CASE u # t
      <3>0. threads' [u] = threads[u]
        BY <1>2, <2>2
      <3>1. threads'[u] = threads[u] /\ Holds(threads[u]) /\ SummarySound(threads[u])
        BY <1>2, <2>2
      <3>2. Holds(threads[u])'
        BY <3>1 DEF Holds
      <3>3. threads[u].pc \in {"storing_runtime", "storing_reliability"} =>
                threads[u].run \in 1..Len(objs)
        BY <3>1 DEF Holds, None, Typed
      <3> QED BY <3>1, <3>2, <3>3 DEF SummarySound
    <2> QED BY <2>1, <2>2
  <1>6. Fresh'
    <2> SUFFICES ASSUME NEW u \in Threads, Listing(u)'
                 PROVE  /\ threads'[u].new \notin ToSet(runs')
                        /\ \A v \in Threads :
                               /\ threads'[u].new \notin ToSet(threads'[v].kept)
                               /\ Listing(v)' /\ v # u => threads'[v].new # threads'[u].new
      BY DEF Fresh
    <2>1. Listing(u) /\ threads'[u].new = threads[u].new
      BY <1>2 DEF Listing
    <2>2. threads[u].new \notin ToSet(runs) /\ threads[u].new \notin ToSet(threads[t].kept)
      BY <2>1 DEF Fresh
    <2>3. Listing(t) /\ th.pc \notin {"storing", "replacing"} => threads[u].new # threads[t].new
      BY <1>2, <2>1 DEF Fresh, Listing
    <2>4. threads'[u].new \notin ToSet(runs')
      BY <2>1, <2>2, <2>3
    <2>5. ASSUME NEW v \in Threads
          PROVE  /\ threads'[u].new \notin ToSet(threads'[v].kept)
                 /\ Listing(v)' /\ v # u => threads'[v].new # threads'[u].new
      <3>1. threads'[u].new \notin ToSet(threads'[v].kept)
        BY <1>2, <2>1, <2>2 DEF Fresh
      <3>2. Listing(v)' => Listing(v) /\ threads'[v].new = threads[v].new
        BY <1>2 DEF Listing
      <3> QED BY <2>1, <3>1, <3>2 DEF Fresh
    <2> QED BY <2>4, <2>5
  <1>7. Numbered'
    <2>1. /\ IsFiniteSet(Expanding')
          /\ Cardinality(Expanding) \in Nat /\ Cardinality(Expanding') \in Nat
          /\ Cardinality(Expanding') <= Cardinality(Expanding)
      BY Retire DEF Numbered, Typed
    <2>2. ASSUME NEW u \in Threads, threads'[u].pc = "deleting" PROVE Room(threads[u].kept)'
      <3>1. CASE u = t
        BY <1>2, <2>2, <3>1 DEF Room
      <3>2. CASE u # t
        <4>1. Room(threads[u].kept) /\ threads'[u] = threads[u]
          BY <1>2, <2>2, <3>2 DEF Numbered
        <4>2. Len(threads[u].kept) \in Nat /\ requests \in Nat /\ requests' \in Nat
          BY DEF Typed, Requests
        <4> QED BY <2>1, <4>1, <4>2 DEF Room
      <3> QED BY <3>1, <3>2
    <2> QED BY <2>1, <2>2 DEF Numbered
  <1>8. \A o \in 1..Len(objs') : ObjectSound(o)'
    OBVIOUS
  <1> QED BY <1>1, <1>4, <1>5, <1>6, <1>7, <1>8

\* A step that leaves the heap alone leaves what is said of it alone.
LEMMA HeapFrame ==
    ASSUME UNCHANGED <<family, objs>>
    PROVE  /\ \A o : (ObjectSound(o) => ObjectSound(o)') /\ (Passed(o) => Passed(o)')
           /\ \A th : SummarySound(th) => SummarySound(th)'
  BY DEF ObjectSound, Passed, SummarySound, Kinds

\* A request that is accepted, other than an expansion.
LEMMA AcceptStep ==
    ASSUME IntegrationInvariant, NEW t \in Threads, NEW th \in Requests, Accept(t, th),
           Holds(th), th.op # "expand", th.pc \in {"analysing", "deleting", "testing", "applying"},
           IsList(th.kept), ToSet(th.kept) \subseteq ToSet(runs), Len(th.kept) <= Len(runs)
    PROVE  IntegrationInvariant'
  <1>1. /\ threads' = [threads EXCEPT ![t] = th] /\ requests' = requests + 1
        /\ UNCHANGED <<family, objs, runs, keys>>
    BY DEF Accept
  <1>2. requests' \in 0..MaxRequests /\ requests <= requests'
    BY <1>1, IntegrationAssumption DEF IntegrationInvariant, Typed, Accept
  <1>3. SummarySound(th)'
    BY DEF SummarySound
  <1>4. /\ Cardinality(Expanding) \in Nat /\ Cardinality(Expanding') \in Nat
        /\ Cardinality(Expanding') <= Cardinality(Expanding)
    BY <1>1, Retire DEF IntegrationInvariant, Typed, Numbered
  <1>5. Len(runs) \in Nat /\ Len(th.kept) \in Nat /\ requests \in Nat
    BY DEF IntegrationInvariant, Typed, Requests
  <1>6. Room(runs)' /\ Room(th.kept)'
    BY <1>1, <1>4, <1>5 DEF IntegrationInvariant, Numbered, Room
  <1>7. /\ objs' \in Seq(Objects) /\ Len(objs') = Len(objs)
        /\ runs' \in Seq(Nat) /\ keys' \in SUBSET Numbers /\ IsList(runs')
    BY <1>1 DEF IntegrationInvariant, Typed, Lists
  <1>8. \A o \in 1..Len(objs) : ObjectSound(o)' /\ (Passed(o) => Passed(o)')
    BY <1>1, HeapFrame DEF IntegrationInvariant
  <1> QED BY <1>1, <1>2, <1>3, <1>6, <1>7, <1>8, RequestStep

\* A step that changes nothing but the record of its request.
LEMMA QuietStep ==
    ASSUME IntegrationInvariant, NEW t \in Threads, NEW th \in Requests,
           threads' = [threads EXCEPT ![t] = th], UNCHANGED <<family, objs, runs, keys, requests>>,
           Holds(th), SummarySound(th), th.kept \in {<< >>, threads[t].kept},
           th.pc \in {"storing", "replacing"} => Listing(t) /\ th.new = threads[t].new,
           th.op = "expand" => threads[t].op = "expand", th.pc # "deleting"
    PROVE  IntegrationInvariant'
  <1>1. SummarySound(th)'
    BY HeapFrame
  <1>2. IsList(th.kept) /\ ToSet(th.kept) \subseteq ToSet(runs) \cup ToSet(threads[t].kept)
    BY DEF IntegrationInvariant, Lists, IsList, ToSet, IsInjective
  <1>3. /\ Cardinality(Expanding) \in Nat /\ Cardinality(Expanding') \in Nat
        /\ Cardinality(Expanding') <= Cardinality(Expanding)
    BY Retire DEF IntegrationInvariant, Typed, Numbered
  <1>4. Len(runs) \in Nat /\ requests \in Nat
    BY DEF IntegrationInvariant, Typed
  <1>5. Room(runs)'
    BY <1>3, <1>4 DEF IntegrationInvariant, Numbered, Room
  <1>6. /\ objs' \in Seq(Objects) /\ Len(objs') = Len(objs)
        /\ runs' \in Seq(Nat) /\ keys' \in SUBSET Numbers /\ IsList(runs')
        /\ requests' \in 0..MaxRequests /\ requests <= requests'
    BY DEF IntegrationInvariant, Typed, Lists
  <1>7. \A o \in 1..Len(objs) : ObjectSound(o)' /\ (Passed(o) => Passed(o)')
    BY HeapFrame DEF IntegrationInvariant
  <1> QED BY <1>1, <1>2, <1>5, <1>6, <1>7, RequestStep

\* A step that stores something in the dictionary its request holds, or in another one.
LEMMA HeapStep ==
    ASSUME IntegrationInvariant, NEW t \in Threads, NEW th \in Requests,
           threads' = [threads EXCEPT ![t] = th], UNCHANGED <<family, runs, keys, requests>>,
           NEW o \in 1..Len(objs), NEW x \in Objects, objs' = [objs EXCEPT ![o] = x],
           ObjectSound(o)', Passed(o) => Passed(o)',
           Holds(th), SummarySound(th)', th.kept \in {<< >>, threads[t].kept},
           th.pc \notin {"storing", "replacing", "deleting"}, th.op # "expand"
    PROVE  IntegrationInvariant'
  <1>1. IsList(th.kept) /\ ToSet(th.kept) \subseteq ToSet(runs) \cup ToSet(threads[t].kept)
    BY DEF IntegrationInvariant, Lists, IsList, ToSet, IsInjective
  <1>2. /\ Cardinality(Expanding) \in Nat /\ Cardinality(Expanding') \in Nat
        /\ Cardinality(Expanding') <= Cardinality(Expanding)
    BY Retire DEF IntegrationInvariant, Typed, Numbered
  <1>3. Len(runs) \in Nat /\ requests \in Nat
    BY DEF IntegrationInvariant, Typed
  <1>4. Room(runs)'
    BY <1>2, <1>3 DEF IntegrationInvariant, Numbered, Room
  <1>5. objs \in Seq(Objects)
    BY DEF IntegrationInvariant, Typed
  <1>6. /\ objs' \in Seq(Objects) /\ Len(objs') = Len(objs)
        /\ \A p \in 1..Len(objs) : p # o => objs'[p] = objs[p]
    BY <1>5
  <1>7. /\ runs' \in Seq(Nat) /\ keys' \in SUBSET Numbers /\ IsList(runs')
        /\ requests' \in 0..MaxRequests /\ requests <= requests'
    BY DEF IntegrationInvariant, Typed, Lists
  <1>8. ASSUME NEW p \in 1..Len(objs) PROVE ObjectSound(p)' /\ (Passed(p) => Passed(p)')
    <2>1. CASE p = o
      BY <2>1
    <2>2. CASE p # o
      BY <1>6, <2>2 DEF IntegrationInvariant, ObjectSound, Passed, Kinds
    <2> QED BY <2>1, <2>2
  <1> QED BY <1>1, <1>4, <1>6, <1>7, <1>8, RequestStep

-----------------------------------------------------------------------------
(* Requests accepted *)

\* A run that was found is in the heap.
LEMMA FoundIsBuilt ==
    ASSUME IntegrationInvariant, NEW name
    PROVE  /\ Find(name) # None => Find(name) \in 1..Len(objs)
           /\ Choose(name) # None => Choose(name) \in 1..Len(objs)
  <1>1. runs \in Seq(Nat) /\ \A i \in 1..Len(runs) : runs[i] \in 1..Len(objs)
    BY DEF IntegrationInvariant, Typed, Lists, IsList, ToSet
  <1> QED BY <1>1, FindIsListed, ChooseIsListed

LEMMA EmptyList == << >> \in Seq(Nat) /\ Len(<< >>) = 0 /\ ToSet(<< >>) = {} /\ IsInjective(<< >>)
  BY DEF ToSet, IsInjective

\* A request holds a run that was built, a deletion a list as well.
LEMMA RequestMeaning ==
    ASSUME IntegrationInvariant, NEW o \in 1..Len(objs),
           NEW op \in {"update", "delete", "test", "apply"},
           NEW pc \in {"analysing", "deleting", "testing", "applying"},
           pc = "analysing" => op = "update"
    PROVE  /\ Request(op, o, pc) \in Requests
           /\ Request(op, o, pc).pc = pc /\ Request(op, o, pc).op = op
           /\ Request(op, o, pc).run = o /\ Request(op, o, pc).new = None
           /\ Request(op, o, pc).kept = << >>
           /\ Holds(Request(op, o, pc))
  <1>1. Request(op, o, pc) = [Idle EXCEPT !.op = op, !.run = o, !.pc = pc]
    BY DEF Request
  <1>2. Len(objs) \in Nat
    BY DEF IntegrationInvariant, Typed
  <1> DEFINE r == Request(op, o, pc)
  <1>3. r \in Requests
    <2>1. /\ Idle \in Requests /\ o \in Nat /\ pc \in Places
          /\ op \in {"none", "expand", "update", "delete", "test", "apply"}
      BY <1>2, RequestTypes DEF Places
    <2> QED BY <1>1, <2>1 DEF Requests
  <1>4. r.pc = pc /\ r.op = op /\ r.run = o /\ r.new = None /\ r.kept = << >>
    BY <1>1 DEF Idle
  <1> HIDE DEF r
  <1>5. Holds(r)
    BY <1>2, <1>4 DEF Holds, None
  <1> QED BY <1>3, <1>4, <1>5 DEF r

LEMMA UpdateStep ==
    ASSUME IntegrationInvariant, NEW t \in Threads, NEW name \in Numbers, Update(t, name)
    PROVE  IntegrationInvariant'
  <1> DEFINE th == Request("update", Find(name), "analysing")
  <1>1. Find(name) \in 1..Len(objs) /\ Accept(t, th)
    BY FoundIsBuilt DEF Update
  <1>2. /\ th \in Requests /\ th.pc = "analysing" /\ th.op = "update" /\ th.kept = << >>
        /\ Holds(th)
    BY <1>1, RequestMeaning
  <1>3. Len(runs) \in Nat
    BY DEF IntegrationInvariant, Typed
  <1> HIDE DEF th
  <1> QED BY <1>1, <1>2, <1>3, AcceptStep, EmptyList DEF IsList

LEMMA DeleteStep ==
    ASSUME IntegrationInvariant, NEW t \in Threads, NEW name \in Numbers, Delete(t, name)
    PROVE  IntegrationInvariant'
  <1> DEFINE bare == Request("delete", Find(name), "deleting")
             th == [bare EXCEPT !.kept = Without(name)]
  <1>1. Find(name) \in 1..Len(objs) /\ Accept(t, th)
    BY FoundIsBuilt DEF Delete
  <1>2. /\ bare \in Requests /\ bare.pc = "deleting" /\ bare.op = "delete" /\ Holds(bare)
    BY <1>1, RequestMeaning
  <1>3. runs \in Seq(Nat) /\ IsList(runs)
    BY DEF IntegrationInvariant, Typed, Lists
  <1>4. /\ Without(name) \in Seq(Nat) /\ Len(Without(name)) <= Len(runs)
        /\ ToSet(Without(name)) \subseteq ToSet(runs) /\ IsInjective(Without(name))
    BY <1>3, WithoutKeeps DEF IsList
  <1> HIDE DEF bare
  <1>5. /\ th \in Requests /\ th.pc = "deleting" /\ th.op = "delete" /\ th.kept = Without(name)
        /\ th.run = bare.run /\ th.new = bare.new
    BY <1>2, <1>4 DEF Requests
  <1> HIDE DEF th
  <1>6. Holds(th) /\ IsList(th.kept)
    BY <1>2, <1>3, <1>4, <1>5 DEF Holds, IsList
  <1> QED BY <1>1, <1>4, <1>5, <1>6, AcceptStep

LEMMA TestStep ==
    ASSUME IntegrationInvariant, NEW t \in Threads, NEW name, Test(t, name)
    PROVE  IntegrationInvariant'
  <1> DEFINE bare == Request("test", Choose(name), "testing")
  <1>1. PICK keyed \in BOOLEAN :
            Accept(t, [bare EXCEPT !.keyed = keyed]) /\ Choose(name) \in 1..Len(objs)
    <2>1. Choose(name) \in 1..Len(objs)
      BY FoundIsBuilt DEF Test
    <2>2. (family = "data_source" /\ ResolvesKey(Choose(name))) \in BOOLEAN
      OBVIOUS
    <2>3. \/ Accept(t, [bare EXCEPT !.keyed = family = "data_source" /\ ResolvesKey(Choose(name))])
          \/ Accept(t, [bare EXCEPT !.keyed = TRUE])
      BY Zenon DEF Test
    <2> QED BY <2>1, <2>2, <2>3, Zenon
  <1> DEFINE th == [bare EXCEPT !.keyed = keyed]
  <1>2. /\ bare \in Requests /\ bare.pc = "testing" /\ bare.op = "test" /\ bare.kept = << >>
        /\ Holds(bare)
    BY <1>1, RequestMeaning
  <1> HIDE DEF bare
  <1>3. /\ th \in Requests /\ th.pc = "testing" /\ th.op = "test" /\ th.kept = << >>
        /\ th.run = bare.run /\ th.new = bare.new
    BY <1>2 DEF Requests
  <1>4. Accept(t, th)
    BY <1>1
  <1> HIDE DEF th
  <1>5. Holds(th) /\ Len(runs) \in Nat
    BY <1>2, <1>3 DEF Holds, IntegrationInvariant, Typed
  <1> QED BY <1>3, <1>4, <1>5, AcceptStep, EmptyList DEF IsList

LEMMA ApplyStep ==
    ASSUME IntegrationInvariant, NEW t \in Threads, NEW name, Apply(t, name)
    PROVE  IntegrationInvariant'
  <1> DEFINE th == Request("apply", Choose(name), "applying")
  <1>1. Choose(name) \in 1..Len(objs) /\ Accept(t, th)
    BY FoundIsBuilt DEF Apply
  <1>2. /\ th \in Requests /\ th.pc = "applying" /\ th.op = "apply" /\ th.kept = << >>
        /\ Holds(th)
    BY <1>1, RequestMeaning
  <1>3. Len(runs) \in Nat
    BY DEF IntegrationInvariant, Typed
  <1> HIDE DEF th
  <1> QED BY <1>1, <1>2, <1>3, AcceptStep, EmptyList DEF IsList

\* An expansion reserves the number it may need.
LEMMA ExpandStep ==
    ASSUME IntegrationInvariant, NEW t \in Threads, Expand(t)
    PROVE  IntegrationInvariant'
  <1> DEFINE th == Request("expand", None, "analysing")
  <1>1. /\ threads' = [threads EXCEPT ![t] = th] /\ requests' = requests + 1
        /\ UNCHANGED <<family, objs, runs, keys>>
        /\ threads[t].pc = "idle" /\ requests < MaxRequests
    BY DEF Expand, Accept, At
  <1>2. /\ th \in Requests /\ th.pc = "analysing" /\ th.op = "expand" /\ th.run = None
        /\ th.new = None /\ th.kept = << >>
    <2>1. th = [Idle EXCEPT !.op = "expand", !.run = None, !.pc = "analysing"]
      BY DEF Request
    <2>2. /\ Idle \in Requests /\ None \in Nat /\ "analysing" \in Places
      BY RequestTypes DEF Places, None
    <2> HIDE DEF th
    <2>3. th \in Requests
      BY <2>1, <2>2 DEF Requests
    <2> QED BY <2>1, <2>3 DEF Idle
  <1> HIDE DEF th
  <1>3. threads \in [Threads -> Requests] /\ requests \in 0..MaxRequests /\ MaxRequests \in Nat
    BY IntegrationAssumption DEF IntegrationInvariant, Typed
  <1>4. threads'[t] = th /\ \A u \in Threads : u # t => threads'[u] = threads[u]
    BY <1>1, <1>3
  <1>5. Typed'
    BY <1>1, <1>2, <1>3 DEF IntegrationInvariant, Typed
  <1>6. Lists'
    <2>1. IsList(runs)'
      BY <1>1 DEF IntegrationInvariant, Lists, IsList
    <2>2. ASSUME NEW u \in Threads PROVE IsList(threads[u].kept)'
      BY <1>1, <1>2, <1>4, EmptyList DEF IntegrationInvariant, Lists, IsList
    <2> QED BY <2>1, <2>2 DEF Lists
  <1>7. ASSUME NEW u \in Threads PROVE Holds(threads[u])' /\ SummarySound(threads[u])'
    <2>1. CASE u = t
      <3>1. Len(objs) \in Nat
        BY DEF IntegrationInvariant, Typed
      <3> QED BY <1>1, <1>2, <1>4, <2>1, <3>1 DEF Holds, SummarySound, None
    <2>2. CASE u # t
      <3>1. SummarySound(threads[u])'
        <4>1. SummarySound(threads[u]) /\ threads'[u] = threads[u]
          BY <1>4, <2>2 DEF IntegrationInvariant
        <4> QED BY <1>1, <4>1 DEF SummarySound, Passed
      <3>2. Holds(threads[u])'
        <4>1. Holds(threads[u]) /\ threads'[u] = threads[u]
          BY <1>4, <2>2 DEF IntegrationInvariant
        <4> QED BY <1>1, <4>1 DEF Holds
      <3> QED BY <3>1, <3>2
    <2> QED BY <2>1, <2>2
  <1>8. Fresh'
    <2>1. \A u \in Threads : Listing(u)' => Listing(u) /\ threads'[u].new = threads[u].new
      BY <1>2, <1>4 DEF Listing
    <2>2. \A u \in Threads : ToSet(threads'[u].kept) \subseteq ToSet(threads[u].kept)
      BY <1>2, <1>4, EmptyList
    <2> SUFFICES ASSUME NEW u \in Threads, Listing(u)'
                 PROVE  /\ threads'[u].new \notin ToSet(runs')
                        /\ \A v \in Threads :
                               /\ threads'[u].new \notin ToSet(threads'[v].kept)
                               /\ Listing(v)' /\ v # u => threads'[v].new # threads'[u].new
      BY DEF Fresh
    <2>3. /\ Listing(u) /\ threads'[u].new = threads[u].new
          /\ threads[u].new \notin ToSet(runs)
      BY <2>1 DEF IntegrationInvariant, Fresh
    <2>4. ASSUME NEW v \in Threads
          PROVE  /\ threads'[u].new \notin ToSet(threads'[v].kept)
                 /\ Listing(v)' /\ v # u => threads'[v].new # threads'[u].new
      BY <2>1, <2>2, <2>3 DEF IntegrationInvariant, Fresh
    <2> QED BY <1>1, <2>3, <2>4
  <1>9. Numbered'
    <2>1. Expanding' = Expanding \cup {t} /\ t \notin Expanding
      BY <1>1, <1>2, <1>4 DEF Expanding, IntegrationInvariant, Holds
    <2>2. /\ IsFiniteSet(Expanding') /\ Cardinality(Expanding) \in Nat
          /\ Cardinality(Expanding') = Cardinality(Expanding) + 1
      BY <2>1, FS_AddElement, FS_CardinalityType DEF IntegrationInvariant, Numbered
    <2>3. Room(runs)'
      <3>1. Len(runs) \in Nat /\ Room(runs)
        BY DEF IntegrationInvariant, Typed, Numbered
      <3> QED BY <1>1, <1>3, <2>2, <3>1 DEF Room
    <2>4. ASSUME NEW u \in Threads, threads'[u].pc = "deleting" PROVE Room(threads[u].kept)'
      <3>1. u # t /\ threads'[u] = threads[u]
        BY <1>2, <1>4, <2>4
      <3>2. Len(threads[u].kept) \in Nat /\ Room(threads[u].kept)
        BY <1>3, <2>4, <3>1 DEF IntegrationInvariant, Requests, Numbered
      <3> QED BY <1>1, <1>3, <2>2, <3>1, <3>2 DEF Room
    <2> QED BY <2>2, <2>3, <2>4 DEF Numbered
  <1>10. \A o \in 1..Len(objs') : ObjectSound(o)'
    BY <1>1, HeapFrame DEF IntegrationInvariant
  <1> QED BY <1>5, <1>6, <1>7, <1>8, <1>9, <1>10 DEF IntegrationInvariant

LEMMA StartStep ==
    ASSUME IntegrationInvariant, NEW t \in Threads, Start(t)
    PROVE  IntegrationInvariant'
  BY ExpandStep, UpdateStep, DeleteStep, TestStep, ApplyStep DEF Start

-----------------------------------------------------------------------------
(* Lists changed *)

LEMMA IdleMeaning ==
    ASSUME IntegrationInvariant
    PROVE  /\ Idle \in Requests /\ Idle.pc = "idle" /\ Idle.op = "none" /\ Idle.kept = << >>
           /\ Holds(Idle) /\ SummarySound(Idle) /\ SummarySound(Idle)'
  <1>1. Len(objs) \in Nat
    BY DEF IntegrationInvariant, Typed
  <1>2. /\ Idle.pc = "idle" /\ Idle.op = "none" /\ Idle.kept = << >>
        /\ Idle.run = None /\ Idle.new = None
    BY DEF Idle
  <1> QED BY <1>1, <1>2, RequestTypes DEF Holds, SummarySound, None

\* The list changes and the request that changed it is answered.
LEMMA ListStep ==
    ASSUME IntegrationInvariant, NEW t \in Threads, threads' = [threads EXCEPT ![t] = Idle],
           UNCHANGED <<family, objs, requests>>,
           runs' \in Seq(Nat), keys' \in SUBSET Numbers, IsList(runs'),
           ToSet(runs') \subseteq ToSet(runs) \cup ToSet(threads[t].kept)
                                \cup (IF Listing(t) THEN {threads[t].new} ELSE {}),
           \/ Len(runs') = Len(runs)
           \/ Len(runs') = Len(runs) + 1 /\ threads[t].op = "expand"
           \/ threads[t].pc = "deleting" /\ runs' = threads[t].kept
    PROVE  IntegrationInvariant'
  <1>1. /\ Cardinality(Expanding) \in Nat /\ Cardinality(Expanding') \in Nat
        /\ Cardinality(Expanding') <= Cardinality(Expanding)
        /\ threads[t].op = "expand" => Cardinality(Expanding') = Cardinality(Expanding) - 1
    BY Retire, IdleMeaning DEF IntegrationInvariant, Typed, Numbered
  <1>2. /\ Len(runs) \in Nat /\ Len(runs') \in Nat /\ Len(threads[t].kept) \in Nat
        /\ requests \in Nat
    BY DEF IntegrationInvariant, Typed, Requests
  <1>3. Room(runs)'
    <2>1. Room(runs) /\ (threads[t].pc = "deleting" => Room(threads[t].kept))
      BY DEF IntegrationInvariant, Numbered
    <2> QED BY <1>1, <1>2, <2>1 DEF Room
  <1>4. /\ objs' \in Seq(Objects) /\ Len(objs') = Len(objs)
        /\ requests' \in 0..MaxRequests /\ requests <= requests'
    BY DEF IntegrationInvariant, Typed
  <1>5. \A o \in 1..Len(objs) : ObjectSound(o)' /\ (Passed(o) => Passed(o)')
    BY HeapFrame DEF IntegrationInvariant
  <1>6. IsList(Idle.kept) /\ ToSet(Idle.kept) = {}
    BY IdleMeaning, EmptyList DEF IsList
  <1> QED BY <1>3, <1>4, <1>5, <1>6, IdleMeaning, RequestStep

LEMMA StoreNewStep ==
    ASSUME IntegrationInvariant, NEW t \in Threads, StoreNew(t)
    PROVE  IntegrationInvariant'
  <1> DEFINE new == threads[t].new
  <1>1. /\ threads' = [threads EXCEPT ![t] = Idle] /\ runs' = Append(runs, new)
        /\ UNCHANGED <<family, objs, keys, requests>>
        /\ threads[t].pc = "storing" /\ threads[t].op = "expand"
    BY DEF StoreNew, At, Answer
  <1>2. /\ runs \in Seq(Nat) /\ Len(runs) \in Nat /\ IsList(runs) /\ Len(objs) \in Nat
        /\ keys \in SUBSET Numbers
    BY DEF IntegrationInvariant, Typed, Lists
  <1>3. new \in 1..Len(objs) /\ Listing(t) /\ new \notin ToSet(runs)
    <2>1. Holds(threads[t]) /\ Listing(t)
      BY <1>1 DEF IntegrationInvariant, Listing
    <2> QED BY <1>1, <1>2, <2>1 DEF IntegrationInvariant, Fresh, Holds, None
  <1> HIDE DEF new
  <1>4. /\ runs' \in Seq(Nat) /\ Len(runs') = Len(runs) + 1 /\ runs'[Len(runs) + 1] = new
        /\ \A i \in 1..Len(runs) : runs'[i] = runs[i]
    BY <1>1, <1>2, <1>3
  <1>5. ToSet(runs') \subseteq ToSet(runs) \cup {new}
    BY <1>2, <1>4 DEF ToSet
  <1>6. IsInjective(runs')
    <2>1. \A i \in 1..Len(runs) : runs[i] # new
      BY <1>2, <1>3 DEF ToSet
    <2>2. \A i, j \in 1..Len(runs) : runs[i] = runs[j] => i = j
      BY <1>2 DEF IsList, IsInjective
    <2>3. DOMAIN runs' = 1..(Len(runs) + 1)
      BY <1>4
    <2> SUFFICES ASSUME NEW i \in 1..(Len(runs) + 1), NEW j \in 1..(Len(runs) + 1),
                        runs'[i] = runs'[j]
                 PROVE  i = j
      BY <2>3 DEF IsInjective
    <2>4. /\ i \in 1..Len(runs) \/ i = Len(runs) + 1
          /\ j \in 1..Len(runs) \/ j = Len(runs) + 1
      BY <1>2
    <2> QED BY <1>4, <2>1, <2>2, <2>4
  <1>7. IsList(runs')
    BY <1>2, <1>3, <1>5, <1>6 DEF IsList
  <1> QED BY <1>1, <1>2, <1>3, <1>4, <1>5, <1>7, ListStep DEF new

LEMMA ReplaceStep ==
    ASSUME IntegrationInvariant, NEW t \in Threads, Replace(t)
    PROVE  IntegrationInvariant'
  <1> DEFINE new == threads[t].new
             i == threads[t].index
  <1>1. /\ threads' = [threads EXCEPT ![t] = Idle]
        /\ runs' = IF i \in DOMAIN runs THEN [runs EXCEPT ![i] = new] ELSE runs
        /\ UNCHANGED <<family, objs, keys, requests>>
        /\ threads[t].pc = "replacing"
    BY DEF Replace, At, Answer
  <1>2. /\ runs \in Seq(Nat) /\ IsList(runs) /\ Len(objs) \in Nat /\ keys \in SUBSET Numbers
    BY DEF IntegrationInvariant, Typed, Lists
  <1>3. new \in 1..Len(objs) /\ Listing(t) /\ new \notin ToSet(runs)
    <2>1. Holds(threads[t]) /\ Listing(t)
      BY <1>1 DEF IntegrationInvariant, Listing
    <2> QED BY <1>1, <1>2, <2>1 DEF IntegrationInvariant, Fresh, Holds, None
  <1> HIDE DEF new, i
  <1>4. /\ runs' \in Seq(Nat) /\ Len(runs') = Len(runs) /\ DOMAIN runs' = DOMAIN runs
        /\ \A j \in DOMAIN runs : runs'[j] = IF j = i THEN new ELSE runs[j]
    BY <1>1, <1>2, <1>3
  <1>5. ToSet(runs') \subseteq ToSet(runs) \cup {new}
    BY <1>4 DEF ToSet
  <1>6. IsInjective(runs')
    <2>1. \A j \in DOMAIN runs : runs[j] # new
      BY <1>3 DEF ToSet
    <2> QED BY <1>2, <1>4, <2>1 DEF IsList, IsInjective
  <1>7. IsList(runs')
    BY <1>2, <1>3, <1>5, <1>6 DEF IsList
  <1> QED BY <1>1, <1>2, <1>3, <1>4, <1>5, <1>7, ListStep DEF new

LEMMA RebindStep ==
    ASSUME IntegrationInvariant, NEW t \in Threads, Rebind(t)
    PROVE  IntegrationInvariant'
  <1>1. /\ threads' = [threads EXCEPT ![t] = Idle] /\ runs' = threads[t].kept
        /\ UNCHANGED <<family, objs, requests>>
        /\ keys' \subseteq keys
        /\ threads[t].pc = "deleting"
    BY DEF Rebind, At, Answer
  <1>2. runs' \in Seq(Nat) /\ IsList(runs') /\ keys' \in SUBSET Numbers
    BY <1>1 DEF IntegrationInvariant, Typed, Lists, Requests
  <1> QED BY <1>1, <1>2, ListStep

-----------------------------------------------------------------------------
(* Steps that leave heap and list alone *)

LEMMA AnswerStep ==
    ASSUME IntegrationInvariant, NEW t \in Threads, Answer(t),
           UNCHANGED <<family, objs, runs, keys, requests>>
    PROVE  IntegrationInvariant'
  <1>1. threads' = [threads EXCEPT ![t] = Idle]
    BY DEF Answer
  <1> QED BY <1>1, IdleMeaning, QuietStep

LEMMA LocateStep ==
    ASSUME IntegrationInvariant, NEW t \in Threads, Locate(t)
    PROVE  IntegrationInvariant'
  <1> DEFINE I == {j \in 1..Len(runs) : runs[j] = threads[t].run}
             i == IF I # {} THEN Min(I) ELSE 0
  <1>1. i \in Nat
    <2>1. I \in SUBSET Nat
      OBVIOUS
    <2>2. I # {} => Min(I) \in I
      BY <2>1, MinIsElement, Zenon
    <2> QED BY <2>2
  <1>2. /\ IF i = 0 THEN Answer(t)
           ELSE threads' = [threads EXCEPT ![t].index = i, ![t].pc = "replacing"]
        /\ threads[t].pc = "storing" /\ threads[t].op = "update"
        /\ UNCHANGED <<family, objs, runs, keys, requests>>
    BY DEF Locate, SelectInSeq, At
  <1> HIDE DEF i
  <1>3. CASE i = 0
    BY <1>2, <1>3, AnswerStep
  <1>4. CASE i # 0
    <2> DEFINE th == [threads[t] EXCEPT !.index = i, !.pc = "replacing"]
    <2>1. threads[t] \in Requests /\ threads \in [Threads -> Requests] /\ Holds(threads[t])
      BY DEF IntegrationInvariant, Typed
    <2>2. threads' = [threads EXCEPT ![t] = th]
      BY <1>2, <1>4, <2>1
    <2>3. /\ th \in Requests /\ th.pc = "replacing" /\ th.op = "update" /\ th.new = threads[t].new
          /\ th.run = threads[t].run /\ th.kept = threads[t].kept
      BY <1>1, <1>2, <2>1 DEF Requests, Places
    <2> HIDE DEF th
    <2>4. Holds(th) /\ SummarySound(th) /\ Listing(t)
      BY <1>2, <2>1, <2>3 DEF Holds, SummarySound, Listing
    <2> QED BY <1>2, <2>2, <2>3, <2>4, QuietStep
  <1> QED BY <1>3, <1>4

LEMMA QuietSteps ==
    ASSUME IntegrationInvariant, NEW t \in Threads, RequestFails(t) \/ TestRaises(t)
    PROVE  IntegrationInvariant'
  BY AnswerStep DEF RequestFails, TestRaises

\* What a request that is past its choice holds.
LEMMA RunHeld ==
    ASSUME IntegrationInvariant, NEW t \in Threads,
           threads[t].pc \in {"testing", "applying", "summing", "storing_runtime",
                             "storing_reliability"}
    PROVE  /\ threads \in [Threads -> Requests] /\ threads[t] \in Requests
           /\ Holds(threads[t]) /\ threads[t].op # "expand"
           /\ threads[t].run \in 1..Len(objs) /\ threads[t].run \in Nat /\ Len(objs) \in Nat
           /\ objs[threads[t].run] \in Objects /\ ObjectSound(threads[t].run)
           /\ objs \in Seq(Objects)
  <1>1. /\ threads \in [Threads -> Requests] /\ threads[t] \in Requests
        /\ objs \in Seq(Objects) /\ Len(objs) \in Nat
        /\ Holds(threads[t])
    BY DEF IntegrationInvariant, Typed
  <1>2. threads[t].run \in 1..Len(objs) /\ threads[t].op # "expand"
    BY <1>1 DEF Holds, None
  <1> QED BY <1>1, <1>2 DEF IntegrationInvariant

LEMMA ComputeRuntimeStep ==
    ASSUME IntegrationInvariant, NEW t \in Threads, ComputeRuntime(t)
    PROVE  IntegrationInvariant'
  <1> DEFINE run == objs[threads[t].run]
             summary == RuntimeSummary(run)
             th == [threads[t] EXCEPT !.runtime = summary, !.pc = "storing_runtime"]
  <1>1. /\ threads[t].pc = "summing"
        /\ threads' = [threads EXCEPT ![t].runtime = summary, ![t].pc = "storing_runtime"]
        /\ UNCHANGED <<family, objs, runs, keys, requests>>
    BY DEF ComputeRuntime, At
  <1>2. /\ threads \in [Threads -> Requests] /\ threads[t] \in Requests /\ Holds(threads[t])
        /\ run \in Objects /\ ObjectSound(threads[t].run) /\ threads[t].op # "expand"
    BY <1>1, RunHeld
  <1>3. family = "terminal" /\ run.kind \in TerminalKinds /\ run.test.status \in Verdicts
    BY <1>1, <1>2 DEF Holds, ObjectSound, Kinds, Objects, Results
  <1>4. /\ summary \in RuntimeSummaries /\ summary.status \in Summaries
        /\ summary.status = "healthy" => Passed(threads[t].run)
    <2>1. summary.status = "healthy" => run.kind = "complete" /\ run.test.status = "ok"
      BY <1>3, RuntimeMeaning
    <2> QED BY <1>2, <1>3, <2>1, RuntimeMeaning DEF Passed, ObjectSound
  <1> HIDE DEF summary
  <1>5. threads' = [threads EXCEPT ![t] = th]
    BY <1>1, <1>2
  <1>6. /\ th \in Requests /\ th.pc = "storing_runtime" /\ th.runtime = summary
        /\ th.op = threads[t].op /\ th.run = threads[t].run /\ th.new = threads[t].new
        /\ th.kept = threads[t].kept
    BY <1>2, <1>4 DEF Requests, Places
  <1> HIDE DEF th
  <1>7. Holds(th) /\ SummarySound(th)
    BY <1>1, <1>2, <1>3, <1>4, <1>6 DEF Holds, SummarySound
  <1> QED BY <1>1, <1>2, <1>5, <1>6, <1>7, QuietStep

-----------------------------------------------------------------------------
(* Steps that store what they found in the run *)

LEMMA TestSourceStep ==
    ASSUME IntegrationInvariant, NEW t \in Threads, TestSource(t)
    PROVE  IntegrationInvariant'
  <1>0. PICK o \in Nat : o = threads[t].run
    BY RunHeld DEF TestSource, At
  <1>1. PICK live \in LiveResults(threads[t].keyed) :
            objs' = [objs EXCEPT ![o].test =
                       [of |-> o, live |-> live,
                        status |-> IF live = "failed" THEN "warning" ELSE "ok"]]
    BY <1>0 DEF TestSource
  <1> DEFINE result == [of |-> o, live |-> live,
                        status |-> IF live = "failed" THEN "warning" ELSE "ok"]
             x == [objs[o] EXCEPT !.test = result]
  <1>2. /\ threads[t].pc = "testing" /\ family = "data_source"
        /\ threads' = [threads EXCEPT ![t] = Idle] /\ UNCHANGED <<family, runs, keys, requests>>
    BY DEF TestSource, At, Answer
  <1>3. /\ o \in 1..Len(objs) /\ o \in Nat /\ objs[o] \in Objects /\ ObjectSound(o)
        /\ objs \in Seq(Objects)
    BY <1>0, <1>2, RunHeld
  <1>4. /\ result \in Results /\ result.of = o
        /\ result.status \in {"ok", "warning"}
        /\ result.status = "ok" => result.live \in {"ok", "skipped"}
    BY <1>3 DEF LiveResults, Results, Verdicts
  <1> HIDE DEF result
  <1>5. /\ x \in Objects /\ x.test = result
        /\ x.kind = objs[o].kind /\ x.apply = objs[o].apply /\ x.reliability = objs[o].reliability
    BY <1>3, <1>4 DEF Objects
  <1>6. objs' = [objs EXCEPT ![o] = x] /\ objs'[o] = x
    BY <1>1, <1>3 DEF result
  <1> HIDE DEF x
  <1>7. ObjectSound(o)'
    BY <1>2, <1>3, <1>4, <1>5, <1>6 DEF ObjectSound, Kinds
  <1>8. Passed(o) => Passed(o)'
    BY <1>2, <1>3 DEF Passed, ObjectSound, Kinds, SourceKinds
  <1> QED BY <1>2, <1>3, <1>5, <1>6, <1>7, <1>8, IdleMeaning, HeapStep

\* A request goes on with the runtime summary of its terminal.
LEMMA GoSumming ==
    ASSUME IntegrationInvariant, NEW t \in Threads, family = "terminal", UNCHANGED family,
           threads[t].pc \in {"testing", "applying"},
           Len(objs') = Len(objs)
    PROVE  \E th \in Requests :
               /\ th = [threads[t] EXCEPT !.pc = "summing"]
               /\ th.pc = "summing" /\ th.op # "expand" /\ th.kept = threads[t].kept
               /\ Holds(th) /\ SummarySound(th)'
  <1>1. /\ threads[t] \in Requests /\ Holds(threads[t]) /\ threads[t].op # "expand"
    BY RunHeld
  <1>2. PICK th \in Requests : th = [threads[t] EXCEPT !.pc = "summing"]
    BY <1>1 DEF Requests, Places
  <1>3. /\ th.pc = "summing" /\ th.op = threads[t].op
        /\ th.run = threads[t].run /\ th.new = threads[t].new /\ th.kept = threads[t].kept
    BY <1>1, <1>2 DEF Requests
  <1>4. Holds(th) /\ SummarySound(th)'
    BY <1>1, <1>3 DEF Holds, SummarySound
  <1> QED BY <1>1, <1>2, <1>3, <1>4

LEMMA TestTerminalStep ==
    ASSUME IntegrationInvariant, NEW t \in Threads, TestTerminal(t)
    PROVE  IntegrationInvariant'
  <1>0. PICK o \in Nat : o = threads[t].run
    BY RunHeld DEF TestTerminal, At
  <1> DEFINE result == [of |-> o, status |-> SmokeVerdict(objs[o].kind), live |-> "not_run"]
             x == [objs[o] EXCEPT !.test = result]
  <1>1. /\ threads[t].pc = "testing" /\ family = "terminal"
        /\ threads' = [threads EXCEPT ![t].pc = "summing"]
        /\ objs' = [objs EXCEPT ![o].test = result]
        /\ UNCHANGED <<family, runs, keys, requests>>
    BY <1>0 DEF TestTerminal, At, Go
  <1>2. /\ o \in 1..Len(objs) /\ o \in Nat /\ objs[o] \in Objects /\ ObjectSound(o)
        /\ objs \in Seq(Objects) /\ threads \in [Threads -> Requests]
    BY <1>0, <1>1, RunHeld
  <1>3. /\ result \in Results /\ result.of = o /\ result.status = SmokeVerdict(objs[o].kind)
        /\ objs[o].kind = "complete" => result.status = "ok"
        /\ result.status # "not_tested"
    BY <1>2 DEF SmokeVerdict, Results, Verdicts
  <1> HIDE DEF result
  <1>5. /\ x \in Objects /\ x.test = result
        /\ x.kind = objs[o].kind /\ x.apply = objs[o].apply
        /\ x.runtime = objs[o].runtime /\ x.reliability = objs[o].reliability
    BY <1>2, <1>3 DEF Objects
  <1>6. objs' = [objs EXCEPT ![o] = x] /\ objs'[o] = x /\ Len(objs') = Len(objs)
    BY <1>1, <1>2
  <1> HIDE DEF x
  <1>7. Passed(o) => Passed(o)'
    BY <1>3, <1>5, <1>6 DEF Passed
  <1>8. ObjectSound(o)'
    BY <1>1, <1>2, <1>3, <1>5, <1>6, <1>7 DEF ObjectSound, Kinds
  <1>9. PICK th \in Requests :
            /\ th = [threads[t] EXCEPT !.pc = "summing"]
            /\ th.pc = "summing" /\ th.op # "expand" /\ th.kept = threads[t].kept
            /\ Holds(th) /\ SummarySound(th)'
    BY <1>1, <1>6, GoSumming
  <1>10. threads' = [threads EXCEPT ![t] = th]
    BY <1>1, <1>2, <1>9
  <1> QED BY <1>1, <1>2, <1>10, <1>5, <1>6, <1>7, <1>8, <1>9, HeapStep

LEMMA StoreApplyStep ==
    ASSUME IntegrationInvariant, NEW t \in Threads, StoreApply(t)
    PROVE  IntegrationInvariant'
  <1>0. PICK o \in Nat : o = threads[t].run
    BY RunHeld DEF StoreApply, At
  <1> DEFINE x == [objs[o] EXCEPT !.apply = o]
  <1>1. /\ threads[t].pc = "applying"
        /\ objs' = [objs EXCEPT ![o].apply = o]
        /\ UNCHANGED <<family, runs, keys, requests>>
        /\ \/ family = "terminal" /\ threads' = [threads EXCEPT ![t].pc = "summing"]
           \/ family # "terminal" /\ threads' = [threads EXCEPT ![t] = Idle]
    BY <1>0 DEF StoreApply, At, Go, Answer
  <1>2. /\ o \in 1..Len(objs) /\ o \in Nat /\ objs[o] \in Objects /\ ObjectSound(o)
        /\ objs \in Seq(Objects) /\ threads \in [Threads -> Requests]
    BY <1>0, <1>1, RunHeld
  <1>3. /\ x \in Objects /\ x.apply = o /\ x.test = objs[o].test /\ x.kind = objs[o].kind
        /\ x.runtime = objs[o].runtime /\ x.reliability = objs[o].reliability
    BY <1>2 DEF Objects
  <1>4. objs' = [objs EXCEPT ![o] = x] /\ objs'[o] = x /\ Len(objs') = Len(objs)
    BY <1>1, <1>2
  <1> HIDE DEF x
  <1>5. ObjectSound(o)' /\ (Passed(o) => Passed(o)')
    BY <1>1, <1>2, <1>3, <1>4 DEF ObjectSound, Passed, Kinds
  <1>6. CASE family = "terminal"
    <2>1. PICK th \in Requests :
              /\ th = [threads[t] EXCEPT !.pc = "summing"]
              /\ th.pc = "summing" /\ th.op # "expand" /\ th.kept = threads[t].kept
              /\ Holds(th) /\ SummarySound(th)'
      BY <1>1, <1>4, <1>6, GoSumming
    <2>2. threads' = [threads EXCEPT ![t] = th]
      BY <1>1, <1>2, <1>6, <2>1
    <2> QED BY <1>1, <1>2, <1>3, <1>4, <1>5, <2>1, <2>2, HeapStep
  <1>7. CASE family # "terminal"
    BY <1>1, <1>2, <1>3, <1>4, <1>5, <1>7, IdleMeaning, HeapStep
  <1> QED BY <1>6, <1>7

LEMMA StoreRuntimeStep ==
    ASSUME IntegrationInvariant, NEW t \in Threads, StoreRuntime(t)
    PROVE  IntegrationInvariant'
  <1>0. PICK o \in Nat : o = threads[t].run
    BY RunHeld DEF StoreRuntime, At
  <1> DEFINE x == [objs[o] EXCEPT !.runtime = threads[t].runtime]
             summary == ReliabilitySummary(x)
  <1>1. /\ threads[t].pc = "storing_runtime"
        /\ objs' = [objs EXCEPT ![o] = x]
        /\ threads' = [threads EXCEPT ![t].reliability = summary, ![t].pc = "storing_reliability"]
        /\ UNCHANGED <<family, runs, keys, requests>>
    BY <1>0 DEF StoreRuntime, At
  <1>2. /\ o \in 1..Len(objs) /\ o \in Nat /\ objs[o] \in Objects /\ ObjectSound(o)
        /\ objs \in Seq(Objects) /\ threads \in [Threads -> Requests]
        /\ threads[t] \in Requests /\ Holds(threads[t]) /\ threads[t].op # "expand"
        /\ Len(objs) \in Nat
    BY <1>0, <1>1, RunHeld
  <1>3. /\ family = "terminal" /\ threads[t].runtime.status \in Summaries
        /\ threads[t].runtime.status = "healthy" => Passed(o)
    BY <1>0, <1>1, <1>2 DEF IntegrationInvariant, SummarySound, Holds
  <1>4. /\ x \in Objects /\ x.runtime = threads[t].runtime /\ x.test = objs[o].test
        /\ x.kind = objs[o].kind /\ x.apply = objs[o].apply /\ x.reliability = objs[o].reliability
    BY <1>2 DEF Objects, Requests
  <1>5. objs'[o] = x /\ Len(objs') = Len(objs)
    BY <1>1, <1>2
  <1> HIDE DEF x
  <1>6. Passed(o) <=> Passed(o)'
    BY <1>4, <1>5 DEF Passed
  <1>7. ObjectSound(o)'
    BY <1>1, <1>2, <1>3, <1>4, <1>5, <1>6 DEF ObjectSound, Kinds
  <1>8. x.kind \in TerminalKinds
    BY <1>2, <1>3, <1>4 DEF ObjectSound, Kinds
  <1>9. summary \in Summaries /\ (summary = "healthy" => Passed(o))
    BY <1>2, <1>4, <1>8, ReliabilityMeaning DEF Passed, ObjectSound
  <1> HIDE DEF summary
  <1>10. PICK th \in Requests :
            th = [threads[t] EXCEPT !.reliability = summary, !.pc = "storing_reliability"]
    BY <1>2, <1>9 DEF Requests, Places, Reliabilities
  <1>11. /\ threads' = [threads EXCEPT ![t] = th]
         /\ th.pc = "storing_reliability" /\ th.op = threads[t].op
         /\ th.run = o /\ th.new = threads[t].new /\ th.kept = threads[t].kept
         /\ th.reliability = summary
    BY <1>0, <1>1, <1>2, <1>10 DEF Requests
  <1>12. Holds(th)
    BY <1>0, <1>1, <1>2, <1>3, <1>11 DEF Holds
  <1>13. SummarySound(th)'
    BY <1>6, <1>9, <1>11 DEF SummarySound
  <1> QED BY <1>1, <1>2, <1>10, <1>4, <1>6, <1>7, <1>11, <1>12, <1>13, HeapStep

LEMMA StoreReliabilityStep ==
    ASSUME IntegrationInvariant, NEW t \in Threads, StoreReliability(t)
    PROVE  IntegrationInvariant'
  <1>0. PICK o \in Nat : o = threads[t].run
    BY RunHeld DEF StoreReliability, At
  <1> DEFINE x == [objs[o] EXCEPT !.reliability = threads[t].reliability]
  <1>1. /\ threads[t].pc = "storing_reliability"
        /\ objs' = [objs EXCEPT ![o].reliability = threads[t].reliability]
        /\ threads' = [threads EXCEPT ![t] = Idle]
        /\ UNCHANGED <<family, runs, keys, requests>>
    BY <1>0 DEF StoreReliability, At, Answer
  <1>2. /\ o \in 1..Len(objs) /\ o \in Nat /\ objs[o] \in Objects /\ ObjectSound(o)
        /\ objs \in Seq(Objects) /\ threads[t] \in Requests /\ Holds(threads[t])
    BY <1>0, <1>1, RunHeld
  <1>3. /\ family = "terminal" /\ threads[t].reliability \in Summaries
        /\ threads[t].reliability = "healthy" => Passed(o)
    BY <1>0, <1>1, <1>2 DEF IntegrationInvariant, SummarySound, Holds
  <1>4. /\ x \in Objects /\ x.reliability = threads[t].reliability /\ x.test = objs[o].test
        /\ x.kind = objs[o].kind /\ x.apply = objs[o].apply /\ x.runtime = objs[o].runtime
    BY <1>2 DEF Objects, Requests
  <1>5. objs' = [objs EXCEPT ![o] = x] /\ objs'[o] = x
    BY <1>1, <1>2
  <1> HIDE DEF x
  <1>6. Passed(o) <=> Passed(o)'
    BY <1>4, <1>5 DEF Passed
  <1>7. ObjectSound(o)'
    BY <1>1, <1>2, <1>3, <1>4, <1>5, <1>6 DEF ObjectSound, Kinds
  <1> QED BY <1>1, <1>2, <1>4, <1>5, <1>6, <1>7, IdleMeaning, HeapStep

-----------------------------------------------------------------------------
(* A new dictionary *)

\* The number of a new run is one there is room for.
LEMMA NameIsNumber ==
    ASSUME IntegrationInvariant, NEW t \in Threads, threads[t].pc = "analysing"
    PROVE  IF threads[t].op = "expand" THEN Len(runs) + 1 \in Numbers
           ELSE objs[threads[t].run].name \in Numbers
  <1>1. Holds(threads[t]) /\ Len(objs) \in Nat /\ objs \in Seq(Objects)
    BY DEF IntegrationInvariant, Typed
  <1>2. CASE threads[t].op = "expand"
    <2>1. t \in Expanding /\ IsFiniteSet(Expanding) /\ Room(runs)
      BY <1>2 DEF Expanding, IntegrationInvariant, Numbered
    <2>2. Cardinality(Expanding) \in Nat /\ Cardinality(Expanding) # 0
      BY <2>1, FS_CardinalityType, FS_EmptySet
    <2>3. Len(runs) \in Nat /\ requests \in 0..MaxRequests /\ MaxRequests \in Nat
      BY IntegrationAssumption DEF IntegrationInvariant, Typed
    <2>4. Len(runs) + 1 <= MaxRequests
      BY <2>1, <2>2, <2>3 DEF Room
    <2> QED BY <1>2, <2>3, <2>4 DEF Numbers
  <1>3. CASE threads[t].op # "expand"
    <2>1. threads[t].run \in 1..Len(objs)
      BY <1>1, <1>3 DEF Holds, None, IntegrationInvariant
    <2>2. objs[threads[t].run] \in Objects
      BY <1>1, <2>1
    <2>3. objs[threads[t].run].name \in Numbers
      BY <2>2 DEF Objects
    <2> QED BY <1>3, <2>3
  <1> QED BY <1>2, <1>3

LEMMA BuildStep ==
    ASSUME IntegrationInvariant, NEW t \in Threads, Build(t)
    PROVE  IntegrationInvariant'
  <1>1. PICK name \in Numbers :
            /\ \E kind \in Kinds : objs' = Append(objs, Package(name, kind))
            /\ keys' \subseteq keys \cup {name}
    <2> DEFINE name == IF threads[t].op = "expand" THEN Len(runs) + 1 ELSE objs[threads[t].run].name
    <2>1. name \in Numbers
      BY NameIsNumber DEF Build, At
    <2>2. \E kind \in Kinds : objs' = Append(objs, Package(name, kind))
      BY Zenon DEF Build
    <2>3. UNCHANGED keys \/ keys' = keys \cup {name}
      BY Zenon DEF Build
    <2> HIDE DEF name
    <2> QED BY <2>1, <2>2, <2>3
  <1>2. PICK kind \in Kinds : objs' = Append(objs, Package(name, kind))
    BY <1>1
  <1>3. PICK new \in Nat : new = Len(objs) + 1
    BY DEF IntegrationInvariant, Typed
  <1>4. /\ threads[t].pc = "analysing"
        /\ threads' = [threads EXCEPT ![t].new = new, ![t].pc = "storing"]
        /\ UNCHANGED <<family, runs, requests>>
    BY <1>3 DEF Build, At
  <1>5. /\ threads \in [Threads -> Requests] /\ threads[t] \in Requests
        /\ objs \in Seq(Objects) /\ Len(objs) \in Nat /\ family \in Families
        /\ Holds(threads[t])
    BY DEF IntegrationInvariant, Typed
  <1>6. PICK th \in Requests : th = [threads[t] EXCEPT !.new = new, !.pc = "storing"]
    BY <1>5 DEF Requests, Places
  <1>7. /\ th.pc = "storing" /\ th.new = new /\ th.run = threads[t].run
        /\ th.op = threads[t].op /\ th.kept = threads[t].kept
        /\ threads' = [threads EXCEPT ![t] = th]
    BY <1>4, <1>5, <1>6 DEF Requests
  <1>8. threads'[t] = th /\ \A u \in Threads : u # t => threads'[u] = threads[u]
    BY <1>5, <1>7
  <1>9. PICK package \in Objects :
            /\ package = Package(name, kind)
            /\ package.kind = kind /\ package.test = NotTested /\ package.apply = None
            /\ family = "terminal" => /\ package.runtime.status = "fragile"
                                      /\ package.reliability = "fragile"
            /\ family = "data_source" => package.reliability = "none"
    BY <1>5, PackageMeaning
  <1>10. /\ objs' \in Seq(Objects) /\ Len(objs') = new /\ objs'[new] = package
         /\ \A o \in 1..Len(objs) : objs'[o] = objs[o]
    BY <1>2, <1>3, <1>5, <1>9
  <1>11. Typed'
    BY <1>1, <1>4, <1>5, <1>7, <1>10 DEF IntegrationInvariant, Typed
  <1>12. ASSUME NEW list, IsList(list) PROVE IsList(list)' /\ new \notin ToSet(list)
    BY <1>3, <1>5, <1>10, <1>12 DEF IsList
  <1>13. /\ IsList(runs) /\ \A u \in Threads : IsList(threads[u].kept)
         /\ \A u \in Threads : threads'[u].kept = threads[u].kept
    BY <1>7, <1>8 DEF IntegrationInvariant, Lists
  <1>14. Lists'
    <2>1. IsList(runs)'
      BY <1>3, <1>4, <1>5, <1>10, <1>13 DEF IsList
    <2>2. \A u \in Threads : IsList(threads[u].kept)'
      BY <1>3, <1>5, <1>10, <1>13 DEF IsList
    <2> QED BY <2>1, <2>2 DEF Lists
  <1>15. ASSUME NEW o \in 1..Len(objs) PROVE ObjectSound(o)' /\ (Passed(o) => Passed(o)')
    <2>1. objs'[o] = objs[o] /\ ObjectSound(o)
      BY <1>10 DEF IntegrationInvariant
    <2> QED BY <1>4, <2>1 DEF ObjectSound, Passed, Kinds
  <1>16. ASSUME NEW u \in Threads PROVE Holds(threads[u])' /\ SummarySound(threads[u])'
    <2>1. CASE u = t
      BY <1>3, <1>4, <1>5, <1>7, <1>8, <1>10, <2>1 DEF Holds, SummarySound, None
    <2>2. CASE u # t
      <3>1. threads'[u] = threads[u] /\ Holds(threads[u]) /\ SummarySound(threads[u])
        BY <1>8, <2>2 DEF IntegrationInvariant
      <3>2. Holds(threads[u])'
        <4>1. {threads[u].run, threads[u].new} \subseteq 0..new
          BY <1>3, <1>5, <3>1 DEF Holds
        <4> QED BY <1>4, <1>10, <3>1, <4>1 DEF Holds
      <3>3. threads[u].pc \in {"storing_runtime", "storing_reliability"} =>
                threads[u].run \in 1..Len(objs)
        BY <1>5, <3>1 DEF Holds, None, IntegrationInvariant
      <3> QED BY <1>15, <3>1, <3>2, <3>3 DEF SummarySound
    <2> QED BY <2>1, <2>2
  <1>17. Fresh'
    <2>1. \A u \in Threads : Listing(u)' /\ u # t => Listing(u) /\ threads'[u].new = threads[u].new
      BY <1>8 DEF Listing
    <2>2. \A u \in Threads : Listing(u) => threads[u].new # new
      BY <1>3, <1>5 DEF Listing, IntegrationInvariant, Holds
    <2>3. new \notin ToSet(runs) /\ \A u \in Threads : new \notin ToSet(threads[u].kept)
      BY <1>12, <1>13
    <2> SUFFICES ASSUME NEW u \in Threads, Listing(u)'
                 PROVE  /\ threads'[u].new \notin ToSet(runs')
                        /\ \A v \in Threads :
                               /\ threads'[u].new \notin ToSet(threads'[v].kept)
                               /\ Listing(v)' /\ v # u => threads'[v].new # threads'[u].new
      BY DEF Fresh
    <2>4. CASE u = t
      BY <1>4, <1>7, <1>8, <1>13, <2>1, <2>2, <2>3, <2>4
    <2>5. CASE u # t
      <3>1. Listing(u) /\ threads'[u].new = threads[u].new /\ threads[u].new # new
        BY <2>1, <2>2, <2>5
      <3>2. \A v \in Threads : Listing(v)' /\ v # u => threads'[v].new # threads'[u].new
        BY <1>7, <1>8, <2>1, <3>1 DEF IntegrationInvariant, Fresh
      <3> QED BY <1>4, <1>13, <3>1, <3>2 DEF IntegrationInvariant, Fresh
    <2> QED BY <2>4, <2>5
  <1>18. Numbered'
    <2>1. Expanding' = Expanding
      BY <1>7, <1>8 DEF Expanding
    <2>2. \A u \in Threads : threads'[u].pc = "deleting" => threads[u].pc = "deleting"
      BY <1>7, <1>8
    <2> QED BY <1>4, <1>13, <2>1, <2>2 DEF IntegrationInvariant, Numbered, Room
  <1>19. ASSUME NEW o \in 1..Len(objs') PROVE ObjectSound(o)'
    <2>1. CASE o \in 1..Len(objs)
      BY <1>15, <2>1
    <2>2. CASE o = new
      BY <1>4, <1>9, <1>10, <2>2
         DEF ObjectSound, Kinds, NotTested, Summaries
    <2> QED BY <1>3, <1>5, <1>10, <2>1, <2>2
  <1> QED BY <1>11, <1>14, <1>16, <1>17, <1>18, <1>19 DEF IntegrationInvariant

LEMMA StepStep ==
    ASSUME IntegrationInvariant, NEW t \in Threads, Step(t)
    PROVE  IntegrationInvariant'
  BY BuildStep, QuietSteps, StoreNewStep, LocateStep, ReplaceStep, RebindStep, TestSourceStep,
     TestTerminalStep, StoreApplyStep, ComputeRuntimeStep, StoreRuntimeStep, StoreReliabilityStep
     DEF Step

\* A restart leaves the heap and the list, and no request.
LEMMA RestartStep ==
    ASSUME IntegrationInvariant, Restart
    PROVE  IntegrationInvariant'
  <1>1. /\ keys' = {} /\ threads' = [t \in Threads |-> Idle]
        /\ UNCHANGED <<family, objs, runs, requests>>
    BY DEF Restart
  <1>2. Typed'
    BY <1>1, RequestTypes DEF IntegrationInvariant, Typed
  <1>3. Lists' /\ Fresh'
    <2>1. IsList(runs)' /\ IsList(Idle.kept)'
      BY <1>1, EmptyList, IdleMeaning DEF IntegrationInvariant, Lists, IsList
    <2>2. \A u \in Threads : ~ Listing(u)' /\ threads'[u] = Idle
      BY <1>1, IdleMeaning DEF Listing
    <2> QED BY <1>1, <2>1, <2>2 DEF Lists, Fresh, IsList
  <1>4. ASSUME NEW u \in Threads PROVE Holds(threads[u])' /\ SummarySound(threads[u])'
    <2>1. threads'[u] = Idle
      BY <1>1
    <2> QED BY <1>1, <2>1, IdleMeaning DEF Holds, SummarySound
  <1>5. Numbered'
    <2>1. Expanding' = {} /\ \A u \in Threads : threads'[u].pc # "deleting"
      BY <1>1, IdleMeaning DEF Expanding
    <2>2. IsFiniteSet({}) /\ Cardinality({}) = 0
      BY FS_EmptySet
    <2>3. Len(runs) \in Nat /\ requests \in Nat /\ Room(runs) /\ Cardinality(Expanding) \in Nat
      BY FS_CardinalityType DEF IntegrationInvariant, Typed, Numbered
    <2> QED BY <1>1, <2>1, <2>2, <2>3 DEF Numbered, Room
  <1>6. \A o \in 1..Len(objs') : ObjectSound(o)'
    BY <1>1, HeapFrame DEF IntegrationInvariant
  <1> QED BY <1>2, <1>3, <1>4, <1>5, <1>6 DEF IntegrationInvariant

-----------------------------------------------------------------------------
(* The theorems *)

LEMMA InitRuns == Init => IntegrationInvariant
  <1> SUFFICES ASSUME Init PROVE IntegrationInvariant
    OBVIOUS
  <1>1. /\ family \in Families /\ objs = << >> /\ runs = << >> /\ keys = {}
        /\ threads = [t \in Threads |-> Idle] /\ requests = 0
    BY DEF Init
  <1>2. Typed
    BY <1>1, RequestTypes, IntegrationAssumption DEF Typed
  <1>3. \A t \in Threads : threads[t] = Idle
    BY <1>1
  <1>4. /\ Idle.pc = "idle" /\ Idle.op = "none" /\ Idle.kept = << >>
        /\ Idle.run = None /\ Idle.new = None
    BY DEF Idle
  <1>5. Lists /\ Fresh
    BY <1>1, <1>3, <1>4, EmptyList DEF Lists, IsList, Fresh, Listing
  <1>6. \A t \in Threads : Holds(threads[t]) /\ SummarySound(threads[t])
    BY <1>1, <1>3, <1>4 DEF Holds, SummarySound, None
  <1>7. Numbered
    <2>1. Expanding = {} /\ \A t \in Threads : threads[t].pc # "deleting"
      BY <1>3, <1>4 DEF Expanding
    <2>2. IsFiniteSet({}) /\ Cardinality({}) = 0
      BY FS_EmptySet
    <2> QED BY <1>1, <2>1, <2>2 DEF Numbered, Room
  <1>8. \A o \in 1..Len(objs) : ObjectSound(o)
    BY <1>1
  <1> QED BY <1>2, <1>5, <1>6, <1>7, <1>8 DEF IntegrationInvariant

LEMMA NextRuns == IntegrationInvariant /\ [Next]_vars => IntegrationInvariant'
  <1> SUFFICES ASSUME IntegrationInvariant, [Next]_vars PROVE IntegrationInvariant'
    OBVIOUS
  <1>1. CASE Next
    BY <1>1, StartStep, StepStep, RestartStep DEF Next
  <1>2. CASE UNCHANGED vars
    BY <1>2 DEF vars, IntegrationInvariant, Typed, Lists, IsList, Holds, SummarySound, Passed,
                Fresh, Listing, Numbered, Room, Expanding, ObjectSound, Kinds
  <1> QED BY <1>1, <1>2

\* The inductive invariant of the integration runs: lists hold runs that exist, each
\* once, a number is left for every expansion, results are of the code of their run, and
\* a healthy summary, stored or on its way, is of a terminal that has passed.
THEOREM RunsStayDescribed == Spec => []IntegrationInvariant
  BY InitRuns, NextRuns, PTL DEF Spec

\* Every variable keeps its type, no run is numbered past the requests and none is
\* listed twice, whichever list a deletion puts in place under the other requests.
THEOREM RunsAreTyped == Spec => []TypeOK
  <1>1. IntegrationInvariant => TypeOK
    <2> SUFFICES ASSUME IntegrationInvariant PROVE TypeOK
      OBVIOUS
    <2>1. ASSUME NEW o \in DOMAIN objs
          PROVE  /\ objs[o].name \in Numbers
                 /\ objs[o].kind \in Kinds
                 /\ objs[o].test.status \in {"not_tested", "ok", "warning", "error"}
                 /\ family = "terminal" =>
                       {objs[o].runtime.status, objs[o].reliability} \subseteq Summaries
      <3>1. o \in 1..Len(objs) /\ objs[o] \in Objects
        BY DEF IntegrationInvariant, Typed
      <3> QED BY <3>1 DEF IntegrationInvariant, ObjectSound, Objects, Results, Verdicts
    <2>2. ToSet(runs) \subseteq DOMAIN objs /\ IsInjective(runs)
      BY DEF IntegrationInvariant, Typed, Lists, IsList
    <2>3. \A t \in Threads : {threads[t].run, threads[t].new} \subseteq 0..Len(objs)
      BY DEF IntegrationInvariant, Holds
    <2> QED BY <2>1, <2>2, <2>3 DEF IntegrationInvariant, Typed, TypeOK
  <1> QED BY <1>1, RunsStayDescribed, PTL

\* What is shown as tested or applied with a run is the code it carries, however
\* updates and deletions replace it meanwhile.
THEOREM ResultsAreOfTheRun == Spec => []ResultsDescribeTheRun
  <1>1. IntegrationInvariant => ResultsDescribeTheRun
    BY DEF IntegrationInvariant, Lists, IsList, ObjectSound, ResultsDescribeTheRun
  <1> QED BY <1>1, RunsStayDescribed, PTL

\* No terminal is reported healthy that did not pass the smoke test with its code, in
\* whatever order concurrent requests store its summaries.
THEOREM HealthyMeansPassed == Spec => []HealthyTerminalsPassed
  <1>1. IntegrationInvariant => HealthyTerminalsPassed
    <2> SUFFICES ASSUME IntegrationInvariant, NEW o \in ToSet(runs), objs[o].reliability = "healthy"
                 PROVE  Passed(o)
      BY DEF HealthyTerminalsPassed, Passed
    <2>1. ObjectSound(o) /\ family \in Families
      BY DEF IntegrationInvariant, Typed, Lists, IsList
    <2> QED BY <2>1 DEF ObjectSound, Families
  <1> QED BY <1>1, RunsStayDescribed, PTL

\* The health page calls the data sources sound only when every one has passed a test
\* of its own code without a failed fetch.
THEOREM SoundMeansTested == Spec => []SoundSourcesAreTested
  <1>1. IntegrationInvariant => SoundSourcesAreTested
    <2> SUFFICES ASSUME IntegrationInvariant, family = "data_source", OverallStatus("ok") = "ok",
                        NEW o \in ToSet(runs)
                 PROVE  objs[o].test.of = o /\ objs[o].test.live \in {"ok", "skipped"}
      BY DEF SoundSourcesAreTested
    <2>1. ObjectSound(o) /\ o \in 1..Len(objs)
      BY DEF IntegrationInvariant, Lists, IsList
    <2>2. RunStatus(o) \notin {"error", "warning", "generated_not_tested"}
      BY DEF OverallStatus
    <2>3. objs[o].test.status = "ok"
      BY <2>2 DEF RunStatus
    <2> QED BY <2>1, <2>3 DEF ObjectSound
  <1> QED BY <1>1, RunsStayDescribed, PTL

=============================================================================
