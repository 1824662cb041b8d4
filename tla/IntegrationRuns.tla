--------------------------- MODULE IntegrationRuns ---------------------------
(***************************************************************************)
(* The integration runs of a session (api/workflow_service.py): adapters   *)
(* that are generated from the documentation of a data source or of a      *)
(* trading terminal.  A run is created by expand, regenerated by update,   *)
(* removed by delete, tried by test and written into the repository by     *)
(* apply.  Requests are served by threads of one process, without locks:   *)
(* between its steps a request waits for a model, a provider, the          *)
(* programmer agent or the disk while the others go on.                    *)
(*                                                                         *)
(* A run is a dictionary: the lists of the session hold references to it,  *)
(* and a request that found a run keeps its reference whatever happens to  *)
(* the list.  objs is the heap of these dictionaries; the index of one in  *)
(* it also names the code it carries, which never changes.  Data sources   *)
(* and terminals have a list each and share nothing, so a behaviour        *)
(* follows one of the two families.                                        *)
(*                                                                         *)
(* The registry files that expand, apply and test write are read by nobody *)
(* and not kept here; that writing them fails is.  What the session store  *)
(* does with the lists is in SessionStore: a restart here finds them as    *)
(* they were.  What an apply does to the repository is in ProgrammerRuns.  *)
(***************************************************************************)
EXTENDS Integers, Sequences, SequencesExt

CONSTANTS Threads,             \* threads that serve requests
          EnvironmentHasKeys,  \* whether the key variables of the sources are set
          MaxRequests          \* bound: requests accepted

ASSUME IntegrationAssumption ==
    /\ Threads # {}
    /\ EnvironmentHasKeys \in BOOLEAN
    /\ MaxRequests \in Nat

VARIABLES
    family,     \* the family of runs this behaviour is about
    objs,       \* every run dictionary ever built
    runs,       \* data_source_runs or terminal_integration_runs: references to them
    keys,       \* data source runs, by number, whose key the process remembers
    threads,    \* the request each thread serves
    requests    \* requests accepted

vars == <<family, objs, runs, keys, threads, requests>>

-----------------------------------------------------------------------------
(* Runs *)

Families == {"data_source", "terminal"}
None == 0

\* A request makes one run at most.
Numbers == 1..MaxRequests

\* What the documentation of a data source can lead to: an adapter of the market
\* data category, of another category, or code that does not run.
SourceKinds == {"market_data", "other_category", "broken"}

\* What that of a terminal can lead to: everything present; no documentation at all,
\* the endpoints given by hand; an optional or a required capability without an
\* endpoint; all capabilities, but no base URL.
TerminalKinds == {"complete", "undocumented", "optional_gap", "required_gap", "unlinked"}

Kinds == IF family = "terminal" THEN TerminalKinds ELSE SourceKinds

\* A result names the code it is of.
NotTested == [of |-> None, status |-> "not_tested", live |-> "not_run"]
NoSummary == [status |-> "none", confidence |-> "none"]

\* integration_readiness_summary.status.
Readiness(kind) ==
    CASE kind \in {"required_gap", "unlinked"} -> "blocked"
      [] kind \in {"optional_gap", "undocumented"} -> "caution"
      [] kind = "complete" -> "ready"

\* The verdict of the terminal's smoke test, which runs the adapter against canned
\* answers: it depends on nothing but the package.
SmokeVerdict(kind) ==
    CASE kind = "required_gap" -> "error"
      [] kind = "optional_gap" -> "warning"
      [] OTHER -> "ok"

\* contract_confidence, the share of checks passed: 0 without checks, between 0.6 and
\* 0.95 when optional ones are missing.
Confidence(run) ==
    CASE run.test.status = "not_tested" -> "low"
      [] run.test.status = "ok" -> "full"
      [] OTHER -> "partial"

RuntimeSummary(run) ==
    LET confidence == Confidence(run)
        readiness == Readiness(run.kind)
        status ==
            CASE run.test.status = "ok" /\ readiness = "ready" /\ confidence = "full"
                    -> "healthy"
              [] readiness = "blocked" \/ run.test.status = "error" \/ confidence = "low"
                    -> "fragile"
              [] OTHER -> "warning"
    IN  [status |-> status, confidence |-> confidence]

\* Mutant: the reliability takes no notice of the test.
ReliabilityOfReadiness(run) ==
    IF Readiness(run.kind) = "ready" THEN "healthy" ELSE "fragile"

\* The confidence is that of the runtime summary, the rest is read from the run.
ReliabilitySummary(run) ==
    LET readiness == Readiness(run.kind)
        documented == run.kind # "undocumented"
    IN  CASE /\ readiness = "ready"
             /\ run.runtime.status = "healthy"
             /\ run.test.status = "ok"
             /\ documented
             /\ run.runtime.confidence = "full"
                -> "healthy"
          [] \/ readiness = "blocked"
             \/ run.runtime.status = "fragile"
             \/ run.test.status = "error"
             \/ ~documented
             \/ run.runtime.confidence = "low"
                -> "fragile"
          [] OTHER -> "warning"

\* Mutant: the package of a terminal is stored without its summaries.
BarePackage(name, kind) ==
    [name |-> name, kind |-> kind, test |-> NotTested, apply |-> None,
     runtime |-> NoSummary, reliability |-> "none"]

\* The package built for a run; apply is the code of its last apply.  The summaries
\* are those of terminals.
Package(name, kind) ==
    LET bare == [name |-> name, kind |-> kind, test |-> NotTested, apply |-> None,
                 runtime |-> NoSummary, reliability |-> "none"]
        summed == [bare EXCEPT !.runtime = RuntimeSummary(bare)]
    IN  IF family = "terminal"
        THEN [summed EXCEPT !.reliability = ReliabilitySummary(summed)]
        ELSE bare

\* The first run of the list with this number, None if there is none.
Find(name) ==
    LET i == SelectInSeq(runs, LAMBDA o : objs[o].name = name)
    IN  IF i = 0 THEN None ELSE runs[i]

\* The run that test and apply choose: the last one when the request names none.
Choose(name) ==
    IF name # None THEN Find(name)
    ELSE IF runs = << >> THEN None ELSE Last(runs)

\* A data source is tried with the key of the request, else the one the process
\* remembers for the number of the run, else one of the environment.
ResolvesKey(o) == objs[o].name \in keys \/ EnvironmentHasKeys

\* The method names the service looks for are those of the generated adapter in the
\* market data category only.
HasExpectedMethods(o) == objs[o].kind = "market_data"

-----------------------------------------------------------------------------
(* Requests.  One that is refused at once, for a run that is not there or for want of *)
(* documentation, changes nothing and is not a step.                                  *)

Idle == [pc |-> "idle", op |-> "none", run |-> None, new |-> None, index |-> 0,
         kept |-> << >>, keyed |-> FALSE, runtime |-> NoSummary, reliability |-> "none"]

Init ==
    /\ family \in Families
    /\ objs = << >>
    /\ runs = << >>
    /\ keys = {}
    /\ threads = [t \in Threads |-> Idle]
    /\ requests = 0

At(t, pc) == threads[t].pc = pc
Go(t, pc) == threads' = [threads EXCEPT ![t].pc = pc]
Answer(t) == threads' = [threads EXCEPT ![t] = Idle]

Request(op, o, pc) == [Idle EXCEPT !.op = op, !.run = o, !.pc = pc]

Accept(t, request) ==
    /\ At(t, "idle")
    /\ requests < MaxRequests
    /\ requests' = requests + 1
    /\ threads' = [threads EXCEPT ![t] = request]
    /\ UNCHANGED <<family, objs, runs, keys>>

\* expand has the documentation analysed, which falls back to rules but never fails.
Expand(t) == Accept(t, Request("expand", None, "analysing"))

\* update finds the run, then has the new documentation analysed.
Update(t, name) ==
    /\ Find(name) # None
    /\ Accept(t, Request("update", Find(name), "analysing"))

\* The list without the runs of this number.
Without(name) ==
    LET kept[i \in 0..Len(runs)] ==
            IF i = 0 THEN << >>
            ELSE IF objs[runs[i]].name = name THEN kept[i - 1]
            ELSE Append(kept[i - 1], runs[i])
    IN  kept[Len(runs)]

\* delete finds the run and computes the list without the runs of its number.
Delete(t, name) ==
    /\ Find(name) # None
    /\ Accept(t, [Request("delete", Find(name), "deleting") EXCEPT !.kept = Without(name)])

\* test resolves the key before it runs the adapter.
Test(t, name) ==
    LET o == Choose(name) IN
    /\ o # None
    /\ \/ Accept(t, [Request("test", o, "testing") EXCEPT
                       !.keyed = family = "data_source" /\ ResolvesKey(o)])
       \/ /\ family = "data_source"   \* the request brings a key
          /\ Accept(t, [Request("test", o, "testing") EXCEPT !.keyed = TRUE])

Apply(t, name) ==
    /\ Choose(name) # None
    /\ Accept(t, Request("apply", Choose(name), "applying"))

-----------------------------------------------------------------------------
(* Expand and update *)

\* Builds the package.  A new run is numbered after the length of the list, an updated
\* one keeps its number; the key of a data source, if one came with the request, is
\* remembered before anything is stored.  An update always has documentation.
Build(t) ==
    LET th == threads[t]
        name == IF th.op = "expand" THEN Len(runs) + 1 ELSE objs[th.run].name
    IN
    /\ At(t, "analysing")
    /\ \E kind \in Kinds :
          /\ th.op = "update" => kind # "undocumented"
          /\ objs' = Append(objs, Package(name, kind))
    /\ \/ UNCHANGED keys
       \/ family = "data_source" /\ keys' = keys \cup {name}
    /\ threads' = [threads EXCEPT ![t].new = Len(objs) + 1, ![t].pc = "storing"]
    /\ UNCHANGED <<family, runs, requests>>

\* A request fails before it has stored anything in a run.  An apply of either family
\* does when the programmer agent raises (a target it may not touch, aider running out of
\* time); any request about a data source does when its registry cannot be written:
\* expand and update before the run is listed, test and apply before the result is stored.
RequestFails(t) ==
    /\ \/ At(t, "applying")
       \/ family = "data_source" /\ At(t, "storing")
       \/ family = "data_source" /\ At(t, "testing") /\ HasExpectedMethods(threads[t].run)
    /\ Answer(t)
    /\ UNCHANGED <<family, objs, runs, keys, requests>>

StoreNew(t) ==
    /\ At(t, "storing")
    /\ threads[t].op = "expand"
    /\ runs' = Append(runs, threads[t].new)
    /\ Answer(t)
    /\ UNCHANGED <<family, objs, keys, requests>>

\* Mutant: an update whose run is gone waits for it.
LocateOrWait(t) ==
    LET i == SelectInSeq(runs, LAMBDA o : o = threads[t].run) IN
    /\ At(t, "storing")
    /\ threads[t].op = "update"
    /\ i # 0
    /\ threads' = [threads EXCEPT ![t].index = i, ![t].pc = "replacing"]
    /\ UNCHANGED <<family, objs, runs, keys, requests>>

\* update looks its run up again in the list as it now is; if the run was replaced or
\* deleted meanwhile, list.index raises.
Locate(t) ==
    LET i == SelectInSeq(runs, LAMBDA o : o = threads[t].run) IN
    /\ At(t, "storing")
    /\ threads[t].op = "update"
    /\ IF i = 0 THEN Answer(t)
       ELSE threads' = [threads EXCEPT ![t].index = i, ![t].pc = "replacing"]
    /\ UNCHANGED <<family, objs, runs, keys, requests>>

\* Mutant: an update keeps the results that were stored in the old dictionary.
ReplaceCode(t) ==
    LET i == threads[t].index IN
    /\ At(t, "replacing")
    /\ runs' = IF i \in DOMAIN runs THEN [runs EXCEPT ![i] = threads[t].new] ELSE runs
    /\ objs' = [objs EXCEPT ![threads[t].new].test = objs[threads[t].run].test]
    /\ Answer(t)
    /\ UNCHANGED <<family, keys, requests>>

\* The list may have been rebound since it was searched; then the index is another
\* run's, or out of range and the assignment raises.
Replace(t) ==
    LET i == threads[t].index IN
    /\ At(t, "replacing")
    /\ runs' = IF i \in DOMAIN runs THEN [runs EXCEPT ![i] = threads[t].new] ELSE runs
    /\ Answer(t)
    /\ UNCHANGED <<family, objs, keys, requests>>

-----------------------------------------------------------------------------
(* Delete *)

\* A run that was appended since the list was computed is lost.
Rebind(t) ==
    /\ At(t, "deleting")
    /\ runs' = threads[t].kept
    /\ keys' = IF family = "data_source" THEN keys \ {objs[threads[t].run].name} ELSE keys
    /\ Answer(t)
    /\ UNCHANGED <<family, objs, requests>>

-----------------------------------------------------------------------------
(* Test and apply: what they find out is stored in the run they were given. *)

\* Without a key the live fetch is skipped, and the test passes.  That the
\* configuration of the adapter is invalid, which the test checks too, cannot be: the
\* builder of the package always fills in a base URL and a specification.
LiveResults(keyed) == IF keyed THEN {"ok", "failed"} ELSE {"skipped"}

TestSource(t) ==
    LET th == threads[t] IN
    /\ At(t, "testing")
    /\ family = "data_source"
    /\ HasExpectedMethods(th.run)
    /\ \E live \in LiveResults(th.keyed) :
          objs' = [objs EXCEPT ![th.run].test =
                     [of |-> th.run, live |-> live,
                      status |-> IF live = "failed" THEN "warning" ELSE "ok"]]
    /\ Answer(t)
    /\ UNCHANGED <<family, runs, keys, requests>>

\* Code that does not run raises out of the test, an adapter without the expected
\* methods is refused; nothing is stored.
TestRaises(t) ==
    /\ At(t, "testing")
    /\ family = "data_source"
    /\ ~HasExpectedMethods(threads[t].run)
    /\ Answer(t)
    /\ UNCHANGED <<family, objs, runs, keys, requests>>

TestTerminal(t) ==
    LET o == threads[t].run IN
    /\ At(t, "testing")
    /\ family = "terminal"
    /\ objs' = [objs EXCEPT ![o].test = [of |-> o, status |-> SmokeVerdict(objs[o].kind),
                                         live |-> "not_run"]]
    /\ Go(t, "summing")
    /\ UNCHANGED <<family, runs, keys, requests>>

\* The programmer agent has reported success or failure, or a dry run was asked for.
StoreApply(t) ==
    /\ At(t, "applying")
    /\ objs' = [objs EXCEPT ![threads[t].run].apply = threads[t].run]
    /\ IF family = "terminal" THEN Go(t, "summing") ELSE Answer(t)
    /\ UNCHANGED <<family, runs, keys, requests>>

\* The summaries of a terminal are computed from its dictionary and then stored in it.
ComputeRuntime(t) ==
    /\ At(t, "summing")
    /\ threads' = [threads EXCEPT ![t].runtime = RuntimeSummary(objs[threads[t].run]),
                                  ![t].pc = "storing_runtime"]
    /\ UNCHANGED <<family, objs, runs, keys, requests>>

StoreRuntime(t) ==
    LET o == threads[t].run
        updated == [objs[o] EXCEPT !.runtime = threads[t].runtime]
    IN
    /\ At(t, "storing_runtime")
    /\ objs' = [objs EXCEPT ![o] = updated]
    /\ threads' = [threads EXCEPT ![t].reliability = ReliabilitySummary(updated),
                                  ![t].pc = "storing_reliability"]
    /\ UNCHANGED <<family, runs, keys, requests>>

StoreReliability(t) ==
    /\ At(t, "storing_reliability")
    /\ objs' = [objs EXCEPT ![threads[t].run].reliability = threads[t].reliability]
    /\ Answer(t)
    /\ UNCHANGED <<family, runs, keys, requests>>

-----------------------------------------------------------------------------
(* The process *)

\* The remembered keys and the requests in progress are gone.
Restart ==
    /\ keys' = {}
    /\ threads' = [t \in Threads |-> Idle]
    /\ UNCHANGED <<family, objs, runs, requests>>

Start(t) ==
    \/ Expand(t)
    \/ \E name \in Numbers : Update(t, name) \/ Delete(t, name)
    \/ \E name \in Numbers \cup {None} : Test(t, name) \/ Apply(t, name)

Step(t) ==
    \/ Build(t) \/ RequestFails(t) \/ StoreNew(t) \/ Locate(t) \/ Replace(t)
    \/ Rebind(t)
    \/ TestSource(t) \/ TestRaises(t) \/ TestTerminal(t) \/ StoreApply(t)
    \/ ComputeRuntime(t) \/ StoreRuntime(t) \/ StoreReliability(t)

Next ==
    \/ \E t \in Threads : Start(t) \/ Step(t)
    \/ Restart

Spec == Init /\ [][Next]_vars

\* Threads go on: the model, the providers and the coding tool are called with
\* timeouts, and everything else is local.
FairSpec == Spec /\ \A t \in Threads : WF_vars(Step(t))

-----------------------------------------------------------------------------
(* The health page of data sources *)

RunStatus(o) ==
    CASE objs[o].test.status = "ok" -> "healthy"
      [] objs[o].test.status = "warning" -> "warning"
      [] objs[o].test.status = "not_tested" /\ objs[o].kind # "broken"
            -> "generated_not_tested"
      [] OTHER -> "error"

\* Mutant: sources that were never tested do not count.
OverallOfTested(validation) ==
    LET statuses == {RunStatus(o) : o \in ToSet(runs)} IN
    CASE validation = "error" \/ "error" \in statuses -> "error"
      [] validation = "warning" \/ "warning" \in statuses -> "warning"
      [] OTHER -> "ok"

\* validation is what the validator says of the configured providers.
OverallStatus(validation) ==
    LET statuses == {RunStatus(o) : o \in ToSet(runs)} IN
    CASE validation = "error" \/ "error" \in statuses -> "error"
      [] validation = "warning" \/ statuses \cap {"warning", "generated_not_tested"} # {}
            -> "warning"
      [] OTHER -> "ok"

-----------------------------------------------------------------------------
(* Properties *)

Summaries == {"healthy", "warning", "fragile"}

\* Types.  No run is listed twice.
TypeOK ==
    /\ family \in Families
    /\ \A o \in DOMAIN objs :
          /\ objs[o].name \in Numbers
          /\ objs[o].kind \in Kinds
          /\ objs[o].test.status \in {"not_tested", "ok", "warning", "error"}
          /\ family = "terminal" =>
                {objs[o].runtime.status, objs[o].reliability} \subseteq Summaries
    /\ ToSet(runs) \subseteq DOMAIN objs
    /\ IsInjective(runs)
    /\ keys \subseteq Numbers
    /\ \A t \in Threads : {threads[t].run, threads[t].new} \subseteq 0..Len(objs)

\* The test and the apply shown with a run are of the code the run carries, although
\* an update or a deletion may replace the run while its old code is being tried or
\* written (update_data_source_expansion, test_data_source_expansion and their
\* counterparts).
ResultsDescribeTheRun ==
    \A o \in ToSet(runs) : {objs[o].test.of, objs[o].apply} \subseteq {None, o}

\* A terminal reported healthy has passed the smoke test with the code it carries, is
\* ready for automatic trading and documented, however the summaries of concurrent
\* tests and applies overwrite each other (_build_terminal_reliability_summary).
HealthyTerminalsPassed ==
    \A o \in ToSet(runs) :
        objs[o].reliability = "healthy" =>
            /\ objs[o].kind = "complete"
            /\ objs[o].test.status = "ok" /\ objs[o].test.of = o

\* The data sources are reported sound together only if each passed a test of the code
\* it carries and no live fetch of that test failed (data_source_health).
SoundSourcesAreTested ==
    family = "data_source" /\ OverallStatus("ok") = "ok" =>
        \A o \in ToSet(runs) : /\ objs[o].test.of = o
                               /\ objs[o].test.live \in {"ok", "skipped"}

\* A request to delete a run removes that run and no other: docs/ui-page-api-mapping.md
\* says that the named run is deleted.  It does not hold: a number may be given twice.
DeletesOnlyTheNamedRun == [][Len(runs') >= Len(runs) - 1]_vars

\* The test of a run that was declared ready for the programmer agent is not refused:
\* docs/ui-page-api-mapping.md says that a test validates the structure of the adapter
\* of the named run.  It does not hold.
ReadySourcesCanBeTested ==
    [][\A t \in Threads : TestRaises(t) => objs[threads[t].run].kind = "broken"]_vars

\* Every request is answered, or lost with the process.
RequestsEnd == \A t \in Threads : ~At(t, "idle") ~> At(t, "idle")

=============================================================================
