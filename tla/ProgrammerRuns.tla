--------------------------- MODULE ProgrammerRuns ---------------------------
(***************************************************************************)
(* Runs of the programmer agent (agents/programmer_agent.py): a run asks   *)
(* aider, a coding tool, to change some target files of the repository,    *)
(* looks at what git says has changed, commits it, has it validated, and   *)
(* tries again with what it learned, until it succeeds, stalls or runs out *)
(* of attempts.  The run then advises its user: promote, review, rethink   *)
(* or roll back, and to which commit.                                      *)
(*                                                                         *)
(* The repository is modelled by which files differ from the index, which  *)
(* from HEAD, and by the number of its commits.  What the files contain    *)
(* shows only in the verdict of the validator, which every call of aider   *)
(* may change.  Runs follow one another; nobody else touches the           *)
(* repository.                                                             *)
(***************************************************************************)
EXTENDS Integers, Sequences

CONSTANTS Targets,      \* files a run may be asked to change
          Others,       \* files outside the targets that are not protected
          Protected,    \* files under the protected paths
          Isolation,    \* programmer_agent_enforce_target_isolation (TRUE)
          MaxAttempts,  \* programmer_agent_retry_attempts (3), at least 1
          MaxCalls,     \* pairs of a model and a credential that aider can be given
          MaxRuns       \* bound: runs requested

ASSUME RunAssumption ==
    /\ Targets # {}
    /\ Targets \cap Others = {}
    /\ Protected \cap (Targets \cup Others) = {}
    /\ Isolation \in BOOLEAN
    /\ MaxAttempts \in Nat \ {0}
    /\ MaxCalls \in Nat \ {0}
    /\ MaxRuns \in Nat

Files == Targets \cup Others \cup Protected

VARIABLES
    agent,      \* whether the agent is enabled and aider is installed
    tracked,    \* files git knows
    unstaged,   \* files that differ from the index, the untracked ones included
    staged,     \* files of the index that differ from HEAD
    head,       \* commits made; HEAD is the last
    runs,       \* runs requested
    run,        \* the run in progress
    attempts,   \* the outcomes of its attempts so far
    advice      \* what the last run that ended told its user

vars == <<agent, tracked, unstaged, staged, head, runs, run, attempts, advice>>
repoVars == <<tracked, unstaged, staged, head>>

-----------------------------------------------------------------------------
(* Values *)

FailedValidation == {"compile_failure", "test_failure", "validation_failure"}

\* A failed validation comes with a detail.  That it may move while the type stays
\* is kept for one of the types.
Verdicts == [type : FailedValidation, detail : {"detail 1"}]
                \cup {[type |-> "test_failure", detail |-> "detail 2"],
                      [type |-> "none", detail |-> "passed"]}

FailureTypes == FailedValidation \cup
    {"none", "disabled", "misconfigured", "execution_failure", "scope_violation",
     "commit_failure"}

NoRun == [at |-> "idle", targets |-> {}, commit |-> FALSE, base |-> 0, before |-> 0,
          calls |-> 0, failed |-> FALSE, type |-> "none", hash |-> 0, changed |-> FALSE,
          intruded |-> FALSE]

NoAdvice == [stop |-> "none"]

-----------------------------------------------------------------------------
(* How the attempts are judged *)

Succeeded(a) == a.valid
Last(as) == as[Len(as)]
Previous(as) == as[Len(as) - 1]

\* The failure type shown for an attempt.
Shown(a) == IF a.type # "none" THEN a.type ELSE "success"

Severity(type) ==
    CASE type = "success" -> 0
      [] type \in {"validation_failure", "commit_failure"} -> 1
      [] type = "compile_failure" -> 3
      [] OTHER -> 2

\* _detect_no_progress
NoProgress(as) ==
    /\ Len(as) >= 2
    /\ "success" \notin {Shown(Previous(as)), Shown(Last(as))}
    /\ Previous(as).type = Last(as).type
    /\ Previous(as).detail = Last(as).detail

\* _assess_progress
Progress(as) ==
    LET latest == Shown(Last(as)) IN
    IF latest = "success" THEN "improving"
    ELSE IF Len(as) = 1 THEN "unknown"
    ELSE LET before == Shown(Previous(as)) IN
         CASE NoProgress(as) -> "stalled"
           [] ~NoProgress(as) /\ Severity(latest) < Severity(before) -> "improving"
           [] Severity(latest) > Severity(before) -> "regressing"
           [] ~NoProgress(as) /\ latest = before -> "improving"
           [] OTHER -> "stalled"

\* Mutant of Acceptance: any success is accepted, however long it took.
AcceptSlowSuccess(as, stop) ==
    IF stop # "success" THEN "rejected" ELSE "accepted"

\* _build_acceptance_summary
Acceptance(as, stop) ==
    IF stop # "success" THEN "rejected"
    ELSE IF Len(as) <= 2 /\ Progress(as) = "improving" THEN "accepted"
    ELSE "review"

\* _build_rollback_summary
Rollback(as, stop) ==
    CASE stop = "success" -> "hold"
      [] stop = "no_progress_detected" -> "preferred"
      [] stop = "retry_exhausted" ->
             IF run.changed THEN "preferred" ELSE "optional"

\* _build_promotion_summary
Promotion(as, stop) ==
    IF Acceptance(as, stop) = "accepted" THEN "promote"
    ELSE IF Acceptance(as, stop) = "review" \/ Progress(as) = "improving" THEN "hold"
    ELSE "reject"

\* _build_stability_summary
Stability(as, stop) ==
    IF stop = "success" /\ Len(as) <= 2 /\ Progress(as) = "improving" THEN "stable"
    ELSE IF stop = "no_progress_detected" \/ Progress(as) \in {"stalled", "regressing"}
    THEN "fragile"
    ELSE "caution"

\* The primary decision of _build_repair_chain_summary.
Decision(as, stop) ==
    IF /\ Acceptance(as, stop) = "accepted"
       /\ Promotion(as, stop) = "promote"
       /\ Stability(as, stop) = "stable"
    THEN "promote"
    ELSE IF Rollback(as, stop) = "preferred" THEN "rollback"
    ELSE IF Stability(as, stop) = "fragile" \/ stop # "success" THEN "rethink"
    ELSE "review"

\* The result of execute_with_retries, as execute_programmer_task records it.
Advice(as, stop) ==
    [stop |-> stop,
     status |-> IF stop = "success" THEN "ok" ELSE "error",
     type |-> Last(as).type,
     acceptance |-> Acceptance(as, stop),
     rollback |-> Rollback(as, stop),
     promotion |-> Promotion(as, stop),
     decision |-> Decision(as, stop),
     target |-> run.before,
     hash |-> run.hash,
     intruded |-> run.intruded,
     base |-> run.base]

-----------------------------------------------------------------------------
(* What git tells the agent *)

\* git status names a file in its fourth column; _changed_files strips the line
\* before it cuts off the first three, so that " M name" loses a letter.
Garbled(f) == f \in tracked /\ f \in unstaged /\ f \notin staged

Changed == unstaged \cup staged

\* _detect_scope_violation
ScopeViolation(targets) ==
    \/ \E f \in Changed : ~Garbled(f) /\ f \in Protected
    \/ Isolation /\ \E f \in Changed : Garbled(f) \/ f \notin targets

-----------------------------------------------------------------------------

Init ==
    /\ agent \in {"ready", "disabled", "misconfigured"}
    /\ \E new \in SUBSET Targets : tracked = Files \ new
    /\ unstaged = {}
    /\ staged = {}
    /\ head = 0
    /\ runs = 0
    /\ run = NoRun
    /\ attempts = <<>>
    /\ advice = NoAdvice

\* execute_with_retries is called; _validate_targets lets only Targets through.
Request ==
    /\ run.at = "idle"
    /\ runs < MaxRuns
    /\ runs' = runs + 1
    /\ \E targets \in SUBSET Targets \ {{}}, commit \in BOOLEAN :
          run' = [NoRun EXCEPT !.at = "attempt", !.targets = targets, !.commit = commit,
                               !.base = head]
    /\ attempts' = <<>>
    /\ advice' = NoAdvice
    /\ UNCHANGED <<agent, repoVars>>

\* The early returns of execute.
Unavailable ==
    /\ run.at = "attempt"
    /\ agent # "ready"
    /\ attempts' = Append(attempts,
                     [type |-> agent, detail |-> "no validator", valid |-> FALSE])
    /\ run' = [run EXCEPT !.at = "judge", !.before = head]
    /\ UNCHANGED <<agent, repoVars, runs, advice>>

\* Mutant of Prepare: the anchor is the parent of HEAD.
AnchorParent ==
    /\ run.at = "attempt"
    /\ agent = "ready"
    /\ unstaged' = unstaged \cup (run.targets \ tracked)
    /\ run' = [run EXCEPT !.at = "aider", !.calls = 0,
                          !.before = IF head > 0 THEN head - 1 ELSE 0]
    /\ UNCHANGED <<agent, tracked, staged, head, runs, attempts, advice>>

\* _ensure_target_files creates the targets that are not there.
Prepare ==
    /\ run.at = "attempt"
    /\ agent = "ready"
    /\ unstaged' = unstaged \cup (run.targets \ tracked)
    /\ run' = [run EXCEPT !.at = "aider", !.before = head, !.calls = 0]
    /\ UNCHANGED <<agent, tracked, staged, head, runs, attempts, advice>>

\* Mutant of CallAider: the pairs of model and key are not counted.
CallAiderForever ==
    /\ run.at = "aider"
    /\ unstaged' \in SUBSET Files
    /\ \E failed, curable \in BOOLEAN :
          /\ curable => failed
          /\ run' = IF curable THEN run
                    ELSE [run EXCEPT !.at = "inspect", !.failed = failed]
    /\ UNCHANGED <<agent, tracked, staged, head, runs, attempts, advice>>

\* One call of aider, which edits what it likes, whether or not it succeeds.  After
\* a failure that another key or model may cure the next pair is tried.
CallAider ==
    /\ run.at = "aider"
    /\ unstaged' \in SUBSET Files
    /\ \E failed, curable \in BOOLEAN :
          /\ curable => failed
          /\ run' = IF curable /\ run.calls + 1 < MaxCalls
                    THEN [run EXCEPT !.calls = @ + 1]
                    ELSE [run EXCEPT !.at = "inspect", !.failed = failed]
    /\ UNCHANGED <<agent, tracked, staged, head, runs, attempts, advice>>

\* The call times out: the error goes through to the HTTP caller and nothing is
\* recorded of the run.
TimeOut ==
    /\ run.at = "aider"
    /\ unstaged' \in SUBSET Files
    /\ run' = NoRun
    /\ attempts' = <<>>
    /\ UNCHANGED <<agent, tracked, staged, head, runs, advice>>

\* Mutant of Inspect: files outside the targets are ignored.
InspectTargets ==
    /\ run.at = "inspect"
    /\ run' = [run EXCEPT
                 !.at = IF run.commit /\ Changed # {} THEN "commit" ELSE "validate",
                 !.type = IF run.failed THEN "execution_failure" ELSE "none",
                 !.hash = 0,
                 !.changed = Changed # {},
                 !.intruded = ~(Changed \subseteq run.targets)]
    /\ UNCHANGED <<agent, repoVars, runs, attempts, advice>>

\* What changed is looked at, even after a failure, and goes on to be committed.
Inspect ==
    /\ run.at = "inspect"
    /\ LET violation == ScopeViolation(run.targets) IN
       run' = [run EXCEPT
                 !.at = IF ~violation /\ run.commit /\ Changed # {}
                        THEN "commit" ELSE "validate",
                 !.type = IF run.failed THEN "execution_failure"
                          ELSE IF violation THEN "scope_violation" ELSE "none",
                 !.hash = 0,
                 !.changed = Changed # {},
                 !.intruded = ~(Changed \subseteq run.targets)]
    /\ UNCHANGED <<agent, repoVars, runs, attempts, advice>>

\* git add refuses all targets when one of them is neither tracked nor there, which
\* is so when aider removed a file that was new.
Addable == run.targets \subseteq tracked \cup unstaged

\* git add of the targets, then git commit of all that is staged.
Commit ==
    /\ run.at = "commit"
    /\ Addable
    /\ staged' = {}
    /\ staged \cup (unstaged \cap run.targets) # {}
    /\ unstaged' = unstaged \ run.targets
    /\ tracked' = tracked \cup (unstaged \cap run.targets)
    /\ head' = head + 1
    /\ run' = [run EXCEPT !.at = "validate", !.hash = head + 1]
    /\ UNCHANGED <<agent, runs, attempts, advice>>

\* The add fails, or a hook refuses the commit, or there is nothing to commit: what
\* was added stays staged.
CommitFails ==
    /\ run.at = "commit"
    /\ LET added == IF Addable THEN unstaged \cap run.targets ELSE {} IN
       /\ staged' = staged \cup added
       /\ unstaged' = unstaged \ added
       /\ tracked' = tracked \cup added
    /\ run' = [run EXCEPT !.at = "validate",
                          !.type = IF run.type = "none" THEN "commit_failure" ELSE @]
    /\ UNCHANGED <<agent, head, runs, attempts, advice>>

\* _validate_programmer_changes, unless the attempt failed already; the failure
\* type of the attempt is that of the validation unless it has one.
Validate ==
    /\ run.at = "validate"
    /\ run' = [run EXCEPT !.at = "judge"]
    /\ \E verdict \in Verdicts :
          attempts' = Append(attempts,
             IF run.type \in {"execution_failure", "scope_violation"}
             THEN [type |-> run.type, detail |-> "no validator", valid |-> FALSE]
             ELSE [type |-> IF run.type = "none" THEN verdict.type ELSE run.type,
                   detail |-> verdict.detail,
                   valid |-> verdict.type = "none"])
    /\ UNCHANGED <<agent, repoVars, runs, advice>>

\* execute_with_retries returns and execute_programmer_task records the result.
EndRun(stop) ==
    /\ advice' = Advice(attempts, stop)
    /\ run' = NoRun
    /\ attempts' = <<>>
    /\ UNCHANGED <<agent, repoVars, runs>>

Succeed ==
    /\ run.at = "judge"
    /\ Succeeded(Last(attempts))
    /\ EndRun("success")

GiveUp ==
    /\ run.at = "judge"
    /\ ~Succeeded(Last(attempts))
    /\ NoProgress(attempts)
    /\ EndRun("no_progress_detected")

Exhaust ==
    /\ run.at = "judge"
    /\ ~Succeeded(Last(attempts)) /\ ~NoProgress(attempts)
    /\ Len(attempts) >= MaxAttempts
    /\ EndRun("retry_exhausted")

NextAttempt == [NoRun EXCEPT !.at = "attempt", !.targets = run.targets,
                             !.commit = run.commit, !.base = run.base]

\* Mutant of Retry: one attempt too many.
RetryOnceMore ==
    /\ run.at = "judge"
    /\ ~Succeeded(Last(attempts)) /\ ~NoProgress(attempts)
    /\ Len(attempts) <= MaxAttempts
    /\ run' = NextAttempt
    /\ UNCHANGED <<agent, repoVars, runs, attempts, advice>>

Retry ==
    /\ run.at = "judge"
    /\ ~Succeeded(Last(attempts)) /\ ~NoProgress(attempts)
    /\ Len(attempts) < MaxAttempts
    /\ run' = NextAttempt
    /\ UNCHANGED <<agent, repoVars, runs, attempts, advice>>

Step ==
    \/ Unavailable \/ Prepare \/ CallAider \/ TimeOut
    \/ Inspect \/ Commit \/ CommitFails \/ Validate
    \/ Succeed \/ GiveUp \/ Exhaust \/ Retry

Next == Request \/ Step

Spec == Init /\ [][Next]_vars

\* aider ends or is ended by its timeout; git and the validator's tests, which have
\* no timeout, are assumed to end.
FairSpec == Spec /\ WF_vars(Step)

-----------------------------------------------------------------------------
(* Properties *)

Attempt == [type : FailureTypes, detail : {"no validator", "passed", "detail 1", "detail 2"},
            valid : BOOLEAN]

\* Every variable holds a value of its kind.
TypeOK ==
    /\ agent \in {"ready", "disabled", "misconfigured"}
    /\ tracked \in SUBSET Files
    /\ unstaged \in SUBSET Files
    /\ staged \in SUBSET Files
    /\ head \in Nat
    /\ runs \in 0 .. MaxRuns
    /\ run \in [at : {"idle", "attempt", "aider", "inspect", "commit", "validate", "judge"},
                targets : SUBSET Targets, commit : BOOLEAN, base : Nat, before : Nat,
                calls : 0 .. MaxCalls, failed : BOOLEAN, type : FailureTypes, hash : Nat,
                changed : BOOLEAN, intruded : BOOLEAN]
    /\ attempts \in Seq(Attempt)
    /\ Len(attempts) <= MaxAttempts

\* A commit of the agent never holds a protected file, and under target isolation
\* no file but the targets of its own run, whatever earlier runs left behind in the
\* index or the working tree.
CommitsStayInScope ==
    [][head' # head =>
          LET files == Changed \ (unstaged' \cup staged') IN
          /\ files \cap Protected = {}
          /\ Isolation => files \subseteq run.targets]_vars

\* The summaries agree: a run is promoted by all of them or by none, and what is
\* promoted or under review is never to be rolled back.
SummariesAgree ==
    advice # NoAdvice =>
        /\ advice.decision = "promote" <=> advice.acceptance = "accepted"
        /\ advice.decision = "promote" <=> advice.promotion = "promote"
        /\ advice.decision \in {"promote", "review"} =>
               advice.status = "ok" /\ advice.rollback = "hold"
        /\ advice.decision = "rollback" => advice.status = "error"

\* The commit a user is told to roll back to lies within the run: going back to it
\* undoes the commit of the last attempt and nothing that was there before the run,
\* whichever attempts of whichever run were committed.
AnchorStaysInRun ==
    advice # NoAdvice =>
        /\ advice.target \in advice.base .. head
        /\ advice.hash # 0 => advice.target < advice.hash

\* At most so many steps are left to the run in progress: each attempt is prepared,
\* inspected, committed, validated and judged, besides its calls of aider.
StepsPerAttempt == MaxCalls + 5
StepsLeft ==
    LET left == (MaxAttempts - Len(attempts)) * StepsPerAttempt
    IN CASE run.at = "idle"     -> 0
         [] run.at = "attempt"  -> left
         [] run.at = "aider"    -> left - 1 - run.calls
         [] run.at = "inspect"  -> left - 1 - MaxCalls
         [] run.at = "commit"   -> left - 2 - MaxCalls
         [] run.at = "validate" -> left - 3 - MaxCalls
         [] run.at = "judge"    -> left + 1

\* Every step of a run uses up one of a number of steps that its attempts and the pairs
\* of model and key allow, whatever aider, git and the validator answer, and however the
\* attempts compare.
RunsGetNearer ==
    [][run.at # "idle" => StepsLeft' \in 0 .. (StepsLeft - 1)]_vars

\* A run ends, with an advice or an error, whatever aider does.
RunsEnd == run.at # "idle" ~> run.at = "idle"

-----------------------------------------------------------------------------
(* What the documents say of the program, and it does not do *)

\* "Programmer Agent modified files outside requested targets"
\* (_detect_scope_violation): said only of a run that left such files modified.
ScopeErrorsAreTrue ==
    advice # NoAdvice /\ advice.type = "scope_violation" => advice.intruded

\* "Rollback to the pre-run baseline" (_build_rollback_summary): the commit named is
\* the one the run started from.
RollbackReachesBaseline ==
    advice # NoAdvice /\ advice.rollback = "preferred" => advice.target = advice.base
=============================================================================
