----------------------- MODULE ProgrammerRuns_proofs ------------------------
(***************************************************************************)
(* Proofs about ProgrammerRuns for any files, runs, attempts and calls:    *)
(* types, the scope of commits, the place of the rollback anchor and the   *)
(* agreement of the summaries.                                             *)
(***************************************************************************)
EXTENDS ProgrammerRuns, SequenceTheorems, TLAPS

Places == {"idle", "attempt", "aider", "inspect", "commit", "validate", "judge"}

Runs == [at : Places, targets : SUBSET Targets, commit : BOOLEAN, base : Nat, before : Nat,
         calls : 0 .. MaxCalls, failed : BOOLEAN, type : FailureTypes, hash : Nat,
         changed : BOOLEAN, intruded : BOOLEAN]

\* What is committed was looked at: nothing has changed since.
LookedAt == run.at = "commit" => ~ScopeViolation(run.targets)

\* A run knows the commit it started from and, once an attempt has begun, the
\* one the attempt started from; a commit of the attempt lies behind both.
Anchored(r) ==
    /\ r.at # "idle" => r.base <= head
    /\ r.at \in {"aider", "inspect", "commit"} => r.before = head
    /\ r.at \in {"attempt", "aider", "commit"} => r.hash = 0
    /\ r.at \in {"validate", "judge"} => r.base <= r.before /\ r.before <= head
    /\ r.at \in {"validate", "judge"} => r.hash = 0 \/ r.before < r.hash

\* Past its attempts a run has one to judge, before its last it may have one more; it
\* calls aider only while there are calls left.
Counted ==
    /\ run.at \in {"attempt", "aider", "inspect", "commit", "validate"} => Len(attempts) < MaxAttempts
    /\ run.at = "judge" => attempts # <<>>
    /\ run.at = "aider" => run.calls < MaxCalls

\* The commits an advice names are commits.
AdviceTyped == advice # NoAdvice => advice.target \in Nat /\ advice.base \in Nat

RunInvariant ==
    /\ TypeOK
    /\ AdviceTyped
    /\ LookedAt
    /\ Anchored(run)
    /\ Counted
    /\ SummariesAgree
    /\ AnchorStaysInRun

-----------------------------------------------------------------------------
(* The repository's state and the run *)

LEMMA NoRunType == NoRun \in Runs /\ NoRun.at = "idle"
  BY RunAssumption DEF NoRun, Runs, Places, FailureTypes, FailedValidation

LEMMA TypeIsRuns == TypeOK => run \in Runs
  BY DEF TypeOK, Runs, Places

LEMMA InitRuns == Init => RunInvariant
  <1> SUFFICES ASSUME Init PROVE RunInvariant
    OBVIOUS
  <1>1. run \in Runs /\ run.at = "idle" /\ run.hash = 0
    BY NoRunType DEF Init, NoRun
  <1>2. TypeOK
    BY <1>1, RunAssumption DEF Init, TypeOK, Runs, Places, Files
  <1> QED BY <1>1, <1>2 DEF Init, RunInvariant, AdviceTyped, LookedAt, Anchored, Counted, SummariesAgree,
             AnchorStaysInRun

-----------------------------------------------------------------------------
(* The summaries *)

\* Whatever the attempts, the advice of a run that stops agrees with itself.
LEMMA AdviceAgrees ==
    ASSUME NEW as, NEW stop \in {"success", "no_progress_detected", "retry_exhausted"}
    PROVE  LET a == Advice(as, stop)
           IN  /\ a.decision = "promote" <=> a.acceptance = "accepted"
               /\ a.decision = "promote" <=> a.promotion = "promote"
               /\ a.decision \in {"promote", "review"} => a.status = "ok" /\ a.rollback = "hold"
               /\ a.decision = "rollback" => a.status = "error"
  <1>1. /\ Acceptance(as, stop) = "accepted" =>
               /\ stop = "success" /\ Promotion(as, stop) = "promote" /\ Stability(as, stop) = "stable"
        /\ Promotion(as, stop) = "promote" => Acceptance(as, stop) = "accepted"
        /\ stop = "success" => Rollback(as, stop) = "hold"
    BY DEF Acceptance, Promotion, Stability, Rollback
  <1>2. /\ Decision(as, stop) = "promote" <=> Acceptance(as, stop) = "accepted"
        /\ Decision(as, stop) = "review" => stop = "success"
        /\ Decision(as, stop) = "rollback" => stop # "success"
    BY <1>1 DEF Decision
  <1>3. LET a == Advice(as, stop)
        IN  /\ a.decision = Decision(as, stop) /\ a.acceptance = Acceptance(as, stop)
            /\ a.promotion = Promotion(as, stop) /\ a.rollback = Rollback(as, stop)
            /\ a.status = IF stop = "success" THEN "ok" ELSE "error"
    BY DEF Advice
  <1> QED BY <1>1, <1>2, <1>3

-----------------------------------------------------------------------------
(* The steps *)

\* What the repository and the user were told stays true while commits are added.
LEMMA AdviceStands ==
    ASSUME RunInvariant, advice' = advice, head' \in Nat, head <= head'
    PROVE  AdviceTyped' /\ SummariesAgree' /\ AnchorStaysInRun'
  BY DEF RunInvariant, TypeOK, AdviceTyped, SummariesAgree, AnchorStaysInRun

\* A new run starts from HEAD and has committed nothing.
LEMMA RequestStep == ASSUME RunInvariant, Request PROVE RunInvariant'
  <1>1. PICK targets \in SUBSET Targets \ {{}}, commit \in BOOLEAN :
            run' = [NoRun EXCEPT !.at = "attempt", !.targets = targets, !.commit = commit,
                                 !.base = head]
    BY DEF Request
  <1>2. head \in Nat /\ runs \in 0 .. MaxRuns
    BY DEF RunInvariant, TypeOK
  <1>3. run' \in Runs /\ run'.at = "attempt" /\ run'.base = head /\ run'.hash = 0
    BY <1>1, <1>2, NoRunType DEF NoRun, Runs, Places
  <1>4. TypeOK'
    BY <1>2, <1>3, RunAssumption DEF RunInvariant, Request, TypeOK, Runs, Places, repoVars
  <1>5. AdviceTyped' /\ SummariesAgree' /\ AnchorStaysInRun'
    BY DEF Request, AdviceTyped, SummariesAgree, AnchorStaysInRun, NoAdvice
  <1>6. LookedAt' /\ Anchored(run)'
    BY <1>2, <1>3 DEF Request, repoVars, LookedAt, Anchored
  <1>7. Counted'
    BY <1>3, RunAssumption DEF Request, Counted
  <1> QED BY <1>4, <1>5, <1>6, <1>7 DEF RunInvariant

\* An agent that is not ready judges at once, from the commit it found.
LEMMA UnavailableStep == ASSUME RunInvariant, Unavailable PROVE RunInvariant'
  <1>1. head \in Nat /\ run \in Runs /\ run.at = "attempt"
    BY TypeIsRuns DEF RunInvariant, TypeOK, Unavailable
  <1>2. run' = [run EXCEPT !.at = "judge", !.before = head]
    BY DEF Unavailable
  <1>3. /\ run' \in Runs /\ run'.at = "judge" /\ run'.before = head
        /\ run'.base = run.base /\ run'.hash = run.hash
    BY <1>1, <1>2 DEF Runs, Places
  <1>4. attempts \in Seq(Attempt) /\ Len(attempts) < MaxAttempts
    BY <1>1 DEF RunInvariant, TypeOK, Counted
  <1>5. [type |-> agent, detail |-> "no validator", valid |-> FALSE] \in Attempt
    BY DEF RunInvariant, TypeOK, Unavailable, Attempt, FailureTypes
  <1>6. attempts' \in Seq(Attempt) /\ attempts' # <<>> /\ Len(attempts') = Len(attempts) + 1
    <2> DEFINE a == [type |-> agent, detail |-> "no validator", valid |-> FALSE]
    <2>1. attempts' = Append(attempts, a)
      BY DEF Unavailable
    <2>2. a \in Attempt
      BY <1>5
    <2> HIDE DEF a
    <2> QED BY <1>4, <2>1, <2>2, AppendProperties
  <1>7. Len(attempts') <= MaxAttempts
    BY <1>4, <1>6, RunAssumption
  <1>8. TypeOK'
    BY <1>3, <1>6, <1>7 DEF RunInvariant, Unavailable, TypeOK, Runs, Places, repoVars
  <1>9. AdviceTyped' /\ SummariesAgree' /\ AnchorStaysInRun'
    <2> advice' = advice /\ head' = head
      BY DEF Unavailable, repoVars
    <2> QED BY <1>1, AdviceStands
  <1>10. LookedAt' /\ Anchored(run)' /\ Counted'
    <2>1. head' = head
      BY DEF Unavailable, repoVars
    <2>2. LookedAt' /\ Counted'
      BY <1>3, <1>6 DEF LookedAt, Counted
    <2>3. Anchored(run)
      BY DEF RunInvariant
    <2>4. run.base <= head /\ run.hash = 0
      BY <1>1, <2>3 DEF Anchored
    <2>5. Anchored(run)'
      BY <1>1, <1>3, <2>1, <2>4 DEF Anchored
    <2> QED BY <2>2, <2>5
  <1> QED BY <1>8, <1>9, <1>10 DEF RunInvariant

\* An attempt is anchored at HEAD.
LEMMA PrepareStep == ASSUME RunInvariant, Prepare PROVE RunInvariant'
  <1>1. head \in Nat /\ run \in Runs /\ run.at = "attempt"
    BY TypeIsRuns DEF RunInvariant, TypeOK, Prepare
  <1>2. run' = [run EXCEPT !.at = "aider", !.before = head, !.calls = 0]
    BY DEF Prepare
  <1>3. /\ run' \in Runs /\ run'.at = "aider" /\ run'.before = head
        /\ run'.base = run.base /\ run'.hash = run.hash /\ run'.calls = 0
    <2> 0 \in 0 .. MaxCalls
      BY RunAssumption
    <2> QED BY <1>1, <1>2 DEF Runs, Places
  <1>4. run.targets \in SUBSET Files
    BY <1>1 DEF Runs, Files
  <1>5. TypeOK'
    BY <1>3, <1>4 DEF RunInvariant, Prepare, TypeOK, Runs, Places
  <1>6. AdviceTyped' /\ SummariesAgree' /\ AnchorStaysInRun'
    BY <1>1, AdviceStands DEF Prepare
  <1>7. LookedAt' /\ Anchored(run)' /\ Counted'
    BY <1>1, <1>3, RunAssumption DEF RunInvariant, Prepare, LookedAt, Anchored, Counted
  <1> QED BY <1>5, <1>6, <1>7 DEF RunInvariant

\* aider does not commit, and an attempt stays where it was anchored.
LEMMA CallAiderStep == ASSUME RunInvariant, CallAider PROVE RunInvariant'
  <1>1. head \in Nat /\ run \in Runs /\ run.at = "aider"
    BY TypeIsRuns DEF RunInvariant, TypeOK, CallAider
  <1>2. PICK failed \in BOOLEAN, curable \in BOOLEAN :
            run' = IF curable /\ run.calls + 1 < MaxCalls
                   THEN [run EXCEPT !.calls = @ + 1]
                   ELSE [run EXCEPT !.at = "inspect", !.failed = failed]
    BY DEF CallAider
  <1>3. run' \in Runs
    <2>1. CASE curable /\ run.calls + 1 < MaxCalls
      <3>1. run.calls + 1 \in 0 .. MaxCalls
        BY <1>1, <2>1, RunAssumption DEF Runs
      <3> QED BY <1>1, <1>2, <2>1, <3>1 DEF Runs
    <2>2. CASE ~(curable /\ run.calls + 1 < MaxCalls)
      BY <1>1, <1>2, <2>2 DEF Runs, Places
    <2> QED BY <2>1, <2>2
  <1>4. /\ run'.at \in {"aider", "inspect"} /\ run'.before = run.before
        /\ run'.base = run.base /\ run'.hash = run.hash
    BY <1>1, <1>2 DEF Runs
  <1>5. TypeOK'
    BY <1>3 DEF RunInvariant, CallAider, TypeOK, Runs, Places
  <1>6. AdviceTyped' /\ SummariesAgree' /\ AnchorStaysInRun'
    BY <1>1, AdviceStands DEF CallAider
  <1>7. LookedAt' /\ Anchored(run)' /\ Counted'
    BY <1>1, <1>4 DEF RunInvariant, CallAider, LookedAt, Anchored, Counted
  <1> QED BY <1>5, <1>6, <1>7 DEF RunInvariant

\* A call that times out leaves nothing of the run.
LEMMA TimeOutStep == ASSUME RunInvariant, TimeOut PROVE RunInvariant'
  <1>1. head \in Nat /\ run' \in Runs /\ run'.at = "idle" /\ attempts' \in Seq(Attempt)
        /\ Len(attempts') = 0
    BY NoRunType DEF RunInvariant, TypeOK, TimeOut
  <1>2. run'.hash = 0
    BY DEF TimeOut, NoRun
  <1>3. TypeOK'
    BY <1>1, RunAssumption DEF RunInvariant, TimeOut, TypeOK, Runs, Places
  <1>4. AdviceTyped' /\ SummariesAgree' /\ AnchorStaysInRun'
    BY <1>1, AdviceStands DEF TimeOut
  <1>5. LookedAt' /\ Anchored(run)' /\ Counted'
    BY <1>1, <1>2 DEF LookedAt, Anchored, Counted
  <1> QED BY <1>3, <1>4, <1>5 DEF RunInvariant

\* What is committed was found to be in scope, and nothing of an earlier attempt is.
LEMMA InspectStep == ASSUME RunInvariant, Inspect PROVE RunInvariant'
  <1> DEFINE Violation == ScopeViolation(run.targets)
             Place == IF ~Violation /\ run.commit /\ Changed # {} THEN "commit" ELSE "validate"
             Type == IF run.failed THEN "execution_failure"
                     ELSE IF Violation THEN "scope_violation" ELSE "none"
             Differs == Changed # {}
             Strays == ~(Changed \subseteq run.targets)
  <1>1. head \in Nat /\ run \in Runs /\ run.at = "inspect"
    BY TypeIsRuns DEF RunInvariant, TypeOK, Inspect
  <1>2. run' = [run EXCEPT !.at = Place, !.type = Type, !.hash = 0, !.changed = Differs,
                           !.intruded = Strays]
    BY DEF Inspect
  <1>3. /\ Place \in {"commit", "validate"} /\ (Place = "commit" => ~Violation)
        /\ Type \in FailureTypes /\ Differs \in BOOLEAN /\ Strays \in BOOLEAN
    <2>1. Place \in {"commit", "validate"} /\ (Place = "commit" => ~Violation)
      OBVIOUS
    <2>2. Type \in FailureTypes
      BY DEF FailureTypes
    <2>3. Differs \in BOOLEAN /\ Strays \in BOOLEAN
      OBVIOUS
    <2> QED BY <2>1, <2>2, <2>3
  <1> HIDE DEF Place, Type, Differs, Strays
  <1>4. run' \in Runs
    <2> Place \in Places
      BY <1>3 DEF Places
    <2> QED BY <1>1, <1>2, <1>3 DEF Runs
  <1>5. /\ run'.at = Place /\ run'.hash = 0 /\ run'.targets = run.targets
        /\ run'.base = run.base /\ run'.before = run.before
    BY <1>1, <1>2 DEF Runs
  <1>6. /\ head' = head /\ unstaged' = unstaged /\ staged' = staged /\ tracked' = tracked
        /\ advice' = advice /\ attempts' = attempts
    BY DEF Inspect, repoVars
  <1>7. TypeOK'
    BY <1>4, <1>6 DEF RunInvariant, Inspect, TypeOK, Runs, Places
  <1>8. AdviceTyped' /\ SummariesAgree' /\ AnchorStaysInRun'
    BY <1>1, <1>6, AdviceStands
  <1>9. LookedAt'
    <2>1. ASSUME run'.at = "commit" PROVE ~ScopeViolation(run.targets)'
      <3>1. ~ScopeViolation(run.targets)
        BY <1>3, <1>5, <2>1
      <3> QED BY <1>5, <1>6, <3>1 DEF ScopeViolation, Changed, Garbled
    <2> QED BY <2>1 DEF LookedAt
  <1>10. Anchored(run)' /\ Counted'
    <2>1. run.base \in Nat /\ run.base <= head /\ run.before = head
      BY <1>1 DEF RunInvariant, Anchored, Runs
    <2>2. /\ run'.at \in {"commit", "validate"} /\ run'.hash = 0
          /\ run'.base <= head' /\ run'.base <= run'.before /\ run'.before = head'
      BY <1>1, <1>3, <1>5, <1>6, <2>1
    <2>3. Len(attempts') < MaxAttempts
      BY <1>1, <1>6 DEF RunInvariant, Counted
    <2>4. head' \in Nat
      BY <1>1, <1>6
    <2> QED BY <2>2, <2>3, <2>4 DEF Anchored, Counted
  <1> QED BY <1>7, <1>8, <1>9, <1>10 DEF RunInvariant

\* The commit of an attempt is the one after its anchor.
LEMMA CommitStep == ASSUME RunInvariant, Commit PROVE RunInvariant'
  <1>1. head \in Nat /\ run \in Runs /\ run.at = "commit"
    BY TypeIsRuns DEF RunInvariant, TypeOK, Commit
  <1>2. run' = [run EXCEPT !.at = "validate", !.hash = head + 1] /\ head' = head + 1
    BY DEF Commit
  <1>3. /\ run' \in Runs /\ run'.at = "validate" /\ run'.hash = head + 1
        /\ run'.base = run.base /\ run'.before = run.before
    <2> head + 1 \in Nat
      BY <1>1
    <2> QED BY <1>1, <1>2 DEF Runs, Places
  <1>4. TypeOK'
    BY <1>1, <1>2, <1>3 DEF RunInvariant, Commit, TypeOK, Runs, Places
  <1>5. AdviceTyped' /\ SummariesAgree' /\ AnchorStaysInRun'
    <2> head' \in Nat /\ head <= head' /\ advice' = advice
      BY <1>1, <1>2 DEF Commit
    <2> QED BY AdviceStands
  <1>6. LookedAt' /\ Counted'
    BY <1>1, <1>3 DEF RunInvariant, Commit, LookedAt, Counted
  <1>7. Anchored(run)'
    <2>1. run.base \in Nat /\ run.base <= head /\ run.before = head
      BY <1>1 DEF RunInvariant, Anchored, Runs
    <2>2. /\ run'.at = "validate"
          /\ run'.base <= head' /\ run'.base <= run'.before /\ run'.before <= head'
          /\ run'.before < run'.hash
      BY <1>1, <1>2, <1>3, <2>1
    <2> QED BY <2>2 DEF Anchored
  <1> QED BY <1>4, <1>5, <1>6, <1>7 DEF RunInvariant

\* A commit that fails has no hash.
LEMMA CommitFailsStep == ASSUME RunInvariant, CommitFails PROVE RunInvariant'
  <1> DEFINE Type == IF run.type = "none" THEN "commit_failure" ELSE run.type
  <1>1. head \in Nat /\ run \in Runs /\ run.at = "commit"
    BY TypeIsRuns DEF RunInvariant, TypeOK, CommitFails
  <1>2. run' = [run EXCEPT !.at = "validate", !.type = Type] /\ Type \in FailureTypes
    BY <1>1 DEF CommitFails, Runs, FailureTypes
  <1> HIDE DEF Type
  <1>3. /\ run' \in Runs /\ run'.at = "validate" /\ run'.hash = run.hash
        /\ run'.base = run.base /\ run'.before = run.before
    BY <1>1, <1>2 DEF Runs, Places
  <1>4. unstaged' \in SUBSET Files /\ staged' \in SUBSET Files /\ tracked' \in SUBSET Files
    BY DEF RunInvariant, TypeOK, CommitFails
  <1>5. TypeOK'
    BY <1>3, <1>4 DEF RunInvariant, CommitFails, TypeOK, Runs, Places
  <1>6. AdviceTyped' /\ SummariesAgree' /\ AnchorStaysInRun'
    BY <1>1, AdviceStands DEF CommitFails
  <1>7. LookedAt' /\ Counted'
    BY <1>1, <1>3 DEF RunInvariant, CommitFails, LookedAt, Counted
  <1>8. head' = head
    BY DEF CommitFails
  <1>9. Anchored(run)'
    BY <1>1, <1>3, <1>8 DEF RunInvariant, Anchored
  <1> QED BY <1>5, <1>6, <1>7, <1>9 DEF RunInvariant

\* A verdict is one more attempt to judge.
LEMMA ValidateStep == ASSUME RunInvariant, Validate PROVE RunInvariant'
  <1>1. head \in Nat /\ run \in Runs /\ run.at = "validate"
    BY TypeIsRuns DEF RunInvariant, TypeOK, Validate
  <1>2. run' = [run EXCEPT !.at = "judge"]
    BY DEF Validate
  <1>3. /\ run' \in Runs /\ run'.at = "judge" /\ run'.hash = run.hash
        /\ run'.base = run.base /\ run'.before = run.before
    BY <1>1, <1>2 DEF Runs, Places
  <1>4. PICK a \in Attempt : attempts' = Append(attempts, a)
    <2>1. PICK verdict \in Verdicts :
              attempts' = Append(attempts,
                 IF run.type \in {"execution_failure", "scope_violation"}
                 THEN [type |-> run.type, detail |-> "no validator", valid |-> FALSE]
                 ELSE [type |-> IF run.type = "none" THEN verdict.type ELSE run.type,
                       detail |-> verdict.detail,
                       valid |-> verdict.type = "none"])
      BY DEF Validate
    <2> DEFINE Type == IF run.type = "none" THEN verdict.type ELSE run.type
               Valid == verdict.type = "none"
    <2>2. /\ verdict.type \in FailureTypes
          /\ verdict.detail \in {"passed", "detail 1", "detail 2"}
      <3>1. CASE verdict \in [type : FailedValidation, detail : {"detail 1"}]
        BY <3>1 DEF FailureTypes, FailedValidation
      <3>2. CASE verdict = [type |-> "test_failure", detail |-> "detail 2"]
        BY <3>2 DEF FailureTypes, FailedValidation
      <3>3. CASE verdict = [type |-> "none", detail |-> "passed"]
        BY <3>3 DEF FailureTypes
      <3> QED BY <3>1, <3>2, <3>3 DEF Verdicts
    <2>3. run.type \in FailureTypes /\ Type \in FailureTypes /\ Valid \in BOOLEAN
      BY <1>1, <2>2 DEF Runs
    <2>4. CASE run.type \in {"execution_failure", "scope_violation"}
      <3>1. [type |-> run.type, detail |-> "no validator", valid |-> FALSE] \in Attempt
        BY <2>3 DEF Attempt
      <3> QED BY <2>1, <2>4, <3>1
    <2>5. CASE run.type \notin {"execution_failure", "scope_violation"}
      <3>1. attempts' = Append(attempts, [type |-> Type, detail |-> verdict.detail, valid |-> Valid])
        BY <2>1, <2>5
      <3> HIDE DEF Type, Valid
      <3>2. [type |-> Type, detail |-> verdict.detail, valid |-> Valid] \in Attempt
        BY <2>2, <2>3 DEF Attempt
      <3> QED BY <3>1, <3>2
    <2> QED BY <2>4, <2>5
  <1>5. attempts \in Seq(Attempt) /\ Len(attempts) < MaxAttempts
    BY <1>1 DEF RunInvariant, TypeOK, Counted
  <1>6. attempts' \in Seq(Attempt) /\ attempts' # <<>> /\ Len(attempts') = Len(attempts) + 1
    BY <1>4, <1>5, AppendProperties
  <1>7. Len(attempts') <= MaxAttempts
    BY <1>5, <1>6, RunAssumption
  <1>8. head' = head /\ advice' = advice
    BY DEF Validate, repoVars
  <1>9. TypeOK'
    BY <1>3, <1>6, <1>7 DEF RunInvariant, Validate, TypeOK, Runs, Places, repoVars
  <1>10. AdviceTyped' /\ SummariesAgree' /\ AnchorStaysInRun'
    BY <1>1, <1>8, AdviceStands
  <1>11. LookedAt' /\ Counted'
    BY <1>3, <1>6 DEF LookedAt, Counted
  <1>12. Anchored(run)'
    BY <1>1, <1>3, <1>8 DEF RunInvariant, Anchored
  <1> QED BY <1>9, <1>10, <1>11, <1>12 DEF RunInvariant

\* A run that ends names the commit its last attempt was anchored at.
LEMMA EndRunStep ==
    ASSUME RunInvariant, run.at = "judge",
           NEW stop \in {"success", "no_progress_detected", "retry_exhausted"}, EndRun(stop)
    PROVE  RunInvariant'
  <1>1. head \in Nat /\ run \in Runs
    BY TypeIsRuns DEF RunInvariant, TypeOK
  <1>2. run' \in Runs /\ run'.at = "idle" /\ run'.hash = 0 /\ attempts' = <<>>
    BY NoRunType DEF EndRun, NoRun
  <1>3. head' = head /\ advice' = Advice(attempts, stop)
    BY DEF EndRun, repoVars
  <1>4. advice'.target = run.before /\ advice'.base = run.base /\ advice'.hash = run.hash
    BY <1>3 DEF Advice
  <1>5. TypeOK'
    BY <1>2, RunAssumption DEF RunInvariant, EndRun, TypeOK, Runs, Places, repoVars
  <1>6. run.base \in Nat /\ run.before \in Nat /\ run.hash \in Nat
    BY <1>1 DEF Runs
  <1>7. /\ run.base <= run.before /\ run.before <= head
        /\ run.hash = 0 \/ run.before < run.hash
    BY DEF RunInvariant, Anchored
  <1>8. AdviceTyped' /\ AnchorStaysInRun'
    BY <1>1, <1>3, <1>4, <1>6, <1>7 DEF AdviceTyped, AnchorStaysInRun
  <1>9. SummariesAgree'
    BY <1>3, AdviceAgrees DEF SummariesAgree
  <1>10. LookedAt' /\ Anchored(run)' /\ Counted'
    BY <1>2 DEF LookedAt, Anchored, Counted
  <1> QED BY <1>5, <1>8, <1>9, <1>10 DEF RunInvariant

\* A retry keeps what its run started from, and has committed nothing.
LEMMA RetryStep == ASSUME RunInvariant, Retry PROVE RunInvariant'
  <1>1. head \in Nat /\ run \in Runs /\ run.at = "judge" /\ attempts \in Seq(Attempt)
    BY TypeIsRuns DEF RunInvariant, TypeOK, Retry
  <1>2. run' = [NoRun EXCEPT !.at = "attempt", !.targets = run.targets,
                             !.commit = run.commit, !.base = run.base]
    BY DEF Retry, NextAttempt
  <1>3. run' \in Runs /\ run'.at = "attempt" /\ run'.base = run.base /\ run'.hash = 0
    BY <1>1, <1>2, NoRunType DEF NoRun, Runs, Places
  <1>4. /\ head' = head /\ attempts' = attempts /\ advice' = advice
        /\ Len(attempts) < MaxAttempts
    BY DEF Retry, repoVars
  <1>5. TypeOK'
    BY <1>3 DEF RunInvariant, Retry, TypeOK, Runs, Places, repoVars
  <1>6. AdviceTyped' /\ SummariesAgree' /\ AnchorStaysInRun'
    BY <1>1, <1>4, AdviceStands
  <1>7. LookedAt' /\ Counted'
    BY <1>3, <1>4 DEF LookedAt, Counted
  <1>8. run.base \in Nat /\ run.before \in Nat /\ run.base <= run.before /\ run.before <= head
    BY <1>1 DEF RunInvariant, Anchored, Runs
  <1>9. Anchored(run)'
    BY <1>1, <1>3, <1>4, <1>8 DEF Anchored
  <1> QED BY <1>5, <1>6, <1>7, <1>9 DEF RunInvariant

-----------------------------------------------------------------------------
(* The theorems *)

LEMMA NextRuns == ASSUME RunInvariant, [Next]_vars PROVE RunInvariant'
  <1>1. CASE Request
    BY <1>1, RequestStep
  <1>2. CASE Unavailable
    BY <1>2, UnavailableStep
  <1>3. CASE Prepare
    BY <1>3, PrepareStep
  <1>4. CASE CallAider
    BY <1>4, CallAiderStep
  <1>5. CASE TimeOut
    BY <1>5, TimeOutStep
  <1>6. CASE Inspect
    BY <1>6, InspectStep
  <1>7. CASE Commit
    BY <1>7, CommitStep
  <1>8. CASE CommitFails
    BY <1>8, CommitFailsStep
  <1>9. CASE Validate
    BY <1>9, ValidateStep
  <1>10. CASE Succeed
    BY <1>10, EndRunStep DEF Succeed
  <1>11. CASE GiveUp
    BY <1>11, EndRunStep DEF GiveUp
  <1>12. CASE Exhaust
    BY <1>12, EndRunStep DEF Exhaust
  <1>13. CASE Retry
    BY <1>13, RetryStep
  <1>14. CASE UNCHANGED vars
    BY <1>14 DEF vars, RunInvariant, TypeOK, AdviceTyped, LookedAt, Anchored, Counted,
                 SummariesAgree, AnchorStaysInRun, ScopeViolation, Changed, Garbled
  <1> QED BY <1>1, <1>2, <1>3, <1>4, <1>5, <1>6, <1>7, <1>8, <1>9, <1>10, <1>11, <1>12,
             <1>13, <1>14 DEF Next, Step

\* The inductive invariant of the runs, whatever the files and the bounds are.
THEOREM RunsStaySound == Spec => []RunInvariant
  <1>1. Init => RunInvariant
    BY InitRuns
  <1>2. RunInvariant /\ [Next]_vars => RunInvariant'
    BY NextRuns
  <1> QED BY <1>1, <1>2, PTL DEF Spec

\* Every variable keeps its type, and no run takes more attempts than it has
\* (execute_with_retries).
THEOREM AttemptsAreBounded == Spec => []TypeOK
  <1>1. RunInvariant => TypeOK
    BY DEF RunInvariant
  <1> QED BY <1>1, RunsStaySound, PTL

\* The summaries of a run agree with each other (_build_repair_chain_summary).
THEOREM SummariesAreConsistent == Spec => []SummariesAgree
  <1>1. RunInvariant => SummariesAgree
    BY DEF RunInvariant
  <1> QED BY <1>1, RunsStaySound, PTL

\* The commit to roll back to lies within the run (_build_rollback_summary).
THEOREM AnchorsStayInRuns == Spec => []AnchorStaysInRun
  <1>1. RunInvariant => AnchorStaysInRun
    BY DEF RunInvariant
  <1> QED BY <1>1, RunsStaySound, PTL

\* No commit holds a protected file nor, under target isolation, a file of
\* another run (_detect_scope_violation, _commit_changes).
THEOREM CommitsAreInScope == Spec => CommitsStayInScope
  <1> DEFINE Committed == Changed \ (unstaged' \cup staged')
  <1>1. ASSUME RunInvariant, [Next]_vars, head' # head
        PROVE  Committed \cap Protected = {} /\ (Isolation => Committed \subseteq run.targets)
    <2>1. Commit
      BY <1>1 DEF Next, Step, Request, Unavailable, Prepare, CallAider, TimeOut, Inspect, Commit,
                  CommitFails, Validate, Succeed, GiveUp, Exhaust, EndRun, Retry, vars, repoVars
    <2>2. ~ScopeViolation(run.targets)
      BY <1>1, <2>1 DEF RunInvariant, LookedAt, Commit
    <2>3. run.targets \subseteq Targets
      BY <1>1, TypeIsRuns DEF RunInvariant, Runs
    <2>4. Committed = Changed \ (unstaged \ run.targets)
      BY <2>1 DEF Commit, Changed
    <2>5. ASSUME NEW f \in Committed, f \in Protected PROVE FALSE
      <3>1. f \in Changed /\ Garbled(f)
        BY <2>2, <2>5 DEF ScopeViolation
      <3>2. f \in unstaged /\ f \notin run.targets
        BY <2>3, <2>5, <3>1, RunAssumption DEF Garbled
      <3> QED BY <2>4, <2>5, <3>2
    <2>6. ASSUME Isolation, NEW f \in Committed PROVE f \in run.targets
      BY <2>2, <2>6 DEF ScopeViolation
    <2> QED BY <2>5, <2>6
  <1>2. RunInvariant /\ [Next]_vars => 
            [head' # head => /\ Committed \cap Protected = {}
                             /\ Isolation => Committed \subseteq run.targets]_vars
    BY <1>1
  <1>3. CommitsStayInScope <=>
            [][head' # head => /\ Committed \cap Protected = {}
                               /\ Isolation => Committed \subseteq run.targets]_vars
    BY DEF CommitsStayInScope
  <1> QED BY <1>2, <1>3, RunsStaySound, PTL DEF Spec


-----------------------------------------------------------------------------
(* The steps left to a run *)

\* One attempt less is as many steps less as an attempt may take.
LEMMA AttemptCosts ==
    ASSUME NEW n \in Nat, n < MaxAttempts
    PROVE  /\ (MaxAttempts - n) * StepsPerAttempt \in Nat
           /\ (MaxAttempts - (n + 1)) * StepsPerAttempt \in Nat
           /\ (MaxAttempts - n) * StepsPerAttempt
                  = (MaxAttempts - (n + 1)) * StepsPerAttempt + MaxCalls + 5
  <1> DEFINE m == MaxAttempts - (n + 1)
  <1>1. m \in Nat /\ MaxCalls \in Nat /\ MaxAttempts - n = m + 1
    BY RunAssumption
  <1> HIDE DEF m
  <1>2. /\ m * StepsPerAttempt \in Nat
        /\ (m + 1) * StepsPerAttempt = m * StepsPerAttempt + StepsPerAttempt
    BY <1>1 DEF StepsPerAttempt
  <1> QED BY <1>1, <1>2 DEF StepsPerAttempt, m

\* An attempt recorded is one more, whatever its outcome.
LEMMA RecordedAttempt ==
    ASSUME NEW S, NEW s \in Seq(S), NEW e
    PROVE  Len(Append(s, e)) = Len(s) + 1
  <1>1. s \in Seq(S \cup {e}) /\ e \in S \cup {e}
    OBVIOUS
  <1> QED BY <1>1, AppendProperties

LEMMA StepsFall ==
    ASSUME RunInvariant, Step
    PROVE  StepsLeft' \in 0 .. (StepsLeft - 1)
  <1> DEFINE n == Len(attempts)
             left == (MaxAttempts - n) * StepsPerAttempt
             later == (MaxAttempts - (n + 1)) * StepsPerAttempt
  <1>1. /\ run \in Runs /\ attempts \in Seq(Attempt) /\ n \in Nat /\ n <= MaxAttempts
        /\ MaxCalls \in Nat \ {0} /\ MaxAttempts \in Nat \ {0}
    BY RunAssumption, TypeIsRuns DEF RunInvariant, TypeOK
  <1>2. run.calls \in Nat /\ (run.at = "aider" => run.calls < MaxCalls)
    BY <1>1 DEF RunInvariant, Counted, Runs
  <1>3. run.at \in {"attempt", "aider", "inspect", "commit", "validate"} =>
            left \in Nat /\ later \in Nat /\ left = later + MaxCalls + 5
    BY <1>1, AttemptCosts DEF RunInvariant, Counted
  <1>4. left \in Nat
    <2>1. CASE n = MaxAttempts
      BY <1>1, <2>1 DEF StepsPerAttempt
    <2>2. CASE n < MaxAttempts
      BY <1>1, <2>2, AttemptCosts
    <2> QED BY <1>1, <2>1, <2>2
  <1> HIDE DEF left, later
  <1>5. /\ run.at = "attempt" => StepsLeft = left
        /\ run.at = "aider" => StepsLeft = left - 1 - run.calls
        /\ run.at = "inspect" => StepsLeft = left - 1 - MaxCalls
        /\ run.at = "commit" => StepsLeft = left - 2 - MaxCalls
        /\ run.at = "validate" => StepsLeft = left - 3 - MaxCalls
        /\ run.at = "judge" => StepsLeft = left + 1
    BY DEF StepsLeft, left
  <1>6. attempts' = attempts =>
            /\ run'.at = "attempt" => StepsLeft' = left
            /\ run'.at = "aider" => StepsLeft' = left - 1 - run'.calls
            /\ run'.at = "inspect" => StepsLeft' = left - 1 - MaxCalls
            /\ run'.at = "commit" => StepsLeft' = left - 2 - MaxCalls
            /\ run'.at = "validate" => StepsLeft' = left - 3 - MaxCalls
    BY DEF StepsLeft, StepsPerAttempt, left
  <1>7. run'.at = "judge" /\ Len(attempts') = n + 1 => StepsLeft' = later + 1
    BY DEF StepsLeft, StepsPerAttempt, later
  <1>8. run'.at = "idle" => StepsLeft' = 0
    BY DEF StepsLeft
  <1>9. CASE Unavailable
    <2>1. run'.at = "judge" /\ run.at = "attempt"
      BY <1>1, <1>9 DEF Unavailable, Runs
    <2>2. Len(attempts') = n + 1
      BY <1>1, <1>9, RecordedAttempt DEF Unavailable
    <2> QED BY <1>1, <1>3, <1>5, <1>7, <2>1, <2>2
  <1>10. CASE Prepare
    <2>1. /\ run'.at = "aider" /\ run'.calls = 0 /\ attempts' = attempts
          /\ run.at = "attempt"
      BY <1>1, <1>10 DEF Prepare, Runs
    <2> QED BY <1>1, <1>3, <1>5, <1>6, <2>1
  <1>11. CASE CallAider
    <2>1. run.at = "aider" /\ attempts' = attempts
      BY <1>11 DEF CallAider
    <2>2. \/ run'.at = "aider" /\ run'.calls = run.calls + 1 /\ run.calls + 1 < MaxCalls
          \/ run'.at = "inspect"
      BY <1>1, <1>11 DEF CallAider, Runs
    <2> QED BY <1>1, <1>2, <1>3, <1>5, <1>6, <2>1, <2>2
  <1>12. CASE TimeOut
    <2>1. run.at = "aider" /\ run'.at = "idle"
      BY <1>12, NoRunType DEF TimeOut
    <2> QED BY <1>1, <1>2, <1>3, <1>5, <1>8, <2>1
  <1>13. CASE Inspect
    <2>1. run.at = "inspect" /\ attempts' = attempts /\ run'.at \in {"commit", "validate"}
      BY <1>1, <1>13 DEF Inspect, Runs
    <2> QED BY <1>1, <1>3, <1>5, <1>6, <2>1
  <1>14. CASE Commit \/ CommitFails
    <2>1. run.at = "commit" /\ attempts' = attempts /\ run'.at = "validate"
      BY <1>1, <1>14 DEF Commit, CommitFails, Runs
    <2> QED BY <1>1, <1>3, <1>5, <1>6, <2>1
  <1>15. CASE Validate
    <2>1. run.at = "validate" /\ run'.at = "judge"
      BY <1>1, <1>15 DEF Validate, Runs
    <2>2. PICK attempt : attempts' = Append(attempts, attempt)
      BY <1>15 DEF Validate
    <2>3. Len(attempts') = n + 1
      BY <1>1, <2>2, RecordedAttempt
    <2> QED BY <1>1, <1>3, <1>5, <1>7, <2>1, <2>3
  <1>16. CASE Succeed \/ GiveUp \/ Exhaust
    <2>1. run.at = "judge" /\ run'.at = "idle"
      BY <1>16, NoRunType DEF Succeed, GiveUp, Exhaust, EndRun
    <2> QED BY <1>4, <1>5, <1>8, <2>1
  <1>17. CASE Retry
    <2>1. run.at = "judge" /\ attempts' = attempts /\ run'.at = "attempt"
      BY <1>17 DEF Retry, NextAttempt, NoRun
    <2> QED BY <1>4, <1>5, <1>6, <2>1
  <1> QED BY <1>9, <1>10, <1>11, <1>12, <1>13, <1>14, <1>15, <1>16, <1>17 DEF Step

\* Each step of a run uses up one of the steps that its attempts and its pairs of model
\* and key allow, whatever aider, git and the validator answer (execute_with_retries,
\* _execute_aider_with_models).
THEOREM RunsComeNearer == Spec => RunsGetNearer
  <1>1. ASSUME RunInvariant, [Next]_vars, run.at # "idle"
        PROVE  StepsLeft' \in 0 .. (StepsLeft - 1) \/ UNCHANGED vars
    BY <1>1, StepsFall DEF Next, Request
  <1> QED BY <1>1, RunsStaySound, PTL DEF Spec, RunsGetNearer
=============================================================================
