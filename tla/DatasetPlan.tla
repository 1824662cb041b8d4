---------------------------- MODULE DatasetPlan ----------------------------
(***************************************************************************)
(* How WorkflowService cuts a period into a training, a validation and a   *)
(* test split and lays walk-forward windows over them                      *)
(* (api/workflow_service.py).  A date is a day number; a period is a       *)
(* record of its first and its last day, both included.  The three plans   *)
(* are the one of a window the user chose, the shortened one of a recent   *)
(* listing, and the one counted back from today when no window is given.   *)
(***************************************************************************)
EXTENDS Integers

Larger(a, b)  == IF a > b THEN a ELSE b
Smaller(a, b) == IF a < b THEN a ELSE b

\* max(low, min(high, x)), the form in which the code bounds every length.
Clamp(low, high, x) == Larger(low, Smaller(high, x))

Days(p) == p.to - p.from + 1

(***************************************************************************)
(* Lengths                                                                 *)
(***************************************************************************)

\* Half a shortfall, rounded up, is first taken from the validation split,
\* the rest from the test split; neither goes below its floor.
Shortened(total, held, floor, need) ==
    LET short == need - (total - 2 * held)
        give  == Larger(0, held - floor)
        val   == Smaller((short \div 2) + (short % 2), give)
        test  == Smaller(short - val, give)
    IN  IF short > 0 THEN [validation |-> held - val, test |-> held - test]
                     ELSE [validation |-> held, test |-> held]

WindowLengths(total) ==
    Shortened(total, Clamp(30, 120, total \div 6), 30, 90)

RecentLengths(total) ==
    Shortened(total, Clamp(20, 40, total \div 4), 20, 20)

\* What is left for training once both held-out splits are taken.
TrainDays(total, lengths) == total - lengths.validation - lengths.test

(***************************************************************************)
(* Splits and walk-forward windows                                         *)
(***************************************************************************)

\* Mutant: the last day of validation is tested too.
SplitsShared(p, lengths) ==
    LET cut == p.from + TrainDays(Days(p), lengths)
    IN  [train      |-> [from |-> p.from, to |-> cut - 1],
         validation |-> [from |-> cut, to |-> cut + lengths.validation - 1],
         test       |-> [from |-> cut + lengths.validation - 1, to |-> p.to]]

\* Three periods that follow one another from the first day to the last.
Splits(p, lengths) ==
    LET train == TrainDays(Days(p), lengths)
        cut   == p.from + train
    IN  [train      |-> [from |-> p.from, to |-> cut - 1],
         validation |-> [from |-> cut, to |-> cut + lengths.validation - 1],
         test       |-> [from |-> cut + lengths.validation, to |-> p.to]]

\* A walk-forward window that is evaluated from day first to day last and
\* trained on at most span days before it, none of them before the period.
Forward(start, first, last, span) ==
    [train      |-> [from |-> Larger(start, first - span), to |-> first - 1],
     validation |-> [from |-> first, to |-> last]]

\* Up to three windows counted back from the end of the validation split;
\* one that would begin before the split, or has no days to train on, is
\* left out.
WindowWalks(splits) ==
    LET val  == splits.validation
        step == Clamp(20, 60, Days(val) \div 2)
        span == Clamp(120, 365, Days(splits.train))
        Walk(i) == Forward(splits.train.from, val.to - (i + 1) * step + 1,
                           val.to - i * step, span)
    IN  {w \in {Walk(i) : i \in 0..2} :
            w.validation.from >= val.from /\ w.train.to > w.train.from}

RecentWalks(splits) ==
    LET val  == splits.validation
        walk == Forward(splits.train.from,
                        val.to - Clamp(10, 20, Days(val)) + 1, val.to,
                        Larger(20, Smaller(Days(splits.train), 90)))
    IN  {w \in {walk} : w.train.to > w.train.from}

Plan(kind, splits, walks) ==
    [kind |-> kind, train |-> splits.train, validation |-> splits.validation,
     test |-> splits.test, walks |-> walks]

(***************************************************************************)
(* The plans, and when the code refuses to make one                        *)
(***************************************************************************)

WindowAccepted(p) == p.to > p.from /\ Days(p) >= 180

WindowPossible(p) == TrainDays(Days(p), WindowLengths(Days(p))) >= 90

WindowPlan(p) ==
    LET splits == Splits(p, WindowLengths(Days(p)))
    IN  Plan("window", splits, WindowWalks(splits))

RecentAccepted(p) == Days(p) >= 60

RecentPossible(p) == TrainDays(Days(p), RecentLengths(Days(p))) >= 20

RecentPlan(p) ==
    LET splits == Splits(p, RecentLengths(Days(p)))
    IN  Plan("recent", splits, RecentWalks(splits))

\* Round n of a session ends n - 1 weeks before today: 90 days of test, 90
\* of validation, 730 of training.  The windows end 90 days apart; the first
\* is evaluated on the 45 days after the validation split, in the test split.
DefaultPlan(today, n) ==
    LET last    == today - (n - 1) * 7
        splits  == Splits([from |-> last - 909, to |-> last],
                          [validation |-> 90, test |-> 90])
        Walk(i) == LET anchor == splits.validation.to - i * 90
                   IN  [train      |-> [from |-> anchor - 179, to |-> anchor],
                        validation |-> [from |-> anchor + 1, to |-> anchor + 45]]
    IN  Plan("default", splits, {Walk(i) : i \in 0..2})

(***************************************************************************)
(* What a plan must satisfy                                                *)
(***************************************************************************)

\* The splits are not empty and follow one another without a gap or a day in
\* common, so nothing that is tested was trained on.
Consecutive(plan) ==
    /\ plan.train.from <= plan.train.to
    /\ plan.validation.from = plan.train.to + 1
    /\ plan.validation.from <= plan.validation.to
    /\ plan.test.from = plan.validation.to + 1
    /\ plan.test.from <= plan.test.to

\* A walk-forward window looks at no day it is then evaluated on, and at none
\* before the period.
NoLookAhead(plan) ==
    \A w \in plan.walks :
        /\ plan.train.from <= w.train.from
        /\ w.train.from < w.train.to
        /\ w.train.to < w.validation.from
        /\ w.validation.from <= w.validation.to

\* Its evaluation stays in the validation split: the test split is kept for
\* the comparison.  The plan counted back from today is not of this kind.
TestIsKept(plan) ==
    \A w \in plan.walks :
        /\ plan.validation.from <= w.validation.from
        /\ w.validation.to <= plan.validation.to

SoundPlan(plan) ==
    /\ Consecutive(plan)
    /\ NoLookAhead(plan)
    /\ plan.kind # "default" => TestIsKept(plan)
=============================================================================
