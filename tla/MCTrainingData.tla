--------------------------- MODULE MCTrainingData ---------------------------
(***************************************************************************)
(* TrainingData for TLC: two symbols with years of bars, and the local     *)
(* files of both, or with the last months of one of them only.             *)
(***************************************************************************)
EXTENDS TrainingData

MCToday == 4000

\* A year, and a window too short to be accepted.
MCWindows == {[from |-> 3600, to |-> 3964], [from |-> 3900, to |-> 3999]}

AlphavantageFirst == <<"alphavantage", "local_file">>

Period(first, last, dated) == [from |-> first, to |-> last, dated |-> dated]

MCListed == [s \in Symbols |-> 1000]

FullFiles == [s \in Symbols |-> Period(1000, 4000, TRUE)]
HalfFiles == [s \in Symbols |-> IF s = "a" THEN Period(1000, 4000, TRUE)
                                          ELSE Period(3700, 4000, TRUE)]
=============================================================================
