--------------------------- MODULE MC_NaiveCodeGen ---------------------------
(***************************************************************************)
(* Model-checking instance of NaiveCodeGen.  The intervals are the ones    *)
(* vertical regions typically declare: the whole column, its bottom and    *)
(* top level, and the column without its bottom or top level.              *)
(***************************************************************************)
EXTENDS NaiveCodeGen

MC_Intervals ==
  { MakeInterval(Bound("Start", 0), Bound("End", 0)),     \* [Start, End]
    MakeInterval(Bound("Start", 0), Bound("Start", 0)),   \* [Start, Start]
    MakeInterval(Bound("Start", 1), Bound("End", 0)),     \* [Start+1, End]
    MakeInterval(Bound("End", 0), Bound("End", 0)),       \* [End, End]
    MakeInterval(Bound("Start", 0), Bound("End", -1)) }   \* [Start, End-1]
=============================================================================
