--------------------------- MODULE MCPerformance ---------------------------
(***************************************************************************)
(* Performance with one or two horizons and interchangeable passes, and a  *)
(* calendar table with a row for every day, or with none.                  *)
(***************************************************************************)
EXTENDS Performance, TLC

NearAndFar == <<1, 2>>
Near == <<1>>
Full == {Day}
Empty == {{}}
Passes == Permutations(Job)
=============================================================================
