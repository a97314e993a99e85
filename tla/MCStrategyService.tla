------------------------- MODULE MCStrategyService -------------------------
(***************************************************************************)
(* StrategyService with interchangeable requests, graphs and expressions   *)
(* (only safety is checked, so the symmetry is sound).                     *)
(***************************************************************************)
EXTENDS StrategyService, TLC

Symmetry == Permutations(Request) \cup Permutations(Dag) \cup Permutations(Expr)
=============================================================================
