------------------------------ MODULE MCMarket ------------------------------
(***************************************************************************)
(* What is built on the sources, in one run.  A behaviour works one of     *)
(*   quotes   callers of GetQuote over a chain of two sources;             *)
(*   passes   overlapping passes over one recommendation, three days;      *)
(*   turns    passes that take turns, over two recommendations, two days,  *)
(* and the rest of the system keeps still meanwhile.                       *)
(***************************************************************************)
EXTENDS MarketData, Performance

VARIABLE focus

TwoSources == <<"primary", "fallback">>
NearAndFar == <<1, 2>>
FullTable == {0..2}
Alike == Permutations(Caller) \cup Permutations(Job)

Turns == INSTANCE Performance WITH
           MaxDay <- 1, MaxRec <- 2, Horizon <- <<1>>, Tables <- {{}, 0..1}

allVars == <<focus, vars, perfVars>>

MCInit ==
  /\ Init
  /\ \/ focus = "quotes" /\ PerfInit /\ open = {0} /\ traded = {0}
     \/ focus = "passes" /\ PerfInit
     \/ focus = "turns" /\ Turns!PerfInit

MCNext ==
  /\ UNCHANGED focus
  /\ \/ focus = "quotes" /\ Next /\ UNCHANGED perfVars
     \/ focus = "passes" /\ PerfNext /\ UNCHANGED vars
     \/ /\ focus = "turns" /\ Turns!PerfNext /\ UNCHANGED vars
        /\ \E j \in Job : \A k \in Job \ {j} : at'[k] = "idle"

MCSpec == MCInit /\ [][MCNext]_allVars
=============================================================================
