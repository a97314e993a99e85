------------------------------- MODULE MCRuns -------------------------------
(***************************************************************************)
(* The rows of runs and the bus their events go over, in one run: a        *)
(* behaviour is one of the jobs (the bus keeps still) or one of the bus.   *)
(* What is fair is not enabled in the part that keeps still.               *)
(***************************************************************************)
EXTENDS RunLifecycle, EventBus

VARIABLE focus

allVars == <<focus, vars, busVars>>

MCInit == focus \in {"jobs", "bus"} /\ Init /\ BusInit /\ (focus = "bus" => ~faulty)

MCNext ==
  /\ UNCHANGED focus
  /\ \/ focus = "jobs" /\ Next /\ UNCHANGED busVars
     \/ focus = "bus" /\ BusNext /\ UNCHANGED vars

MCSpec ==
  /\ MCInit /\ [][MCNext]_allVars
  /\ \A j \in Job : WF_vars(Step(j))
  /\ BusFairness
=============================================================================
