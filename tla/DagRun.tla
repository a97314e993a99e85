------------------------------- MODULE DagRun -------------------------------
(***************************************************************************)
(* What one run of a strategy promises, without workers, channels or       *)
(* counters: every node of the graph gets exactly one outcome, and it gets *)
(* it after its predecessors; a failure takes all of its descendants with  *)
(* it; the run's status is the aggregate of the outcomes.                  *)
(***************************************************************************)
EXTENDS Dag

CONSTANT Node

VARIABLES
  edges,    \* the edge list handed to Execute
  scope,    \* its nodes: all of Node, or the path to a trial-run target
  outcome,  \* outcome[n]: "none" until n is finished
  status    \* the run's status, "none" until it has ended

vars == <<edges, scope, outcome, status>>

Aggregate(outcomes) ==
  CASE "failed" \in outcomes -> "failed"
    [] "failed" \notin outcomes /\ outcomes \subseteq {"success"} -> "success"
    [] OTHER -> "partial"

Init ==
  /\ scope \subseteq Node
  /\ Valid(edges, scope)
  /\ outcome = [n \in Node |-> "none"]
  /\ status = "none"

(* All predecessors of n have finished, and none of them in failure. *)
MayFinish(n) ==
  /\ status = "none"
  /\ n \in scope
  /\ outcome[n] = "none"
  /\ \A p \in Predecessors(edges, n) : outcome[p] \in {"success", "cancelled"}

Finish(n, how) ==
  /\ MayFinish(n)
  /\ outcome' = [outcome EXCEPT ![n] = how]
  /\ UNCHANGED <<edges, scope, status>>

(* A failure is final for every descendant that has no outcome yet. *)
Fail(n) ==
  /\ MayFinish(n)
  /\ outcome' = [m \in Node |->
                   IF m = n THEN "failed"
                   ELSE IF m \in Descendants(edges, scope, n) /\ outcome[m] = "none"
                        THEN "upstream_failed" ELSE outcome[m]]
  /\ UNCHANGED <<edges, scope, status>>

(* The run was cancelled before its first node. *)
CancelAll ==
  /\ status = "none"
  /\ \A n \in scope : outcome[n] = "none"
  /\ outcome' = [n \in Node |-> IF n \in scope THEN "cancelled" ELSE "none"]
  /\ UNCHANGED <<edges, scope, status>>

(* A node type nobody registered fails the run before its first node. *)
Reject ==
  /\ status = "none"
  /\ \A n \in scope : outcome[n] = "none"
  /\ status' = "failed"
  /\ UNCHANGED <<edges, scope, outcome>>

End ==
  /\ status = "none"
  /\ \A n \in scope : outcome[n] # "none"
  /\ status' = Aggregate({outcome[n] : n \in scope})
  /\ UNCHANGED <<edges, scope, outcome>>

(* A trial run reports the nodes outside the path as not run. *)
Report ==
  /\ status # "none"
  /\ outcome' = [n \in Node |-> IF n \in scope THEN outcome[n] ELSE "not_in_target_path"]
  /\ UNCHANGED <<edges, scope, status>>

Next ==
  \/ \E n \in Node : \/ Finish(n, "success")
                     \/ Finish(n, "cancelled")
                     \/ Fail(n)
  \/ CancelAll \/ Reject \/ End \/ Report

Spec == Init /\ [][Next]_vars /\ WF_vars(Next)
=============================================================================
