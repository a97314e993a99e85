---------------------------- MODULE DagExecutor ----------------------------
(***************************************************************************)
(* orchestrator.Executor: one call of Execute (or of ExecuteToNode, which  *)
(* runs Execute on the sub-DAG leading to a target).                       *)
(*                                                                         *)
(* The goroutine that calls Execute is the scheduler: it dispatches the    *)
(* ready nodes, then receives one result at a time from the unbuffered     *)
(* channel `done', records it, skips the descendants of a failed node and  *)
(* releases the children whose last predecessor it was.  Each dispatched   *)
(* node has a worker goroutine that takes a slot of the semaphore, looks   *)
(* at completed and at the context, runs the node, offers the result on    *)
(* `done' and gives the slot back.  The context may be cancelled (by the   *)
(* caller or by its deadline) at any moment.                               *)
(*                                                                         *)
(* The worker of a node is a goroutine of its own, so the order in which   *)
(* the sorted ready list is drained does not constrain anything: ready is  *)
(* always empty between two steps of the scheduler and is not a variable.  *)
(***************************************************************************)
EXTENDS Integers, Dag

CONSTANTS
  Node,      \* every node of the strategy's graph
  MaxConc,   \* ExecutorConfig.MaxConcurrency
  Graphs,    \* the edge lists a run may be started with
  NoNode     \* no node: the scheduler is not handling a result

ASSUME NodeAssumption    == IsFiniteSet(Node)
ASSUME MaxConcAssumption == MaxConc \in Nat \ {0}
ASSUME GraphsAssumption  == \A g \in Graphs : Valid(g, Node)
ASSUME NoNodeAssumption  == NoNode \notin Node

VARIABLES
  edges,       \* req.DAG.Edges, of the sub-DAG for a trial run
  scope,       \* req.DAG.Nodes
  ctxDone,     \* ctx.Err() # nil
  sched,       \* where the scheduler goroutine is
  current,     \* the node whose result onNodeDone is handling
  pending,     \* pending[n]: incoming edges whose source is not handled yet
  result,      \* summary.NodeResults and completed, "none" for no entry
  worker,      \* worker[n]: where the goroutine of n is, "none" before dispatch
  answer,      \* answer[n]: what n's worker offers on done
  inputs,      \* inputs[n]: the predecessors whose payload n was given
  inFlight,    \* dispatched nodes whose result was not received yet
  firstErr,    \* some node failed: the error Execute returns
  status       \* summary.Status

vars == <<edges, scope, ctxDone, sched, current, pending, result, worker,
          answer, inputs, inFlight, firstErr, status>>

Result == {"none", "success", "failed", "upstream_failed", "cancelled",
           "not_in_target_path"}

(* Workers that hold a slot of the semaphore. *)
Holding == {n \in Node : worker[n] \in {"holding", "running", "sending", "releasing"}}

Dispatch(S) ==
  /\ worker' = [n \in Node |-> IF n \in S THEN "waiting" ELSE worker[n]]
  /\ inFlight' = inFlight + Cardinality(S)

(***************************************************************************)
(* Execute and ExecuteToNode are entered: on the whole graph, or on the    *)
(* part of it that leads to a target.                                      *)
(***************************************************************************)
Init ==
  /\ \E g \in Graphs :
       \/ edges = g /\ scope = Node
       \/ \E target \in Node :
            /\ scope = InPath(g, Node, target)
            /\ edges = EdgesWithin(g, scope)
  /\ ctxDone \in BOOLEAN
  /\ sched = "entered"
  /\ current = NoNode
  /\ pending = [n \in Node |-> 0]
  /\ result = [n \in Node |-> "none"]
  /\ worker = [n \in Node |-> "none"]
  /\ answer = [n \in Node |-> "none"]
  /\ inputs = [n \in Node |-> {}]
  /\ inFlight = 0
  /\ firstErr = FALSE
  /\ status = "none"

----------------------------------------------------------------------------
(* The scheduler *)

(* Some node's type is not registered: the run fails before its first node. *)
RejectUnknownType ==
  /\ sched = "entered"
  /\ sched' = "summarised"
  /\ status' = "failed"
  /\ firstErr' = TRUE
  /\ UNCHANGED <<edges, scope, ctxDone, current, pending, result, worker, answer,
                 inputs, inFlight>>

(* Mutant: the skip-all branch also runs when the context dies later. *)
SkipAllMidRun ==
  /\ sched \in {"entered", "receiving"}
  /\ ctxDone
  /\ result' = [n \in Node |-> IF n \in scope THEN "cancelled" ELSE result[n]]
  /\ sched' = "receiving"
  /\ UNCHANGED <<edges, scope, ctxDone, current, pending, worker, answer, inputs,
                 inFlight, firstErr, status>>

(* The context was dead on entry: every node is skipped, none dispatched. *)
SkipAll ==
  /\ sched = "entered"
  /\ ctxDone
  /\ result' = [n \in Node |-> IF n \in scope THEN "cancelled" ELSE result[n]]
  /\ sched' = "receiving"
  /\ UNCHANGED <<edges, scope, ctxDone, current, pending, worker, answer, inputs,
                 inFlight, firstErr, status>>

(* pending is counted, and the roots are dispatched. *)
Start ==
  /\ sched = "entered"
  /\ ~ctxDone
  /\ pending' = [n \in Node |-> Cardinality(InEdges(edges, n))]
  /\ Dispatch(Roots(edges, scope))
  /\ sched' = "receiving"
  /\ UNCHANGED <<edges, scope, ctxDone, current, result, answer, inputs, firstErr,
                 status>>

(* res := <-done, then recordResult. *)
Receive(n) ==
  /\ sched = "receiving"
  /\ worker[n] = "sending"
  /\ worker' = [worker EXCEPT ![n] = "releasing"]
  /\ inFlight' = inFlight - 1
  /\ result' = [result EXCEPT ![n] = answer[n]]
  /\ firstErr' = (firstErr \/ answer[n] = "failed")
  /\ current' = n
  /\ sched' = IF answer[n] = "failed" THEN "cascading" ELSE "promoting"
  /\ UNCHANGED <<edges, scope, ctxDone, pending, answer, inputs, status>>

(* Mutant: only the children of the failed node are skipped. *)
CascadeToChildren ==
  /\ sched = "cascading"
  /\ result' = [m \in Node |->
                  IF m \in Successors(edges, current) /\ result[m] = "none"
                  THEN "upstream_failed" ELSE result[m]]
  /\ sched' = "promoting"
  /\ UNCHANGED <<edges, scope, ctxDone, current, pending, worker, answer, inputs,
                 inFlight, firstErr, status>>

(* onNodeDone, second critical section: descendants without a result. *)
Cascade ==
  /\ sched = "cascading"
  /\ result' = [m \in Node |->
                  IF m \in Descendants(edges, scope, current) /\ result[m] = "none"
                  THEN "upstream_failed" ELSE result[m]]
  /\ sched' = "promoting"
  /\ UNCHANGED <<edges, scope, ctxDone, current, pending, worker, answer, inputs,
                 inFlight, firstErr, status>>

(* Mutant: the last predecessor is not waited for. *)
PromoteEarly ==
  LET Children == {m \in Successors(edges, current) : result[m] = "none"}
      left     == [m \in Node |-> IF m \in Children THEN pending[m] - 1 ELSE pending[m]]
  IN /\ sched = "promoting"
     /\ pending' = left
     /\ Dispatch({m \in Children : left[m] <= 1 /\ worker[m] = "none"})
     /\ sched' = "receiving"
     /\ current' = NoNode
     /\ UNCHANGED <<edges, scope, ctxDone, result, answer, inputs, firstErr, status>>

(***************************************************************************)
(* enqueueChildren, then drainReady: one decrement per edge to a child     *)
(* that has no result yet; a child that reaches zero is dispatched.        *)
(***************************************************************************)
Promote ==
  LET Children == {m \in Successors(edges, current) : result[m] = "none"}
      left     == [m \in Node |->
                     IF m \in Children
                     THEN pending[m] - Cardinality(InEdges(edges, m)
                                                   \cap OutEdges(edges, current))
                     ELSE pending[m]]
  IN /\ sched = "promoting"
     /\ pending' = left
     /\ Dispatch({m \in Children : left[m] <= 0})
     /\ sched' = "receiving"
     /\ current' = NoNode
     /\ UNCHANGED <<edges, scope, ctxDone, result, answer, inputs, firstErr, status>>

(* Mutant: skips are looked at before failures. *)
AggregateSkipsFirst(outcomes) ==
  IF outcomes \cap {"upstream_failed", "cancelled"} # {} THEN "partial"
  ELSE IF "failed" \in outcomes THEN "failed"
  ELSE "success"

(* aggregateStatus *)
Aggregate(outcomes) ==
  IF "failed" \in outcomes THEN "failed"
  ELSE IF outcomes \cap {"upstream_failed", "cancelled"} # {} THEN "partial"
  ELSE "success"

(* Mutant: the loop ends when nothing is ready (the defect the comment of *)
(* the scheduler remembers).                                              *)
SummariseWhenNothingReady ==
  /\ sched = "receiving"
  /\ status' = Aggregate({result[n] : n \in scope})
  /\ sched' = "summarised"
  /\ UNCHANGED <<edges, scope, ctxDone, current, pending, result, worker, answer,
                 inputs, inFlight, firstErr>>

(* Nothing in flight and nothing ready: the loop ends. *)
Summarise ==
  /\ sched = "receiving"
  /\ inFlight = 0
  /\ status' = Aggregate({result[n] : n \in scope})
  /\ sched' = "summarised"
  /\ UNCHANGED <<edges, scope, ctxDone, current, pending, result, worker, answer,
                 inputs, inFlight, firstErr>>

(* ExecuteToNode's tail: the nodes outside the path are reported skipped. *)
Return ==
  /\ sched = "summarised"
  /\ result' = [n \in Node |-> IF n \in scope \/ result[n] # "none"
                                THEN result[n] ELSE "not_in_target_path"]
  /\ sched' = "returned"
  /\ UNCHANGED <<edges, scope, ctxDone, current, pending, worker, answer, inputs,
                 inFlight, firstErr, status>>

----------------------------------------------------------------------------
(* The worker of node n *)

Acquire(n) ==
  /\ worker[n] = "waiting"
  /\ Cardinality(Holding) < MaxConc
  /\ worker' = [worker EXCEPT ![n] = "holding"]
  /\ UNCHANGED <<edges, scope, ctxDone, sched, current, pending, result, answer,
                 inputs, inFlight, firstErr, status>>

Offer(n, res) ==
  /\ worker' = [worker EXCEPT ![n] = "sending"]
  /\ answer' = [answer EXCEPT ![n] = res]

(* runOneNode up to Run: completed, the context, then the inputs. *)
Begin(n) ==
  /\ worker[n] = "holding"
  /\ IF result[n] # "none"
     THEN Offer(n, result[n]) /\ UNCHANGED inputs
     ELSE IF ctxDone
     THEN Offer(n, "cancelled") /\ UNCHANGED inputs
     ELSE /\ worker' = [worker EXCEPT ![n] = "running"]
          /\ inputs' = [inputs EXCEPT ![n] =
                          {p \in Predecessors(edges, n) : result[p] = "success"}]
          /\ UNCHANGED answer
  /\ UNCHANGED <<edges, scope, ctxDone, sched, current, pending, result, inFlight,
                 firstErr, status>>

(* Mutant: the worker of a node that panics dies without offering a result. *)
FinishLosingPanics(n) ==
  /\ worker[n] = "running"
  /\ \/ Offer(n, "success")
     \/ worker' = [worker EXCEPT ![n] = "releasing"] /\ UNCHANGED answer
  /\ UNCHANGED <<edges, scope, ctxDone, sched, current, pending, result, inputs,
                 inFlight, firstErr, status>>

(***************************************************************************)
(* nodeImpl.Run returns.  An error is a skip when the run's own context is *)
(* dead or when the error is context.Canceled, whoever cancelled; a panic  *)
(* is a failure, whatever the context.                                     *)
(***************************************************************************)
Finish(n) ==
  /\ worker[n] = "running"
  /\ \/ Offer(n, "success")
     \/ Offer(n, IF ctxDone THEN "cancelled" ELSE "failed")
     \/ Offer(n, "cancelled")
     \/ Offer(n, "failed")
  /\ UNCHANGED <<edges, scope, ctxDone, sched, current, pending, result, inputs,
                 inFlight, firstErr, status>>

Release(n) ==
  /\ worker[n] = "releasing"
  /\ worker' = [worker EXCEPT ![n] = "exited"]
  /\ UNCHANGED <<edges, scope, ctxDone, sched, current, pending, result, answer,
                 inputs, inFlight, firstErr, status>>

(* The environment: the caller cancels, or the run's deadline passes. *)
CancelContext ==
  /\ ~ctxDone
  /\ sched # "returned"
  /\ ctxDone' = TRUE
  /\ UNCHANGED <<edges, scope, sched, current, pending, result, worker, answer,
                 inputs, inFlight, firstErr, status>>

(* Execute has returned and its goroutines are gone. *)
Over ==
  /\ sched = "returned"
  /\ \A n \in Node : worker[n] \in {"none", "exited"}
  /\ UNCHANGED vars

Scheduler ==
  \/ RejectUnknownType \/ SkipAll \/ Start
  \/ \E n \in Node : Receive(n)
  \/ Cascade \/ Promote \/ Summarise \/ Return

Worker(n) == Acquire(n) \/ Begin(n) \/ Finish(n) \/ Release(n)

Next == Scheduler \/ (\E n \in Node : Worker(n)) \/ CancelContext \/ Over

(* Goroutines run, and every Run returns within its node's timeout. *)
Fairness ==
  /\ WF_vars(Scheduler)
  /\ \A n \in Node : SF_vars(Acquire(n)) /\ WF_vars(Begin(n) \/ Finish(n) \/ Release(n))

Spec == Init /\ [][Next]_vars
FairSpec == Spec /\ Fairness

----------------------------------------------------------------------------
(* Properties *)

TypeOK ==
  /\ IsEdgeList(edges, scope)
  /\ scope \in SUBSET Node
  /\ ctxDone \in BOOLEAN
  /\ sched \in {"entered", "receiving", "cascading", "promoting", "summarised",
                "returned"}
  /\ current \in Node \cup {NoNode}
  /\ pending \in [Node -> Int]
  /\ result \in [Node -> Result]
  /\ worker \in [Node -> {"none", "waiting", "holding", "running", "sending",
                         "releasing", "exited"}]
  /\ answer \in [Node -> Result]
  /\ inputs \in [Node -> SUBSET Node]
  /\ inFlight \in Int
  /\ firstErr \in BOOLEAN
  /\ status \in {"none", "success", "failed", "partial"}

InFlight == {n \in Node : worker[n] \in {"waiting", "holding", "running", "sending"}}

Ended == sched \in {"summarised", "returned"}

(***************************************************************************)
(* A node is dispatched only after every predecessor has its result, and   *)
(* never when one of them failed or was skipped for a failure, whatever    *)
(* the order in which workers report and however often the list names an   *)
(* edge.                                                                   *)
(***************************************************************************)
RunsAfterPredecessors ==
  \A n \in Node : worker[n] # "none" =>
    \A p \in Predecessors(edges, n) : result[p] \in {"success", "cancelled"}

(***************************************************************************)
(* A node that was run was given the payload of every predecessor that was *)
(* not cancelled: no result is recorded after the child it feeds starts.   *)
(***************************************************************************)
InputsComplete ==
  \A n \in Node : (worker[n] = "running" \/ answer[n] = "success") =>
    inputs[n] = {p \in Predecessors(edges, n) : result[p] # "cancelled"}

(***************************************************************************)
(* Once the scheduler has handled a failure, every descendant of the       *)
(* failed node is skipped for it and has no worker.                        *)
(***************************************************************************)
FailureCascades ==
  sched # "cascading" =>
    \A n \in scope : result[n] = "failed" =>
      \A m \in Descendants(edges, scope, n) :
        result[m] = "upstream_failed" /\ worker[m] = "none"

(***************************************************************************)
(* A worker is never overtaken by a cascade or by another result: nothing  *)
(* is in completed for a node in flight.                                   *)
(***************************************************************************)
InFlightUndecided == \A n \in InFlight : result[n] = "none"

(***************************************************************************)
(* When the loop ends every node of the (acyclic) graph has a result and   *)
(* no worker still has one to deliver, or the run was rejected before any  *)
(* dispatch.                                                               *)
(***************************************************************************)
EveryNodeReported ==
  Ended => /\ InFlight = {}
           /\ \/ \A n \in scope : result[n] # "none"
              \/ status = "failed" /\ \A n \in scope : worker[n] = "none"

(* At most MaxConc nodes are running at any time. *)
ConcurrencyBounded == Cardinality({n \in Node : worker[n] = "running"}) <= MaxConc

(***************************************************************************)
(* Execute returns an error exactly when the summary says failed, and the  *)
(* summary says partial only when the context or a node was cancelled and  *)
(* no node failed.                                                         *)
(***************************************************************************)
StatusExplained ==
  Ended => /\ firstErr <=> status = "failed"
           /\ status = "partial" => \E n \in scope : result[n] = "cancelled"
           /\ status = "success" => \A n \in scope : result[n] = "success"

(***************************************************************************)
(* A graph with a cycle has nodes that can never run, so a run over it is  *)
(* not a success: "Trial-run must reject it with a clear error rather than *)
(* executing forever or returning stale results"                           *)
(* (dag_structural_test.go).                                               *)
(***************************************************************************)
CycleRejected == Ended /\ ~Acyclic(edges, scope) => status # "success"

(***************************************************************************)
(* A result is final, and a node is dispatched at most once: no cascade,   *)
(* duplicate edge or late worker rewrites what was recorded.               *)
(***************************************************************************)
ResultsFinal ==
  [][\A n \in Node : /\ result[n] # "none" => result'[n] = result[n]
                     /\ worker[n] # "none" => worker'[n] # "waiting" \/ worker[n] = "waiting"]_vars

(***************************************************************************)
(* Every run returns and leaves no goroutine behind, also when nodes       *)
(* panic, fail or are cancelled and however few slots there are.           *)
(***************************************************************************)
Terminates ==
  <>(sched = "returned" /\ \A n \in Node : worker[n] \in {"none", "exited"})

(***************************************************************************)
(* The executor implements DagRun: in the abstract run a failure and its   *)
(* cascade are one step.                                                   *)
(***************************************************************************)
Outcome ==
  [n \in Node |->
     IF /\ sched = "cascading"
        /\ n \in Descendants(edges, scope, current)
        /\ result[n] = "none"
     THEN "upstream_failed" ELSE result[n]]

Abstract == INSTANCE DagRun WITH outcome <- Outcome
ImplementsDagRun == Abstract!Spec
=============================================================================
