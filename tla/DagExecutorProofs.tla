------------------------- MODULE DagExecutorProofs -------------------------
(***************************************************************************)
(* Theorems about DagExecutor, for every node set, every number of slots   *)
(* and every set of valid graphs.                                          *)
(***************************************************************************)
EXTENDS DagExecutor, FiniteSetTheorems, TLAPS

(***************************************************************************)
(* The inductive invariant.  A node is handled when onNodeDone is through  *)
(* with its result; pending counts the edges whose source is not.          *)
(***************************************************************************)
Handled == {n \in Node : worker[n] \in {"releasing", "exited"} /\ n # current}

OpenEdges(n) == {i \in InEdges(edges, n) : edges[i][1] \notin Handled}

Dispatching == sched \in {"receiving", "cascading", "promoting"}

(* Where the scheduler is agrees with the result it is handling. *)
SchedInv ==
  /\ sched = "entered" => /\ inFlight = 0
                          /\ \A n \in Node : worker[n] = "none" /\ result[n] = "none"
  /\ sched \in {"cascading", "promoting"} =>
       current \in scope /\ worker[current] \in {"releasing", "exited"}
  /\ sched \notin {"cascading", "promoting"} => current = NoNode
  /\ sched = "cascading" => result[current] = "failed"

(* Where a worker is agrees with the result of its node. *)
WorkerInv ==
  \A n \in Node :
    /\ worker[n] # "none" => n \in scope
    /\ n \in InFlight => result[n] = "none"
    /\ worker[n] = "sending" => answer[n] \in {"success", "failed", "cancelled"}
    /\ worker[n] \in {"releasing", "exited"} =>
         result[n] \in {"success", "failed", "cancelled"}

(* Everything before a dispatched node is handled, and did not fail. *)
OrderInv ==
  \A n \in Node : worker[n] # "none" =>
    \A i \in InEdges(edges, n) :
      edges[i][1] \in Handled /\ result[edges[i][1]] \in {"success", "cancelled"}

(* pending counts the open edges of a node that still waits for its turn. *)
CountInv ==
  Dispatching => \A n \in scope : worker[n] = "none" /\ result[n] = "none" =>
    pending[n] = Cardinality(OpenEdges(n)) /\ OpenEdges(n) # {}

(* A failure, or a skip for a failure, has reached every child. *)
CascadeInv ==
  \A i \in DOMAIN edges :
    /\ result[edges[i][1]] \in {"failed", "upstream_failed"}
    /\ ~(sched = "cascading" /\ edges[i][1] = current)
    => result[edges[i][2]] = "upstream_failed"

(* Without a worker, a result comes from a cascade or from a dead context. *)
SkipInv ==
  Dispatching => \A n \in scope :
    worker[n] = "none" /\ result[n] \notin {"none", "upstream_failed"} =>
      \A m \in scope : result[m] = "cancelled"

SlotInv == inFlight = Cardinality(InFlight) /\ Cardinality(Holding) <= MaxConc

IInv == TypeOK /\ SchedInv /\ WorkerInv /\ OrderInv /\ CountInv /\ CascadeInv
        /\ SkipInv /\ SlotInv

----------------------------------------------------------------------------
(* Type correctness *)

LEMMA WithinIsEdgeList ==
  ASSUME NEW g, NEW N, NEW S, IsEdgeList(g, N)
  PROVE  IsEdgeList(EdgesWithin(g, S), S)
<1> DEFINE D == {j \in DOMAIN g : g[j][1] \in S /\ g[j][2] \in S}
<1>1. IsFiniteSet(D)
  BY FS_Subset DEF IsEdgeList
<1>2. \A j \in D : g[j] \in S \X S
  BY DEF IsEdgeList
<1>3. [i \in D |-> g[i]] \in [D -> S \X S]
  BY <1>2
<1>4. QED
  BY <1>1, <1>3 DEF IsEdgeList, EdgesWithin

LEMMA InEdgesFinite ==
  ASSUME NEW g, NEW N, NEW n, IsEdgeList(g, N)
  PROVE  IsFiniteSet(InEdges(g, n)) /\ Cardinality(InEdges(g, n)) \in Nat
BY FS_Subset, FS_CardinalityType DEF IsEdgeList, InEdges

LEMMA NodeSubsetFinite ==
  ASSUME NEW S \in SUBSET Node
  PROVE  IsFiniteSet(S) /\ Cardinality(S) \in Nat
BY NodeAssumption, FS_Subset, FS_CardinalityType

LEMMA InitType == Init => TypeOK
<1> SUFFICES ASSUME Init PROVE TypeOK
  OBVIOUS
<1>1. IsEdgeList(edges, scope) /\ scope \in SUBSET Node
  <2>1. PICK g \in Graphs :
          \/ edges = g /\ scope = Node
          \/ \E target \in Node : scope = InPath(g, Node, target)
                                 /\ edges = EdgesWithin(g, scope)
    BY DEF Init
  <2>2. IsEdgeList(g, Node)
    BY GraphsAssumption DEF Valid
  <2>3. CASE edges = g /\ scope = Node
    BY <2>2, <2>3
  <2>4. ASSUME NEW target \in Node, scope = InPath(g, Node, target),
               edges = EdgesWithin(g, scope)
        PROVE  IsEdgeList(edges, scope) /\ scope \in SUBSET Node
    <3>1. scope \in SUBSET Node
      BY <2>4 DEF InPath
    <3>2. QED
      BY <2>2, <2>4, <3>1, WithinIsEdgeList
  <2>5. QED
    BY <2>1, <2>3, <2>4
<1>2. /\ ctxDone \in BOOLEAN /\ sched = "entered" /\ current = NoNode
      /\ pending = [n \in Node |-> 0] /\ result = [n \in Node |-> "none"]
      /\ worker = [n \in Node |-> "none"] /\ answer = [n \in Node |-> "none"]
      /\ inputs = [n \in Node |-> {}]
      /\ inFlight = 0 /\ firstErr \in BOOLEAN /\ status = "none"
  BY DEF Init
<1>3. QED
  BY <1>1, <1>2 DEF TypeOK, Result

LEMMA NextType == TypeOK /\ [Next]_vars => TypeOK'
<1> SUFFICES ASSUME TypeOK, [Next]_vars PROVE TypeOK'
  OBVIOUS
<1> USE DEF TypeOK
<1>1. CASE RejectUnknownType
  BY <1>1 DEF RejectUnknownType
<1>2. CASE SkipAll
  BY <1>2 DEF SkipAll, Result
<1>3. CASE Start
  <2>1. Cardinality(Roots(edges, scope)) \in Nat
    BY NodeSubsetFinite DEF Roots
  <2>2. pending' \in [Node -> Int]
    BY <1>3, InEdgesFinite DEF Start
  <2>3. QED
    BY <1>3, <2>1, <2>2 DEF Start, Dispatch
<1>4. ASSUME NEW n \in Node, Receive(n) PROVE TypeOK'
  BY <1>4 DEF Receive
<1>5. CASE Cascade
  BY <1>5 DEF Cascade, Result
<1>6. CASE Promote
  <2> DEFINE Children == {m \in Successors(edges, current) : result[m] = "none"}
             Step(m)  == InEdges(edges, m) \cap OutEdges(edges, current)
             left     == [m \in Node |-> IF m \in Children
                            THEN pending[m] - Cardinality(Step(m)) ELSE pending[m]]
             Next1    == {m \in Children : left[m] <= 0}
  <2>1. \A m \in Node : Cardinality(Step(m)) \in Nat
    BY InEdgesFinite, FS_Subset, FS_CardinalityType
  <2>2. left \in [Node -> Int]
    BY <2>1
  <2>3. Children \subseteq Node
    BY DEF Successors, OutEdges, IsEdgeList
  <2>4. Cardinality(Next1) \in Nat
    BY <2>3, NodeSubsetFinite
  <2>5. /\ pending' = left
        /\ Dispatch(Next1)
        /\ sched' = "receiving" /\ current' = NoNode
        /\ UNCHANGED <<edges, scope, ctxDone, result, answer, inputs, firstErr, status>>
    BY <1>6 DEF Promote
  <2> HIDE DEF Next1, left
  <2>6. QED
    BY <2>2, <2>4, <2>5 DEF Dispatch
<1>7. CASE Summarise
  BY <1>7 DEF Summarise, Aggregate
<1>8. CASE Return
  BY <1>8 DEF Return, Result
<1>9. ASSUME NEW n \in Node, Acquire(n) PROVE TypeOK'
  BY <1>9 DEF Acquire
<1>10. ASSUME NEW n \in Node, Begin(n) PROVE TypeOK'
  <2>1. {p \in Predecessors(edges, n) : result[p] = "success"} \in SUBSET Node
    BY DEF Predecessors, InEdges, IsEdgeList
  <2>2. QED
    BY <1>10, <2>1 DEF Begin, Offer, Result
<1>11. ASSUME NEW n \in Node, Finish(n) PROVE TypeOK'
  BY <1>11 DEF Finish, Offer, Result
<1>12. ASSUME NEW n \in Node, Release(n) PROVE TypeOK'
  BY <1>12 DEF Release
<1>13. CASE CancelContext
  BY <1>13 DEF CancelContext
<1>14. CASE UNCHANGED vars
  BY <1>14 DEF vars
<1>15. QED
  BY <1>1, <1>2, <1>3, <1>4, <1>5, <1>6, <1>7, <1>8, <1>9, <1>10, <1>11, <1>12,
     <1>13, <1>14 DEF Next, Scheduler, Worker, Over

(* Every variable keeps its type in every run of every strategy. *)
THEOREM TypeCorrect == Spec => []TypeOK
<1>1. QED
  BY InitType, NextType, PTL DEF Spec

----------------------------------------------------------------------------
(* The inductive invariant *)

LEMMA InitIInv == Init => IInv
<1> SUFFICES ASSUME Init PROVE IInv
  OBVIOUS
<1>1. /\ sched = "entered" /\ current = NoNode /\ inFlight = 0
      /\ \A n \in Node : worker[n] = "none" /\ result[n] = "none" /\ answer[n] = "none"
  BY DEF Init
<1>2. TypeOK
  BY InitType
<1>3. InFlight = {} /\ Holding = {}
  BY <1>1 DEF InFlight, Holding
<1>4. SlotInv
  BY <1>1, <1>3, FS_EmptySet, MaxConcAssumption DEF SlotInv
<1>5. SchedInv /\ WorkerInv /\ OrderInv
  BY <1>1, <1>3 DEF SchedInv, WorkerInv, OrderInv
<1>6. CountInv /\ SkipInv
  BY <1>1 DEF CountInv, SkipInv, Dispatching
<1>7. CascadeInv
  BY <1>1, <1>2 DEF CascadeInv, TypeOK, IsEdgeList
<1>8. QED
  BY <1>2, <1>4, <1>5, <1>6, <1>7 DEF IInv

(***************************************************************************)
(* A step of a worker that neither records a result nor releases a child:  *)
(* the worker stays in flight, or it exits after handing its result over.  *)
(***************************************************************************)
LEMMA WorkerStep ==
  ASSUME IInv, NEW n \in Node, NEW x,
         worker' = [worker EXCEPT ![n] = x],
         \/ n \in InFlight /\ x \in {"holding", "running", "sending"}
         \/ worker[n] = "releasing" /\ x = "exited",
         x = "sending" => answer'[n] \in {"success", "failed", "cancelled"},
         \A m \in Node \ {n} : answer'[m] = answer[m],
         UNCHANGED <<edges, scope, sched, current, pending, result, inFlight>>
  PROVE  /\ SchedInv' /\ WorkerInv' /\ OrderInv' /\ CountInv' /\ CascadeInv'
         /\ SkipInv' /\ inFlight' = Cardinality(InFlight')
<1>1. TypeOK
  BY DEF IInv
<1>2. InFlight' = InFlight
  BY <1>1 DEF InFlight, TypeOK
<1>3. Handled' = Handled
  BY <1>1 DEF Handled, InFlight, TypeOK
<1>4. /\ \A m \in Node : (worker'[m] = "none") <=> (worker[m] = "none")
      /\ \A m \in Node : worker'[m] \in {"releasing", "exited"}
                           <=> worker[m] \in {"releasing", "exited"}
  BY <1>1 DEF InFlight, TypeOK
<1>5. SchedInv'
  <2>1. \A m \in Node : worker[m] = "none" => worker'[m] = "none"
    BY <1>4
  <2>2. current \in scope => current \in Node
    BY <1>1 DEF TypeOK
  <2>3. QED
    BY <1>4, <2>1, <2>2 DEF IInv, SchedInv
<1>6. WorkerInv'
  <2>1. \A m \in Node : worker'[m] = "sending"
                           => answer'[m] \in {"success", "failed", "cancelled"}
    BY <1>1 DEF IInv, WorkerInv, TypeOK
  <2>2. QED
    BY <1>2, <1>4, <2>1 DEF IInv, WorkerInv
<1>7. OrderInv'
  BY <1>3, <1>4 DEF IInv, OrderInv
<1>8. CountInv'
  <2>1. \A m : OpenEdges(m)' = OpenEdges(m)
    BY <1>3 DEF OpenEdges
  <2>2. \A m \in scope : m \in Node
    BY <1>1 DEF TypeOK
  <2>3. QED
    BY <1>4, <2>1, <2>2 DEF IInv, CountInv, Dispatching
<1>9. CascadeInv'
  BY DEF IInv, CascadeInv
<1>10. SkipInv'
  <2>1. \A m \in scope : m \in Node
    BY <1>1 DEF TypeOK
  <2>2. QED
    BY <1>4, <2>1 DEF IInv, SkipInv, Dispatching
<1>11. inFlight' = Cardinality(InFlight')
  BY <1>2 DEF IInv, SlotInv
<1>12. QED
  BY <1>5, <1>6, <1>7, <1>8, <1>9, <1>10, <1>11

LEMMA AcquireInv ==
  ASSUME IInv, TypeOK', NEW n \in Node, Acquire(n)
  PROVE  IInv'
<1>1. worker' = [worker EXCEPT ![n] = "holding"] /\ n \in InFlight
  BY DEF Acquire, InFlight
<1>2. Holding' = Holding \cup {n} /\ n \notin Holding
  BY <1>1 DEF Acquire, Holding, IInv, TypeOK
<1>3. IsFiniteSet(Holding) /\ Cardinality(Holding) \in Nat
  BY NodeSubsetFinite DEF Holding
<1>4. Cardinality(Holding') = Cardinality(Holding) + 1
  BY <1>2, <1>3, FS_AddElement
<1>5. Cardinality(Holding') <= MaxConc
  <2>1. Cardinality(Holding) < MaxConc
    BY DEF Acquire
  <2>2. QED
    BY <1>3, <1>4, <2>1, MaxConcAssumption
<1>6. QED
  BY <1>1, <1>5, WorkerStep DEF Acquire, IInv, SlotInv

LEMMA BeginInv ==
  ASSUME IInv, TypeOK', NEW n \in Node, Begin(n)
  PROVE  IInv'
<1>1. worker[n] = "holding" /\ n \in InFlight /\ result[n] = "none"
  BY DEF Begin, InFlight, IInv, WorkerInv
<1>2. PICK x \in {"running", "sending"} : worker' = [worker EXCEPT ![n] = x]
  BY <1>1 DEF Begin, Offer
<1>3. Holding' = Holding
  BY <1>1, <1>2 DEF Holding, IInv, TypeOK
<1>4. /\ x = "sending" => answer'[n] \in {"success", "failed", "cancelled"}
      /\ \A m \in Node \ {n} : answer'[m] = answer[m]
  BY <1>1, <1>2 DEF Begin, Offer, IInv, TypeOK
<1>5. UNCHANGED <<edges, scope, sched, current, pending, result, inFlight>>
  BY DEF Begin
<1>6. QED
  BY <1>1, <1>2, <1>3, <1>4, <1>5, WorkerStep DEF IInv, SlotInv

LEMMA FinishInv ==
  ASSUME IInv, TypeOK', NEW n \in Node, Finish(n)
  PROVE  IInv'
<1>1. worker' = [worker EXCEPT ![n] = "sending"] /\ n \in InFlight
  BY DEF Finish, Offer, InFlight
<1>2. Holding' = Holding
  BY <1>1 DEF Finish, Holding, IInv, TypeOK
<1>3. /\ answer'[n] \in {"success", "failed", "cancelled"}
      /\ \A m \in Node \ {n} : answer'[m] = answer[m]
  BY DEF Finish, Offer, IInv, TypeOK
<1>4. QED
  BY <1>1, <1>2, <1>3, WorkerStep DEF Finish, IInv, SlotInv

LEMMA ReleaseInv ==
  ASSUME IInv, TypeOK', NEW n \in Node, Release(n)
  PROVE  IInv'
<1>1. worker' = [worker EXCEPT ![n] = "exited"] /\ worker[n] = "releasing"
  BY DEF Release
<1>2. Holding' \subseteq Holding
  BY <1>1 DEF Holding, IInv, TypeOK
<1>3. /\ IsFiniteSet(Holding) /\ Cardinality(Holding) \in Nat
      /\ Cardinality(Holding') \in Nat
  BY NodeSubsetFinite, <1>2 DEF Holding
<1>4. Cardinality(Holding') <= MaxConc
  BY <1>2, <1>3, FS_Subset, MaxConcAssumption DEF IInv, SlotInv
<1>5. QED
  BY <1>1, <1>4, WorkerStep DEF Release, IInv, SlotInv

----------------------------------------------------------------------------
(* The scheduler's steps *)

LEMMA StartInv ==
  ASSUME IInv, TypeOK', Start
  PROVE  IInv'
<1> DEFINE R == Roots(edges, scope)
<1>1. /\ sched = "entered" /\ sched' = "receiving" /\ inFlight = 0
      /\ \A n \in Node : worker[n] = "none" /\ result[n] = "none"
      /\ current = NoNode
  BY DEF Start, IInv, SchedInv
<1>2. /\ UNCHANGED <<edges, scope, current, result, answer>>
      /\ pending' = [n \in Node |-> Cardinality(InEdges(edges, n))]
      /\ worker' = [n \in Node |-> IF n \in R THEN "waiting" ELSE worker[n]]
      /\ inFlight' = inFlight + Cardinality(R)
  BY DEF Start, Dispatch
<1>3. R \subseteq scope /\ scope \subseteq Node
  BY DEF Roots, IInv, TypeOK
<1>4. \A n \in Node : worker'[n] = IF n \in R THEN "waiting" ELSE "none"
  BY <1>1, <1>2
<1>5. Handled' = {}
  BY <1>4 DEF Handled
<1>6. SchedInv'
  BY <1>1, <1>2 DEF SchedInv
<1>7. WorkerInv'
  BY <1>1, <1>2, <1>3, <1>4 DEF WorkerInv
<1>8. OrderInv'
  BY <1>2, <1>4 DEF OrderInv, Roots
<1>9. CountInv'
  <2>1. \A n \in Node : OpenEdges(n)' = InEdges(edges, n)
    BY <1>2, <1>5 DEF OpenEdges
  <2>2. \A n \in scope : worker'[n] = "none" =>
          pending'[n] = Cardinality(InEdges(edges, n)) /\ InEdges(edges, n) # {}
    BY <1>2, <1>3, <1>4 DEF Roots
  <2>3. QED
    BY <1>2, <1>3, <2>1, <2>2 DEF CountInv
<1>10. CascadeInv'
  BY <1>1, <1>2, <1>3 DEF CascadeInv, IInv, TypeOK, IsEdgeList
<1>11. SkipInv'
  BY <1>1, <1>2, <1>3 DEF SkipInv
<1>12. SlotInv'
  <2>1. InFlight' = R /\ Holding' = {}
    BY <1>3, <1>4 DEF InFlight, Holding
  <2>2. Cardinality(R) \in Nat
    BY <1>3, NodeSubsetFinite
  <2>3. inFlight' = Cardinality(InFlight')
    BY <1>1, <1>2, <2>1, <2>2
  <2>4. Cardinality(Holding') <= MaxConc
    BY <2>1, FS_EmptySet, MaxConcAssumption
  <2>5. QED
    BY <2>3, <2>4 DEF SlotInv
<1>13. QED
  BY <1>6, <1>7, <1>8, <1>9, <1>10, <1>11, <1>12 DEF IInv

LEMMA ReceiveInv ==
  ASSUME IInv, TypeOK', NEW n \in Node, Receive(n)
  PROVE  IInv'
<1>1. /\ sched = "receiving" /\ worker[n] = "sending" /\ current = NoNode
      /\ n \in scope /\ result[n] = "none"
      /\ answer[n] \in {"success", "failed", "cancelled"}
  BY DEF Receive, IInv, SchedInv, WorkerInv, InFlight
<1>2. /\ UNCHANGED <<edges, scope, pending, answer>>
      /\ worker' = [worker EXCEPT ![n] = "releasing"]
      /\ inFlight' = inFlight - 1
      /\ result' = [result EXCEPT ![n] = answer[n]]
      /\ current' = n
      /\ sched' = IF answer[n] = "failed" THEN "cascading" ELSE "promoting"
  BY DEF Receive
<1>3. /\ worker'[n] = "releasing" /\ result'[n] = answer[n]
      /\ \A m \in Node \ {n} : worker'[m] = worker[m] /\ result'[m] = result[m]
      /\ scope \subseteq Node
  BY <1>2 DEF IInv, TypeOK
<1>4. Handled' = Handled
  BY <1>1, <1>2, <1>3, NoNodeAssumption DEF Handled
<1>5. \A i \in DOMAIN edges : edges[i][1] \in scope /\ edges[i][2] \in scope
  BY DEF IInv, TypeOK, IsEdgeList
<1>6. SchedInv'
  BY <1>1, <1>2, <1>3 DEF SchedInv
<1>7. WorkerInv'
  BY <1>1, <1>2, <1>3 DEF IInv, WorkerInv, InFlight
<1>8. OrderInv'
  <2>1. \A m \in Handled : m # n
    BY <1>1 DEF Handled
  <2>2. \A m \in Node : worker'[m] # "none" => worker[m] # "none"
    BY <1>1, <1>3
  <2>3. QED
    BY <1>2, <1>3, <1>4, <1>5, <2>1, <2>2 DEF IInv, OrderInv, InEdges
<1>9. CountInv'
  <2>1. \A m \in Node : OpenEdges(m)' = OpenEdges(m)
    BY <1>2, <1>4 DEF OpenEdges
  <2>2. \A m \in scope : worker'[m] = "none" => m # n /\ worker[m] = "none"
    BY <1>3
  <2>3. QED
    BY <1>1, <1>2, <1>3, <2>1, <2>2 DEF IInv, CountInv, Dispatching
<1>10. CascadeInv'
  <2> SUFFICES ASSUME NEW i \in DOMAIN edges,
                      result'[edges[i][1]] \in {"failed", "upstream_failed"},
                      ~(sched' = "cascading" /\ edges[i][1] = n)
               PROVE  result'[edges[i][2]] = "upstream_failed"
    BY <1>2 DEF CascadeInv
  <2>1. edges[i][1] # n
    BY <1>1, <1>2, <1>3
  <2>2. result[edges[i][2]] = "upstream_failed"
    BY <1>1, <1>3, <1>5, <2>1 DEF IInv, CascadeInv
  <2>3. QED
    BY <1>1, <1>3, <1>5, <2>2
<1>11. SkipInv'
  <2>1. \A m \in scope : worker'[m] = "none" => m # n /\ worker[m] = "none"
    BY <1>3
  <2>2. SUFFICES ASSUME NEW m \in scope, worker'[m] = "none",
                        result'[m] \notin {"none", "upstream_failed"}
                 PROVE  \A k \in scope : result'[k] = "cancelled"
    BY <1>2 DEF SkipInv
  <2>3. \A k \in scope : result[k] = "cancelled"
    BY <1>1, <1>3, <2>1, <2>2 DEF IInv, SkipInv, Dispatching
  <2>4. QED
    BY <1>1, <2>3
<1>12. SlotInv'
  <2>1. InFlight' = InFlight \ {n} /\ n \in InFlight
    BY <1>1, <1>3 DEF InFlight
  <2>2. IsFiniteSet(InFlight) /\ Cardinality(InFlight) \in Nat
    BY NodeSubsetFinite DEF InFlight
  <2>3. Cardinality(InFlight') = Cardinality(InFlight) - 1
    BY <2>1, <2>2, FS_RemoveElement
  <2>4. Holding' = Holding
    BY <1>1, <1>3 DEF Holding
  <2>5. QED
    BY <1>2, <2>2, <2>3, <2>4 DEF IInv, SlotInv
<1>13. QED
  BY <1>6, <1>7, <1>8, <1>9, <1>10, <1>11, <1>12 DEF IInv

LEMMA SkipAllInv ==
  ASSUME IInv, TypeOK', SkipAll
  PROVE  IInv'
<1>1. /\ sched = "entered" /\ sched' = "receiving" /\ inFlight = 0
      /\ current = NoNode /\ scope \subseteq Node
      /\ \A n \in Node : worker[n] = "none" /\ result[n] = "none"
  BY DEF SkipAll, IInv, SchedInv, TypeOK
<1>2. /\ UNCHANGED <<edges, scope, current, pending, worker, answer, inFlight>>
      /\ \A n \in scope : result'[n] = "cancelled"
      /\ \A n \in Node \ scope : result'[n] = "none"
  BY <1>1 DEF SkipAll
<1>3. SchedInv' /\ WorkerInv' /\ OrderInv'
  BY <1>1, <1>2 DEF SchedInv, WorkerInv, OrderInv, InFlight
<1>4. CountInv' /\ SkipInv'
  BY <1>1, <1>2 DEF CountInv, SkipInv
<1>5. CascadeInv'
  BY <1>1, <1>2 DEF CascadeInv, IInv, TypeOK, IsEdgeList
<1>6. InFlight' = InFlight /\ Holding' = Holding
  BY <1>2 DEF InFlight, Holding
<1>7. SlotInv'
  BY <1>2, <1>6 DEF IInv, SlotInv
<1>8. QED
  BY <1>3, <1>4, <1>5, <1>7 DEF IInv

(* A node whose result is handled has nothing handled or dispatched below it. *)
LEMMA BelowCurrent ==
  ASSUME IInv, sched \in {"cascading", "promoting"}, NEW m \in Node, worker[m] # "none"
  PROVE  \A i \in InEdges(edges, m) : edges[i][1] # current
BY DEF IInv, OrderInv, Handled

LEMMA DescendantsClosed ==
  ASSUME TypeOK, NEW n \in scope, NEW i \in DOMAIN edges,
         edges[i][1] = n \/ edges[i][1] \in Descendants(edges, scope, n),
         edges[i][2] # n
  PROVE  edges[i][2] \in Descendants(edges, scope, n)
<1>1. edges[i][2] \in scope \ {n} /\ edges[i][2] \in Successors(edges, edges[i][1])
  BY DEF TypeOK, IsEdgeList, Successors, OutEdges
<1>2. SUFFICES ASSUME NEW S \in SUBSET scope,
                      Successors(edges, n) \subseteq S,
                      \A k \in S : Successors(edges, k) \subseteq S
               PROVE  edges[i][2] \in S
  BY <1>1 DEF Descendants
<1>3. QED
  BY <1>1, <1>2 DEF Descendants

LEMMA CascadeStepInv ==
  ASSUME IInv, TypeOK', Cascade
  PROVE  IInv'
<1> DEFINE D == Descendants(edges, scope, current)
<1>1. /\ sched = "cascading" /\ sched' = "promoting"
      /\ current \in scope /\ worker[current] \in {"releasing", "exited"}
      /\ result[current] = "failed" /\ scope \subseteq Node
  BY DEF Cascade, IInv, SchedInv, TypeOK
<1>2. /\ UNCHANGED <<edges, scope, current, pending, worker, answer, inFlight>>
      /\ \A m \in Node : result'[m] = IF m \in D /\ result[m] = "none"
                                      THEN "upstream_failed" ELSE result[m]
  BY DEF Cascade
<1>3. /\ Handled' = Handled /\ InFlight' = InFlight /\ Holding' = Holding
      /\ \A m : OpenEdges(m)' = OpenEdges(m)
  BY <1>2 DEF Handled, InFlight, Holding, OpenEdges
<1>4. \A i \in DOMAIN edges : edges[i][1] \in scope /\ edges[i][2] \in scope
  BY DEF IInv, TypeOK, IsEdgeList
<1>5. \A m \in D : worker[m] = "none"
  <2> DEFINE S == {m \in scope : worker[m] = "none"}
  <2>1. Successors(edges, current) \subseteq S
    BY <1>1, <1>4, BelowCurrent DEF Successors, OutEdges, InEdges
  <2>2. \A k \in S : Successors(edges, k) \subseteq S
    <3> SUFFICES ASSUME NEW k \in S, NEW i \in OutEdges(edges, k)
                 PROVE  edges[i][2] \in S
      BY DEF Successors
    <3>1. edges[i][1] = k /\ i \in DOMAIN edges
      BY DEF OutEdges
    <3>2. k \notin Handled
      BY DEF Handled
    <3>3. QED
      BY <1>1, <1>4, <3>1, <3>2 DEF IInv, OrderInv, InEdges
  <2>3. D \subseteq S
    BY <2>1, <2>2 DEF Descendants
  <2>4. QED
    BY <2>3
<1>6. SchedInv'
  BY <1>1, <1>2 DEF IInv, SchedInv
<1>7. WorkerInv'
  BY <1>1, <1>2, <1>3, <1>5 DEF IInv, WorkerInv, InFlight
<1>8. OrderInv'
  BY <1>1, <1>2, <1>3, <1>4 DEF IInv, OrderInv, InEdges
<1>9. CountInv'
  BY <1>1, <1>2, <1>3 DEF IInv, CountInv, Dispatching
<1>10. CascadeInv'
  <2> SUFFICES ASSUME NEW i \in DOMAIN edges,
                      result'[edges[i][1]] \in {"failed", "upstream_failed"}
               PROVE  result'[edges[i][2]] = "upstream_failed"
    BY <1>2 DEF CascadeInv
  <2>1. edges[i][1] \in Node /\ edges[i][2] \in Node
    BY <1>1, <1>4
  <2>2. CASE edges[i][1] = current \/ edges[i][1] \in D
    <3>1. edges[i][2] # current
      <4>1. edges[i][1] \notin Handled
        BY <1>5, <2>2 DEF Handled
      <4>2. QED
        BY <1>1, <2>1, <4>1 DEF IInv, OrderInv, InEdges
    <3>2. edges[i][2] \in D
      BY <1>1, <2>2, <3>1, DescendantsClosed DEF IInv
    <3>3. result[edges[i][2]] \in {"none", "upstream_failed"}
      <4>1. worker[edges[i][2]] = "none"
        BY <1>5, <3>2
      <4>2. result[edges[i][2]] \notin {"none", "upstream_failed"} =>
              result[current] = "cancelled"
        BY <1>1, <1>4, <4>1 DEF IInv, SkipInv, Dispatching
      <4>3. QED
        BY <1>1, <4>2
    <3>4. QED
      BY <1>2, <2>1, <3>2, <3>3
  <2>3. CASE edges[i][1] # current /\ edges[i][1] \notin D
    <3>1. result[edges[i][2]] = "upstream_failed"
      BY <1>2, <2>1, <2>3 DEF IInv, CascadeInv
    <3>2. QED
      BY <1>2, <2>1, <3>1
  <2>4. QED
    BY <2>2, <2>3
<1>11. SkipInv'
  <2> SUFFICES ASSUME NEW m \in scope, worker'[m] = "none",
                      result'[m] \notin {"none", "upstream_failed"}
               PROVE  FALSE
    BY <1>2 DEF SkipInv
  <2>1. result[m] \notin {"none", "upstream_failed"} /\ worker[m] = "none"
    BY <1>1, <1>2
  <2>2. result[current] = "cancelled"
    BY <1>1, <2>1 DEF IInv, SkipInv, Dispatching
  <2>3. QED
    BY <1>1, <2>2
<1>12. SlotInv'
  BY <1>2, <1>3 DEF IInv, SlotInv
<1>13. QED
  BY <1>6, <1>7, <1>8, <1>9, <1>10, <1>11, <1>12 DEF IInv

LEMMA PromoteInv ==
  ASSUME IInv, TypeOK', Promote
  PROVE  IInv'
<1> DEFINE Children == {m \in Successors(edges, current) : result[m] = "none"}
           Closed(m) == InEdges(edges, m) \cap OutEdges(edges, current)
           left      == [m \in Node |-> IF m \in Children
                           THEN pending[m] - Cardinality(Closed(m)) ELSE pending[m]]
           Ready     == {m \in Children : left[m] <= 0}
<1>1. /\ sched = "promoting" /\ sched' = "receiving" /\ current' = NoNode
      /\ current \in scope /\ worker[current] \in {"releasing", "exited"}
      /\ scope \subseteq Node
  BY DEF Promote, IInv, SchedInv, TypeOK
<1>2. /\ UNCHANGED <<edges, scope, result, answer>>
      /\ pending' = left
      /\ worker' = [m \in Node |-> IF m \in Ready THEN "waiting" ELSE worker[m]]
      /\ inFlight' = inFlight + Cardinality(Ready)
  BY DEF Promote, Dispatch
<1>3. \A i \in DOMAIN edges : edges[i][1] \in scope /\ edges[i][2] \in scope
  BY DEF IInv, TypeOK, IsEdgeList
<1>4. Children \subseteq scope
  BY <1>3 DEF Successors, OutEdges
<1>5. \A m \in Children : worker[m] = "none"
  BY <1>1, <1>3, <1>4, BelowCurrent DEF Successors, OutEdges, InEdges
<1>6. Handled' = Handled \cup {current} /\ current \notin Handled
  <2>1. \A m \in Node : worker'[m] \in {"releasing", "exited"}
                         <=> worker[m] \in {"releasing", "exited"}
    BY <1>2, <1>5
  <2>2. QED
    BY <1>1, <2>1, NoNodeAssumption DEF Handled
<1>7. \A m \in Node : /\ OpenEdges(m)' = OpenEdges(m) \ Closed(m)
                      /\ Closed(m) \subseteq OpenEdges(m)
  BY <1>2, <1>6 DEF OpenEdges, InEdges, OutEdges
<1>8. \A m \in Node : Cardinality(OpenEdges(m)')
                         = Cardinality(OpenEdges(m)) - Cardinality(Closed(m))
  <2> SUFFICES ASSUME NEW m \in Node
               PROVE  Cardinality(OpenEdges(m)')
                        = Cardinality(OpenEdges(m)) - Cardinality(Closed(m))
    OBVIOUS
  <2>1. IsFiniteSet(InEdges(edges, m))
    BY InEdgesFinite DEF IInv, TypeOK
  <2>2. OpenEdges(m) \subseteq InEdges(edges, m)
    BY DEF OpenEdges
  <2>3. /\ IsFiniteSet(OpenEdges(m)) /\ IsFiniteSet(Closed(m))
        /\ IsFiniteSet(OpenEdges(m)')
    BY <1>7, <2>1, <2>2, FS_Subset
  <2>4. /\ OpenEdges(m) = OpenEdges(m)' \cup Closed(m)
        /\ OpenEdges(m)' \cap Closed(m) = {}
    BY <1>7
  <2>5. Cardinality(OpenEdges(m)' \cap Closed(m)) = 0
    BY <2>4, FS_EmptySet
  <2>6. Cardinality(OpenEdges(m)' \cup Closed(m))
          = Cardinality(OpenEdges(m)') + Cardinality(Closed(m))
              - Cardinality(OpenEdges(m)' \cap Closed(m))
    BY <2>3, FS_Union
  <2>7. /\ Cardinality(OpenEdges(m)') \in Nat /\ Cardinality(Closed(m)) \in Nat
    BY <2>3, FS_CardinalityType
  <2>8. QED
    BY <2>4, <2>5, <2>6, <2>7
<1>9. \A m \in Children : left[m] = Cardinality(OpenEdges(m)')
  BY <1>1, <1>4, <1>5, <1>8 DEF IInv, CountInv, Dispatching
<1>10. \A m \in Node : IsFiniteSet(OpenEdges(m)') /\ Cardinality(OpenEdges(m)') \in Nat
  <2> SUFFICES ASSUME NEW m \in Node
               PROVE  IsFiniteSet(OpenEdges(m)') /\ Cardinality(OpenEdges(m)') \in Nat
    OBVIOUS
  <2>1. IsFiniteSet(InEdges(edges, m))
    BY InEdgesFinite DEF IInv, TypeOK
  <2>2. OpenEdges(m)' \subseteq InEdges(edges, m)
    BY <1>7 DEF OpenEdges
  <2>3. QED
    BY <2>1, <2>2, FS_Subset, FS_CardinalityType
<1>11. \A m \in Ready : OpenEdges(m)' = {}
  <2> HIDE DEF left, Children
  <2>1. \A m \in Ready : Cardinality(OpenEdges(m)') <= 0 /\ m \in Node
    BY <1>1, <1>4, <1>9
  <2>2. \A m \in Ready : IsFiniteSet(OpenEdges(m)') /\ Cardinality(OpenEdges(m)') = 0
    BY <1>10, <2>1
  <2>3. QED
    BY <2>2, FS_EmptySet
<1>12. \A m \in Children \ Ready : OpenEdges(m)' # {}
  <2>1. \A m \in Children \ Ready : Cardinality(OpenEdges(m)') # 0
    BY <1>9
  <2>2. QED
    BY <2>1, FS_EmptySet
<1>13. \A m \in Node : worker'[m] = IF m \in Ready THEN "waiting" ELSE worker[m]
  BY <1>2
<1> HIDE DEF left, Ready
<1>14. Ready \subseteq Children
  BY DEF Ready
<1>15. SchedInv'
  BY <1>1 DEF SchedInv
<1>16. WorkerInv'
  BY <1>2, <1>4, <1>13, <1>14 DEF IInv, WorkerInv, InFlight
<1>17. OrderInv'
  <2> SUFFICES ASSUME NEW m \in Node, worker'[m] # "none", NEW i \in InEdges(edges, m)
               PROVE  edges[i][1] \in Handled' /\ result[edges[i][1]] \in {"success", "cancelled"}
    BY <1>2 DEF OrderInv
  <2>1. CASE m \notin Ready
    BY <1>6, <1>13, <2>1 DEF IInv, OrderInv
  <2>2. CASE m \in Ready
    <3>1. edges[i][1] \in Handled'
      BY <1>2, <1>11, <2>2 DEF OpenEdges
    <3>2. edges[i][1] \in Node /\ i \in DOMAIN edges /\ edges[i][2] = m
      BY <1>1, <1>3 DEF InEdges
    <3>3. result[edges[i][1]] \in {"success", "failed", "cancelled"}
      BY <1>1, <1>6, <3>1, <3>2 DEF IInv, WorkerInv, Handled
    <3>4. result[m] = "none"
      BY <1>14, <2>2
    <3>5. result[edges[i][1]] # "failed"
      BY <1>1, <3>2, <3>4 DEF IInv, CascadeInv
    <3>6. QED
      BY <3>1, <3>3, <3>5
  <2>3. QED
    BY <2>1, <2>2
<1>18. CountInv'
  <2> SUFFICES ASSUME NEW m \in scope, worker'[m] = "none", result[m] = "none"
               PROVE  pending'[m] = Cardinality(OpenEdges(m)') /\ OpenEdges(m)' # {}
    BY <1>2 DEF CountInv
  <2>1. m \notin Ready /\ worker[m] = "none" /\ m \in Node
    BY <1>1, <1>13
  <2>2. CASE m \in Children
    BY <1>2, <1>9, <1>12, <2>1, <2>2
  <2>3. CASE m \notin Children
    <3>1. Closed(m) = {}
      BY <2>3 DEF Successors, OutEdges, InEdges
    <3>2. OpenEdges(m)' = OpenEdges(m)
      BY <1>7, <2>1, <3>1
    <3>3. pending'[m] = pending[m]
      BY <1>2, <2>1, <2>3 DEF left
    <3>4. QED
      BY <1>1, <2>1, <3>2, <3>3 DEF IInv, CountInv, Dispatching
  <2>4. QED
    BY <2>2, <2>3
<1>19. CascadeInv'
  BY <1>1, <1>2 DEF IInv, CascadeInv
<1>20. SkipInv'
  <2>1. \A m \in scope : worker'[m] = "none" => worker[m] = "none"
    BY <1>1, <1>13
  <2>2. QED
    BY <1>1, <1>2, <2>1 DEF IInv, SkipInv, Dispatching
<1>21. SlotInv'
  <2>1. InFlight' = InFlight \cup Ready /\ InFlight \cap Ready = {} /\ Ready \subseteq Node
    BY <1>1, <1>4, <1>5, <1>13, <1>14 DEF InFlight
  <2>2. Holding' = Holding
    BY <1>5, <1>13, <1>14 DEF Holding
  <2>3. /\ IsFiniteSet(InFlight) /\ Cardinality(InFlight) \in Nat
        /\ IsFiniteSet(Ready) /\ Cardinality(Ready) \in Nat
    BY <2>1, NodeSubsetFinite DEF InFlight
  <2>4. Cardinality(InFlight \cap Ready) = 0
    BY <2>1, FS_EmptySet
  <2>5. Cardinality(InFlight \cup Ready)
          = Cardinality(InFlight) + Cardinality(Ready) - Cardinality(InFlight \cap Ready)
    BY <2>3, FS_Union
  <2>6. inFlight' = Cardinality(InFlight')
    BY <1>2, <2>1, <2>3, <2>4, <2>5 DEF IInv, SlotInv
  <2>7. QED
    BY <2>2, <2>6 DEF IInv, SlotInv
<1>22. QED
  BY <1>15, <1>16, <1>17, <1>18, <1>19, <1>20, <1>21 DEF IInv

LEMMA SummaryInv ==
  ASSUME IInv, TypeOK', RejectUnknownType \/ Summarise
  PROVE  IInv'
<1>1. /\ sched \in {"entered", "receiving"} /\ sched' = "summarised"
      /\ current = NoNode
      /\ UNCHANGED <<edges, scope, current, pending, result, worker, answer, inFlight>>
  BY DEF RejectUnknownType, Summarise, IInv, SchedInv
<1>2. Handled' = Handled /\ InFlight' = InFlight /\ Holding' = Holding
  BY <1>1 DEF Handled, InFlight, Holding
<1>3. SchedInv' /\ WorkerInv' /\ OrderInv'
  BY <1>1, <1>2 DEF IInv, SchedInv, WorkerInv, OrderInv
<1>4. CountInv' /\ SkipInv'
  BY <1>1 DEF CountInv, SkipInv, Dispatching
<1>5. CascadeInv' /\ SlotInv'
  BY <1>1, <1>2 DEF IInv, CascadeInv, SlotInv
<1>6. QED
  BY <1>3, <1>4, <1>5 DEF IInv

LEMMA ReturnInv ==
  ASSUME IInv, TypeOK', Return
  PROVE  IInv'
<1>1. /\ sched = "summarised" /\ sched' = "returned" /\ current = NoNode
      /\ UNCHANGED <<edges, scope, current, pending, worker, answer, inFlight>>
      /\ \A n \in scope : result'[n] = result[n]
      /\ scope \subseteq Node
      /\ \A i \in DOMAIN edges : edges[i][1] \in scope /\ edges[i][2] \in scope
  BY DEF Return, IInv, SchedInv, TypeOK, IsEdgeList
<1>2. Handled' = Handled /\ InFlight' = InFlight /\ Holding' = Holding
  BY <1>1 DEF Handled, InFlight, Holding
<1>3. SchedInv'
  BY <1>1 DEF SchedInv
<1>4. WorkerInv'
  BY <1>1, <1>2 DEF IInv, WorkerInv, InFlight
<1>5. OrderInv'
  BY <1>1, <1>2 DEF IInv, OrderInv, InEdges
<1>6. CountInv' /\ SkipInv'
  BY <1>1 DEF CountInv, SkipInv, Dispatching
<1>7. CascadeInv' /\ SlotInv'
  BY <1>1, <1>2 DEF IInv, CascadeInv, SlotInv
<1>8. QED
  BY <1>3, <1>4, <1>5, <1>6, <1>7 DEF IInv

LEMMA IdleInv ==
  ASSUME IInv, TypeOK', CancelContext \/ UNCHANGED vars
  PROVE  IInv'
<1>1. UNCHANGED <<edges, scope, sched, current, pending, result, worker, answer, inFlight>>
  BY DEF CancelContext, vars
<1>2. Handled' = Handled /\ InFlight' = InFlight /\ Holding' = Holding
      /\ Dispatching' = Dispatching
  BY <1>1 DEF Handled, InFlight, Holding, Dispatching
<1>3. \A n : OpenEdges(n)' = OpenEdges(n)
  BY <1>1, <1>2 DEF OpenEdges
<1>4. SchedInv' /\ WorkerInv' /\ OrderInv'
  BY <1>1, <1>2 DEF IInv, SchedInv, WorkerInv, OrderInv
<1>5. CountInv' /\ SkipInv'
  BY <1>1, <1>2, <1>3 DEF IInv, CountInv, SkipInv
<1>6. CascadeInv' /\ SlotInv'
  BY <1>1, <1>2 DEF IInv, CascadeInv, SlotInv
<1>7. QED
  BY <1>4, <1>5, <1>6 DEF IInv

LEMMA NextIInv == IInv /\ [Next]_vars => IInv'
<1> SUFFICES ASSUME IInv, [Next]_vars PROVE IInv'
  OBVIOUS
<1>1. TypeOK'
  BY NextType DEF IInv
<1>2. CASE Scheduler
  BY <1>1, <1>2, SummaryInv, SkipAllInv, StartInv, ReceiveInv, CascadeStepInv,
     PromoteInv, ReturnInv DEF Scheduler
<1>3. ASSUME NEW n \in Node, Worker(n) PROVE IInv'
  BY <1>1, <1>3, AcquireInv, BeginInv, FinishInv, ReleaseInv DEF Worker
<1>4. CASE CancelContext \/ Over \/ UNCHANGED vars
  BY <1>1, <1>4, IdleInv DEF Over
<1>5. QED
  BY <1>2, <1>3, <1>4 DEF Next

(* The inductive invariant holds in every run, cyclic graphs included. *)
THEOREM Invariance == Spec => []IInv
<1>1. QED
  BY InitIInv, NextIInv, PTL DEF Spec

----------------------------------------------------------------------------
(* What the invariant gives *)

(***************************************************************************)
(* No node is dispatched before all of its predecessors have a result, nor *)
(* after one of them failed: on every graph, with any number of slots and  *)
(* any interleaving of workers, failures, panics and cancellation.         *)
(***************************************************************************)
THEOREM DispatchOrder == Spec => []RunsAfterPredecessors
<1>1. IInv => RunsAfterPredecessors
  BY DEF IInv, OrderInv, RunsAfterPredecessors, Predecessors
<1>2. QED
  BY <1>1, Invariance, PTL

(***************************************************************************)
(* No worker is in flight for a node that already has a result, so the     *)
(* check of completed at the head of runOneNode never decides anything.    *)
(***************************************************************************)
THEOREM NoOvertaking == Spec => []InFlightUndecided
<1>1. IInv => InFlightUndecided
  BY DEF IInv, WorkerInv, InFlightUndecided, InFlight
<1>2. QED
  BY <1>1, Invariance, PTL

(* The semaphore bounds the nodes that run at the same time. *)
THEOREM BoundedConcurrency == Spec => []ConcurrencyBounded
<1>1. IInv => ConcurrencyBounded
  <2> SUFFICES ASSUME IInv PROVE ConcurrencyBounded
    OBVIOUS
  <2> DEFINE Running == {n \in Node : worker[n] = "running"}
  <2>1. Running \subseteq Holding
    BY DEF Holding
  <2>2. /\ IsFiniteSet(Holding) /\ Cardinality(Holding) \in Nat
        /\ Cardinality(Running) \in Nat
    BY NodeSubsetFinite DEF Holding
  <2>3. Cardinality(Running) <= Cardinality(Holding)
    BY <2>1, <2>2, FS_Subset
  <2>4. Cardinality(Running) <= MaxConc
    BY <2>2, <2>3, MaxConcAssumption DEF IInv, SlotInv
  <2>5. QED
    BY <2>4 DEF ConcurrencyBounded
<1>2. QED
  BY <1>1, Invariance, PTL

(***************************************************************************)
(* A handled failure has skipped every descendant, however deep, and none  *)
(* of them was ever dispatched.                                            *)
(***************************************************************************)
THEOREM CascadeComplete == Spec => []FailureCascades
<1>1. IInv => FailureCascades
  <2> SUFFICES ASSUME IInv, sched # "cascading", NEW n \in scope, result[n] = "failed"
               PROVE  \A m \in Descendants(edges, scope, n) :
                        result[m] = "upstream_failed" /\ worker[m] = "none"
    BY DEF FailureCascades
  <2> DEFINE S == {m \in scope : result[m] = "upstream_failed"}
  <2>1. \A i \in DOMAIN edges : edges[i][2] \in scope
    BY DEF IInv, TypeOK, IsEdgeList
  <2>2. Successors(edges, n) \subseteq S
    BY <2>1 DEF Successors, OutEdges, IInv, CascadeInv
  <2>3. \A k \in S : Successors(edges, k) \subseteq S
    BY <2>1 DEF Successors, OutEdges, IInv, CascadeInv
  <2>4. Descendants(edges, scope, n) \subseteq S
    BY <2>2, <2>3 DEF Descendants
  <2>5. \A m \in S : worker[m] = "none"
    BY DEF IInv, WorkerInv, InFlight, TypeOK
  <2>6. QED
    BY <2>4, <2>5
<1>2. QED
  BY <1>1, Invariance, PTL

----------------------------------------------------------------------------
(* Completeness, on acyclic graphs *)

AcyclicInputs == \A g \in Graphs : Acyclic(g, Node)

(* A sub-DAG of an acyclic graph is acyclic, so trial runs are covered. *)
LEMMA WithinAcyclic ==
  ASSUME NEW g, NEW N, NEW S \in SUBSET N, Acyclic(g, N)
  PROVE  Acyclic(EdgesWithin(g, S), S)
<1> SUFFICES ASSUME NEW T \in SUBSET S, T # {}
             PROVE  \E n \in T : Predecessors(EdgesWithin(g, S), n) \cap T = {}
  BY DEF Acyclic
<1>1. PICK n \in T : Predecessors(g, n) \cap T = {}
  BY DEF Acyclic
<1>2. Predecessors(EdgesWithin(g, S), n) \subseteq Predecessors(g, n)
  BY DEF Predecessors, InEdges, EdgesWithin
<1>3. QED
  BY <1>1, <1>2

LEMMA InitAcyclic == AcyclicInputs /\ Init => Acyclic(edges, scope)
<1> SUFFICES ASSUME AcyclicInputs, Init PROVE Acyclic(edges, scope)
  OBVIOUS
<1>1. PICK g \in Graphs :
        \/ edges = g /\ scope = Node
        \/ \E target \in Node : scope = InPath(g, Node, target)
                               /\ edges = EdgesWithin(g, scope)
  BY DEF Init
<1>2. Acyclic(g, Node)
  BY DEF AcyclicInputs
<1>3. scope \in SUBSET Node
  BY InitType DEF TypeOK
<1>4. QED
  BY <1>1, <1>2, <1>3, WithinAcyclic

(***************************************************************************)
(* When nothing is in flight and nothing is being handled, a node without  *)
(* a result has an open edge, hence a predecessor without a result: on an  *)
(* acyclic graph there is no such node.                                    *)
(***************************************************************************)
LEMMA NothingLeft ==
  ASSUME IInv, Acyclic(edges, scope), sched = "receiving", InFlight = {}
  PROVE  \A n \in scope : result[n] # "none"
<1> DEFINE Left == {n \in scope : result[n] = "none"}
<1> SUFFICES ASSUME Left # {} PROVE FALSE
  OBVIOUS
<1>1. PICK n \in Left : Predecessors(edges, n) \cap Left = {}
  BY DEF Acyclic
<1>2. scope \subseteq Node /\ current = NoNode /\ current \notin Node
  BY NoNodeAssumption DEF IInv, TypeOK, SchedInv
<1>3. worker[n] = "none"
  BY <1>2 DEF IInv, WorkerInv, InFlight, TypeOK
<1>4. PICK i \in InEdges(edges, n) : edges[i][1] \notin Handled
  BY <1>3 DEF IInv, CountInv, Dispatching, OpenEdges
<1>5. /\ i \in DOMAIN edges /\ edges[i][2] = n
      /\ edges[i][1] \in scope /\ edges[i][1] \in Node
  BY <1>2, <1>4 DEF InEdges, IInv, TypeOK, IsEdgeList
<1>6. result[edges[i][1]] # "none"
  BY <1>1, <1>4, <1>5 DEF Predecessors
<1>7. worker[edges[i][1]] = "none"
  BY <1>2, <1>4, <1>5 DEF Handled, InFlight, IInv, TypeOK
<1>8. result[edges[i][1]] # "upstream_failed"
  BY <1>2, <1>5 DEF IInv, CascadeInv
<1>9. result[n] = "cancelled"
  BY <1>5, <1>6, <1>7, <1>8 DEF IInv, SkipInv, Dispatching
<1>10. QED
  BY <1>9

ReportInv == IInv /\ Acyclic(edges, scope) /\ EveryNodeReported

LEMMA NextReport == ReportInv /\ [Next]_vars => ReportInv'
<1> SUFFICES ASSUME ReportInv, [Next]_vars PROVE ReportInv'
  OBVIOUS
<1>1. IInv /\ IInv' /\ TypeOK
  BY NextIInv DEF ReportInv, IInv
<1>2. UNCHANGED <<edges, scope>>
  BY DEF Next, Scheduler, Worker, RejectUnknownType, SkipAll, Start, Receive, Cascade,
     Promote, Summarise, Return, Acquire, Begin, Finish, Release, CancelContext,
     Over, vars
<1>3. Acyclic(edges, scope)'
  BY <1>2 DEF ReportInv
<1>4. EveryNodeReported'
  <2>1. CASE RejectUnknownType
    <3>1. /\ \A n \in Node : worker[n] = "none"
          /\ status' = "failed" /\ worker' = worker
      BY <1>1, <2>1 DEF RejectUnknownType, IInv, SchedInv
    <3>2. InFlight' = {} /\ scope \subseteq Node
      BY <1>1, <3>1 DEF InFlight, TypeOK
    <3>3. QED
      BY <1>2, <3>1, <3>2 DEF EveryNodeReported
  <2>2. CASE Summarise
    <3>1. sched = "receiving" /\ inFlight = 0 /\ UNCHANGED <<worker, result>>
      BY <2>2 DEF Summarise
    <3>2. IsFiniteSet(InFlight) /\ Cardinality(InFlight) = 0
      BY <1>1, <3>1, NodeSubsetFinite DEF InFlight, IInv, SlotInv
    <3>3. InFlight = {}
      BY <3>2, FS_EmptySet
    <3>4. \A n \in scope : result[n] # "none"
      BY <1>1, <3>1, <3>3, NothingLeft DEF ReportInv
    <3>5. InFlight' = InFlight
      BY <3>1 DEF InFlight
    <3>6. QED
      BY <1>2, <3>1, <3>3, <3>4, <3>5 DEF EveryNodeReported
  <2>3. CASE Return
    <3>1. Ended /\ UNCHANGED <<worker, status>> /\ scope \subseteq Node
      BY <1>1, <2>3 DEF Return, Ended, TypeOK
    <3>2. \A n \in scope : result'[n] = result[n]
      BY <2>3, <3>1 DEF Return
    <3>3. InFlight' = InFlight
      BY <3>1 DEF InFlight
    <3>4. QED
      BY <1>2, <3>1, <3>2, <3>3 DEF ReportInv, EveryNodeReported
  <2>4. ASSUME NEW n \in Node, Release(n) PROVE EveryNodeReported'
    <3>1. /\ worker' = [worker EXCEPT ![n] = "exited"] /\ worker[n] = "releasing"
          /\ UNCHANGED <<result, status, sched>>
      BY <2>4 DEF Release
    <3>2. InFlight' = InFlight
      BY <1>1, <3>1 DEF InFlight, TypeOK
    <3>3. /\ Ended' = Ended
          /\ \A m \in Node : worker'[m] = "none" <=> worker[m] = "none"
          /\ scope \subseteq Node
      BY <1>1, <3>1 DEF Ended, TypeOK
    <3>4. QED
      BY <1>2, <3>1, <3>2, <3>3 DEF ReportInv, EveryNodeReported
  <2>5. ASSUME NEW n \in Node, Acquire(n) \/ Begin(n) \/ Finish(n)
        PROVE  EveryNodeReported'
    <3>1. n \in InFlight /\ sched' = sched
      BY <2>5 DEF Acquire, Begin, Finish, InFlight
    <3>2. ~Ended /\ ~Ended'
      BY <3>1 DEF ReportInv, EveryNodeReported, Ended
    <3>3. QED
      BY <3>2 DEF EveryNodeReported
  <2>6. CASE SkipAll \/ Start \/ Cascade \/ Promote \/ \E n \in Node : Receive(n)
    <3>1. ~Ended'
      BY <2>6 DEF SkipAll, Start, Cascade, Promote, Receive, Ended
    <3>2. QED
      BY <3>1 DEF EveryNodeReported
  <2>7. CASE CancelContext \/ Over \/ UNCHANGED vars
    <3>1. UNCHANGED <<result, status, sched, worker>>
      BY <2>7 DEF CancelContext, Over, vars
    <3>2. Ended' = Ended /\ InFlight' = InFlight
      BY <3>1 DEF Ended, InFlight
    <3>3. QED
      BY <1>2, <3>1, <3>2 DEF ReportInv, EveryNodeReported
  <2>8. QED
    BY <2>1, <2>2, <2>3, <2>4, <2>5, <2>6, <2>7 DEF Next, Scheduler, Worker
<1>5. QED
  BY <1>1, <1>3, <1>4 DEF ReportInv

LEMMA InitReport == AcyclicInputs /\ Init => ReportInv
<1>1. Init => EveryNodeReported
  BY DEF Init, EveryNodeReported, Ended
<1>2. QED
  BY <1>1, InitIInv, InitAcyclic DEF ReportInv

(***************************************************************************)
(* On acyclic graphs, whole or cut down to the path of a trial run, a run  *)
(* that ends has a result for every node and has lost no worker.           *)
(***************************************************************************)
THEOREM Completeness == AcyclicInputs /\ Spec => []EveryNodeReported
<1>1. ReportInv => EveryNodeReported
  BY DEF ReportInv
<1>2. QED
  BY <1>1, InitReport, NextReport, PTL DEF Spec

Final ==
  \A n \in Node : /\ result[n] # "none" => result'[n] = result[n]
                  /\ worker[n] # "none" => worker'[n] # "waiting" \/ worker[n] = "waiting"

LEMMA NextFinal == IInv /\ [Next]_vars => [Final]_vars
<1> SUFFICES ASSUME IInv, Next PROVE Final
  BY DEF Final, vars
<1>1. TypeOK
  BY DEF IInv
<1>2. CASE RejectUnknownType \/ Summarise \/ CancelContext \/ Over
  BY <1>2 DEF Final, RejectUnknownType, Summarise, CancelContext, Over, vars
<1>3. CASE SkipAll
  BY <1>3 DEF Final, SkipAll, IInv, SchedInv
<1>4. CASE Start
  BY <1>4 DEF Final, Start, IInv, SchedInv
<1>5. ASSUME NEW n \in Node, Receive(n) PROVE Final
  <2>1. result[n] = "none"
    BY <1>5 DEF Receive, IInv, WorkerInv, InFlight
  <2>2. QED
    BY <1>1, <1>5, <2>1 DEF Final, Receive, TypeOK
<1>6. CASE Cascade
  BY <1>6 DEF Final, Cascade
<1>7. CASE Promote
  <2>1. PICK S \in SUBSET {m \in Successors(edges, current) : result[m] = "none"} :
          worker' = [m \in Node |-> IF m \in S THEN "waiting" ELSE worker[m]]
    BY <1>7 DEF Promote, Dispatch
  <2>2. result' = result
    BY <1>7 DEF Promote
  <2>3. \A m \in S : worker[m] = "none" \/ m \notin Node
    BY <1>7, BelowCurrent DEF Promote, Successors, OutEdges, InEdges
  <2>4. QED
    BY <2>1, <2>2, <2>3 DEF Final
<1>8. CASE Return
  BY <1>8 DEF Final, Return
<1>9. ASSUME NEW n \in Node, Worker(n) PROVE Final
  BY <1>1, <1>9 DEF Final, Worker, Acquire, Begin, Finish, Release, Offer, TypeOK
<1>10. QED
  BY <1>2, <1>3, <1>4, <1>5, <1>6, <1>7, <1>8, <1>9 DEF Final, Next, Scheduler

(***************************************************************************)
(* What was recorded for a node is never rewritten, and no node is         *)
(* dispatched twice.                                                       *)
(***************************************************************************)
THEOREM Finality == Spec => ResultsFinal
<1>1. Spec => [][Final]_vars
  BY NextFinal, Invariance, PTL DEF Spec
<1>2. QED
  BY <1>1 DEF ResultsFinal, Final

----------------------------------------------------------------------------
(* What a node is given, and what the status means *)

(* A node with inputs was begun, and an answer of success comes from a run. *)
InputsInv ==
  /\ InputsComplete
  /\ \A n \in Node : answer[n] = "success" => worker[n] # "none"

LEMMA NextInputs == IInv /\ InputsInv /\ [Next]_vars => InputsInv'
<1> SUFFICES ASSUME IInv, InputsInv, [Next]_vars PROVE InputsInv'
  OBVIOUS
<1>1. TypeOK /\ UNCHANGED edges
  BY DEF IInv, Next, Scheduler, Worker, RejectUnknownType, SkipAll, Start, Receive,
     Cascade, Promote, Summarise, Return, Acquire, Begin, Finish, Release,
     CancelContext, Over, vars
<1>2. ASSUME NEW n \in Node, NEW p \in Predecessors(edges, n), worker[n] # "none"
      PROVE  result[p] \in {"success", "cancelled"} /\ result'[p] = result[p]
  <2>1. p \in Node /\ result[p] \in {"success", "cancelled"}
    BY <1>1, <1>2 DEF IInv, OrderInv, Predecessors, InEdges, TypeOK, IsEdgeList
  <2>2. QED
    BY <2>1, NextFinal DEF Final, vars
<1>3. ASSUME NEW n \in Node,
             worker[n] = "running" \/ answer[n] = "success", inputs'[n] = inputs[n]
      PROVE  inputs'[n] = {p \in Predecessors(edges, n) : result'[p] # "cancelled"}
  BY <1>2, <1>3 DEF InputsInv, InputsComplete
<1>4. ASSUME NEW m \in Node, Begin(m) PROVE InputsInv'
  <2>1. worker[m] = "holding" /\ result[m] = "none" /\ result' = result
    BY <1>1, <1>4 DEF Begin, IInv, WorkerInv, InFlight
  <2>2. \A p \in Predecessors(edges, m) : result[p] # "cancelled" <=> result[p] = "success"
    BY <1>2, <2>1
  <2>3. CASE ctxDone
    BY <1>1, <1>3, <1>4, <2>1, <2>3 DEF Begin, Offer, InputsInv, InputsComplete, TypeOK
  <2>4. CASE ~ctxDone
    <3>1. /\ worker' = [worker EXCEPT ![m] = "running"] /\ answer' = answer
          /\ inputs' = [inputs EXCEPT ![m] =
                          {p \in Predecessors(edges, m) : result[p] = "success"}]
      BY <1>4, <2>1, <2>4 DEF Begin
    <3>2. inputs'[m] = {p \in Predecessors(edges, m) : result'[p] # "cancelled"}
      BY <1>1, <2>1, <2>2, <3>1 DEF TypeOK
    <3>3. \A n \in Node \ {m} : worker'[n] = worker[n] /\ inputs'[n] = inputs[n]
      BY <1>1, <3>1 DEF TypeOK
    <3>4. ASSUME NEW n \in Node, worker'[n] = "running" \/ answer'[n] = "success"
          PROVE  inputs'[n] = {p \in Predecessors(edges, n) : result'[p] # "cancelled"}
      <4>1. CASE n = m
        BY <3>2, <4>1
      <4>2. CASE n # m
        BY <1>3, <3>1, <3>3, <3>4, <4>2
      <4>3. QED
        BY <4>1, <4>2
    <3>5. InputsComplete'
      BY <1>1, <3>4 DEF InputsComplete
    <3>6. QED
      BY <1>1, <3>1, <3>5 DEF InputsInv, TypeOK
  <2>5. QED
    BY <2>3, <2>4
<1>5. ASSUME NEW m \in Node, Finish(m) PROVE InputsInv'
  BY <1>1, <1>3, <1>5 DEF Finish, Offer, InputsInv, InputsComplete, TypeOK
<1>6. ASSUME NEW m \in Node, Acquire(m) \/ Release(m) \/ Receive(m) PROVE InputsInv'
  BY <1>1, <1>3, <1>6 DEF Acquire, Release, Receive, InputsInv, InputsComplete, TypeOK
<1>7. CASE Start \/ Promote
  <2>1. PICK S : worker' = [n \in Node |-> IF n \in S THEN "waiting" ELSE worker[n]]
    BY <1>7 DEF Start, Promote, Dispatch
  <2>2. UNCHANGED <<inputs, answer, result>>
    BY <1>7 DEF Start, Promote
  <2>3. QED
    BY <1>1, <1>3, <2>1, <2>2 DEF InputsInv, InputsComplete
<1>8. CASE \/ RejectUnknownType \/ SkipAll \/ Cascade \/ Summarise \/ Return
           \/ CancelContext \/ Over \/ UNCHANGED vars
  <2>1. UNCHANGED <<worker, inputs, answer>>
    BY <1>8 DEF RejectUnknownType, SkipAll, Cascade, Summarise, Return, CancelContext,
       Over, vars
  <2>2. QED
    BY <1>1, <1>3, <2>1 DEF InputsInv, InputsComplete
<1>9. QED
  BY <1>4, <1>5, <1>6, <1>7, <1>8 DEF Next, Scheduler, Worker

(***************************************************************************)
(* A node that runs has the payload of every predecessor that was not      *)
(* cancelled, and no result of a predecessor comes or changes afterwards.  *)
(***************************************************************************)
THEOREM FullInputs == Spec => []InputsComplete
<1>1. Init => InputsInv
  BY DEF Init, InputsInv, InputsComplete
<1>2. InputsInv => InputsComplete
  BY DEF InputsInv
<1>3. QED
  BY <1>1, <1>2, NextInputs, Invariance, PTL DEF Spec

Failed == \E n \in scope : result[n] = "failed"

(* The error goes with a failure, skips for a failure with the error. *)
StatusInv ==
  /\ (\E n \in Node : result[n] = "upstream_failed") => firstErr
  /\ \A n \in scope : result[n] # "not_in_target_path"
  /\ ~Ended => (firstErr <=> Failed)
  /\ Ended => \/ firstErr /\ status = "failed"
              \/ (firstErr <=> Failed) /\ status = Aggregate({result[n] : n \in scope})

LEMMA NextStatus == IInv /\ StatusInv /\ [Next]_vars => StatusInv'
<1> SUFFICES ASSUME IInv, StatusInv, [Next]_vars PROVE StatusInv'
  OBVIOUS
<1>1. TypeOK /\ scope \subseteq Node
  BY DEF IInv, TypeOK
<1>2. CASE RejectUnknownType
  BY <1>1, <1>2 DEF RejectUnknownType, StatusInv, Ended, Failed
<1>3. CASE SkipAll
  <2>1. /\ \A n \in Node : result'[n] \in {"none", "cancelled"}
        /\ UNCHANGED <<scope, firstErr>> /\ ~Ended /\ ~Ended'
    BY <1>1, <1>3 DEF SkipAll, IInv, SchedInv, Ended
  <2>2. ~Failed /\ ~Failed'
    BY <1>1, <1>3, <2>1 DEF Failed, SkipAll, IInv, SchedInv
  <2>3. QED
    BY <1>1, <2>1, <2>2 DEF StatusInv
<1>4. ASSUME NEW m \in Node, Receive(m) PROVE StatusInv'
  <2>1. /\ m \in scope /\ result[m] = "none"
        /\ answer[m] \in {"success", "failed", "cancelled"}
    BY <1>4 DEF Receive, IInv, WorkerInv, InFlight
  <2>2. /\ result' = [result EXCEPT ![m] = answer[m]]
        /\ firstErr' = (firstErr \/ answer[m] = "failed")
        /\ scope' = scope /\ ~Ended /\ ~Ended'
    BY <1>4 DEF Receive, Ended
  <2>3. Failed' <=> Failed \/ answer[m] = "failed"
    BY <1>1, <2>1, <2>2 DEF Failed, TypeOK
  <2>4. QED
    BY <1>1, <2>1, <2>2, <2>3 DEF StatusInv, TypeOK
<1>5. CASE Cascade
  <2>1. current \in scope /\ result[current] = "failed" /\ ~Ended /\ ~Ended'
    BY <1>5 DEF Cascade, IInv, SchedInv, Ended
  <2>2. /\ \A n \in Node : result'[n] = result[n] \/ result'[n] = "upstream_failed"
        /\ result'[current] = "failed" /\ UNCHANGED <<scope, firstErr>>
    BY <1>1, <1>5, <2>1 DEF Cascade, TypeOK
  <2>3. QED
    BY <1>1, <2>1, <2>2 DEF StatusInv, Failed
<1>6. CASE Summarise
  BY <1>1, <1>6 DEF Summarise, StatusInv, Ended, Failed
<1>7. CASE Return
  <2>1. /\ \A n \in scope : result'[n] = result[n]
        /\ \A n \in Node : result'[n] = result[n] \/ result'[n] = "not_in_target_path"
        /\ UNCHANGED <<scope, firstErr, status>> /\ Ended /\ Ended'
    BY <1>1, <1>7 DEF Return, Ended, TypeOK
  <2>2. {result'[n] : n \in scope} = {result[n] : n \in scope} /\ Failed' = Failed
    BY <2>1 DEF Failed
  <2>3. QED
    BY <2>1, <2>2 DEF StatusInv
<1>8. ASSUME UNCHANGED <<result, firstErr, scope, status>>, Ended' = Ended PROVE StatusInv'
  BY <1>8 DEF StatusInv, Failed
<1>9. CASE Start \/ Promote \/ CancelContext \/ Over \/ UNCHANGED vars
  BY <1>8, <1>9 DEF Start, Promote, CancelContext, Over, vars, Ended
<1>10. ASSUME NEW m \in Node, Worker(m) PROVE StatusInv'
  BY <1>8, <1>10 DEF Worker, Acquire, Begin, Finish, Release, Ended
<1>11. QED
  BY <1>2, <1>3, <1>4, <1>5, <1>6, <1>7, <1>9, <1>10 DEF Next, Scheduler

(***************************************************************************)
(* The error and the status tell the same, and what they tell is in the    *)
(* results: on acyclic graphs, whatever fails, panics or is cancelled.     *)
(***************************************************************************)
THEOREM StatusMeaning == AcyclicInputs /\ Spec => []StatusExplained
<1>1. Init => StatusInv
  BY DEF Init, StatusInv, Ended, Failed, InPath
<1>2. IInv /\ StatusInv /\ EveryNodeReported => StatusExplained
  <2> SUFFICES ASSUME IInv, StatusInv, EveryNodeReported, Ended
               PROVE  /\ firstErr <=> status = "failed"
                      /\ status = "partial" => \E n \in scope : result[n] = "cancelled"
                      /\ status = "success" => \A n \in scope : result[n] = "success"
    BY DEF StatusExplained
  <2>1. /\ \A n \in scope : result[n] \in Result \ {"not_in_target_path"}
        /\ scope \subseteq Node
    BY DEF IInv, TypeOK, StatusInv
  <2>2. CASE firstErr /\ status = "failed"
    BY <2>2
  <2>3. CASE (firstErr <=> Failed) /\ status = Aggregate({result[n] : n \in scope})
    <3>1. firstErr <=> status = "failed"
      BY <2>3 DEF Aggregate, Failed
    <3>2. ASSUME status = "partial" PROVE \E n \in scope : result[n] = "cancelled"
      <4>1. ~firstErr
        BY <3>1, <3>2
      <4>2. PICK n \in scope : result[n] \in {"upstream_failed", "cancelled"}
        BY <2>3, <3>2 DEF Aggregate
      <4>3. QED
        BY <2>1, <4>1, <4>2 DEF StatusInv
    <3>3. ASSUME status = "success" PROVE \A n \in scope : result[n] = "success"
      <4>1. \A n \in scope : result[n] \notin {"failed", "upstream_failed", "cancelled"}
        BY <2>3, <3>3 DEF Aggregate
      <4>2. \A n \in scope : result[n] # "none"
        BY <3>3 DEF EveryNodeReported
      <4>3. QED
        BY <2>1, <4>1, <4>2 DEF Result
    <3>4. QED
      BY <3>1, <3>2, <3>3
  <2>4. QED
    BY <2>2, <2>3 DEF StatusInv
<1>3. QED
  BY <1>1, <1>2, NextStatus, Invariance, Completeness, PTL DEF Spec

----------------------------------------------------------------------------
(* The executor implements DagRun *)

(***************************************************************************)
(* What the abstract run needs to know besides: when the status is set,    *)
(* and that nothing outside the scope is touched before the report.        *)
(***************************************************************************)
EndInv ==
  /\ Ended <=> status # "none"
  /\ \A n \in scope : result[n] # "not_in_target_path"
  /\ sched # "returned" => \A n \in Node \ scope : result[n] = "none"

LEMMA NextEnd == IInv /\ EndInv /\ [Next]_vars => EndInv'
<1> SUFFICES ASSUME IInv, EndInv, [Next]_vars PROVE EndInv'
  OBVIOUS
<1>1. TypeOK /\ scope \subseteq Node
  BY DEF IInv, TypeOK
<1>2. CASE RejectUnknownType \/ Summarise
  BY <1>2 DEF RejectUnknownType, Summarise, Aggregate, EndInv, Ended
<1>3. CASE SkipAll
  BY <1>1, <1>3 DEF SkipAll, EndInv, Ended
<1>4. ASSUME NEW m \in Node, Receive(m) PROVE EndInv'
  <2>1. m \in scope /\ answer[m] \in {"success", "failed", "cancelled"}
    BY <1>4 DEF Receive, IInv, WorkerInv
  <2>2. QED
    BY <1>1, <1>4, <2>1 DEF Receive, EndInv, Ended, TypeOK
<1>5. CASE Cascade
  <2>1. \A n \in Node \ scope : n \notin Descendants(edges, scope, current)
    BY DEF Descendants
  <2>2. QED
    BY <1>1, <1>5, <2>1 DEF Cascade, EndInv, Ended
<1>6. CASE Return
  BY <1>1, <1>6 DEF Return, EndInv, Ended
<1>7. CASE Start \/ Promote \/ CancelContext \/ Over \/ UNCHANGED vars
  BY <1>7 DEF Start, Promote, CancelContext, Over, vars, EndInv, Ended
<1>8. ASSUME NEW m \in Node, Worker(m) PROVE EndInv'
  BY <1>8 DEF Worker, Acquire, Begin, Finish, Release, EndInv, Ended
<1>9. QED
  BY <1>2, <1>3, <1>4, <1>5, <1>6, <1>7, <1>8 DEF Next, Scheduler

LEMMA InitAbstract == Init => Abstract!Init
<1> SUFFICES ASSUME Init PROVE Abstract!Init
  OBVIOUS
<1>1. Outcome = [n \in Node |-> "none"] /\ status = "none" /\ scope \subseteq Node
  BY DEF Init, Outcome, InPath
<1>2. PICK g \in Graphs :
        \/ edges = g /\ scope = Node
        \/ \E target \in Node : scope = InPath(g, Node, target) /\ edges = EdgesWithin(g, scope)
  BY DEF Init
<1>3. Valid(g, Node)
  BY GraphsAssumption
<1>4. Valid(edges, scope)
  <2>1. CASE edges = g /\ scope = Node
    BY <1>3, <2>1
  <2>2. ASSUME NEW target \in Node,
               scope = InPath(g, Node, target), edges = EdgesWithin(g, scope)
        PROVE  Valid(edges, scope)
    <3>1. target \in scope
      BY <2>2 DEF InPath
    <3>2. IsEdgeList(edges, scope)
      BY <1>1, <1>3, <2>2, WithinIsEdgeList DEF Valid
    <3>3. \A i \in DOMAIN edges : edges[i][1] # edges[i][2]
      BY <1>3, <2>2 DEF EdgesWithin, Valid
    <3>4. QED
      BY <3>1, <3>2, <3>3 DEF Valid
  <2>3. QED
    BY <1>2, <2>1, <2>2
<1>5. Abstract!IsFiniteSet(DOMAIN edges) <=> IsFiniteSet(DOMAIN edges)
  BY DEF Abstract!IsFiniteSet, IsFiniteSet
<1>6. QED
  BY <1>1, <1>4, <1>5 DEF Abstract!Init, Abstract!Valid, Abstract!IsEdgeList, Valid, IsEdgeList

LEMMA SameGraph ==
  /\ \A n : Abstract!Predecessors(edges, n) = Predecessors(edges, n)
  /\ \A n : Abstract!Descendants(edges, scope, n) = Descendants(edges, scope, n)
BY DEF Abstract!Predecessors, Abstract!InEdges, Predecessors, InEdges,
   Abstract!Descendants, Abstract!Successors, Abstract!OutEdges, Descendants, Successors, OutEdges

(* Every step is a step of the abstract run, or leaves it as it is. *)
LEMMA NextAbstract ==
  IInv /\ EndInv /\ Acyclic(edges, scope) /\ [Next]_vars => [Abstract!Next]_(Abstract!vars)
<1> SUFFICES ASSUME IInv, EndInv, Acyclic(edges, scope), [Next]_vars
             PROVE  Abstract!Next \/ UNCHANGED Abstract!vars
  OBVIOUS
<1>1. TypeOK /\ scope \subseteq Node
  BY DEF IInv, TypeOK
<1>2. sched # "cascading" => Outcome = result
  BY <1>1 DEF Outcome, TypeOK
<1>3. sched' # "cascading" => Outcome' = [n \in Node |-> result'[n]]
  BY DEF Outcome
<1>4. CASE RejectUnknownType
  <2>1. Outcome' = Outcome /\ \A n \in scope : Outcome[n] = "none"
    BY <1>1, <1>2, <1>3, <1>4 DEF RejectUnknownType, IInv, SchedInv, TypeOK
  <2>2. Abstract!Reject
    BY <1>4, <2>1 DEF Abstract!Reject, RejectUnknownType, EndInv, Ended
  <2>3. QED
    BY <2>2 DEF Abstract!Next
<1>5. CASE SkipAll
  <2>1. /\ \A n \in Node : Outcome[n] = "none" /\ result[n] = "none"
        /\ Outcome' = [n \in Node |-> IF n \in scope THEN "cancelled" ELSE "none"]
    BY <1>1, <1>2, <1>3, <1>5 DEF SkipAll, IInv, SchedInv
  <2>2. Abstract!CancelAll
    BY <1>1, <1>5, <2>1 DEF Abstract!CancelAll, SkipAll, EndInv, Ended
  <2>3. QED
    BY <2>2 DEF Abstract!Next
<1>6. ASSUME NEW n \in Node, Receive(n) PROVE Abstract!Next
  <2>1. /\ n \in scope /\ result[n] = "none" /\ Outcome = result
        /\ answer[n] \in {"success", "failed", "cancelled"} /\ status = "none"
    BY <1>2, <1>6 DEF Receive, IInv, WorkerInv, InFlight, EndInv, Ended
  <2>2. \A p \in Predecessors(edges, n) : result[p] \in {"success", "cancelled"}
    BY <1>6 DEF Receive, IInv, OrderInv, Predecessors
  <2>3. Abstract!MayFinish(n)
    BY <2>1, <2>2, SameGraph DEF Abstract!MayFinish
  <2>4. result' = [result EXCEPT ![n] = answer[n]] /\ UNCHANGED <<edges, scope, status>>
    BY <1>6 DEF Receive
  <2>5. CASE answer[n] # "failed"
    <3>1. Outcome' = [Outcome EXCEPT ![n] = answer[n]]
      BY <1>1, <1>3, <1>6, <2>1, <2>4, <2>5 DEF Receive, TypeOK
    <3>2. Abstract!Finish(n, answer[n])
      BY <2>3, <2>4, <3>1 DEF Abstract!Finish
    <3>3. QED
      BY <2>1, <2>5, <3>2 DEF Abstract!Next
  <2>6. CASE answer[n] = "failed"
    <3>1. Outcome' = [m \in Node |->
             IF m \in Descendants(edges, scope, n) /\ result'[m] = "none"
             THEN "upstream_failed" ELSE result'[m]]
      BY <1>6, <2>4, <2>6 DEF Receive, Outcome
    <3>2. n \notin Descendants(edges, scope, n)
      BY DEF Descendants
    <3>3. Outcome' = [m \in Node |->
             IF m = n THEN "failed"
             ELSE IF m \in Descendants(edges, scope, n) /\ Outcome[m] = "none"
                  THEN "upstream_failed" ELSE Outcome[m]]
      BY <1>1, <2>1, <2>4, <2>6, <3>1, <3>2 DEF TypeOK
    <3>4. Abstract!Fail(n)
      BY <2>3, <2>4, <3>3, SameGraph DEF Abstract!Fail
    <3>5. QED
      BY <3>4 DEF Abstract!Next
  <2>7. QED
    BY <2>5, <2>6
<1>7. CASE Cascade
  <2>1. Outcome' = Outcome
    BY <1>3, <1>7 DEF Cascade, Outcome
  <2>2. QED
    BY <1>7, <2>1 DEF Cascade, Abstract!vars
<1>8. CASE Summarise
  <2>1. sched = "receiving" /\ inFlight = 0 /\ Outcome = result
    BY <1>2, <1>8 DEF Summarise
  <2>2. IsFiniteSet(InFlight) /\ Cardinality(InFlight) = 0
    BY <2>1, NodeSubsetFinite DEF InFlight, IInv, SlotInv
  <2>3. InFlight = {}
    BY <2>2, FS_EmptySet
  <2>4. \A n \in scope : result[n] # "none"
    BY <2>1, <2>3, NothingLeft
  <2>5. Aggregate({result[n] : n \in scope}) = Abstract!Aggregate({result[n] : n \in scope})
    <3> DEFINE outcomes == {result[n] : n \in scope}
    <3>1. outcomes \subseteq {"success", "failed", "upstream_failed", "cancelled"}
      BY <1>1, <2>4 DEF EndInv, TypeOK, Result
    <3> HIDE DEF outcomes
    <3>2. Aggregate(outcomes) = Abstract!Aggregate(outcomes)
      BY <3>1 DEF Aggregate, Abstract!Aggregate
    <3>3. QED
      BY <3>2 DEF outcomes
  <2>6. Outcome' = Outcome
    BY <1>1, <1>3, <1>8, <2>1 DEF Summarise, TypeOK
  <2>7. Abstract!End
    BY <1>8, <2>1, <2>4, <2>5, <2>6 DEF Abstract!End, Summarise, EndInv, Ended
  <2>8. QED
    BY <2>7 DEF Abstract!Next
<1>9. CASE Return
  <2>1. sched = "summarised" /\ Outcome = result
    BY <1>2, <1>9 DEF Return
  <2>2. Outcome' = [n \in Node |-> IF n \in scope THEN Outcome[n] ELSE "not_in_target_path"]
    BY <1>1, <1>3, <1>9, <2>1 DEF Return, EndInv
  <2>3. Abstract!Report
    BY <1>9, <2>1, <2>2 DEF Abstract!Report, Return, EndInv, Ended
  <2>4. QED
    BY <2>3 DEF Abstract!Next
<1>10. ASSUME UNCHANGED <<edges, scope, status, result, sched, current>>
       PROVE  UNCHANGED Abstract!vars
  BY <1>10 DEF Abstract!vars, Outcome
<1>11. CASE Start \/ Promote
  <2>1. Outcome' = Outcome
    BY <1>1, <1>2, <1>3, <1>11 DEF Start, Promote, TypeOK
  <2>2. QED
    BY <1>11, <2>1 DEF Start, Promote, Abstract!vars
<1>12. CASE CancelContext \/ Over \/ UNCHANGED vars
  BY <1>10, <1>12 DEF CancelContext, Over, vars
<1>13. ASSUME NEW n \in Node, Worker(n) PROVE UNCHANGED Abstract!vars
  BY <1>10, <1>13 DEF Worker, Acquire, Begin, Finish, Release
<1>14. QED
  BY <1>4, <1>5, <1>6, <1>7, <1>8, <1>9, <1>11, <1>12, <1>13 DEF Next, Scheduler

(***************************************************************************)
(* On acyclic graphs the executor does what DagRun promises, step by step: *)
(* one outcome per node, after its predecessors; a failure and its cascade *)
(* as one step; the status as the aggregate.  (That the run ends, the      *)
(* other half of ImplementsDagRun, is a matter of fairness.)               *)
(***************************************************************************)
THEOREM Refinement ==
  AcyclicInputs /\ Spec => Abstract!Init /\ [][Abstract!Next]_(Abstract!vars)
<1>1. Init => EndInv
  BY DEF Init, EndInv, Ended, InPath
<1>2. ReportInv => Acyclic(edges, scope)
  BY DEF ReportInv
<1>3. QED
  BY <1>1, <1>2, InitReport, NextReport, NextEnd, NextAbstract, InitAbstract, Invariance,
     PTL DEF Spec
=============================================================================
