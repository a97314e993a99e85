-------------------------------- MODULE Dag --------------------------------
(***************************************************************************)
(* The strategy graph of the orchestrator (orchestrator/types.go).         *)
(*                                                                         *)
(* A DAG value is its edge list, a function from positions of the list to  *)
(* <<source, target>> pairs: the list may name an edge twice, and          *)
(* Predecessors and Successors then list the node twice.  What the         *)
(* scheduler counts are therefore edges, not neighbours.  Nothing here     *)
(* recurses, so that the module can be used where theorems are proved: a   *)
(* set reached by a breadth-first search is written as the least set       *)
(* closed under one step of the search.                                    *)
(***************************************************************************)
EXTENDS FiniteSets

IsEdgeList(edges, N) ==
  /\ IsFiniteSet(DOMAIN edges)
  /\ edges \in [DOMAIN edges -> N \X N]

(***************************************************************************)
(* DAG.Validate, for an edge list over N: no dangling edge, no self-loop.  *)
(* Cycles are accepted, and so are repeated edges.                         *)
(***************************************************************************)
Valid(edges, N) ==
  /\ N # {}
  /\ IsEdgeList(edges, N)
  /\ \A i \in DOMAIN edges : edges[i][1] # edges[i][2]

InEdges(edges, n)  == {i \in DOMAIN edges : edges[i][2] = n}
OutEdges(edges, n) == {i \in DOMAIN edges : edges[i][1] = n}

Predecessors(edges, n) == {edges[i][1] : i \in InEdges(edges, n)}
Successors(edges, n)   == {edges[i][2] : i \in OutEdges(edges, n)}

(* Nodes no edge of the list enters. *)
Roots(edges, N) == {n \in N : InEdges(edges, n) = {}}

(***************************************************************************)
(* collectDescendants: the nodes reached from n by following edges         *)
(* forward, n itself excluded.                                             *)
(***************************************************************************)
Descendants(edges, N, n) ==
  {m \in N \ {n} :
     \A S \in SUBSET N :
        (/\ Successors(edges, n) \subseteq S
         /\ \A k \in S : Successors(edges, k) \subseteq S) => m \in S}

(***************************************************************************)
(* The backward closure ExecuteToNode computes: the target and every node  *)
(* the target can be reached from.                                         *)
(***************************************************************************)
InPath(edges, N, target) ==
  {m \in N :
     \A S \in SUBSET N :
        (target \in S /\ \A k \in S : Predecessors(edges, k) \subseteq S)
          => m \in S}

(* The sub-DAG's edge list: the edges with both ends in S. *)
EdgesWithin(edges, S) ==
  [i \in {j \in DOMAIN edges : edges[j][1] \in S /\ edges[j][2] \in S} |-> edges[i]]

(***************************************************************************)
(* The graphs TopoSort sorts without ErrCycle: no set of nodes in which    *)
(* every node has a predecessor.                                           *)
(***************************************************************************)
Acyclic(edges, N) ==
  \A S \in SUBSET N :
    S # {} => \E n \in S : Predecessors(edges, n) \cap S = {}
=============================================================================
