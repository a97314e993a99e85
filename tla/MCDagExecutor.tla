--------------------------- MODULE MCDagExecutor ---------------------------
(***************************************************************************)
(* DagExecutor on the graphs that tell the scheduler's cases apart: a      *)
(* chain, a fork and join (with and without an edge listed twice), three   *)
(* roots that compete for the slots of two, a node with both a failed and  *)
(* a healthy branch above it, a shortcut over a predecessor, and two       *)
(* components.                                                             *)
(***************************************************************************)
EXTENDS Sequences, DagExecutor

Chain    == << <<1, 2>>, <<2, 3>>, <<3, 4>> >>
Diamond  == << <<1, 2>>, <<1, 3>>, <<2, 4>>, <<3, 4>> >>
Join     == << <<1, 4>>, <<2, 4>>, <<3, 4>> >>
Crossed  == << <<1, 4>>, <<1, 3>>, <<2, 4>> >>
Shortcut == << <<1, 2>>, <<2, 3>>, <<1, 3>> >>
Uneven   == << <<1, 2>>, <<2, 4>>, <<1, 3>> >>
TwiceFirst(g) == <<g[1]>> \o g

AcyclicGraphs == {Chain, Diamond, TwiceFirst(Diamond), Join, TwiceFirst(Crossed), Shortcut,
                  TwiceFirst(Shortcut), Uneven}

(* A root in front of a cycle, and a cycle alone. *)
CyclicGraphs == {<< <<1, 2>>, <<2, 3>>, <<3, 2>> >>, << <<1, 2>>, <<2, 3>>, <<3, 1>> >>}
=============================================================================
