------------------------------ MODULE ArcGraph ------------------------------
(***************************************************************************)
(* The constraint graphs of LBTB and the parent tree its solvers keep.     *)
(*                                                                         *)
(* timing_graph.hpp stores a constraint graph as a boost adjacency_list    *)
(* whose arcs carry a weight (a time) and a delay (the transit: how often  *)
(* the optimised quantity occurs in the constraint).  A graph is here the  *)
(* set of its arcs; parallel arcs with the same weight and delay cannot be *)
(* told apart by any solver, so a set loses nothing.  Times are integers:  *)
(* the unit is small enough that every weight is a whole number of it.     *)
(*                                                                         *)
(* YTO and negCycleFinder both keep a parent tree, _Tp.                    *)
(***************************************************************************)
EXTENDS CycleBounds, ParentTree

CONSTANTS Node,    \* the vertices
          NoNode   \* "no in-edge in the tree"

ASSUME NodeAssumption == NoNode \notin Node /\ IsFiniteSet(Node)

Arc == [from : Node, to : Node, weight : Int, delay : Int]

InArcs(g, v)  == {e \in g : e.to = v}
OutArcs(g, v) == {e \in g : e.from = v}

\* What _Tp may be: see ParentTree.
Tree == [Node -> Node \cup {NoNode}]

NoTree == [x \in Node |-> NoNode]
=============================================================================
