----------------------------- MODULE ParentTree -----------------------------
(***************************************************************************)
(* The tree _Tp of YTO and negCycleFinder: a second graph on the nodes, in *)
(* which a node has at most one in-edge.  It is here a function T from the *)
(* nodes to the source of that in-edge, or to something that is no node.   *)
(***************************************************************************)
\* S contains the tree children of its members.
Closed(T, S) == \A x \in DOMAIN T : T[x] \in S => x \in S

\* Slip: the children of v are not pushed.
SubtreeRootOnly(T, v) == {v}

\* v and its descendants: what every closed set with v in it contains.
Subtree(T, v) ==
  LET Linked == {x \in DOMAIN T : T[x] \in DOMAIN T}
      Around == {X \in SUBSET Linked : Closed(T, X \cup {v})}
  IN  {v} \cup {x \in Linked : \A X \in Around : x \in X}

\* Slip: u itself is not compared with v.
InSubTreeProper(T, v, u) == u # v /\ u \in Subtree(T, v)

\* inSubTree(v, u): climbing from u meets v.
InSubTree(T, v, u) == u \in Subtree(T, v)

\* remove_edge of v's in-edge, if it has one, then add_edge(u, v).
Relink(T, u, v) == [T EXCEPT ![v] = u]

\* Every non-empty set of nodes has a member whose parent is outside the set:
\* climbing the tree always ends at a root.
Acyclic(T) == \A X \in SUBSET DOMAIN T : X # {} => \E x \in X : T[x] \notin X
=============================================================================
