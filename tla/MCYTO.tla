------------------------------- MODULE MCYTO -------------------------------
(***************************************************************************)
(* YTO on the graphs its start suits.  run() begins with all distances and *)
(* delays at zero, which is a tree of shortest paths for a very low r just *)
(* when no arc has a negative delay and an arc of delay zero has no        *)
(* negative weight.  The weights, the arcs back and the loop give      *)
(* negative, zero and tied keys, several cycles and acyclic graphs.        *)
(***************************************************************************)
EXTENDS YTO, TLC

Nodes == 0..2

ArcsOf(u, v, costs) ==
  {[from |-> u, to |-> v, weight |-> c[1], delay |-> c[2]] : c \in costs}

Costs == {<<0, 0>>, <<2, 0>>, <<-1, 1>>, <<2, 1>>}

Suitable ==
  {{a, b, c, d, e} : a \in ArcsOf(0, 1, Costs), b \in ArcsOf(1, 2, Costs),
                     c \in ArcsOf(2, 0, Costs) \cup ArcsOf(0, 2, {<<1, 1>>}),
                     d \in ArcsOf(2, 1, {<<0, 0>>, <<-1, 1>>}) \cup
                           ArcsOf(0, 2, {<<0, 2>>}),
                     e \in ArcsOf(1, 1, {<<1, 1>>}) \cup ArcsOf(1, 2, {<<1, 2>>})}

Classical == {h \in Suitable : EveryCyclePositive(Nodes, h)}

\* Boost keeps in-arcs in a multiset ordered by the index of their source.
BySource(S) == CHOOSE e \in S : \A f \in S : e.from <= f.from
=============================================================================
