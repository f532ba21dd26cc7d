-------------------------- MODULE MCNegCycleFinder --------------------------
(***************************************************************************)
(* Four nodes.  The weights make the labels of a whole subtree drop, some  *)
(* cycles negative and some of total weight zero.                          *)
(***************************************************************************)
EXTENDS NegCycleFinder

Nodes == 0..3

ArcsOf(x, y, ws) ==
  {[from |-> x, to |-> y, weight |-> w, delay |-> 0] : w \in ws}

\* A fan out of node 0, a chain 1, 2, 3 and arcs back along it.
Fans ==
  {{a, b, c, d, e, f} :
     a \in ArcsOf(0, 1, {0, 2}), b \in ArcsOf(0, 2, {0, 2}),
     c \in ArcsOf(1, 2, {-1, 1}), d \in ArcsOf(2, 3, {-1, 1}),
     e \in ArcsOf(3, 1, {0, 2}) \cup ArcsOf(3, 0, {-1, 2}) \cup ArcsOf(1, 1, {-1, 0}),
     f \in ArcsOf(2, 1, {0, 1}) \cup ArcsOf(0, 3, {0}) \cup ArcsOf(3, 2, {-1, 1})}

\* Node 1 is not reached from node 0.
Apart == {{a, b} : a \in ArcsOf(0, 2, {1}), b \in ArcsOf(1, 1, {-1})}

AllGraphs == Fans \cup Apart
=============================================================================
