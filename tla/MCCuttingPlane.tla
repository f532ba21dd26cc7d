--------------------------- MODULE MCCuttingPlane ---------------------------
(***************************************************************************)
(* Two flip-flops or the outside and one, in a circle, with a path back to *)
(* itself, or apart, so that vertex 0 does not reach all.  The points are  *)
(* feasible, too tight, or break each of the bounds on T and W.            *)
(***************************************************************************)
EXTENDS CuttingPlane, TLC

Short == [max |-> 2, min |-> 0]
Long == [max |-> 4, min |-> 2]

Files ==
  [{<<0, 1>>, <<1, 0>>} -> {Short, Long}] \cup
  [{<<0, 1>>, <<1, 1>>} -> {Long}] \cup
  [{<<0, 0>>, <<1, 1>>} -> {Long}]

Points ==
  [T : {0, 2, 3, 4}, W : {0, 1, 2}] \cup {[T |-> -1, W |-> 0], [T |-> 3, W |-> -1]}
=============================================================================
