--------------------------- MODULE NegCycleFinder ---------------------------
(***************************************************************************)
(* The negative cycle detector of the timing oracle,                       *)
(* LBTB/src/negativeCycleFinder.cpp: label correcting from node 0 with a   *)
(* queue, and Tarjan's subtree disassembly.  When a label drops, the       *)
(* subtree below the node is cut off the tree and its nodes are taken off  *)
(* the queue, for their labels will drop as well.  They stay in the        *)
(* std::queue, which cannot delete; _inQuene tells the live entries.       *)
(*                                                                         *)
(* hasNegCycle is one object's only call, as in timing_oracle.hpp:76.  One *)
(* action pops a queue entry, one relaxes an out-arc of the popped node.   *)
(***************************************************************************)
EXTENDS ArcGraph, Sequences, SequencesExt

CONSTANTS Graphs,     \* the graphs the oracle may hand over
          NoArc,      \* a default-constructed boost edge descriptor
          Unreached,  \* numeric_limits<double>::infinity() as a label
          Source      \* the node with index 0

ASSUME GraphsAssumption ==
  \A h \in Graphs : h \subseteq Arc /\ NoArc \notin h /\ IsFiniteSet(h)

ASSUME SourceAssumption == Source \in Node /\ Unreached \notin Int

VARIABLES g,            \* _g, never written
          Tp,           \* _Tp
          dist,         \* _dist
          pre,          \* _pre
          q,            \* _q
          inQueue,      \* _inQuene
          u,            \* the node popped last
          todo,         \* its out-arcs the loop has not come to yet
          nodeInCycle,  \* _node_in_cycle
          pc            \* "run", or the value returned

vars == <<g, Tp, dist, pre, q, inQueue, u, todo, nodeInCycle, pc>>

-----------------------------------------------------------------------------
Init ==
  /\ g \in Graphs
  /\ Tp = NoTree
  /\ dist = [x \in Node |-> IF x = Source THEN 0 ELSE Unreached]
  /\ pre = [x \in Node |-> NoArc]
  /\ q = <<Source>>
  /\ inQueue = [x \in Node |-> x = Source]
  /\ u = Source
  /\ todo = {}
  /\ nodeInCycle = NoNode
  /\ pc = "run"

\* Slip: the out-arcs are those of the node popped before.
PopOldVertex ==
  /\ pc = "run" /\ todo = {} /\ q # <<>>
  /\ u' = Head(q)
  /\ q' = Tail(q)
  /\ inQueue' = [inQueue EXCEPT ![Head(q)] = FALSE]
  /\ todo' = IF inQueue[Head(q)] THEN OutArcs(g, u) ELSE {}
  /\ UNCHANGED <<g, Tp, dist, pre, nodeInCycle, pc>>

\* Slip: a stale entry is skipped before it is popped.
PopKeepsStale ==
  /\ pc = "run" /\ todo = {} /\ q # <<>>
  /\ u' = IF inQueue[Head(q)] THEN Head(q) ELSE u
  /\ q' = IF inQueue[Head(q)] THEN Tail(q) ELSE q
  /\ inQueue' = [inQueue EXCEPT ![Head(q)] = FALSE]
  /\ todo' = IF inQueue[Head(q)] THEN OutArcs(g, Head(q)) ELSE {}
  /\ UNCHANGED <<g, Tp, dist, pre, nodeInCycle, pc>>

\* Pop an entry; one whose node was taken off the queue is skipped.
Pop ==
  /\ pc = "run" /\ todo = {} /\ q # <<>>
  /\ u' = Head(q)
  /\ q' = Tail(q)
  /\ inQueue' = [inQueue EXCEPT ![Head(q)] = FALSE]
  /\ todo' = IF inQueue[Head(q)] THEN OutArcs(g, Head(q)) ELSE {}
  /\ UNCHANGED <<g, Tp, dist, pre, nodeInCycle, pc>>

\* Slip: >= for >.
ImprovesWeakly(e) == dist[e.to] # Unreached => dist[e.to] >= dist[u] + e.weight

Improves(e) == dist[e.to] # Unreached => dist[e.to] > dist[u] + e.weight

\* An arc that does not improve its target is passed over.
Pass(e) ==
  /\ pc = "run" /\ e \in todo
  /\ ~Improves(e)
  /\ todo' = todo \ {e}
  /\ UNCHANGED <<g, Tp, dist, pre, q, inQueue, u, nodeInCycle, pc>>

\* The target is an ancestor of u: the tree path and the arc are a cycle.
Detect(e) ==
  /\ pc = "run" /\ e \in todo
  /\ Improves(e)
  /\ InSubTree(Tp, e.to, u)
  /\ nodeInCycle' = e.to
  /\ pre' = [pre EXCEPT ![e.to] = e]
  /\ pc' = "true"
  /\ UNCHANGED <<g, Tp, dist, q, inQueue, u, todo>>

\* removeNodeInQueue(v): the proper descendants of v.
RemoveNodeInQueue(live, S, v) ==
  [x \in Node |-> live[x] /\ x \notin S \ {v}]

\* Slip: the tree edges stay.
RemoveSubtreeNothing(T, S) == T

\* removeSubtree(v): every tree edge into a node of the subtree.
RemoveSubtree(T, S) == [x \in Node |-> IF x \in S THEN NoNode ELSE T[x]]

\* Slip: the flag is raised before it is tested.
RelaxFlagFirst(e) ==
  /\ pc = "run" /\ e \in todo
  /\ Improves(e)
  /\ ~InSubTree(Tp, e.to, u)
  /\ dist' = [dist EXCEPT ![e.to] = dist[u] + e.weight]
  /\ pre' = [pre EXCEPT ![e.to] = e]
  /\ \E S \in {Subtree(Tp, e.to)} :
       /\ Tp' = Relink(RemoveSubtree(Tp, S), u, e.to)
       /\ inQueue' = [RemoveNodeInQueue(inQueue, S, e.to) EXCEPT ![e.to] = TRUE]
  /\ todo' = todo \ {e}
  /\ UNCHANGED <<g, q, u, nodeInCycle, pc>>

\* Slip: the predecessor of a node that is already queued is kept.
RelaxKeepsPre(e) ==
  /\ pc = "run" /\ e \in todo
  /\ Improves(e)
  /\ ~InSubTree(Tp, e.to, u)
  /\ dist' = [dist EXCEPT ![e.to] = dist[u] + e.weight]
  /\ \E S \in {Subtree(Tp, e.to)} :
       /\ Tp' = Relink(RemoveSubtree(Tp, S), u, e.to)
       /\ inQueue' = [RemoveNodeInQueue(inQueue, S, e.to) EXCEPT ![e.to] = TRUE]
  /\ IF inQueue[e.to] THEN UNCHANGED <<pre, q>>
     ELSE pre' = [pre EXCEPT ![e.to] = e] /\ q' = Append(q, e.to)
  /\ todo' = todo \ {e}
  /\ UNCHANGED <<g, u, nodeInCycle, pc>>

\* Otherwise the target gets its new label, its subtree is cut up and its
\* nodes leave the queue, and the target is queued unless it is already.
Relax(e) ==
  /\ pc = "run" /\ e \in todo
  /\ Improves(e)
  /\ ~InSubTree(Tp, e.to, u)
  /\ dist' = [dist EXCEPT ![e.to] = dist[u] + e.weight]
  /\ pre' = [pre EXCEPT ![e.to] = e]
  /\ \E S \in {Subtree(Tp, e.to)} :
       /\ Tp' = Relink(RemoveSubtree(Tp, S), u, e.to)
       /\ inQueue' = [RemoveNodeInQueue(inQueue, S, e.to) EXCEPT ![e.to] = TRUE]
  /\ q' = IF inQueue[e.to] THEN q ELSE Append(q, e.to)
  /\ todo' = todo \ {e}
  /\ UNCHANGED <<g, u, nodeInCycle, pc>>

\* The queue is empty.
GiveUp ==
  /\ pc = "run" /\ todo = {} /\ q = <<>>
  /\ pc' = "false"
  /\ UNCHANGED <<g, Tp, dist, pre, q, inQueue, u, todo, nodeInCycle>>

Scan == \E e \in todo : Pass(e) \/ Detect(e) \/ Relax(e)

Next == Pop \/ Scan \/ GiveUp

Spec == Init /\ [][Next]_vars

\* hasNegCycle is sequential code: it takes its next step as long as it has one.
FairSpec == Spec /\ WF_vars(Next)

-----------------------------------------------------------------------------
(***************************************************************************)
(* getNegCycle: follow _pre backwards from _node_in_cycle until it is met  *)
(* again.  Walk[k] is the node reached after k arcs and their total weight.*)
(***************************************************************************)
GetNegCycle ==
  LET Walk[k \in 0..Cardinality(Node)] ==
        IF k = 0 THEN <<nodeInCycle, 0>>
        ELSE LET p == Walk[k - 1]
                 e == pre[p[1]]
             IN  <<e.from, p[2] + e.weight>>
      lap == {k \in 1..Cardinality(Node) :
                /\ Walk[k][1] = nodeInCycle
                /\ \A i \in 1 .. k - 1 : Walk[i][1] # nodeInCycle}
  IN  {Walk[k][2] : k \in lap}

Reached == {x \in Node : dist[x] # Unreached}

-----------------------------------------------------------------------------
(***************************************************************************)
(* Properties.                                                             *)
(***************************************************************************)
TypeOK ==
  /\ g \subseteq Arc
  /\ Tp \in Tree
  /\ dist \in [Node -> Int \cup {Unreached}]
  /\ pre \in [Node -> g \cup {NoArc}]
  /\ q \in Seq(Node)
  /\ inQueue \in [Node -> BOOLEAN]
  /\ u \in Reached
  /\ todo \subseteq OutArcs(g, u)
  /\ nodeInCycle \in Node \cup {NoNode}
  /\ pc \in {"run", "true", "false"}

\* The tree edges close no cycle while the search runs: the recursion of
\* removeNodeInQueue (negativeCycleFinder.cpp:18) and the climb in inSubTree
\* come to an end.
TreeIsForest == Acyclic(Tp)

\* A label is never below what its predecessor arc justifies, and a tree edge
\* is the predecessor arc.  A cycle of predecessor arcs is then negative.
LabelsAreJustified ==
  pc = "run" => \A x \in Node :
    /\ Tp[x] # NoNode => pre[x] \in InArcs(g, x) /\ pre[x].from = Tp[x]
    /\ pre[x] # NoArc =>
         /\ {x, pre[x].from} \subseteq Reached
         /\ dist[x] >= dist[pre[x].from] + pre[x].weight

\* Nothing is forgotten when nodes are cut off the tree and off the queue.
\* Between two nodes, an arc that still improves its target leaves a node that
\* is queued or cut off; and a cut-off node will be met again, for its own
\* predecessor is queued or cut off in turn.
CutOff(x) == x # Source /\ x \in Reached /\ Tp[x] = NoNode

NoArcIsForgotten ==
  pc = "run" /\ todo = {} =>
    /\ \A e \in g :
         /\ e.from \in Reached
         /\ dist[e.to] # Unreached => dist[e.to] > dist[e.from] + e.weight
         => inQueue[e.from] \/ CutOff(e.from)
    /\ \A x \in Node :
         CutOff(x) => inQueue[pre[x].from] \/ CutOff(pre[x].from)

\* A true answer is right: getNegCycle finds its way back to the node it
\* starts from (its loop ends) along arcs of negative total weight.
CycleIsNegative ==
  pc = "true" => GetNegCycle # {} /\ \A w \in GetNegCycle : w < 0

\* A false answer is right for what node 0 reaches: no cycle there is negative.
NoneReachable ==
  pc = "false" =>
    LET seen == {e \in g : e.from \in Reached}
    IN  NoNegativeCycle(Node, seen, [e \in seen |-> e.weight])

\* hasNegCycle returns, negative cycles or not.
Returns == <>(pc # "run")
=============================================================================
