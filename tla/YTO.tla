-------------------------------- MODULE YTO --------------------------------
(***************************************************************************)
(* The Young-Tarjan-Orlin cycle ratio solver, LBTB/src/YTO.cpp.            *)
(*                                                                         *)
(* YTO keeps a tree of shortest paths for the arc costs weight - r*delay   *)
(* and raises r.  The key of an arc is the r at which the arc becomes      *)
(* better than its target's tree path; the key of a node is the least key  *)
(* of its in-arcs, cached in _arcKey / _nodeKey and in a priority queue.   *)
(* Each round pivots on the node with the least key: the subtree below it  *)
(* is shifted and relinked, the keys of arcs entering the subtree are      *)
(* recomputed, and those of arcs leaving it may only be decreased.         *)
(*                                                                         *)
(* One action per loop of the round, so that the cached keys are seen      *)
(* stale between the loops, as they are in the code.                       *)
(***************************************************************************)
EXTENDS ArcGraph

CONSTANTS Graphs,      \* the constraint graphs the solver may be given
          NoArc,       \* a default-constructed boost edge descriptor
          FirstOf(_)   \* of arcs with equal keys, the one the loops meet first

ASSUME GraphsAssumption ==
  \A h \in Graphs : h \subseteq Arc /\ NoArc \notin h /\ IsFiniteSet(h)

ASSUME FirstOfAssumption ==
  \A h \in Graphs : \A v \in Node : \A S \in SUBSET InArcs(h, v) :
    S # {} => FirstOf(S) \in S

VARIABLES g,        \* _g, never written
          r,        \* _r
          Tp,       \* _Tp
          dist,     \* _dist
          transit,  \* _transit
          nodeKey,  \* _nodeKey
          arcKey,   \* _arcKey
          pq,       \* _pq: the priority under which each node is queued
          pivot,    \* the local e of run()
          pc        \* where run() is

data == <<Tp, dist, transit>>
keys == <<nodeKey, arcKey, pq>>
vars == <<g, r, Tp, dist, transit, nodeKey, arcKey, pq, pivot, pc>>

Phases == {"initialize", "findMin", "shift", "entering", "leaving", "returned"}

-----------------------------------------------------------------------------
DeltaT(e) == transit[e.from] + e.delay - transit[e.to]
DeltaD(e) == dist[e.from] + e.weight - dist[e.to]

\* Slip: != 0 for > 0, so that a negative divisor gives a key as well.
FindArcKeyNonzero(e) ==
  CASE DeltaT(e) > 0 -> <<DeltaD(e), DeltaT(e)>>
    [] DeltaT(e) < 0 -> <<-DeltaD(e), -DeltaT(e)>>
    [] OTHER -> Infinity

FindArcKey(e) == IF DeltaT(e) > 0 THEN <<DeltaD(e), DeltaT(e)>> ELSE Infinity

\* Slip: the loop stops at the first arc that improves on the bound.
ImprovingFirst(A, bound) == {e \in A : Less(FindArcKey(e), bound)}

\* The arcs of A a loop "if (ak < key) key = ak" starting from bound may keep.
Improving(A, bound) ==
  {e \in A : /\ Less(FindArcKey(e), bound)
             /\ \A f \in A : ~Less(FindArcKey(f), FindArcKey(e))}

Init ==
  /\ g \in Graphs
  /\ r = <<0, 1>>
  /\ Tp = NoTree
  /\ dist = [v \in Node |-> 0]
  /\ transit = [v \in Node |-> 0]
  /\ nodeKey = [v \in Node |-> NoArc]
  /\ arcKey = [v \in Node |-> Infinity]
  /\ pq = [v \in Node |-> Infinity]
  /\ pivot = NoArc
  /\ pc = "initialize"

\* Scan the in-arcs of the nodes X against the given bounds and cache what
\* improves on them.
Rescan(X, from, bound) ==
  LET best == [x \in X |-> Improving({e \in InArcs(g, x) : e.from \in from},
                                     bound[x])]
      kept(x) == IF x \in X THEN best[x] ELSE {}
  IN  /\ nodeKey' = [x \in Node |->
           IF kept(x) = {} THEN nodeKey[x] ELSE FirstOf(kept(x))]
      /\ arcKey' = [x \in Node |->
           IF kept(x) # {} THEN FindArcKey(FirstOf(kept(x)))
           ELSE IF x \in X THEN bound[x] ELSE arcKey[x]]

\* The first two loops of run(): the node keys, then the queue.
Initialize ==
  /\ pc = "initialize"
  /\ Rescan(Node, Node, arcKey)
  /\ pq' = arcKey'
  /\ pc' = "findMin"
  /\ UNCHANGED <<g, r, Tp, dist, transit, pivot>>

\* Slip: the pivot is not fetched.
FindMinOldPivot ==
  /\ pc = "findMin"
  /\ \E v \in Node :
       /\ \A w \in Node : ~Less(pq[w], pq[v])
       /\ r' = pq[v]
       /\ pc' = IF pq[v] = Infinity \/ InSubTree(Tp, v, nodeKey[v].from)
                THEN "returned" ELSE "shift"
  /\ UNCHANGED <<g, data, keys, pivot>>

\* find_min: any node with the least priority may come first.  The sentinel
\* the code inserts with key infinity only keeps the queue from being empty.
FindMin ==
  /\ pc = "findMin"
  /\ \E v \in Node :
       /\ \A w \in Node : ~Less(pq[w], pq[v])
       /\ r' = pq[v]
       /\ IF pq[v] = Infinity
          THEN pc' = "returned" /\ UNCHANGED pivot
          ELSE /\ pivot' = nodeKey[v]
               /\ pc' = IF InSubTree(Tp, v, nodeKey[v].from)
                        THEN "returned" ELSE "shift"
  /\ UNCHANGED <<g, data, keys>>

\* Shift the subtree below the pivot's target and hang it under its source.
Shift ==
  /\ pc = "shift"
  /\ \E S \in {Subtree(Tp, pivot.to)} :
       /\ dist' = [x \in Node |->
                     IF x \in S THEN dist[x] + DeltaD(pivot) ELSE dist[x]]
       /\ transit' = [x \in Node |->
                     IF x \in S THEN transit[x] + DeltaT(pivot) ELSE transit[x]]
  /\ Tp' = Relink(Tp, pivot.from, pivot.to)
  /\ pc' = "entering"
  /\ UNCHANGED <<g, r, keys, pivot>>

\* Slip: _arcKey is not reset before the in-arcs are scanned again.
EnteringNoReset ==
  /\ pc = "entering"
  /\ \E S \in {Subtree(Tp, pivot.to)} :
       /\ Rescan(S, Node, arcKey)
       /\ pq' = [x \in Node |-> IF x \in S THEN arcKey'[x] ELSE pq[x]]
  /\ pc' = "leaving"
  /\ UNCHANGED <<g, r, data, pivot>>

\* Recompute the keys of the subtree's nodes and queue them again.
Entering ==
  /\ pc = "entering"
  /\ \E S \in {Subtree(Tp, pivot.to)} :
       /\ Rescan(S, Node, [x \in Node |-> Infinity])
       /\ pq' = [x \in Node |-> IF x \in S THEN arcKey'[x] ELSE pq[x]]
  /\ pc' = "leaving"
  /\ UNCHANGED <<g, r, data, pivot>>

\* Slip: only the arcs leaving the root of the subtree are looked at.
LeavingRootOnly ==
  /\ pc = "leaving"
  /\ Rescan(Node, {pivot.to}, arcKey)
  /\ pq' = [x \in Node |-> IF Less(arcKey'[x], arcKey[x])
                           THEN arcKey'[x] ELSE pq[x]]
  /\ pc' = "findMin"
  /\ UNCHANGED <<g, r, data, pivot>>

\* Slip: decrease_p is forgotten.
LeavingKeepsQueue ==
  /\ pc = "leaving"
  /\ \E S \in {Subtree(Tp, pivot.to)} : Rescan(Node, S, arcKey)
  /\ pc' = "findMin"
  /\ UNCHANGED <<g, r, data, pq, pivot>>

\* Decrease the keys of the nodes that arcs leaving the subtree reach.
Leaving ==
  /\ pc = "leaving"
  /\ \E S \in {Subtree(Tp, pivot.to)} : Rescan(Node, S, arcKey)
  /\ pq' = [x \in Node |-> IF Less(arcKey'[x], arcKey[x])
                           THEN arcKey'[x] ELSE pq[x]]
  /\ pc' = "findMin"
  /\ UNCHANGED <<g, r, data, pivot>>

Next == Initialize \/ FindMin \/ Shift \/ Entering \/ Leaving

Spec == Init /\ [][Next]_vars

\* run() is sequential code: it takes its next step as long as it has one.
FairSpec == Spec /\ WF_vars(Next)
-----------------------------------------------------------------------------
(***************************************************************************)
(* Properties.                                                             *)
(***************************************************************************)
TypeOK ==
  /\ g \subseteq Arc
  /\ r \in Ratio
  /\ Tp \in Tree
  /\ dist \in [Node -> Int]
  /\ transit \in [Node -> Int]
  /\ nodeKey \in [Node -> g \cup {NoArc}]
  /\ arcKey \in [Node -> Ratio]
  /\ pq \in [Node -> Ratio]
  /\ pivot \in g \cup {NoArc}
  /\ pc \in {"shift", "entering", "leaving"} => pivot \in g
  /\ pc \in Phases

\* _Tp never closes a cycle: otherwise the breadth-first loops over a subtree
\* (YTO.cpp:87, 110, 132) and the climb in inSubTree would never end.
TreeIsForest == Acyclic(Tp)

\* _dist and _transit are the cost and the delay of the tree path: every tree
\* edge is an arc of the graph that explains the difference between its ends.
TreeIsTight ==
  \A v \in Node : Tp[v] # NoNode =>
    \E e \in g : e.from = Tp[v] /\ e.to = v /\ DeltaD(e) = 0 /\ DeltaT(e) = 0

\* When the next pivot is chosen every cached key is what a fresh scan would
\* give, _nodeKey is an arc that attains it and the queue agrees: the two
\* update loops, the second of which only ever decreases, miss nothing.
KeysFresh ==
  pc = "findMin" =>
    \A v \in Node :
      /\ \A e \in InArcs(g, v) : ~Less(FindArcKey(e), arcKey[v])
      /\ \/ arcKey[v] = Infinity
         \/ /\ nodeKey[v] \in InArcs(g, v)
            /\ Same(FindArcKey(nodeKey[v]), arcKey[v])
      /\ pq[v] = arcKey[v]

\* The zero tree run() starts from is one of shortest paths for a low ratio.
StartSuits == \A e \in g : e.delay > 0 \/ (e.delay = 0 /\ e.weight >= 0)

\* From the first pivot on (r is then no longer the constructor's 0) the tree
\* is one of shortest paths for r if that was so at the start: no arc would
\* improve on it.  This is what makes the first cycle found the minimum one.
TreeIsShortest ==
  /\ StartSuits
  /\ pc = "returned" \/ (pc = "findMin" /\ Tp # NoTree)
  /\ r # Infinity
  => \A e \in g : r[2] * DeltaD(e) - r[1] * DeltaT(e) >= 0

\* What getRatio() reports when run() has returned is at most the ratio of any
\* cycle if the start was suitable, and infinity only when no cycle has a
\* positive delay.
ResultIsMinimum ==
  pc = "returned" =>
    IF r = Infinity THEN ~HasPositiveCycle(Node, g)
                    ELSE StartSuits => AtMostEveryCycle(Node, g, r)

\* A finite result is the ratio of a real cycle: the tree path from the
\* pivot's target to its source, closed by the pivot.
ResultIsACycle ==
  pc = "returned" /\ r # Infinity =>
    /\ pivot \in g /\ InSubTree(Tp, pivot.to, pivot.from)
    /\ Same(FindArcKey(pivot), r)

\* A round moves every node of a subtree to a strictly longer delay and no
\* node back: this is why the main loop cannot go on for ever.
TransitNeverFalls ==
  [][\A v \in Node : /\ transit'[v] >= transit[v]
                     /\ Tp'[v] # Tp[v] => transit'[v] > transit[v]]_vars

\* run() returns.
Returns == <>(pc = "returned")
=============================================================================
