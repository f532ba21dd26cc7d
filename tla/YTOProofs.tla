----------------------------- MODULE YTOProofs -----------------------------
(***************************************************************************)
(* What holds of YTO on every graph, whatever the order of equal keys:     *)
(* the tree stays a forest that explains its labels, and every round moves *)
(* forward.  The argument rests on the keys: a finite cached key belongs   *)
(* to an arc that still gains delay, so a pivot's shift is positive.       *)
(***************************************************************************)
EXTENDS YTO, CommonProofs

USE DEF Tree

\* _nodeKey[x], once set, is an in-arc of x, and the queue has the cached keys.
KeysEnter ==
  /\ pq = arcKey
  /\ \A x \in Node : nodeKey[x] # NoArc => nodeKey[x] \in InArcs(g, x)

\* A finite cached key is that of an arc with a positive divisor; after the
\* shift this is in doubt for the nodes whose keys are about to be rescanned.
KeysAdvance ==
  \A x \in Node :
    \/ arcKey[x] = Infinity
    \/ nodeKey[x] # NoArc /\ DeltaT(nodeKey[x]) > 0
    \/ pc = "entering" /\ x \in Subtree(Tp, pivot.to)

\* A pivot that is about to be made gains delay and closes no cycle.
PivotAdvances ==
  pc = "shift" => /\ DeltaT(pivot) > 0
                  /\ pivot.from \notin Subtree(Tp, pivot.to)

IInv ==
  /\ TypeOK
  /\ g \in Graphs
  /\ TreeIsForest
  /\ TreeIsTight
  /\ KeysEnter
  /\ KeysAdvance
  /\ PivotAdvances

-----------------------------------------------------------------------------
\* An arc of the graph has its fields, and its key is a ratio.
LEMMA ArcTyped ==
  ASSUME TypeOK, NEW e \in g
  PROVE  /\ e.from \in Node /\ e.to \in Node /\ e \in Arc
         /\ DeltaT(e) \in Int /\ DeltaD(e) \in Int
         /\ FindArcKey(e) \in Ratio
BY DEF TypeOK, Arc, DeltaT, DeltaD, FindArcKey, Ratio

\* A key below any bound a loop starts from is finite: its divisor is positive.
LEMMA ImprovingIsPositive ==
  ASSUME TypeOK, NEW e \in g, NEW b \in Ratio, Less(FindArcKey(e), b)
  PROVE  DeltaT(e) > 0
BY ArcTyped DEF Less, FindArcKey, Ratio, Infinity

\* What a loop over in-arcs does to a node's cached key: nothing but reset it
\* to the bound, or replace it by that of an in-arc, below the bound.
LEMMA RescanEffect ==
  ASSUME TypeOK, g \in Graphs,
         NEW X \in SUBSET Node, NEW F \in SUBSET Node,
         NEW b \in [Node -> Ratio], Rescan(X, F, b)
  PROVE  /\ nodeKey' \in [Node -> g \cup {NoArc}]
         /\ arcKey' \in [Node -> Ratio]
         /\ \A x \in Node :
              \/ /\ nodeKey'[x] = nodeKey[x]
                 /\ arcKey'[x] = IF x \in X THEN b[x] ELSE arcKey[x]
              \/ /\ x \in X
                 /\ nodeKey'[x] \in InArcs(g, x)
                 /\ arcKey'[x] = FindArcKey(nodeKey'[x])
                 /\ Less(arcKey'[x], b[x])
                 /\ DeltaT(nodeKey'[x]) > 0
<1> DEFINE best == [x \in X |-> Improving({e \in InArcs(g, x) : e.from \in F}, b[x])]
           kept(x) == IF x \in X THEN best[x] ELSE {}
           node(x) == IF kept(x) = {} THEN nodeKey[x] ELSE FirstOf(kept(x))
           key(x) == IF kept(x) # {} THEN FindArcKey(FirstOf(kept(x)))
                     ELSE IF x \in X THEN b[x] ELSE arcKey[x]
<1>1. nodeKey' = [x \in Node |-> node(x)] /\ arcKey' = [x \in Node |-> key(x)]
  BY DEF Rescan
<1>2. \A x \in Node :
        kept(x) # {} =>
          /\ x \in X
          /\ FirstOf(kept(x)) \in InArcs(g, x)
          /\ Less(FindArcKey(FirstOf(kept(x))), b[x])
  <2> SUFFICES ASSUME NEW x \in Node, kept(x) # {}
               PROVE  /\ x \in X
                      /\ FirstOf(kept(x)) \in InArcs(g, x)
                      /\ Less(FindArcKey(FirstOf(kept(x))), b[x])
    OBVIOUS
  <2>1. x \in X OBVIOUS
  <2>2. kept(x) = Improving({e \in InArcs(g, x) : e.from \in F}, b[x]) BY <2>1
  <2>3. \A e \in kept(x) : e \in InArcs(g, x) /\ Less(FindArcKey(e), b[x])
    BY <2>2 DEF Improving
  <2>4. kept(x) \in SUBSET InArcs(g, x) BY <2>3
  <2>5. FirstOf(kept(x)) \in kept(x) BY <2>4, FirstOfAssumption
  <2> QED BY <2>1, <2>3, <2>5
<1> HIDE DEF kept
<1>3. ASSUME NEW x \in Node
      PROVE  /\ nodeKey'[x] \in g \cup {NoArc}
             /\ arcKey'[x] \in Ratio
             /\ \/ /\ nodeKey'[x] = nodeKey[x]
                   /\ arcKey'[x] = IF x \in X THEN b[x] ELSE arcKey[x]
                \/ /\ x \in X
                   /\ nodeKey'[x] \in InArcs(g, x)
                   /\ arcKey'[x] = FindArcKey(nodeKey'[x])
                   /\ Less(arcKey'[x], b[x])
                   /\ DeltaT(nodeKey'[x]) > 0
  <2>1. nodeKey'[x] = node(x) /\ arcKey'[x] = key(x) BY <1>1
  <2>2. CASE kept(x) = {} BY <2>1, <2>2 DEF TypeOK
  <2>3. CASE kept(x) # {}
    <3>1. FirstOf(kept(x)) \in InArcs(g, x) BY <1>2, <2>3
    <3>2. FirstOf(kept(x)) \in g BY <3>1 DEF InArcs
    <3>3. Less(FindArcKey(FirstOf(kept(x))), b[x]) BY <1>2, <2>3
    <3>4. DeltaT(FirstOf(kept(x))) > 0 BY <3>2, <3>3, ImprovingIsPositive
    <3>5. FindArcKey(FirstOf(kept(x))) \in Ratio BY <3>2, ArcTyped
    <3> QED BY <2>1, <2>3, <1>2, <3>1, <3>2, <3>3, <3>4, <3>5
  <2> QED BY <2>2, <2>3
<1>4. nodeKey' \in [Node -> g \cup {NoArc}] /\ arcKey' \in [Node -> Ratio]
  BY <1>1, <1>3
<1> QED BY <1>3, <1>4

-----------------------------------------------------------------------------
\* The constructor establishes the invariant.
LEMMA InitIInv == Init => IInv
<1> SUFFICES ASSUME Init PROVE IInv
  OBVIOUS
<1>1. TypeOK
  BY GraphsAssumption
  DEF Init, TypeOK, NoTree, Tree, Ratio, Infinity, Phases
<1>2. TreeIsForest
  BY NodeAssumption DEF Init, TreeIsForest, Acyclic, NoTree
<1>3. TreeIsTight BY DEF Init, TreeIsTight, NoTree
<1>4. KeysEnter /\ KeysAdvance /\ PivotAdvances
  BY DEF Init, KeysEnter, KeysAdvance, PivotAdvances
<1> QED BY <1>1, <1>2, <1>3, <1>4 DEF Init, IInv

\* A step that leaves the tree and its labels alone keeps what is said of them.
LEMMA TreeUnchanged ==
  ASSUME IInv, UNCHANGED <<g, Tp, dist, transit>>
  PROVE  /\ g' \in Graphs /\ TreeIsForest' /\ TreeIsTight'
         /\ \A e : DeltaT(e)' = DeltaT(e)
         /\ \A e : FindArcKey(e)' = FindArcKey(e)
<1>1. \A e : DeltaT(e)' = DeltaT(e) /\ DeltaD(e)' = DeltaD(e)
  BY DEF DeltaT, DeltaD
<1>2. TreeIsForest' BY DEF IInv, TreeIsForest, Acyclic
<1>3. TreeIsTight' BY <1>1 DEF IInv, TreeIsTight
<1> QED BY <1>1, <1>2, <1>3 DEF IInv, FindArcKey

\* The first scan and the queue.
LEMMA InitializeStep == IInv /\ Initialize => IInv'
<1> SUFFICES ASSUME IInv, Initialize PROVE IInv'
  OBVIOUS
<1> USE DEF IInv
<1>1. /\ g' \in Graphs /\ TreeIsForest' /\ TreeIsTight'
      /\ \A e : DeltaT(e)' = DeltaT(e)
  BY TreeUnchanged DEF Initialize
<1>2. /\ nodeKey' \in [Node -> g \cup {NoArc}]
      /\ arcKey' \in [Node -> Ratio]
      /\ \A x \in Node :
           \/ nodeKey'[x] = nodeKey[x] /\ arcKey'[x] = arcKey[x]
           \/ nodeKey'[x] \in InArcs(g, x) /\ DeltaT(nodeKey'[x]) > 0
  <2>1. arcKey \in [Node -> Ratio] BY DEF TypeOK
  <2>2. Rescan(Node, Node, arcKey) BY DEF Initialize
  <2> QED BY <2>1, <2>2, RescanEffect
<1>3. TypeOK' BY <1>2 DEF Initialize, TypeOK, Phases
<1>4. KeysEnter' BY <1>2 DEF Initialize, KeysEnter, InArcs
<1>5. KeysAdvance'
  BY <1>1, <1>2, GraphsAssumption DEF Initialize, KeysAdvance, InArcs
<1>6. PivotAdvances' BY DEF Initialize, PivotAdvances
<1> QED BY <1>1, <1>3, <1>4, <1>5, <1>6

\* Choosing the pivot: its key is finite, so it gains delay, and a source in
\* the subtree makes run() return.
LEMMA FindMinStep == IInv /\ FindMin => IInv'
<1> SUFFICES ASSUME IInv, FindMin PROVE IInv'
  OBVIOUS
<1> USE DEF IInv
<1>1. /\ g' \in Graphs /\ TreeIsForest' /\ TreeIsTight'
      /\ \A e : DeltaT(e)' = DeltaT(e)
  BY TreeUnchanged DEF FindMin, data
<1>2. KeysEnter' BY DEF FindMin, KeysEnter, keys
<1>3. KeysAdvance' BY <1>1 DEF FindMin, KeysAdvance, keys
<1>4. PICK v \in Node :
        /\ r' = pq[v]
        /\ IF pq[v] = Infinity
           THEN pc' = "returned" /\ UNCHANGED pivot
           ELSE /\ pivot' = nodeKey[v]
                /\ pc' = IF InSubTree(Tp, v, nodeKey[v].from)
                         THEN "returned" ELSE "shift"
  BY DEF FindMin
<1>5. CASE pq[v] = Infinity
  <2>1. TypeOK' BY <1>4, <1>5 DEF FindMin, TypeOK, data, keys, Phases
  <2>2. PivotAdvances' BY <1>4, <1>5 DEF PivotAdvances
  <2> QED BY <1>1, <1>2, <1>3, <2>1, <2>2
<1>6. CASE pq[v] # Infinity
  <2>1. nodeKey[v] # NoArc /\ DeltaT(nodeKey[v]) > 0
    BY <1>6 DEF FindMin, KeysAdvance, KeysEnter
  <2>2. nodeKey[v] \in g /\ nodeKey[v].to = v
    BY <2>1 DEF KeysEnter, InArcs
  <2>3. TypeOK' BY <1>4, <1>6, <2>2 DEF FindMin, TypeOK, data, keys, Phases
  <2>4. PivotAdvances'
    BY <1>1, <1>4, <1>6, <2>1, <2>2
    DEF FindMin, data, PivotAdvances, InSubTree
  <2> QED BY <1>1, <1>2, <1>3, <2>3, <2>4
<1> QED BY <1>5, <1>6

\* The shift moves exactly the subtree, by the slack of the pivot.
LEMMA ShiftEffect ==
  ASSUME IInv, Shift
  PROVE  LET v == pivot.to
             S == Subtree(Tp, v)
         IN  /\ pivot \in g /\ v \in S /\ S \subseteq Node /\ pivot.from \in Node \ S
             /\ DeltaT(pivot) \in Nat \ {0} /\ DeltaD(pivot) \in Int
             /\ Tp' = Relink(Tp, pivot.from, v)
             /\ dist' = [x \in Node |->
                           IF x \in S THEN dist[x] + DeltaD(pivot) ELSE dist[x]]
             /\ transit' = [x \in Node |->
                           IF x \in S THEN transit[x] + DeltaT(pivot) ELSE transit[x]]
<1>1. pivot \in g /\ pc = "shift" BY DEF IInv, TypeOK, Shift
<1>2. pivot.from \in Node /\ pivot.to \in Node /\ DeltaT(pivot) \in Int
      /\ DeltaD(pivot) \in Int
  BY <1>1, ArcTyped DEF IInv
<1>3. DeltaT(pivot) > 0 /\ pivot.from \notin Subtree(Tp, pivot.to)
  BY <1>1 DEF IInv, PivotAdvances
<1>4. Tp \in Tree BY DEF IInv, TypeOK
<1>5. pivot.to \in Subtree(Tp, pivot.to) /\ Subtree(Tp, pivot.to) \subseteq Node
  BY <1>2, <1>4, SubtreeNodes
<1> QED BY <1>1, <1>2, <1>3, <1>5 DEF Shift

\* Both ends of a tree edge inside or outside the subtree move together, and
\* the new edge is the pivot, whose slack is gone after the shift.
LEMMA ShiftKeepsTight == IInv /\ Shift => TreeIsTight'
<1> SUFFICES ASSUME IInv, Shift PROVE TreeIsTight'
  OBVIOUS
<1> DEFINE v == pivot.to
           S == Subtree(Tp, v)
<1>1. /\ pivot \in g /\ v \in S /\ S \subseteq Node /\ pivot.from \in Node \ S
      /\ DeltaT(pivot) \in Nat \ {0} /\ DeltaD(pivot) \in Int
      /\ Tp' = Relink(Tp, pivot.from, v)
      /\ dist' = [x \in Node |->
                    IF x \in S THEN dist[x] + DeltaD(pivot) ELSE dist[x]]
      /\ transit' = [x \in Node |->
                    IF x \in S THEN transit[x] + DeltaT(pivot) ELSE transit[x]]
  BY ShiftEffect
<1>2. Tp \in Tree /\ v \in Node /\ TypeOK BY <1>1 DEF IInv, TypeOK
<1>3. \A x \in Node : Tp'[x] = IF x = v THEN pivot.from ELSE Tp[x]
  BY <1>1, <1>2 DEF Relink, Tree
<1>4. \A x \in Node : x # v => (Tp[x] \in S <=> x \in S)
  BY <1>2, SubtreeClosed, SubtreeParent DEF Closed
<1> HIDE DEF S, v
<1>5. g' = g BY DEF Shift
<1>6. ASSUME NEW x \in Node, Tp'[x] # NoNode
      PROVE  \E e \in g : /\ e.from = Tp'[x] /\ e.to = x
                          /\ DeltaD(e)' = 0 /\ DeltaT(e)' = 0
  <2>1. CASE x = v
    <3>1. pivot.from = Tp'[x] /\ pivot.to = x BY <1>3, <2>1 DEF v
    <3>2. /\ dist[pivot.from] \in Int /\ dist[v] \in Int
          /\ transit[pivot.from] \in Int /\ transit[v] \in Int
          /\ pivot.weight \in Int /\ pivot.delay \in Int
      BY <1>1, <1>2 DEF TypeOK, Arc
    <3>3. /\ DeltaD(pivot) = dist[pivot.from] + pivot.weight - dist[v]
          /\ DeltaT(pivot) = transit[pivot.from] + pivot.delay - transit[v]
      BY DEF DeltaD, DeltaT, v
    <3>4. /\ dist'[pivot.from] = dist[pivot.from]
          /\ dist'[v] = dist[v] + DeltaD(pivot)
          /\ transit'[pivot.from] = transit[pivot.from]
          /\ transit'[v] = transit[v] + DeltaT(pivot)
      BY <1>1, <1>2
    <3>5. /\ DeltaD(pivot)' = dist'[pivot.from] + pivot.weight - dist'[v]
          /\ DeltaT(pivot)' = transit'[pivot.from] + pivot.delay - transit'[v]
      BY DEF DeltaD, DeltaT, v, Shift
    <3>6. DeltaD(pivot)' = 0 /\ DeltaT(pivot)' = 0
      BY <3>2, <3>3, <3>4, <3>5
    <3> QED BY <1>1, <3>1, <3>6 DEF Shift
  <2>2. CASE x # v
    <3>1. Tp'[x] = Tp[x] BY <1>3, <2>2
    <3>2. PICK e \in g : /\ e.from = Tp[x] /\ e.to = x
                         /\ DeltaD(e) = 0 /\ DeltaT(e) = 0
      BY <1>6, <3>1 DEF IInv, TreeIsTight
    <3>3. e.from \in S <=> x \in S BY <1>4, <2>2, <3>2
    <3>4. /\ e.from \in Node /\ e.weight \in Int /\ e.delay \in Int
          /\ dist[e.from] \in Int /\ dist[x] \in Int
          /\ transit[e.from] \in Int /\ transit[x] \in Int
      BY <1>2, <3>2 DEF TypeOK, Arc
    <3>5. /\ dist'[e.from] - dist'[x] = dist[e.from] - dist[x]
          /\ transit'[e.from] - transit'[x] = transit[e.from] - transit[x]
          /\ dist'[e.from] \in Int /\ dist'[x] \in Int
          /\ transit'[e.from] \in Int /\ transit'[x] \in Int
      BY <1>1, <3>3, <3>4
    <3>6. DeltaD(e)' = DeltaD(e) /\ DeltaT(e)' = DeltaT(e)
      BY <3>2, <3>4, <3>5 DEF DeltaD, DeltaT
    <3> QED BY <3>1, <3>2, <3>6
  <2> QED BY <2>1, <2>2
<1> QED BY <1>5, <1>6 DEF TreeIsTight

\* The shift: only nodes of the subtree can lose the gain of their cached arc,
\* and those are the nodes about to be rescanned.
LEMMA ShiftStep == IInv /\ Shift => IInv'
<1> SUFFICES ASSUME IInv, Shift PROVE IInv'
  OBVIOUS
<1> DEFINE v == pivot.to
           S == Subtree(Tp, v)
<1>1. /\ pivot \in g /\ v \in S /\ S \subseteq Node /\ pivot.from \in Node \ S
      /\ DeltaT(pivot) \in Nat \ {0} /\ DeltaD(pivot) \in Int
      /\ Tp' = Relink(Tp, pivot.from, v)
      /\ dist' = [x \in Node |->
                    IF x \in S THEN dist[x] + DeltaD(pivot) ELSE dist[x]]
      /\ transit' = [x \in Node |->
                    IF x \in S THEN transit[x] + DeltaT(pivot) ELSE transit[x]]
  BY ShiftEffect
<1>2. Tp \in Tree /\ v \in Node /\ TypeOK /\ Acyclic(Tp)
  BY <1>1 DEF IInv, TypeOK, TreeIsForest
<1>3. Tp' \in Tree /\ Acyclic(Tp')
  BY <1>1, <1>2, RelinkKeepsForest
<1>4. S \subseteq Subtree(Tp', v) BY <1>1, <1>2, RelinkKeepsSubtree
<1>5. /\ g' = g /\ g' \in Graphs /\ r' = r /\ pivot' = pivot /\ pc' = "entering"
      /\ nodeKey' = nodeKey /\ arcKey' = arcKey /\ pq' = pq
  BY DEF Shift, keys, IInv
<1>6. \A x \in Node : /\ transit[x] \in Int /\ transit'[x] \in Int
                      /\ transit'[x] >= transit[x]
                      /\ x \notin S => transit'[x] = transit[x]
  <2>1. \A x \in Node : transit[x] \in Int BY <1>2 DEF TypeOK
  <2> HIDE DEF S, v
  <2> QED BY <1>1, <2>1
<1>7. TypeOK'
  <2>1. dist' \in [Node -> Int] /\ transit' \in [Node -> Int]
    BY <1>1, <1>2 DEF TypeOK
  <2> QED BY <1>2, <1>3, <1>5, <2>1 DEF TypeOK, Phases, Shift
<1>8. KeysEnter' BY <1>5 DEF IInv, KeysEnter, InArcs
<1>9. KeysAdvance'
  <2> SUFFICES ASSUME NEW x \in Node, arcKey[x] # Infinity,
                      x \notin Subtree(Tp', v)
               PROVE  nodeKey[x] # NoArc /\ DeltaT(nodeKey[x])' > 0
    BY <1>5 DEF KeysAdvance
  <2>1. nodeKey[x] # NoArc /\ DeltaT(nodeKey[x]) > 0
    BY DEF IInv, KeysAdvance, Shift
  <2>2. nodeKey[x] \in g /\ nodeKey[x].to = x
    BY <2>1 DEF IInv, KeysEnter, InArcs
  <2>3. nodeKey[x].from \in Node /\ nodeKey[x].delay \in Int
    BY <1>2, <2>2 DEF TypeOK, Arc
  <2>4. x \notin S BY <1>4
  <2> HIDE DEF S, v
  <2>5. transit'[x] = transit[x] BY <1>6, <2>4
  <2> QED BY <1>5, <1>6, <2>1, <2>2, <2>3, <2>5 DEF DeltaT
<1>10. PivotAdvances' BY <1>5 DEF PivotAdvances
<1>11. TreeIsTight' BY ShiftKeepsTight
<1>12. TreeIsForest' BY <1>3 DEF TreeIsForest
<1> QED BY <1>5, <1>7, <1>8, <1>9, <1>10, <1>11, <1>12 DEF IInv

\* Rescanning the subtree resets its keys first, so nothing stale survives.
LEMMA EnteringStep == IInv /\ Entering => IInv'
<1> SUFFICES ASSUME IInv, Entering PROVE IInv'
  OBVIOUS
<1> DEFINE S == Subtree(Tp, pivot.to)
           b == [x \in Node |-> Infinity]
<1>1. /\ g' \in Graphs /\ TreeIsForest' /\ TreeIsTight'
      /\ \A e : DeltaT(e)' = DeltaT(e)
  BY TreeUnchanged DEF Entering, data
<1>2. /\ TypeOK /\ g \in Graphs /\ pc = "entering" /\ pc' = "leaving"
      /\ g' = g /\ r' = r /\ Tp' = Tp /\ dist' = dist /\ transit' = transit
      /\ pivot' = pivot /\ pivot \in g
      /\ Rescan(S, Node, b)
      /\ pq' = [x \in Node |-> IF x \in S THEN arcKey'[x] ELSE pq[x]]
  BY DEF IInv, Entering, data, TypeOK
<1>3. S \subseteq Node
  BY <1>2, SubtreeNodes DEF TypeOK, Arc
<1>4. b \in [Node -> Ratio] BY DEF Ratio
<1> HIDE DEF S
<1>5. /\ nodeKey' \in [Node -> g \cup {NoArc}]
      /\ arcKey' \in [Node -> Ratio]
      /\ \A x \in Node :
           \/ /\ nodeKey'[x] = nodeKey[x]
              /\ arcKey'[x] = IF x \in S THEN b[x] ELSE arcKey[x]
           \/ /\ x \in S
              /\ nodeKey'[x] \in InArcs(g, x)
              /\ arcKey'[x] = FindArcKey(nodeKey'[x])
              /\ Less(arcKey'[x], b[x])
              /\ DeltaT(nodeKey'[x]) > 0
  BY <1>2, <1>3, <1>4, RescanEffect
<1>6. pq' = arcKey'
  <2>1. \A x \in Node : pq'[x] = arcKey'[x]
    BY <1>2, <1>5 DEF IInv, KeysEnter
  <2>2. pq' \in [Node -> Ratio]
    BY <1>2, <1>5 DEF TypeOK
  <2> QED BY <1>5, <2>1, <2>2
<1>7. TypeOK' BY <1>2, <1>5, <1>6 DEF TypeOK, Phases
<1>8. KeysEnter'
  <2>1. \A x \in Node : nodeKey'[x] # NoArc => nodeKey'[x] \in InArcs(g, x)
    BY <1>5 DEF IInv, KeysEnter
  <2> QED BY <1>2, <1>6, <2>1 DEF KeysEnter, InArcs
<1>9. KeysAdvance'
  <2> SUFFICES ASSUME NEW x \in Node, arcKey'[x] # Infinity
               PROVE  nodeKey'[x] # NoArc /\ DeltaT(nodeKey'[x]) > 0
    BY <1>1 DEF KeysAdvance
  <2>1. CASE nodeKey'[x] \in InArcs(g, x) /\ DeltaT(nodeKey'[x]) > 0
    BY <1>2, <2>1, GraphsAssumption DEF InArcs
  <2>2. CASE /\ nodeKey'[x] = nodeKey[x]
             /\ arcKey'[x] = IF x \in S THEN b[x] ELSE arcKey[x]
    BY <1>2, <2>2 DEF IInv, KeysAdvance, S
  <2> QED BY <1>5, <2>1, <2>2
<1>10. PivotAdvances' BY <1>2 DEF PivotAdvances
<1> QED BY <1>1, <1>7, <1>8, <1>9, <1>10 DEF IInv

\* Following the arcs that leave the subtree only lowers keys, and only to
\* that of an arc which gains delay.
LEMMA LeavingStep == IInv /\ Leaving => IInv'
<1> SUFFICES ASSUME IInv, Leaving PROVE IInv'
  OBVIOUS
<1> DEFINE S == Subtree(Tp, pivot.to)
<1>1. /\ g' \in Graphs /\ TreeIsForest' /\ TreeIsTight'
      /\ \A e : DeltaT(e)' = DeltaT(e)
  BY TreeUnchanged DEF Leaving, data
<1>2. /\ TypeOK /\ g \in Graphs /\ pc = "leaving" /\ pc' = "findMin"
      /\ g' = g /\ r' = r /\ Tp' = Tp /\ dist' = dist /\ transit' = transit
      /\ pivot' = pivot /\ pivot \in g
      /\ Rescan(Node, S, arcKey)
      /\ pq' = [x \in Node |-> IF Less(arcKey'[x], arcKey[x])
                               THEN arcKey'[x] ELSE pq[x]]
  BY DEF IInv, Leaving, data, TypeOK
<1>3. S \subseteq Node
  BY <1>2, SubtreeNodes DEF TypeOK, Arc
<1>4. arcKey \in [Node -> Ratio] BY <1>2 DEF TypeOK
<1> HIDE DEF S
<1>5. /\ nodeKey' \in [Node -> g \cup {NoArc}]
      /\ arcKey' \in [Node -> Ratio]
      /\ \A x \in Node :
           \/ /\ nodeKey'[x] = nodeKey[x]
              /\ arcKey'[x] = arcKey[x]
           \/ /\ nodeKey'[x] \in InArcs(g, x)
              /\ Less(arcKey'[x], arcKey[x])
              /\ DeltaT(nodeKey'[x]) > 0
  BY <1>2, <1>3, <1>4, RescanEffect
<1>6. pq' = arcKey'
  <2>1. \A x \in Node : pq'[x] = arcKey'[x]
    BY <1>2, <1>5 DEF IInv, KeysEnter
  <2>2. pq' \in [Node -> Ratio]
    BY <1>2, <1>5 DEF TypeOK
  <2> QED BY <1>5, <2>1, <2>2
<1>7. TypeOK' BY <1>2, <1>5, <1>6 DEF TypeOK, Phases
<1>8. KeysEnter'
  <2>1. \A x \in Node : nodeKey'[x] # NoArc => nodeKey'[x] \in InArcs(g, x)
    BY <1>5 DEF IInv, KeysEnter
  <2> QED BY <1>2, <1>6, <2>1 DEF KeysEnter, InArcs
<1>9. KeysAdvance'
  <2> SUFFICES ASSUME NEW x \in Node, arcKey'[x] # Infinity
               PROVE  nodeKey'[x] # NoArc /\ DeltaT(nodeKey'[x]) > 0
    BY <1>1 DEF KeysAdvance
  <2>1. CASE nodeKey'[x] \in InArcs(g, x) /\ DeltaT(nodeKey'[x]) > 0
    BY <1>2, <2>1, GraphsAssumption DEF InArcs
  <2>2. CASE nodeKey'[x] = nodeKey[x] /\ arcKey'[x] = arcKey[x]
    BY <1>2, <2>2 DEF IInv, KeysAdvance
  <2> QED BY <1>5, <2>1, <2>2
<1>10. PivotAdvances' BY <1>2 DEF PivotAdvances
<1> QED BY <1>1, <1>7, <1>8, <1>9, <1>10 DEF IInv

\* A step in which nothing changes.
LEMMA StutterStep == IInv /\ UNCHANGED vars => IInv'
<1> SUFFICES ASSUME IInv, UNCHANGED vars PROVE IInv'
  OBVIOUS
<1>1. /\ g' \in Graphs /\ TreeIsForest' /\ TreeIsTight'
      /\ \A e : DeltaT(e)' = DeltaT(e)
  BY TreeUnchanged DEF vars
<1>2. TypeOK' BY DEF IInv, vars, TypeOK
<1>3. KeysEnter' BY DEF IInv, vars, KeysEnter
<1>4. KeysAdvance' BY <1>1 DEF IInv, vars, KeysAdvance
<1>5. PivotAdvances' BY <1>1 DEF IInv, vars, PivotAdvances
<1> QED BY <1>1, <1>2, <1>3, <1>4, <1>5 DEF IInv

-----------------------------------------------------------------------------
\* The invariant holds of every state of every run.
THEOREM Inductive == Spec => []IInv
<1>1. Init => IInv BY InitIInv
<1>2. IInv /\ [Next]_vars => IInv'
  BY InitializeStep, FindMinStep, ShiftStep, EnteringStep, LeavingStep,
     StutterStep
  DEF Next
<1> QED BY <1>1, <1>2, PTL DEF Spec

\* The solver's variables keep their types; in particular a round never starts
\* from the default-constructed edge (YTO.cpp:77).
THEOREM TypeCorrect == Spec => []TypeOK
<1>1. IInv => TypeOK BY DEF IInv
<1> QED BY <1>1, Inductive, PTL

\* _Tp is a forest for every graph and every order of equal keys: the subtree
\* loops and the climb of inSubTree end.
THEOREM Forest == Spec => []TreeIsForest
<1>1. IInv => TreeIsForest BY DEF IInv
<1> QED BY <1>1, Inductive, PTL

\* _dist and _transit are always the weight and the delay along the tree path.
THEOREM Tight == Spec => []TreeIsTight
<1>1. IInv => TreeIsTight BY DEF IInv
<1> QED BY <1>1, Inductive, PTL

\* Every round strictly lengthens, and no step shortens, the delay of a node.
THEOREM Progress == Spec => TransitNeverFalls
<1> DEFINE Grows == \A v \in Node : /\ transit'[v] >= transit[v]
                                    /\ Tp'[v] # Tp[v] => transit'[v] > transit[v]
<1>1. IInv /\ [Next]_vars => [Grows]_vars
  <2> SUFFICES ASSUME IInv, [Next]_vars PROVE [Grows]_vars
    OBVIOUS
  <2>1. \A x \in Node : transit[x] \in Int BY DEF IInv, TypeOK
  <2>2. CASE Shift
    <3>1. LET S == Subtree(Tp, pivot.to)
          IN  /\ pivot.to \in S /\ S \subseteq Node
              /\ DeltaT(pivot) \in Nat \ {0}
              /\ Tp' = Relink(Tp, pivot.from, pivot.to)
              /\ transit' = [x \in Node |->
                    IF x \in S THEN transit[x] + DeltaT(pivot) ELSE transit[x]]
      BY <2>2, ShiftEffect
    <3>2. \A x \in Node : Tp'[x] # Tp[x] => x = pivot.to
      BY <3>1 DEF Relink, IInv, TypeOK, Tree
    <3> QED BY <2>1, <3>1, <3>2
  <2>3. CASE Tp' = Tp /\ transit' = transit
    BY <2>1, <2>3
  <2> QED
    BY <2>2, <2>3 DEF Next, Initialize, FindMin, Entering, Leaving, data, vars
<1> QED BY <1>1, Inductive, PTL DEF Spec, TransitNeverFalls

-----------------------------------------------------------------------------
(***************************************************************************)
(* The keys are fresh, the tree is one of shortest paths, and so the cycle *)
(* that ends the search is a minimum one.                                  *)
(***************************************************************************)
\* The cached key of x is what a fresh scan would give, but for the arcs from
\* F: they may be below it, and the arc that attained it may now be one.
FreshBut(x, F) ==
  /\ \A e \in InArcs(g, x) : e.from \notin F => ~Less(FindArcKey(e), arcKey[x])
  /\ \/ arcKey[x] = Infinity
     \/ /\ nodeKey[x] \in InArcs(g, x)
        /\ ~Less(arcKey[x], FindArcKey(nodeKey[x]))
        /\ nodeKey[x].from \notin F => Same(FindArcKey(nodeKey[x]), arcKey[x])

\* After the shift the keys of the subtree are in doubt, and those of arcs
\* from it until run() has followed them.
KeysNearlyFresh ==
  /\ pc \in {"findMin", "shift", "returned"} => \A x \in Node : FreshBut(x, {})
  /\ pc = "entering" =>
       \A x \in Node \ Subtree(Tp, pivot.to) : FreshBut(x, Subtree(Tp, pivot.to))
  /\ pc = "leaving" => \A x \in Node : FreshBut(x, Subtree(Tp, pivot.to))

\* r is the least key, and the pivot has it.
RatioIsKey ==
  /\ pc \in {"shift", "returned"} =>
       /\ Node # {}
       /\ \A x \in Node : ~Less(arcKey[x], r)
       /\ r # Infinity => pivot \in g /\ Same(FindArcKey(pivot), r)
  /\ pc = "returned" /\ r # Infinity => InSubTree(Tp, pivot.to, pivot.from)
  /\ \/ pc \in {"shift", "entering", "leaving"}
     \/ pc = "findMin" /\ Tp # NoTree
     => r # Infinity

\* Before the first pivot the labels are the constructor's.
FirstRound ==
  /\ pc = "initialize" => Tp = NoTree /\ \A x \in Node : arcKey[x] = Infinity
  /\ Tp = NoTree => \A x \in Node : dist[x] = 0 /\ transit[x] = 0

\* Once r has been set the tree is one of shortest paths for it.
Shortest ==
  /\ StartSuits
  /\ \/ pc \in {"shift", "entering", "leaving", "returned"}
     \/ pc = "findMin" /\ Tp # NoTree
  /\ r # Infinity
  => \A e \in g : r[2] * DeltaD(e) - r[1] * DeltaT(e) >= 0

Minimal == KeysNearlyFresh /\ RatioIsKey /\ FirstRound /\ Shortest

\* A scan leaves a node no arc of those scanned below its cached key.
LEMMA RescanFindsLeast ==
  ASSUME TypeOK, g \in Graphs,
         NEW X \in SUBSET Node, NEW F \in SUBSET Node,
         NEW b \in [Node -> Ratio], Rescan(X, F, b),
         NEW x \in X, NEW e \in InArcs(g, x), e.from \in F
  PROVE  ~Less(FindArcKey(e), arcKey'[x])
<1> DEFINE A == {f \in InArcs(g, x) : f.from \in F}
           kept == Improving(A, b[x])
<1>1. x \in Node /\ b[x] \in Ratio OBVIOUS
<1>2. A \subseteq g BY DEF InArcs
<1>3. \A f \in A : FindArcKey(f) \in Ratio BY <1>2, ArcTyped
<1>4. arcKey'[x] = IF kept # {} THEN FindArcKey(FirstOf(kept)) ELSE b[x]
  BY <1>1 DEF Rescan
<1>5. kept \in SUBSET InArcs(g, x) /\ kept \subseteq A BY <1>2 DEF Improving
<1>6. e \in A OBVIOUS
<1>7. CASE kept # {}
  <2>1. FirstOf(kept) \in kept BY <1>1, <1>5, <1>7, FirstOfAssumption
  <2> QED BY <1>4, <1>6, <1>7, <2>1 DEF Improving
<1>8. CASE kept = {}
  <2> SUFFICES ASSUME Less(FindArcKey(e), b[x]) PROVE FALSE
    BY <1>4, <1>8
  <2> DEFINE B == {f \in A : Less(FindArcKey(f), b[x])}
             K == [f \in B |-> FindArcKey(f)]
  <2>1. B # {} BY <1>6
  <2>2. IsFiniteSet(B)
    <3>1. IsFiniteSet(g) BY GraphsAssumption
    <3>2. B \subseteq g BY <1>2
    <3> QED BY <3>1, <3>2, FS_Subset
  <2>3. K \in [B -> Ratio] BY <1>3
  <2> HIDE DEF K
  <2>4. PICK m \in B : \A f \in B : ~Less(K[f], K[m]) BY <2>1, <2>2, <2>3, LeastRatio
  <2>5. \A f \in B : ~Less(FindArcKey(f), FindArcKey(m)) BY <2>4 DEF K
  <2>6. ASSUME NEW f \in A \ B PROVE ~Less(FindArcKey(f), FindArcKey(m))
    <3>1. ~Less(FindArcKey(f), b[x]) BY <2>6
    <3>2. Less(FindArcKey(m), b[x]) BY <2>4
    <3>3. FindArcKey(f) \in Ratio /\ FindArcKey(m) \in Ratio BY <1>3, <2>4, <2>6
    <3>4. ~Less(b[x], FindArcKey(m)) BY <1>1, <3>2, <3>3, LessOrder
    <3> QED BY <1>1, <3>1, <3>3, <3>4, NotLessTransitive
  <2>7. m \in kept BY <2>4, <2>5, <2>6 DEF Improving
  <2> QED BY <1>8, <2>7
<1> QED BY <1>7, <1>8

\* The constructor.
LEMMA InitMinimal == Init => Minimal
BY DEF Init, Minimal, KeysNearlyFresh, RatioIsKey, FirstRound, Shortest, NoTree

\* The first scan makes every key fresh.
LEMMA InitializeMinimal == IInv /\ Minimal /\ Initialize => Minimal'
<1> SUFFICES ASSUME IInv, Minimal, Initialize PROVE Minimal'
  OBVIOUS
<1>1. /\ TypeOK /\ g \in Graphs /\ arcKey \in [Node -> Ratio] /\ Rescan(Node, Node, arcKey)
      /\ pc = "initialize" /\ pc' = "findMin"
      /\ Tp = NoTree /\ \A x \in Node : arcKey[x] = Infinity
      /\ UNCHANGED <<g, r, Tp, dist, transit, pivot>>
  BY DEF IInv, TypeOK, Initialize, Minimal, FirstRound
<1>2. \A e : FindArcKey(e)' = FindArcKey(e) BY <1>1 DEF FindArcKey, DeltaT, DeltaD
<1>3. /\ arcKey' \in [Node -> Ratio]
      /\ \A x \in Node :
           \/ arcKey'[x] = arcKey[x]
           \/ /\ nodeKey'[x] \in InArcs(g, x)
              /\ arcKey'[x] = FindArcKey(nodeKey'[x])
  BY <1>1, RescanEffect
<1>4. ASSUME NEW x \in Node PROVE FreshBut(x, {})'
  <2>1. \A e \in InArcs(g, x) : ~Less(FindArcKey(e), arcKey'[x])
    <3>1. \A e \in InArcs(g, x) : e.from \in Node BY <1>1 DEF InArcs, TypeOK, Arc
    <3> QED BY <1>1, <3>1, RescanFindsLeast
  <2>2. arcKey'[x] \in Ratio BY <1>3
  <2>3. ~Less(arcKey'[x], arcKey'[x]) /\ Same(arcKey'[x], arcKey'[x])
    BY <2>2, LessOrder
  <2> QED BY <1>1, <1>2, <1>3, <2>1, <2>3 DEF FreshBut, InArcs
<1>5. KeysNearlyFresh' BY <1>1, <1>4 DEF KeysNearlyFresh
<1>6. RatioIsKey' BY <1>1 DEF RatioIsKey
<1>7. FirstRound' BY <1>1 DEF FirstRound, Minimal
<1>8. Shortest' BY <1>1 DEF Shortest
<1> QED BY <1>5, <1>6, <1>7, <1>8 DEF Minimal

\* Raising r to the least key keeps the tree one of shortest paths: an arc that
\* gains delay has a key, and one that gains none has its cost grow with r.
LEMMA RaisedRatio ==
  ASSUME NEW a \in Int, NEW b \in Nat, NEW c \in Int, NEW d \in Nat \ {0},
         NEW D \in Int, NEW T \in Int,
         \* c/d is at least a/b, and D/T at least a/b, with T <= 0
         a * d <= c * b, b # 0, b * D - a * T >= 0, T <= 0
  PROVE  d * D - c * T >= 0
<1> DEFINE t == -T
<1>1. t \in Nat OBVIOUS
<1>2. (a * d) * t <= (c * b) * t BY <1>1, TimesMonotone
<1>3. -(D * b) <= a * t
  <2>1. b * D = D * b /\ a * T = -(a * t) OBVIOUS
  <2>2. D * b \in Int /\ a * t \in Int OBVIOUS
  <2> QED BY <2>1, <2>2
<1>4. (-(D * b)) * d <= (a * t) * d
  <2>1. -(D * b) \in Int /\ a * t \in Int /\ d \in Nat OBVIOUS
  <2> HIDE DEF t
  <2> QED BY <1>3, <2>1, TimesMonotone
<1>5. (-(D * d)) * b <= (c * t) * b
  <2>1. (-(D * b)) * d = (-(D * d)) * b OBVIOUS
  <2>2. (a * t) * d = (a * d) * t /\ (c * b) * t = (c * t) * b OBVIOUS
  <2>3. (a * t) * d \in Int /\ (c * t) * b \in Int /\ (-(D * d)) * b \in Int OBVIOUS
  <2> HIDE DEF t
  <2> QED BY <1>2, <1>4, <2>1, <2>2, <2>3
<1>6. -(D * d) <= c * t
  <2>1. -(D * d) \in Int /\ c * t \in Int OBVIOUS
  <2> HIDE DEF t
  <2> QED BY <1>5, <2>1, TimesMonotone
<1>7. d * D = D * d /\ c * T = -(c * t) OBVIOUS
<1>8. D * d \in Int /\ c * t \in Int OBVIOUS
<1> HIDE DEF t
<1> QED BY <1>6, <1>7, <1>8

\* Choosing the pivot raises r to the least key.
LEMMA FindMinMinimal == IInv /\ Minimal /\ FindMin => Minimal'
<1> SUFFICES ASSUME IInv, Minimal, FindMin PROVE Minimal'
  OBVIOUS
<1>1. /\ TypeOK /\ arcKey \in [Node -> Ratio] /\ pq = arcKey /\ pc = "findMin"
      /\ UNCHANGED <<g, Tp, dist, transit, nodeKey, arcKey, pq>>
      /\ \A x \in Node : FreshBut(x, {})
      /\ r \in Ratio
  BY DEF IInv, TypeOK, KeysEnter, FindMin, data, keys, Minimal, KeysNearlyFresh
<1>2. PICK v \in Node :
        /\ \A w \in Node : ~Less(pq[w], pq[v])
        /\ r' = pq[v]
        /\ IF pq[v] = Infinity
           THEN pc' = "returned" /\ UNCHANGED pivot
           ELSE /\ pivot' = nodeKey[v]
                /\ pc' = IF InSubTree(Tp, v, nodeKey[v].from)
                         THEN "returned" ELSE "shift"
  BY DEF FindMin
<1>3. \A e : FindArcKey(e)' = FindArcKey(e) /\ DeltaT(e)' = DeltaT(e) /\ DeltaD(e)' = DeltaD(e)
  BY <1>1 DEF FindArcKey, DeltaT, DeltaD
<1>4. r' = arcKey[v] /\ r' \in Ratio /\ \A w \in Node : arcKey[w] \in Ratio /\ ~Less(arcKey[w], r')
  BY <1>1, <1>2
<1>5. pc' \in {"shift", "returned"} BY <1>2
<1>6. KeysNearlyFresh'
  <2>1. \A x \in Node : FreshBut(x, {})' BY <1>1, <1>3 DEF FreshBut, InArcs
  <2> QED BY <1>5, <2>1 DEF KeysNearlyFresh
<1>7. ASSUME r' # Infinity
      PROVE  /\ nodeKey[v] \in g /\ nodeKey[v].to = v
             /\ Same(FindArcKey(nodeKey[v]), r')
             /\ DeltaT(nodeKey[v]) > 0
             /\ pivot' = nodeKey[v]
  <2>1. nodeKey[v] \in InArcs(g, v) /\ Same(FindArcKey(nodeKey[v]), r')
    BY <1>1, <1>4, <1>7 DEF FreshBut
  <2>2. DeltaT(nodeKey[v]) > 0 BY <1>1, <1>4, <1>7 DEF IInv, KeysAdvance
  <2> QED BY <1>1, <1>2, <1>4, <1>7, <2>1, <2>2 DEF InArcs
<1>8. RatioIsKey'
  <2>1. r' # Infinity => pivot' \in g' /\ Same(FindArcKey(pivot), r)'
    BY <1>1, <1>3, <1>7
  <2>2. pc' = "returned" /\ r' # Infinity => InSubTree(Tp, pivot.to, pivot.from)'
    BY <1>1, <1>2, <1>4, <1>7
  <2>3. pc' = "shift" => r' # Infinity BY <1>2
  <2> QED BY <1>1, <1>4, <1>5, <2>1, <2>2, <2>3 DEF RatioIsKey
<1>9. FirstRound' BY <1>1, <1>5 DEF FirstRound, Minimal
<1>10. Shortest'
  <2> SUFFICES ASSUME StartSuits, r' # Infinity, NEW e \in g
               PROVE  r'[2] * DeltaD(e) - r'[1] * DeltaT(e) >= 0
    BY <1>1, <1>3 DEF Shortest, StartSuits
  <2>1. /\ e.from \in Node /\ e.to \in Node /\ e \in Arc
        /\ DeltaT(e) \in Int /\ DeltaD(e) \in Int /\ FindArcKey(e) \in Ratio
    BY <1>1, ArcTyped
  <2>2. r'[1] \in Int /\ r'[2] \in Nat \ {0} BY <1>4, RatioParts
  <2>3. CASE DeltaT(e) > 0
    <3>1. ~Less(FindArcKey(e), arcKey[e.to]) BY <1>1, <2>1 DEF FreshBut, InArcs
    <3>2. ~Less(FindArcKey(e), r') BY <1>4, <2>1, <3>1, NotLessTransitive
    <3>3. FindArcKey(e) = <<DeltaD(e), DeltaT(e)>> BY <2>3 DEF FindArcKey
    <3>4. ~(DeltaD(e) * r'[2] < r'[1] * DeltaT(e)) BY <3>2, <3>3 DEF Less
    <3>5. DeltaD(e) * r'[2] \in Int /\ r'[1] * DeltaT(e) \in Int BY <2>1, <2>2
    <3> QED BY <2>1, <2>2, <3>4, <3>5
  <2>4. CASE DeltaT(e) <= 0 /\ Tp = NoTree
    <3>1. /\ dist[e.from] = 0 /\ dist[e.to] = 0 /\ transit[e.from] = 0 /\ transit[e.to] = 0
      BY <2>1, <2>4 DEF Minimal, FirstRound
    <3>2. e.weight \in Int /\ e.delay \in Int BY <2>1 DEF Arc
    <3>3. DeltaD(e) = e.weight /\ DeltaT(e) = e.delay
      BY <3>1, <3>2 DEF DeltaD, DeltaT
    <3>4. e.delay = 0 /\ e.weight >= 0 BY <2>4, <3>2, <3>3 DEF StartSuits
    <3>5. r'[2] * e.weight >= 0 /\ r'[1] * e.delay = 0 BY <2>2, <3>2, <3>4
    <3>6. r'[2] * e.weight \in Int BY <2>2, <3>2
    <3> QED BY <3>3, <3>5, <3>6
  <2>5. CASE DeltaT(e) <= 0 /\ Tp # NoTree
    <3> DEFINE k == nodeKey[v]
    <3>1. r # Infinity /\ \A f \in g : r[2] * DeltaD(f) - r[1] * DeltaT(f) >= 0
      BY <1>1, <2>5 DEF Minimal, RatioIsKey, Shortest
    <3>2. r[1] \in Int /\ r[2] \in Nat /\ r[2] # 0 BY <1>1, <3>1, RatioParts
    <3>3. /\ k \in g /\ Same(FindArcKey(k), r') /\ DeltaT(k) > 0
          /\ FindArcKey(k) = <<DeltaD(k), DeltaT(k)>>
          /\ DeltaT(k) \in Int /\ DeltaD(k) \in Int /\ FindArcKey(k) \in Ratio
      BY <1>1, <1>7, ArcTyped DEF FindArcKey
    <3>4. r[2] * DeltaD(k) - r[1] * DeltaT(k) >= 0 BY <3>1, <3>3
    <3> HIDE DEF k
    <3>5. ~Less(FindArcKey(k), r)
      <4>1. r[2] * DeltaD(k) \in Int /\ r[1] * DeltaT(k) \in Int
            /\ r[2] * DeltaD(k) = DeltaD(k) * r[2]
        BY <3>2, <3>3
      <4>2. ~(DeltaD(k) * r[2] < r[1] * DeltaT(k)) BY <3>4, <4>1
      <4> QED BY <3>3, <4>2 DEF Less
    <3>6. ~Less(r', FindArcKey(k)) BY <1>4, <3>3, LessOrder
    <3>7. ~Less(r', r) BY <1>1, <1>4, <3>3, <3>5, <3>6, NotLessTransitive
    <3>8. r[1] * r'[2] <= r'[1] * r[2]
      <4>1. r[1] * r'[2] \in Int /\ r'[1] * r[2] \in Int BY <2>2, <3>2
      <4> QED BY <3>7, <4>1 DEF Less
    <3>9. r[2] * DeltaD(e) - r[1] * DeltaT(e) >= 0 BY <3>1
    <3> DEFINE a == r[1]  b == r[2]  c == r'[1]  d == r'[2]
               D == DeltaD(e)  T == DeltaT(e)
    <3>10. /\ a \in Int /\ b \in Nat /\ c \in Int /\ d \in Nat \ {0} /\ D \in Int /\ T \in Int
           /\ a * d <= c * b /\ b # 0 /\ b * D - a * T >= 0 /\ T <= 0
      BY <2>1, <2>2, <2>5, <3>2, <3>8, <3>9
    <3>11. d * D - c * T >= 0
      <4> HIDE DEF a, b, c, d, D, T
      <4> QED BY <3>10, RaisedRatio
    <3> QED BY <3>11
  <2> QED BY <2>1, <2>3, <2>4, <2>5
<1> QED BY <1>6, <1>8, <1>9, <1>10 DEF Minimal

\* Adding a fraction that is no larger leaves a fraction that is no larger.
LEMMA Mediant ==
  ASSUME NEW A \in Int, NEW B \in Int, NEW D \in Int, NEW T \in Int,
         NEW E \in Int, NEW F \in Int, D * B = A * T, E * B <= A * F
  PROVE  ~(A * (T + F) < (D + E) * B)
<1>1. A * (T + F) = A * T + A * F /\ (D + E) * B = D * B + E * B OBVIOUS
<1>2. A * T \in Int /\ A * F \in Int /\ D * B \in Int /\ E * B \in Int OBVIOUS
<1> QED BY <1>1, <1>2

\* The reduced cost of an arc does not see a shift of either end by the pivot.
LEMMA ShiftedCost ==
  ASSUME NEW a \in Int, NEW b \in Int, NEW D \in Int, NEW T \in Int,
         NEW E \in Int, NEW F \in Int, E * b = a * F, b * D - a * T >= 0
  PROVE  b * (D + E) - a * (T + F) >= 0 /\ b * (D - E) - a * (T - F) >= 0
<1>1. b * (D + E) = b * D + E * b /\ b * (D - E) = b * D - E * b OBVIOUS
<1>2. a * (T + F) = a * T + a * F /\ a * (T - F) = a * T - a * F OBVIOUS
<1>3. b * D \in Int /\ E * b \in Int /\ a * T \in Int /\ a * F \in Int OBVIOUS
<1> QED BY <1>1, <1>2, <1>3

\* What the shift does to the slack of an arc.
LEMMA ShiftedArc ==
  ASSUME IInv, Shift, NEW e \in g
  PROVE  LET S == Subtree(Tp, pivot.to)
         IN  /\ (e.from \in S <=> e.to \in S) =>
                  DeltaD(e)' = DeltaD(e) /\ DeltaT(e)' = DeltaT(e)
             /\ e.from \in S /\ e.to \notin S =>
                  /\ DeltaD(e)' = DeltaD(e) + DeltaD(pivot)
                  /\ DeltaT(e)' = DeltaT(e) + DeltaT(pivot)
             /\ e.from \notin S /\ e.to \in S =>
                  /\ DeltaD(e)' = DeltaD(e) - DeltaD(pivot)
                  /\ DeltaT(e)' = DeltaT(e) - DeltaT(pivot)
<1> DEFINE S == Subtree(Tp, pivot.to)
           D == DeltaD(pivot)
           T == DeltaT(pivot)
           u == e.from
           w == e.to
<1>1. /\ D \in Int /\ T \in Int /\ S \subseteq Node
      /\ dist' = [x \in Node |-> IF x \in S THEN dist[x] + D ELSE dist[x]]
      /\ transit' = [x \in Node |-> IF x \in S THEN transit[x] + T ELSE transit[x]]
  BY ShiftEffect
<1>2. /\ u \in Node /\ w \in Node /\ e.weight \in Int /\ e.delay \in Int
      /\ dist[u] \in Int /\ dist[w] \in Int /\ transit[u] \in Int /\ transit[w] \in Int
  BY DEF IInv, TypeOK, Arc
<1> HIDE DEF S, D, T
<1>3. /\ dist'[u] = IF u \in S THEN dist[u] + D ELSE dist[u]
      /\ dist'[w] = IF w \in S THEN dist[w] + D ELSE dist[w]
      /\ transit'[u] = IF u \in S THEN transit[u] + T ELSE transit[u]
      /\ transit'[w] = IF w \in S THEN transit[w] + T ELSE transit[w]
  BY <1>1, <1>2
<1>4. /\ DeltaD(e) = dist[u] + e.weight - dist[w]
      /\ DeltaT(e) = transit[u] + e.delay - transit[w]
      /\ DeltaD(e)' = dist'[u] + e.weight - dist'[w]
      /\ DeltaT(e)' = transit'[u] + e.delay - transit'[w]
  BY DEF DeltaD, DeltaT
<1> HIDE DEF u, w
<1>5. /\ (u \in S <=> w \in S) =>
           DeltaD(e)' = DeltaD(e) /\ DeltaT(e)' = DeltaT(e)
      /\ u \in S /\ w \notin S => DeltaD(e)' = DeltaD(e) + D /\ DeltaT(e)' = DeltaT(e) + T
      /\ u \notin S /\ w \in S => DeltaD(e)' = DeltaD(e) - D /\ DeltaT(e)' = DeltaT(e) - T
  BY <1>1, <1>2, <1>3, <1>4
<1> QED BY <1>5 DEF S, D, T, u, w

\* Outside the subtree the keys stay fresh but for arcs from it, whose new keys
\* lie between the old ones and r.
LEMMA ShiftMinimal == IInv /\ Minimal /\ Shift => Minimal'
<1> SUFFICES ASSUME IInv, Minimal, Shift PROVE Minimal'
  OBVIOUS
<1> DEFINE v == pivot.to
           S == Subtree(Tp, v)
<1>1. /\ pivot \in g /\ v \in S /\ S \subseteq Node /\ pivot.from \in Node \ S
      /\ DeltaT(pivot) \in Nat \ {0} /\ DeltaD(pivot) \in Int
      /\ Tp' = Relink(Tp, pivot.from, v)
  BY ShiftEffect
<1>2. /\ TypeOK /\ Tp \in Tree /\ v \in Node /\ r \in Ratio /\ arcKey \in [Node -> Ratio]
      /\ pc = "shift" /\ pc' = "entering"
      /\ UNCHANGED <<g, r, nodeKey, arcKey, pq, pivot>>
  BY <1>1 DEF IInv, TypeOK, Shift, keys
<1>3. S \subseteq Subtree(Tp', v) BY <1>1, <1>2, RelinkKeepsSubtree
<1>4. /\ r # Infinity /\ Same(FindArcKey(pivot), r)
      /\ \A x \in Node : FreshBut(x, {}) /\ ~Less(arcKey[x], r)
  BY <1>2 DEF Minimal, RatioIsKey, KeysNearlyFresh
<1>5. /\ FindArcKey(pivot) = <<DeltaD(pivot), DeltaT(pivot)>>
      /\ FindArcKey(pivot) \in Ratio
  BY <1>1, <1>2, ArcTyped DEF FindArcKey
<1>6. ASSUME NEW e \in g, e.from \in S <=> e.to \in S
      PROVE  FindArcKey(e)' = FindArcKey(e)
  BY <1>6, ShiftedArc DEF FindArcKey
<1>7. KeysNearlyFresh'
  <2> SUFFICES ASSUME NEW x \in Node \ Subtree(Tp', v)
               PROVE  FreshBut(x, Subtree(Tp, pivot.to))'
    BY <1>2 DEF KeysNearlyFresh
  <2>1. x \in Node /\ x \notin S BY <1>3
  <2>2. ASSUME NEW e \in InArcs(g, x), e.from \notin Subtree(Tp', v)
        PROVE  ~Less(FindArcKey(e)', arcKey[x])
    <3>1. e \in g /\ e.to = x /\ e.from \notin S BY <1>3, <2>2 DEF InArcs
    <3>2. FindArcKey(e)' = FindArcKey(e) BY <1>6, <2>1, <3>1
    <3> QED BY <1>4, <2>1, <3>2 DEF FreshBut
  <2>3. ASSUME arcKey[x] # Infinity
        PROVE  /\ nodeKey[x] \in InArcs(g, x)
               /\ ~Less(arcKey[x], FindArcKey(nodeKey[x])')
               /\ nodeKey[x].from \notin Subtree(Tp', v) =>
                    Same(FindArcKey(nodeKey[x])', arcKey[x])
    <3>1. PICK k \in InArcs(g, x) : /\ k = nodeKey[x]
                                    /\ Same(FindArcKey(k), arcKey[x])
                                    /\ ~Less(arcKey[x], FindArcKey(k))
      BY <1>4, <2>1, <2>3 DEF FreshBut
    <3>2. k \in g /\ k.to = x BY <3>1 DEF InArcs
    <3>3. FindArcKey(nodeKey[x])' = FindArcKey(k)'
      BY <1>2, <3>1 DEF FindArcKey, DeltaD, DeltaT
    <3>4. CASE k.from \notin S
      <4>1. FindArcKey(k)' = FindArcKey(k) BY <1>6, <2>1, <3>2, <3>4
      <4> QED BY <3>3, <3>1, <4>1
    <3>5. CASE k.from \in S
      <4> DEFINE A == arcKey[x][1]  B == arcKey[x][2]
                 D == DeltaD(k)  T == DeltaT(k)  E == DeltaD(pivot)  F == DeltaT(pivot)
      <4>1. T > 0 BY <1>2, <2>1, <2>3, <3>1 DEF IInv, KeysAdvance
      <4>2. D \in Int /\ T \in Int BY <1>2, <3>2, ArcTyped
      <4>3. arcKey[x] \in Ratio /\ A \in Int /\ B \in Int BY <1>2, <2>1, RatioParts
      <4>4. DeltaD(k)' = D + E /\ DeltaT(k)' = T + F BY <2>1, <3>2, <3>5, ShiftedArc
      <4>5. FindArcKey(k)' = <<D + E, T + F>>
        <5>1. T + F > 0 BY <1>1, <4>1, <4>2
        <5> QED BY <4>4, <5>1 DEF FindArcKey
      <4>6. D * B = A * T
        <5>1. FindArcKey(k) = <<D, T>> BY <4>1 DEF FindArcKey
        <5> QED BY <3>1, <5>1 DEF Same
      <4>7. E * B <= A * F
        <5>1. ~Less(arcKey[x], r) BY <1>4, <2>1
        <5>2. ~Less(r, FindArcKey(pivot)) BY <1>2, <1>4, <1>5, LessOrder
        <5>3. ~Less(arcKey[x], FindArcKey(pivot))
          BY <1>2, <1>5, <4>3, <5>1, <5>2, NotLessTransitive
        <5>4. ~(A * F < E * B) BY <1>5, <5>3 DEF Less
        <5>5. A * F \in Int /\ E * B \in Int BY <1>1, <4>3
        <5> QED BY <5>4, <5>5
      <4>8. E \in Int /\ F \in Int BY <1>1
      <4>9. ~(A * (T + F) < (D + E) * B)
        <5> HIDE DEF A, B, D, E, F, T
        <5> QED BY <4>2, <4>3, <4>6, <4>7, <4>8, Mediant
      <4>10. ~Less(arcKey[x], FindArcKey(k)') BY <4>5, <4>9 DEF Less
      <4> QED BY <1>3, <3>3, <3>1, <3>5, <4>10
    <3> QED BY <3>4, <3>5
  <2> QED BY <1>2, <2>2, <2>3 DEF FreshBut, InArcs
<1>8. RatioIsKey' BY <1>2, <1>4 DEF RatioIsKey
<1>9. FirstRound'
  <2>1. Tp'[v] = pivot.from BY <1>1, <1>2 DEF Relink, Tree
  <2>2. Tp' # NoTree BY <1>1, <1>2, <2>1, NodeAssumption DEF NoTree
  <2> QED BY <1>2, <2>2 DEF FirstRound
<1>10. Shortest'
  <2> SUFFICES ASSUME StartSuits, NEW e \in g
               PROVE  r[2] * DeltaD(e)' - r[1] * DeltaT(e)' >= 0
    BY <1>2 DEF Shortest, StartSuits
  <2> DEFINE a == r[1]  b == r[2]  D == DeltaD(e)  T == DeltaT(e)
             E == DeltaD(pivot)  F == DeltaT(pivot)
  <2>1. /\ a \in Int /\ b \in Int /\ D \in Int /\ T \in Int /\ E \in Int /\ F \in Int
    BY <1>1, <1>2, RatioParts, ArcTyped
  <2>2. E * b = a * F BY <1>4, <1>5 DEF Same
  <2>3. b * D - a * T >= 0 BY <1>2, <1>4 DEF Minimal, Shortest
  <2>4. b * (D + E) - a * (T + F) >= 0 /\ b * (D - E) - a * (T - F) >= 0
    <3> HIDE DEF a, b, D, T, E, F
    <3> QED BY <2>1, <2>2, <2>3, ShiftedCost
  <2>5. \/ DeltaD(e)' = D /\ DeltaT(e)' = T
        \/ DeltaD(e)' = D + E /\ DeltaT(e)' = T + F
        \/ DeltaD(e)' = D - E /\ DeltaT(e)' = T - F
    BY ShiftedArc
  <2> QED BY <2>3, <2>4, <2>5
<1> QED BY <1>7, <1>8, <1>9, <1>10 DEF Minimal

\* Rescanning the subtree leaves only arcs from it in doubt.
LEMMA EnteringMinimal == IInv /\ Minimal /\ Entering => Minimal'
<1> SUFFICES ASSUME IInv, Minimal, Entering PROVE Minimal'
  OBVIOUS
<1> DEFINE S == Subtree(Tp, pivot.to)
           b == [x \in Node |-> Infinity]
<1>1. /\ TypeOK /\ g \in Graphs /\ pivot \in g
      /\ pc = "entering" /\ pc' = "leaving"
      /\ UNCHANGED <<g, r, Tp, dist, transit, pivot>>
      /\ Rescan(S, Node, b)
  BY DEF IInv, TypeOK, Entering, data
<1>2. S \subseteq Node BY <1>1, SubtreeNodes DEF TypeOK, Arc
<1>3. b \in [Node -> Ratio] BY DEF Ratio
<1>4. \A e : FindArcKey(e)' = FindArcKey(e) /\ DeltaT(e)' = DeltaT(e) /\ DeltaD(e)' = DeltaD(e)
  BY <1>1 DEF FindArcKey, DeltaT, DeltaD
<1>5. \A x \in Node \ S : FreshBut(x, S) BY <1>1 DEF Minimal, KeysNearlyFresh
<1> HIDE DEF S
<1>6. /\ arcKey' \in [Node -> Ratio]
      /\ \A x \in Node :
           \/ /\ nodeKey'[x] = nodeKey[x]
              /\ arcKey'[x] = IF x \in S THEN b[x] ELSE arcKey[x]
           \/ /\ x \in S
              /\ nodeKey'[x] \in InArcs(g, x)
              /\ arcKey'[x] = FindArcKey(nodeKey'[x])
  BY <1>1, <1>2, <1>3, RescanEffect
<1>7. ASSUME NEW x \in Node PROVE FreshBut(x, Subtree(Tp, pivot.to))'
  <2>1. CASE x \in S
    <3>1. \A e \in InArcs(g, x) : ~Less(FindArcKey(e), arcKey'[x])
      <4>1. \A e \in InArcs(g, x) : e.from \in Node BY <1>1 DEF InArcs, TypeOK, Arc
      <4> QED BY <1>1, <1>2, <1>3, <2>1, <4>1, RescanFindsLeast
    <3>2. arcKey'[x] \in Ratio BY <1>6
    <3>3. ~Less(arcKey'[x], arcKey'[x]) /\ Same(arcKey'[x], arcKey'[x])
      BY <3>2, LessOrder
    <3>4. \/ arcKey'[x] = Infinity
          \/ nodeKey'[x] \in InArcs(g, x) /\ arcKey'[x] = FindArcKey(nodeKey'[x])
      BY <1>6, <2>1
    <3> HIDE DEF b
    <3> QED BY <1>1, <1>4, <3>1, <3>3, <3>4 DEF FreshBut, InArcs
  <2>2. CASE x \notin S
    <3>1. nodeKey'[x] = nodeKey[x] /\ arcKey'[x] = arcKey[x] BY <1>6, <2>2
    <3>2. FreshBut(x, S) BY <1>5, <2>2
    <3> QED BY <1>1, <1>4, <3>1, <3>2 DEF FreshBut, InArcs, S
  <2> QED BY <2>1, <2>2
<1>8. KeysNearlyFresh' BY <1>1, <1>7 DEF KeysNearlyFresh
<1>9. RatioIsKey' BY <1>1 DEF Minimal, RatioIsKey
<1>10. FirstRound' BY <1>1 DEF Minimal, FirstRound
<1>11. Shortest'
  <2>1. StartSuits' <=> StartSuits BY <1>1 DEF StartSuits
  <2> QED BY <1>1, <1>4, <2>1 DEF Minimal, Shortest
<1> QED BY <1>8, <1>9, <1>10, <1>11 DEF Minimal

\* Following the arcs that leave the subtree makes every key fresh.
LEMMA LeavingMinimal == IInv /\ Minimal /\ Leaving => Minimal'
<1> SUFFICES ASSUME IInv, Minimal, Leaving PROVE Minimal'
  OBVIOUS
<1> DEFINE S == Subtree(Tp, pivot.to)
<1>1. /\ TypeOK /\ g \in Graphs /\ pivot \in g /\ arcKey \in [Node -> Ratio]
      /\ pc = "leaving" /\ pc' = "findMin"
      /\ UNCHANGED <<g, r, Tp, dist, transit, pivot>>
      /\ Rescan(Node, S, arcKey)
  BY DEF IInv, TypeOK, Leaving, data
<1>2. S \subseteq Node BY <1>1, SubtreeNodes DEF TypeOK, Arc
<1>3. \A e : FindArcKey(e)' = FindArcKey(e) /\ DeltaT(e)' = DeltaT(e) /\ DeltaD(e)' = DeltaD(e)
  BY <1>1 DEF FindArcKey, DeltaT, DeltaD
<1>4. \A x \in Node : FreshBut(x, S) BY <1>1 DEF Minimal, KeysNearlyFresh
<1> HIDE DEF S
<1>5. /\ arcKey' \in [Node -> Ratio]
      /\ \A x \in Node :
           \/ /\ nodeKey'[x] = nodeKey[x]
              /\ arcKey'[x] = arcKey[x]
           \/ /\ nodeKey'[x] \in InArcs(g, x)
              /\ arcKey'[x] = FindArcKey(nodeKey'[x])
              /\ Less(arcKey'[x], arcKey[x])
  BY <1>1, <1>2, RescanEffect
<1>6. ASSUME NEW x \in Node PROVE FreshBut(x, {})'
  <2>1. \A e \in InArcs(g, x) : e.from \in S => ~Less(FindArcKey(e), arcKey'[x])
    BY <1>1, <1>2, RescanFindsLeast
  <2>2. arcKey'[x] \in Ratio /\ arcKey[x] \in Ratio BY <1>1, <1>5
  <2>3. ~Less(arcKey'[x], arcKey'[x]) /\ Same(arcKey'[x], arcKey'[x])
    BY <2>2, LessOrder
  <2>4. ~Less(arcKey[x], arcKey'[x]) BY <1>5, <2>2, <2>3, LessOrder
  <2>5. \A e \in InArcs(g, x) : ~Less(FindArcKey(e), arcKey'[x])
    <3> SUFFICES ASSUME NEW e \in InArcs(g, x), e.from \notin S
                 PROVE  ~Less(FindArcKey(e), arcKey'[x])
      BY <2>1
    <3>1. ~Less(FindArcKey(e), arcKey[x]) BY <1>4 DEF FreshBut
    <3>2. FindArcKey(e) \in Ratio BY <1>1, ArcTyped DEF InArcs
    <3> QED BY <2>2, <2>4, <3>1, <3>2, NotLessTransitive
  <2>6. CASE nodeKey'[x] = nodeKey[x] /\ arcKey'[x] = arcKey[x]
    <3>1. ASSUME arcKey[x] # Infinity
          PROVE  /\ nodeKey[x] \in InArcs(g, x)
                 /\ Same(FindArcKey(nodeKey[x]), arcKey[x])
                 /\ ~Less(arcKey[x], FindArcKey(nodeKey[x]))
      <4>1. /\ nodeKey[x] \in InArcs(g, x)
            /\ ~Less(arcKey[x], FindArcKey(nodeKey[x]))
            /\ nodeKey[x].from \notin S => Same(FindArcKey(nodeKey[x]), arcKey[x])
        BY <1>4, <3>1 DEF FreshBut
      <4>2. ~Less(FindArcKey(nodeKey[x]), arcKey[x]) BY <2>5, <2>6, <4>1
      <4>3. FindArcKey(nodeKey[x]) \in Ratio BY <1>1, <4>1, ArcTyped DEF InArcs
      <4> QED BY <2>2, <4>1, <4>2, <4>3, LessOrder
    <3> QED BY <1>1, <1>3, <2>5, <2>6, <3>1 DEF FreshBut, InArcs
  <2>7. CASE nodeKey'[x] \in InArcs(g, x) /\ arcKey'[x] = FindArcKey(nodeKey'[x])
    BY <1>1, <1>3, <2>3, <2>5, <2>7 DEF FreshBut, InArcs
  <2> QED BY <1>5, <2>6, <2>7
<1>7. KeysNearlyFresh' BY <1>1, <1>6 DEF KeysNearlyFresh
<1>8. RatioIsKey' BY <1>1 DEF Minimal, RatioIsKey
<1>9. FirstRound' BY <1>1 DEF Minimal, FirstRound
<1>10. Shortest'
  <2>1. StartSuits' <=> StartSuits BY <1>1 DEF StartSuits
  <2> QED BY <1>1, <1>3, <2>1 DEF Minimal, Shortest
<1> QED BY <1>7, <1>8, <1>9, <1>10 DEF Minimal

\* A step in which nothing changes.
LEMMA StutterMinimal == Minimal /\ UNCHANGED vars => Minimal'
<1> SUFFICES ASSUME Minimal, UNCHANGED vars PROVE Minimal'
  OBVIOUS
<1>1. UNCHANGED <<g, r, Tp, dist, transit, nodeKey, arcKey, pq, pivot, pc>> BY DEF vars
<1>2. \A e : FindArcKey(e)' = FindArcKey(e) /\ DeltaT(e)' = DeltaT(e) /\ DeltaD(e)' = DeltaD(e)
  BY <1>1 DEF FindArcKey, DeltaT, DeltaD
<1>3. KeysNearlyFresh' BY <1>1, <1>2 DEF Minimal, KeysNearlyFresh, FreshBut, InArcs
<1>4. RatioIsKey' BY <1>1, <1>2 DEF Minimal, RatioIsKey
<1>5. FirstRound' BY <1>1 DEF Minimal, FirstRound
<1>6. Shortest'
  <2>1. StartSuits' <=> StartSuits BY <1>1 DEF StartSuits
  <2> QED BY <1>1, <1>2, <2>1 DEF Minimal, Shortest
<1> QED BY <1>3, <1>4, <1>5, <1>6 DEF Minimal

-----------------------------------------------------------------------------
\* This invariant too holds of every state of every run.
THEOREM MinimalAlways == Spec => []Minimal
<1>1. Init => Minimal BY InitMinimal
<1>2. IInv /\ Minimal /\ [Next]_vars => Minimal'
  BY InitializeMinimal, FindMinMinimal, ShiftMinimal, EnteringMinimal, LeavingMinimal,
     StutterMinimal
  DEF Next
<1> QED BY <1>1, <1>2, Inductive, PTL DEF Spec

\* When the next pivot is chosen every cached key is what a fresh scan would
\* give: resetting the subtree and lowering what it reaches misses nothing.
THEOREM Fresh == Spec => []KeysFresh
<1>1. IInv /\ Minimal => KeysFresh
  BY DEF IInv, KeysEnter, Minimal, KeysNearlyFresh, FreshBut, KeysFresh
<1> QED BY <1>1, Inductive, MinimalAlways, PTL

\* If the zero tree suits the graph, the tree is one of shortest paths for r.
THEOREM ShortestPaths == Spec => []TreeIsShortest
<1>1. Minimal => TreeIsShortest BY DEF Minimal, Shortest, TreeIsShortest
<1> QED BY <1>1, MinimalAlways, PTL

\* A finite result is the ratio of the cycle the last pivot closes.
THEOREM ResultCycle == Spec => []ResultIsACycle
<1>1. Minimal => ResultIsACycle
  BY DEF Minimal, RatioIsKey, ResultIsACycle
<1> QED BY <1>1, MinimalAlways, PTL

\* The solver's graph is one the potentials are about.
LEMMA SolverGraph ==
  ASSUME IInv
  PROVE  IsFiniteSet(Node) /\ IsFiniteSet(g) /\ IsGraph(Node, g)
BY NodeAssumption, GraphsAssumption DEF IInv, TypeOK, Arc, IsGraph

\* The minimum: the labels are potentials for the costs at r.
LEMMA FiniteResultIsMinimum ==
  ASSUME IInv, Minimal, pc = "returned", r # Infinity, StartSuits
  PROVE  AtMostEveryCycle(Node, g, r)
<1> DEFINE a == r[1]  b == r[2]
           p == [x \in Node |-> b * dist[x] - a * transit[x]]
           cost == ReducedCost(g, r)
<1>1. a \in Int /\ b \in Int /\ TypeOK BY RatioParts DEF IInv, TypeOK
<1>2. Node # {} BY DEF Minimal, RatioIsKey
<1>3. \A x \in Node : dist[x] \in Int /\ transit[x] \in Int BY <1>1 DEF TypeOK
<1> HIDE DEF a, b
<1>4. p \in [Node -> Int] BY <1>1, <1>3
<1>5. \A e \in g : /\ e.from \in Node /\ e.to \in Node /\ e.weight \in Int /\ e.delay \in Int
                   /\ cost[e] = b * e.weight - a * e.delay
  BY <1>1 DEF a, b, TypeOK, Arc, ReducedCost
<1>6. cost \in [g -> Int]
  <2>1. cost = [e \in g |-> b * e.weight - a * e.delay] BY DEF ReducedCost, a, b
  <2> HIDE DEF cost
  <2> QED BY <1>1, <1>5, <2>1
<1>7. ASSUME NEW e \in g PROVE p[e.to] <= p[e.from] + cost[e]
  <2> DEFINE x == dist[e.from]  y == dist[e.to]  s == transit[e.from]  t == transit[e.to]
             w == e.weight  d == e.delay
  <2>1. x \in Int /\ y \in Int /\ s \in Int /\ t \in Int /\ w \in Int /\ d \in Int
    BY <1>3, <1>5
  <2>2. b * (x + w - y) - a * (s + d - t) >= 0
    BY DEF Minimal, Shortest, DeltaD, DeltaT, a, b
  <2>3. /\ p[e.to] = b * y - a * t
        /\ p[e.from] = b * x - a * s
        /\ cost[e] = b * w - a * d
    BY <1>5
  <2> HIDE DEF x, y, s, t, w, d, p, cost
  <2>4. /\ b * (x + w - y) = b * x + b * w - b * y
        /\ a * (s + d - t) = a * s + a * d - a * t
    BY <1>1, <2>1
  <2>5. /\ b * x \in Int /\ b * w \in Int /\ b * y \in Int
        /\ a * s \in Int /\ a * d \in Int /\ a * t \in Int
    BY <1>1, <2>1
  <2> QED BY <2>2, <2>3, <2>4, <2>5
<1>8. IsPotential(g, cost, p) BY <1>7 DEF IsPotential
<1> HIDE DEF p, cost
<1>9. NoNegativeCycle(Node, g, cost)
  BY <1>2, <1>4, <1>6, <1>8, SolverGraph, PotentialsGiveNoNegativeCycle
<1> QED BY <1>9 DEF AtMostEveryCycle, cost

\* No key is left only when no arc gains delay.
LEMMA GainsNothing ==
  ASSUME IInv, Minimal, pc = "returned", r = Infinity, NEW e \in g
  PROVE  transit[e.from] + e.delay <= transit[e.to]
<1>1. TypeOK BY DEF IInv
<1>2. e.from \in Node /\ e.to \in Node /\ e.delay \in Int BY <1>1 DEF TypeOK, Arc
<1>3. \A x \in Node : transit[x] \in Int BY <1>1 DEF TypeOK
<1>4. ~Less(FindArcKey(e), arcKey[e.to]) /\ ~Less(arcKey[e.to], r)
  BY <1>2 DEF Minimal, KeysNearlyFresh, FreshBut, InArcs, RatioIsKey
<1>5. /\ FindArcKey(e) \in Ratio /\ arcKey[e.to] \in Ratio /\ r \in Ratio
      /\ DeltaT(e) \in Int /\ DeltaD(e) \in Int
  BY <1>1, <1>2, ArcTyped DEF TypeOK
<1>6. ~Less(FindArcKey(e), Infinity) BY <1>4, <1>5, NotLessTransitive
<1>7. ~(DeltaT(e) > 0)
  <2> SUFFICES ASSUME DeltaT(e) > 0 PROVE FALSE
    OBVIOUS
  <2>1. FindArcKey(e) = <<DeltaD(e), DeltaT(e)>> BY DEF FindArcKey
  <2> QED BY <1>5, <1>6, <2>1 DEF Less, Infinity
<1> QED BY <1>2, <1>3, <1>5, <1>7 DEF DeltaT

\* The delays are then potentials.
LEMMA InfiniteResultIsRight ==
  ASSUME IInv, Minimal, pc = "returned", r = Infinity
  PROVE  ~HasPositiveCycle(Node, g)
<1> DEFINE p == [x \in Node |-> -transit[x]]
           cost == [e \in g |-> -e.delay]
<1>1. TypeOK /\ Node # {} BY DEF IInv, Minimal, RatioIsKey
<1>2. \A x \in Node : transit[x] \in Int BY <1>1 DEF TypeOK
<1>3. p \in [Node -> Int] BY <1>2
<1>4. \A e \in g : e.from \in Node /\ e.to \in Node /\ e.delay \in Int
  BY <1>1 DEF TypeOK, Arc
<1>5. cost \in [g -> Int] BY <1>4
<1>6. ASSUME NEW e \in g PROVE p[e.to] <= p[e.from] + cost[e]
  <2>1. transit[e.from] + e.delay <= transit[e.to] BY GainsNothing
  <2> QED BY <1>2, <1>4, <2>1
<1>7. IsPotential(g, cost, p) BY <1>6 DEF IsPotential
<1> HIDE DEF p, cost
<1>8. NoNegativeCycle(Node, g, cost)
  BY <1>1, <1>3, <1>5, <1>7, SolverGraph, PotentialsGiveNoNegativeCycle
<1> QED BY <1>8 DEF HasPositiveCycle, cost

\* What getRatio() reports is at most the ratio of any cycle, and infinity only
\* when no cycle has a positive delay.
THEOREM MinimumRatio == Spec => []ResultIsMinimum
<1>1. IInv /\ Minimal => ResultIsMinimum
  BY FiniteResultIsMinimum, InfiniteResultIsRight DEF ResultIsMinimum
<1> QED BY <1>1, Inductive, MinimalAlways, PTL


-----------------------------------------------------------------------------
(***************************************************************************)
(* What main() and other callers can rely on.                              *)
(***************************************************************************)
\* p costs the arcs like potentials would if every cycle, at the ratio q and in
\* units of 1/K, cost at least one.
Forbids(K, q, p) ==
  \A e \in g : p[e.to] <= p[e.from] + (K * (q[2] * e.weight - q[1] * e.delay) - 1)

\* What is known of the labels, and that there is a cycle of the ratio returned.
Returned ==
  pc = "returned" =>
    /\ r \in Ratio /\ dist \in [Node -> Int] /\ transit \in [Node -> Int]
    /\ r = Infinity => \A e \in g : transit[e.from] + e.delay <= transit[e.to]
    /\ r # Infinity /\ StartSuits =>
         \A e \in g : r[2] * DeltaD(e) - r[1] * DeltaT(e) >= 0
    /\ r # Infinity =>
         \A N \in SUBSET Node, K \in Nat \ {0} : IsGraph(N, g) =>
           \A p \in [N -> Int] : ~Forbids(K, r, p)

\* Down the tree to the source of the pivot such values would rise against the
\* labels, and with the pivot they would have risen round a cycle.
LEMMA CycleForbidsNothing ==
  ASSUME IInv, Minimal, pc = "returned", r # Infinity,
         NEW N \in SUBSET Node, NEW K \in Nat \ {0}, IsGraph(N, g),
         NEW p \in [N -> Int], Forbids(K, r, p)
  PROVE  FALSE
<1> DEFINE a == r[1]  b == r[2]
           f == [x \in N |-> K * (b * dist[x] - a * transit[x]) - p[x]]
           v == pivot.to
           u == pivot.from
           Z == {x \in N : f[v] <= f[x]}
<1>1. /\ TypeOK /\ TreeIsTight /\ a \in Int /\ b \in Nat
      /\ pivot \in g /\ Same(FindArcKey(pivot), r) /\ InSubTree(Tp, v, u)
  BY RatioParts DEF IInv, TypeOK, Minimal, RatioIsKey
<1>2. \A x \in N : dist[x] \in Int /\ transit[x] \in Int /\ p[x] \in Int
  BY <1>1 DEF TypeOK
<1>3. \A x \in N : f[x] \in Int /\ f[x] = K * (b * dist[x] - a * transit[x]) - p[x]
  BY <1>1, <1>2
<1>4. \A e \in g : e.from \in N /\ e.to \in N /\ e.weight \in Int /\ e.delay \in Int
  BY <1>1 DEF TypeOK, Arc, IsGraph
<1> HIDE DEF f, a, b
<1>5. ASSUME NEW e \in g, b * DeltaD(e) - a * DeltaT(e) = 0
      PROVE  f[e.from] + 1 <= f[e.to]
  <2> DEFINE x == dist[e.from]  y == dist[e.to]  s == transit[e.from]  t == transit[e.to]
             w == e.weight  d == e.delay  k == p[e.from]  l == p[e.to]
             A == b * x - a * s  B == b * y - a * t  C == b * w - a * d
  <2>1. x \in Int /\ y \in Int /\ s \in Int /\ t \in Int /\ w \in Int /\ d \in Int
        /\ k \in Int /\ l \in Int
    BY <1>2, <1>4
  <2>2. b * (x + w - y) - a * (s + d - t) = 0 BY <1>5 DEF DeltaD, DeltaT
  <2>3. l <= k + (K * C - 1) BY DEF Forbids, a, b
  <2>4. f[e.from] = K * A - k /\ f[e.to] = K * B - l BY <1>3, <1>4
  <2> HIDE DEF x, y, s, t, w, d, k, l
  <2>5. A \in Int /\ B \in Int /\ C \in Int BY <1>1, <2>1
  <2>6. A + C = B
    <3>1. /\ b * (x + w - y) = b * x + b * w - b * y
          /\ a * (s + d - t) = a * s + a * d - a * t
      BY <1>1, <2>1
    <3>2. /\ b * x \in Int /\ b * w \in Int /\ b * y \in Int
          /\ a * s \in Int /\ a * d \in Int /\ a * t \in Int
      BY <1>1, <2>1
    <3> DEFINE b1 == b * x  b2 == b * w  b3 == b * y  a1 == a * s  a2 == a * d  a3 == a * t
    <3>3. (b1 + b2 - b3) - (a1 + a2 - a3) = 0 BY <2>2, <3>1
    <3>4. /\ b1 \in Int /\ b2 \in Int /\ b3 \in Int
          /\ a1 \in Int /\ a2 \in Int /\ a3 \in Int
      BY <3>2
    <3> HIDE DEF b1, b2, b3, a1, a2, a3
    <3>5. b1 \in Int /\ b2 \in Int /\ b3 \in Int BY <3>4
    <3>6. a1 \in Int /\ a2 \in Int /\ a3 \in Int BY <3>4
    <3>7. (b1 - a1) + (b2 - a2) = b3 - a3 BY <3>3, <3>5, <3>6
    <3> QED BY <3>7 DEF b1, b2, b3, a1, a2, a3
  <2> HIDE DEF A, B, C
  <2>7. K * B = K * A + K * C /\ K * A \in Int /\ K * B \in Int /\ K * C \in Int
    BY <2>5, <2>6
  <2> QED BY <2>1, <2>3, <2>4, <2>7
<1>6. v \in N /\ u \in N /\ v \in Node BY <1>1, <1>4
<1>7. Closed(Tp, Z)
  <2> SUFFICES ASSUME NEW x \in Node, Tp[x] \in Z PROVE x \in Z
    BY <1>1 DEF Closed, TypeOK
  <2>1. Tp[x] # NoNode BY NodeAssumption
  <2>2. PICK e \in g : e.from = Tp[x] /\ e.to = x /\ DeltaD(e) = 0 /\ DeltaT(e) = 0
    BY <1>1, <2>1 DEF TreeIsTight
  <2>3. b * DeltaD(e) - a * DeltaT(e) = 0 BY <1>1, <2>2
  <2>4. f[e.from] + 1 <= f[e.to] BY <1>5, <2>3
  <2> QED BY <1>3, <1>4, <1>6, <2>2, <2>4
<1>8. u \in Z
  <2>1. v \in Z BY <1>3, <1>6
  <2>2. Tp \in Tree BY <1>1 DEF TypeOK
  <2>3. ASSUME NEW z \in Node, NEW Y, z \in Y, Closed(Tp, Y)
        PROVE  Subtree(Tp, z) \subseteq Y
    BY <2>2, <2>3, SubtreeLeast
  <2> HIDE DEF Z
  <2>4. Subtree(Tp, v) \subseteq Z BY <1>6, <1>7, <2>1, <2>3
  <2> QED BY <1>1, <2>4 DEF InSubTree
<1>9. b * DeltaD(pivot) - a * DeltaT(pivot) = 0
  <2>1. b # 0 BY <1>1, RatioParts DEF TypeOK, b
  <2>2. DeltaD(pivot) \in Int /\ DeltaT(pivot) \in Int BY <1>1, ArcTyped
  <2>3. FindArcKey(pivot) = <<DeltaD(pivot), DeltaT(pivot)>>
    BY <1>1, <2>1, <2>2 DEF FindArcKey, Same, Infinity, a, b
  <2>4. DeltaD(pivot) * b = a * DeltaT(pivot) BY <1>1, <2>3 DEF Same, a, b
  <2> QED BY <1>1, <2>2, <2>4
<1>10. f[u] + 1 <= f[v] BY <1>1, <1>5, <1>9
<1> QED BY <1>3, <1>6, <1>8, <1>10

LEMMA ReturnsWith == Spec => []Returned
<1>1. IInv /\ Minimal => Returned
  <2> SUFFICES ASSUME IInv, Minimal, pc = "returned" PROVE Returned
    BY DEF Returned
  <2>1. TypeOK BY DEF IInv
  <2>2. r \in Ratio /\ dist \in [Node -> Int] /\ transit \in [Node -> Int]
    BY <2>1 DEF TypeOK
  <2>3. ASSUME r = Infinity, NEW e \in g
        PROVE  transit[e.from] + e.delay <= transit[e.to]
    BY <2>3, GainsNothing
  <2>4. r # Infinity /\ StartSuits =>
          \A e \in g : r[2] * DeltaD(e) - r[1] * DeltaT(e) >= 0
    BY DEF Minimal, Shortest
  <2> QED BY <2>2, <2>3, <2>4, CycleForbidsNothing DEF Returned
<1> QED BY <1>1, Inductive, MinimalAlways, PTL
=============================================================================
