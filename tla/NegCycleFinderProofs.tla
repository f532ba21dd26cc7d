------------------------ MODULE NegCycleFinderProofs ------------------------
(***************************************************************************)
(* What holds of the negative cycle finder on every graph, whatever order  *)
(* the out-arcs are scanned in.  The argument has two parts.  The nodes in *)
(* the tree hang together below the source, so that a node that is scanned *)
(* is in the tree, its tree path is its way back along _pre, and an arc    *)
(* that does not close a cycle in the tree closes none in _pre either.     *)
(* And a node that is cut off was cut off because the label of one above   *)
(* it dropped; following _pre from it leads to a node that is waiting in   *)
(* the queue, so that when the queue is empty no node is cut off.          *)
(***************************************************************************)
EXTENDS NegCycleFinder, CommonProofs

USE DEF Tree

InTree(x) == x = Source \/ Tp[x] # NoNode

\* _pre as a parent function.
Pred == [x \in Node |-> IF pre[x] = NoArc THEN NoNode ELSE pre[x].from]

Improvable(e) == dist[e.to] # Unreached => dist[e.to] > dist[e.from] + e.weight

\* A node is reached by its predecessor arc, all but the source.
ReachedByPre ==
  /\ pre[Source] = NoArc
  /\ \A x \in Node : /\ x \in Reached <=> x = Source \/ pre[x] # NoArc
                     /\ pre[x] # NoArc => pre[x].to = x

\* The tree hangs below the source, and so does the node being scanned.
Rooted ==
  /\ Tp[Source] = NoNode
  /\ \A x \in Node : Tp[x] # NoNode => InTree(Tp[x])
  /\ todo # {} => InTree(u)

\* Nodes flagged are in the tree and in the queue, and it holds reached nodes.
QueueIsSound ==
  /\ ToSet(q) \subseteq Reached
  /\ \A x \in Node : inQueue[x] => InTree(x) /\ x \in ToSet(q)

\* A node is cut off below one that is cut off, or whose label has dropped.
CutOffWaits ==
  \A x \in Node : CutOff(x) =>
    CutOff(pre[x].from) \/ dist[x] > dist[pre[x].from] + pre[x].weight

\* An arc that improves its target leaves a node that waits, or is about to
\* be scanned.
ArcsWait ==
  \A e \in g : e.from \in Reached /\ Improvable(e) =>
    inQueue[e.from] \/ CutOff(e.from) \/ e \in todo

RunInv ==
  /\ LabelsAreJustified
  /\ ReachedByPre
  /\ Rooted
  /\ QueueIsSound
  /\ Acyclic(Pred)
  /\ CutOffWaits
  /\ ArcsWait

\* A false answer comes with its certificate: the labels of the nodes reached
\* meet every arc that leaves one of them, so that no cycle there is negative.
LabelsAreFeasible ==
  pc = "false" => \A e \in g : e.from \in Reached =>
    e.to \in Reached /\ dist[e.to] <= dist[e.from] + e.weight

\* And so does a true answer.  Following _pre from _node_in_cycle stays in its
\* subtree and cannot go round there without coming back to it; no arc on the
\* way costs more than its label allows and one costs less, so that the way
\* round is negative.
CycleIsCertified ==
  pc = "true" =>
    /\ \A x \in Subtree(Tp, nodeInCycle) :
         /\ pre[x] \in InArcs(g, x) /\ pre[x].from \in Subtree(Tp, nodeInCycle)
         /\ x \in Reached /\ dist[x] >= dist[pre[x].from] + pre[x].weight
    /\ dist[nodeInCycle] > dist[pre[nodeInCycle].from] + pre[nodeInCycle].weight
    /\ \A Y \in SUBSET Subtree(Tp, nodeInCycle) :
         Y # {} /\ (\A x \in Y : pre[x].from \in Y) => nodeInCycle \in Y

IInv ==
  /\ TypeOK
  /\ g \in Graphs
  /\ TreeIsForest
  /\ pc = "run" => RunInv
  /\ LabelsAreFeasible
  /\ CycleIsCertified

-----------------------------------------------------------------------------
\* Taking edges out of a forest leaves a forest.
LEMMA CutKeepsForest ==
  ASSUME NEW T \in Tree, Acyclic(T), NEW R \in Tree,
         \A x \in Node : R[x] = T[x] \/ R[x] = NoNode
  PROVE  Acyclic(R)
<1> SUFFICES ASSUME NEW X \in SUBSET Node, X # {}
             PROVE  \E x \in X : R[x] \notin X
  BY DEF Acyclic
<1>1. PICK x \in X : T[x] \notin X BY DEF Acyclic
<1> QED BY <1>1, NodeAssumption

\* Disassembling the subtree of v and hanging v below a node outside it.
LEMMA DisassemblyKeepsForest ==
  ASSUME NEW T \in Tree, Acyclic(T),
         NEW w \in Node, NEW v \in Node, w \notin Subtree(T, v)
  PROVE  LET S == Subtree(T, v)
             R == Relink(RemoveSubtree(T, S), w, v)
         IN  /\ R \in Tree /\ Acyclic(R)
             /\ \A x \in Node :
                  R[x] = IF x = v THEN w ELSE IF x \in S THEN NoNode ELSE T[x]
<1> DEFINE S == Subtree(T, v)
           C == RemoveSubtree(T, S)
           R == Relink(C, w, v)
<1>1. S \subseteq Node /\ v \in S /\ Closed(T, S)
  BY SubtreeNodes, SubtreeClosed
<1>2. C \in Tree /\ \A x \in Node : C[x] = IF x \in S THEN NoNode ELSE T[x]
  BY DEF RemoveSubtree, Tree
<1>3. Acyclic(C) BY <1>2, CutKeepsForest
<1>4. Closed(C, {v}) BY <1>1, <1>2, NodeAssumption DEF Closed
<1>5. w \notin Subtree(C, v)
  <2>1. Subtree(C, v) \subseteq {v} BY <1>2, <1>4, SubtreeLeast
  <2> QED BY <1>1, <2>1
<1>6. R \in Tree /\ Acyclic(R) BY <1>2, <1>3, <1>5, RelinkKeepsForest
<1>7. \A x \in Node : R[x] = IF x = v THEN w ELSE C[x]
  BY <1>2 DEF Relink, Tree
<1> QED BY <1>1, <1>2, <1>6, <1>7

\* What a pop and a push do to the entries of the queue.
LEMMA EntriesAfterPop ==
  ASSUME NEW s \in Seq(Node), s # <<>>
  PROVE  Head(s) \in ToSet(s) /\ ToSet(s) = {Head(s)} \cup ToSet(Tail(s))
<1>1. Len(s) \in Nat \ {0} /\ DOMAIN s = 1 .. Len(s) OBVIOUS
<1>2. Head(s) = s[1] OBVIOUS
<1>3. /\ DOMAIN Tail(s) = 1 .. Len(s) - 1
      /\ \A i \in 1 .. Len(s) - 1 : Tail(s)[i] = s[i + 1]
  OBVIOUS
<1>4. ASSUME NEW i \in DOMAIN s PROVE s[i] \in {Head(s)} \cup ToSet(Tail(s))
  <2>1. CASE i = 1 BY <1>2, <2>1
  <2>2. CASE i # 1
    <3>1. i - 1 \in DOMAIN Tail(s) /\ Tail(s)[i - 1] = s[i]
      BY <1>1, <1>3, <2>2
    <3> QED BY <3>1 DEF ToSet
  <2> QED BY <2>1, <2>2
<1>5. ASSUME NEW i \in DOMAIN Tail(s) PROVE Tail(s)[i] \in ToSet(s)
  <2>1. i + 1 \in DOMAIN s /\ Tail(s)[i] = s[i + 1] BY <1>1, <1>3
  <2> QED BY <2>1 DEF ToSet
<1>6. Head(s) \in ToSet(s) BY <1>1, <1>2 DEF ToSet
<1> QED BY <1>4, <1>5, <1>6 DEF ToSet

LEMMA EntriesAfterPush ==
  ASSUME NEW s \in Seq(Node), NEW x \in Node
  PROVE  ToSet(Append(s, x)) = ToSet(s) \cup {x}
<1>1. /\ DOMAIN s = 1 .. Len(s) /\ Len(s) \in Nat
      /\ DOMAIN Append(s, x) = 1 .. Len(s) + 1
      /\ \A i \in 1 .. Len(s) : Append(s, x)[i] = s[i]
      /\ Append(s, x)[Len(s) + 1] = x
  OBVIOUS
<1>2. ASSUME NEW i \in DOMAIN Append(s, x)
      PROVE  Append(s, x)[i] \in ToSet(s) \cup {x}
  <2>1. i = Len(s) + 1 \/ i \in DOMAIN s BY <1>1
  <2> QED BY <1>1, <2>1 DEF ToSet
<1>3. ASSUME NEW i \in DOMAIN s PROVE s[i] \in ToSet(Append(s, x))
  <2>1. i \in DOMAIN Append(s, x) /\ Append(s, x)[i] = s[i] BY <1>1
  <2> QED BY <2>1 DEF ToSet
<1>4. x \in ToSet(Append(s, x)) BY <1>1 DEF ToSet
<1> QED BY <1>2, <1>3, <1>4 DEF ToSet

\* Every node in the tree is below the source.
LEMMA TreeBelowSource ==
  ASSUME TypeOK, TreeIsForest, Rooted, NEW x \in Node, InTree(x)
  PROVE  x \in Subtree(Tp, Source)
<1> DEFINE Z == Subtree(Tp, Source)
           X == {y \in Node \ Z : Tp[y] # NoNode}
<1>1. Tp \in Tree /\ Source \in Node BY SourceAssumption DEF TypeOK
<1>2. Source \in Z /\ Closed(Tp, Z) BY <1>1, SubtreeNodes, SubtreeClosed
<1>3. \A y \in X : Tp[y] \in X
  <2> SUFFICES ASSUME NEW y \in X PROVE Tp[y] \in X
    OBVIOUS
  <2>1. Tp[y] \in Node BY <1>1 DEF Tree
  <2>2. Tp[y] \notin Z BY <1>1, <1>2 DEF Closed
  <2>3. InTree(Tp[y]) BY DEF Rooted
  <2> QED BY <1>2, <2>1, <2>2, <2>3 DEF InTree
<1>4. X = {} BY <1>1, <1>3 DEF TreeIsForest, Acyclic
<1> QED BY <1>2, <1>4 DEF InTree

-----------------------------------------------------------------------------
\* The constructor and the lines before the loop establish the invariant.
LEMMA InitIInv == Init => IInv
<1> SUFFICES ASSUME Init PROVE IInv
  OBVIOUS
<1> USE SourceAssumption, GraphsAssumption, NodeAssumption
<1>1. TypeOK
  BY DEF Init, TypeOK, NoTree, Tree, Reached, OutArcs
<1>2. TreeIsForest BY DEF Init, TreeIsForest, Acyclic, NoTree
<1>3. Acyclic(Pred) BY DEF Init, Pred, Acyclic
<1>4. ToSet(q) = {Source} BY DEF Init, ToSet
<1>5. LabelsAreJustified /\ ReachedByPre /\ Rooted
  BY DEF Init, LabelsAreJustified, ReachedByPre, Rooted, Reached, NoTree, InTree
<1>6. QueueIsSound
  <2>1. Source \in Reached BY DEF Init, Reached
  <2>2. \A x \in Node : inQueue[x] => x = Source BY Zenon DEF Init
  <2> QED BY <1>4, <2>1, <2>2 DEF QueueIsSound, InTree
<1>7. CutOffWaits BY DEF Init, CutOffWaits, CutOff, Reached
<1>8. ArcsWait BY DEF Init, ArcsWait, Reached
<1>9. LabelsAreFeasible /\ CycleIsCertified
  BY DEF Init, LabelsAreFeasible, CycleIsCertified
<1> QED BY <1>1, <1>2, <1>3, <1>5, <1>6, <1>7, <1>8, <1>9 DEF Init, IInv, RunInv

-----------------------------------------------------------------------------
\* An arc in the loop, with the types of what it is compared with.
LEMMA TodoTyped ==
  ASSUME TypeOK, NEW e \in todo
  PROVE  /\ e \in g /\ e.from = u /\ u \in Node /\ e.to \in Node /\ e.weight \in Int
         /\ dist[u] \in Int /\ dist[u] # Unreached
         /\ dist[e.to] \in Int \cup {Unreached}
<1>1. e \in g /\ e.from = u /\ e \in Arc BY DEF TypeOK, OutArcs
<1>2. e.to \in Node /\ e.weight \in Int BY <1>1 DEF Arc
<1>3. u \in Node /\ dist[u] # Unreached BY DEF TypeOK, Reached
<1> QED BY <1>1, <1>2, <1>3 DEF TypeOK

\* Popping: a live entry leaves the queue for the loop over its out-arcs.
LEMMA PopStep == IInv /\ Pop => IInv'
<1> SUFFICES ASSUME IInv, Pop PROVE IInv'
  OBVIOUS
<1> DEFINE h == Head(q)
<1>1. TypeOK /\ RunInv /\ g \in Graphs /\ TreeIsForest BY DEF IInv, Pop
<1>2. /\ pc = "run" /\ todo = {} /\ q # <<>>
      /\ u' = h /\ q' = Tail(q)
      /\ inQueue' = [inQueue EXCEPT ![h] = FALSE]
      /\ todo' = IF inQueue[h] THEN OutArcs(g, h) ELSE {}
      /\ g' = g /\ Tp' = Tp /\ dist' = dist /\ pre' = pre
      /\ nodeInCycle' = nodeInCycle /\ pc' = pc
  BY DEF Pop
<1>3. q \in Seq(Node) /\ inQueue \in [Node -> BOOLEAN] BY <1>1 DEF TypeOK
<1>4. h \in Node /\ Tail(q) \in Seq(Node) BY <1>2, <1>3
<1>5. h \in ToSet(q) /\ ToSet(q) = {h} \cup ToSet(Tail(q))
  BY <1>2, <1>3, EntriesAfterPop
<1>6. Reached' = Reached /\ h \in Reached
  BY <1>1, <1>2, <1>5 DEF Reached, RunInv, QueueIsSound
<1> HIDE DEF h
<1>7. \A x \in Node : inQueue'[x] <=> inQueue[x] /\ x # h
  BY <1>2, <1>3, <1>4, Zenon
<1>8. \A x : InTree(x)' <=> InTree(x) BY <1>2 DEF InTree
<1>9. \A x : CutOff(x)' <=> CutOff(x) BY <1>2, <1>6 DEF CutOff
<1>10. inQueue' \in [Node -> BOOLEAN] BY <1>2, <1>3
<1>11. TypeOK'
  <2>1. todo' \subseteq OutArcs(g', u') BY <1>2
  <2>2. u' \in Reached' BY <1>2, <1>6
  <2> QED BY <1>1, <1>2, <1>4, <1>10, <2>1, <2>2 DEF TypeOK
<1>12. TreeIsForest' BY <1>1, <1>2 DEF TreeIsForest, Acyclic
<1>13. LabelsAreJustified'
  BY <1>1, <1>2, <1>6 DEF RunInv, LabelsAreJustified
<1>14. ReachedByPre' BY <1>1, <1>2, <1>6 DEF RunInv, ReachedByPre
<1>15. Acyclic(Pred)' BY <1>1, <1>2 DEF RunInv, Acyclic, Pred
<1>16. CutOffWaits' BY <1>1, <1>2, <1>9 DEF RunInv, CutOffWaits
<1>17. Rooted'
  <2>1. Tp'[Source] = NoNode /\ \A x \in Node : Tp'[x] # NoNode => InTree(Tp[x])'
    BY <1>1, <1>2, <1>8 DEF RunInv, Rooted, InTree
  <2>2. todo' # {} => InTree(h) BY <1>1, <1>2, <1>4 DEF RunInv, QueueIsSound
  <2> QED BY <1>2, <1>8, <2>1, <2>2 DEF Rooted, InTree
<1>18. QueueIsSound'
  <2>1. ToSet(q') \subseteq Reached'
    BY <1>1, <1>2, <1>5, <1>6 DEF RunInv, QueueIsSound
  <2>2. \A x \in Node : inQueue'[x] => InTree(x)' /\ x \in ToSet(q')
    BY <1>1, <1>2, <1>5, <1>7, <1>8 DEF RunInv, QueueIsSound
  <2> QED BY <2>1, <2>2 DEF QueueIsSound
<1>19. ArcsWait'
  <2> SUFFICES ASSUME NEW e \in g, e.from \in Reached, Improvable(e)
               PROVE  inQueue'[e.from] \/ CutOff(e.from) \/ e \in todo'
    BY <1>2, <1>6, <1>9 DEF ArcsWait, Improvable
  <2>1. inQueue[e.from] \/ CutOff(e.from)
    BY <1>1, <1>2 DEF RunInv, ArcsWait
  <2>2. e.from \in Node BY DEF Reached
  <2>3. CASE e.from = h /\ inQueue[h] BY <1>2, <2>3 DEF OutArcs
  <2>4. CASE ~(e.from = h /\ inQueue[h]) BY <1>7, <2>1, <2>2, <2>4
  <2> QED BY <2>3, <2>4
<1>20. LabelsAreFeasible' /\ CycleIsCertified'
  BY <1>1, <1>2 DEF LabelsAreFeasible, CycleIsCertified
<1> QED BY <1>1, <1>2, <1>11, <1>12, <1>13, <1>14, <1>15, <1>16, <1>17, <1>18,
           <1>19, <1>20
        DEF IInv, RunInv

\* An arc that is passed over improves nothing.
LEMMA PassStep ==
  ASSUME IInv, NEW e \in todo, Pass(e) PROVE IInv'
<1>1. TypeOK /\ RunInv /\ g \in Graphs /\ TreeIsForest BY DEF IInv, Pass
<1>2. /\ pc = "run" /\ ~Improves(e) /\ todo' = todo \ {e}
      /\ g' = g /\ Tp' = Tp /\ dist' = dist /\ pre' = pre /\ q' = q
      /\ inQueue' = inQueue /\ u' = u /\ nodeInCycle' = nodeInCycle /\ pc' = pc
  BY DEF Pass
<1>3. Reached' = Reached BY <1>2 DEF Reached
<1>4. \A x : InTree(x)' <=> InTree(x) BY <1>2 DEF InTree
<1>5. \A x : CutOff(x)' <=> CutOff(x) BY <1>2, <1>3 DEF CutOff
<1>6. TypeOK' BY <1>1, <1>2, <1>3 DEF TypeOK
<1>7. TreeIsForest' BY <1>1, <1>2 DEF TreeIsForest, Acyclic
<1>8. LabelsAreJustified' /\ ReachedByPre'
  BY <1>1, <1>2, <1>3 DEF RunInv, LabelsAreJustified, ReachedByPre
<1>9. Acyclic(Pred)' BY <1>1, <1>2 DEF RunInv, Acyclic, Pred
<1>10. CutOffWaits' BY <1>1, <1>2, <1>5 DEF RunInv, CutOffWaits
<1>11. Rooted' BY <1>1, <1>2, <1>4 DEF RunInv, Rooted, InTree
<1>12. QueueIsSound' BY <1>1, <1>2, <1>3, <1>4 DEF RunInv, QueueIsSound
<1>13. ArcsWait'
  <2>1. ~Improvable(e) BY <1>1, <1>2, TodoTyped DEF Improves, Improvable
  <2>2. \A f \in g : Improvable(f)' <=> Improvable(f) BY <1>2 DEF Improvable
  <2> QED BY <1>1, <1>2, <1>3, <1>5, <2>1, <2>2 DEF RunInv, ArcsWait
<1>14. LabelsAreFeasible' /\ CycleIsCertified'
  BY <1>2 DEF LabelsAreFeasible, CycleIsCertified
<1> QED BY <1>1, <1>2, <1>6, <1>7, <1>8, <1>9, <1>10, <1>11, <1>12, <1>13, <1>14
        DEF IInv, RunInv

\* A cycle closes: the tree path down to the node scanned, and the arc back.
LEMMA DetectStep ==
  ASSUME IInv, NEW e \in todo, Detect(e) PROVE IInv'
<1> DEFINE v == e.to
           S == Subtree(Tp, v)
<1>1. TypeOK /\ RunInv /\ g \in Graphs /\ TreeIsForest BY DEF IInv, Detect
<1>2. /\ e \in g /\ e.from = u /\ u \in Node /\ v \in Node /\ e.weight \in Int
      /\ dist[u] \in Int /\ dist[v] \in Int \cup {Unreached} /\ u \in Reached
  BY <1>1, TodoTyped DEF TypeOK
<1>3. /\ pc = "run" /\ pc' = "true" /\ nodeInCycle' = v /\ pre' = [pre EXCEPT ![v] = e]
      /\ g' = g /\ Tp' = Tp /\ dist' = dist /\ q' = q /\ inQueue' = inQueue
      /\ u' = u /\ todo' = todo /\ Improves(e) /\ u \in S
  BY DEF Detect, InSubTree
<1>4. Tp \in Tree BY <1>1 DEF TypeOK
<1>5. v \in S /\ S \subseteq Node /\ \A x \in S : x # v => Tp[x] \in S
  BY <1>2, <1>4, SubtreeNodes, SubtreeParent
<1>6. \A x \in Node : pre'[x] = IF x = v THEN e ELSE pre[x]
  BY <1>1, <1>3 DEF TypeOK
<1>7. v \in Reached
  <2> SUFFICES ASSUME v \notin Reached PROVE u = v
    BY <1>2
  <2>1. ASSUME NEW x \in Node PROVE Tp[x] # v
    <3> SUFFICES ASSUME Tp[x] = v PROVE FALSE
      OBVIOUS
    <3>1. Tp[x] # NoNode BY <1>2, NodeAssumption
    <3>2. pre[x] \in g /\ pre[x].from = v
      BY <1>1, <1>3, <3>1 DEF RunInv, LabelsAreJustified, InArcs
    <3>3. pre[x] # NoArc BY <1>1, <3>2, GraphsAssumption
    <3>4. pre[x].from \in Reached
      BY <1>1, <1>3, <3>3 DEF RunInv, LabelsAreJustified
    <3> QED BY <3>2, <3>4
  <2>2. Closed(Tp, {v}) BY <1>1, <2>1 DEF Closed, TypeOK
  <2>3. S \subseteq {v} BY <1>2, <1>4, <2>2, SubtreeLeast
  <2> QED BY <1>3, <2>3
<1>8. dist[v] \in Int /\ dist[v] > dist[u] + e.weight
  BY <1>2, <1>3, <1>7 DEF Improves, Reached
<1>9. Subtree(Tp', nodeInCycle') = S BY <1>3
<1> HIDE DEF S
<1>10. \A x \in S : x # v => /\ pre[x] \in InArcs(g, x) /\ pre[x].from = Tp[x]
                            /\ x \in Reached
                            /\ dist[x] >= dist[pre[x].from] + pre[x].weight
  <2> SUFFICES ASSUME NEW x \in S, x # v
               PROVE  /\ pre[x] \in InArcs(g, x) /\ pre[x].from = Tp[x]
                      /\ x \in Reached
                      /\ dist[x] >= dist[pre[x].from] + pre[x].weight
    OBVIOUS
  <2>1. x \in Node /\ Tp[x] # NoNode BY <1>5, NodeAssumption
  <2>2. pre[x] \in InArcs(g, x) /\ pre[x].from = Tp[x]
    BY <1>1, <1>3, <2>1 DEF RunInv, LabelsAreJustified
  <2>3. pre[x] # NoArc BY <1>1, <2>2, GraphsAssumption DEF InArcs
  <2> QED BY <1>1, <1>3, <2>1, <2>2, <2>3 DEF RunInv, LabelsAreJustified
<1>11. \A x \in S : /\ pre'[x] \in InArcs(g, x) /\ pre'[x].from \in S
                   /\ x \in Reached
                   /\ dist[x] >= dist[pre'[x].from] + pre'[x].weight
  <2> SUFFICES ASSUME NEW x \in S
               PROVE  /\ pre'[x] \in InArcs(g, x) /\ pre'[x].from \in S
                      /\ x \in Reached
                      /\ dist[x] >= dist[pre'[x].from] + pre'[x].weight
    OBVIOUS
  <2>1. CASE x = v
    <3>1. pre'[x] = e BY <1>2, <1>6, <2>1
    <3> QED BY <1>2, <1>3, <1>7, <1>8, <2>1, <3>1 DEF InArcs
  <2>2. CASE x # v
    <3>1. pre'[x] = pre[x] BY <1>5, <1>6, <2>2
    <3> QED BY <1>5, <1>10, <2>2, <3>1
  <2> QED BY <2>1, <2>2
<1>12. ASSUME NEW Y \in SUBSET S, Y # {}, \A x \in Y : pre'[x].from \in Y
       PROVE  v \in Y
  <2> SUFFICES ASSUME v \notin Y PROVE FALSE
    OBVIOUS
  <2>1. \A x \in Y : Tp[x] \in Y BY <1>5, <1>6, <1>10, <1>12
  <2> QED BY <1>1, <1>5, <1>12, <2>1 DEF TreeIsForest, Acyclic, TypeOK
<1>13. CycleIsCertified'
  <2>1. Reached' = Reached BY <1>3 DEF Reached
  <2>2. pre'[v] = e BY <1>2, <1>6
  <2> QED BY <1>2, <1>3, <1>8, <1>9, <1>11, <1>12, <2>1, <2>2 DEF CycleIsCertified
<1>14. TypeOK' BY <1>1, <1>2, <1>3 DEF TypeOK, Reached
<1>15. TreeIsForest' BY <1>1, <1>3 DEF TreeIsForest, Acyclic
<1> QED BY <1>1, <1>3, <1>13, <1>14, <1>15 DEF IInv, LabelsAreFeasible

\* The queue is empty: following _pre from a node cut off would never end,
\* so there is none, and no arc is left that improves its target.
LEMMA GiveUpStep == IInv /\ GiveUp => IInv'
<1> SUFFICES ASSUME IInv, GiveUp PROVE IInv'
  OBVIOUS
<1>1. TypeOK /\ RunInv /\ g \in Graphs /\ TreeIsForest BY DEF IInv, GiveUp
<1>2. /\ todo = {} /\ q = <<>> /\ pc' = "false"
      /\ g' = g /\ Tp' = Tp /\ dist' = dist /\ pre' = pre /\ q' = q
      /\ inQueue' = inQueue /\ u' = u /\ todo' = todo /\ nodeInCycle' = nodeInCycle
  BY DEF GiveUp
<1>3. \A x \in Node : ~inQueue[x]
  <2>1. ToSet(q) = {} BY <1>2 DEF ToSet
  <2> QED BY <1>1, <2>1 DEF RunInv, QueueIsSound
<1>4. \A x \in Node : ~CutOff(x)
  <2> DEFINE X == {x \in Node : CutOff(x)}
  <2>1. ASSUME NEW x \in X PROVE Pred[x] \in X
    <3>1. pre[x] # NoArc /\ pre[x].to = x /\ x \in Reached
      BY <1>1 DEF CutOff, RunInv, ReachedByPre
    <3>2. pre[x] \in g /\ pre[x].from \in Reached
      BY <1>1, <1>2, <3>1 DEF TypeOK, RunInv, LabelsAreJustified, GiveUp
    <3>3. CutOff(pre[x].from) \/ Improvable(pre[x])
      BY <1>1, <3>1 DEF RunInv, CutOffWaits, Improvable
    <3>4. CutOff(pre[x].from) BY <1>1, <1>2, <1>3, <3>2, <3>3 DEF RunInv, ArcsWait, Reached
    <3> QED BY <3>1, <3>4 DEF CutOff, Pred, Reached
  <2>2. DOMAIN Pred = Node BY DEF Pred
  <2>3. X = {} BY <1>1, <2>1, <2>2 DEF RunInv, Acyclic
  <2> QED BY <2>3
<1>5. LabelsAreFeasible'
  <2> SUFFICES ASSUME NEW e \in g, e.from \in Reached
               PROVE  e.to \in Reached /\ dist[e.to] <= dist[e.from] + e.weight
    BY <1>2 DEF LabelsAreFeasible, Reached
  <2>1. e.from \in Node BY DEF Reached
  <2>2. ~Improvable(e) BY <1>1, <1>2, <1>3, <1>4, <2>1 DEF RunInv, ArcsWait
  <2>3. e \in Arc BY <1>1 DEF TypeOK
  <2>4. e.to \in Node /\ e.weight \in Int BY <2>3 DEF Arc
  <2>5. e.to \in Reached BY <2>2, <2>4 DEF Improvable, Reached
  <2>6. dist[e.to] \in Int /\ dist[e.from] \in Int
    BY <1>1, <2>1, <2>4, <2>5 DEF TypeOK, Reached
  <2> QED BY <2>2, <2>4, <2>5, <2>6 DEF Improvable
<1>6. TypeOK' BY <1>1, <1>2 DEF TypeOK, Reached
<1>7. TreeIsForest' BY <1>1, <1>2 DEF TreeIsForest, Acyclic
<1>8. CycleIsCertified' BY <1>2 DEF CycleIsCertified
<1> QED BY <1>1, <1>2, <1>5, <1>6, <1>7, <1>8 DEF IInv

-----------------------------------------------------------------------------
\* What relaxing an arc does: the target is no ancestor of the node scanned,
\* so in particular not the source.
LEMMA RelaxEffect ==
  ASSUME IInv, NEW e \in todo, Relax(e)
  PROVE  LET v == e.to
             S == Subtree(Tp, v)
         IN  /\ TypeOK /\ RunInv /\ g \in Graphs /\ TreeIsForest
             /\ e \in g /\ e.from = u /\ e.weight \in Int /\ v \in Node /\ v # Source
             /\ v \in S /\ S \subseteq Node /\ u \in Node \ S /\ InTree(u)
             /\ dist[u] \in Int /\ dist[v] \in Int \cup {Unreached}
             /\ dist[v] # Unreached => dist[v] > dist[u] + e.weight
             /\ Tp' \in Tree /\ Acyclic(Tp')
             /\ \A x \in Node :
                  /\ Tp'[x] = IF x = v THEN u ELSE IF x \in S THEN NoNode ELSE Tp[x]
                  /\ dist'[x] = IF x = v THEN dist[u] + e.weight ELSE dist[x]
                  /\ pre'[x] = IF x = v THEN e ELSE pre[x]
                  /\ inQueue'[x] <=> x = v \/ (inQueue[x] /\ x \notin S)
             /\ ToSet(q') \cup {v} = ToSet(q) \cup {v}
             /\ v \in ToSet(q')
             /\ pc' = "run" /\ g' = g /\ u' = u /\ todo' = todo \ {e}
             /\ nodeInCycle' = nodeInCycle
             /\ dist' \in [Node -> Int \cup {Unreached}]
             /\ pre' \in [Node -> g \cup {NoArc}]
             /\ inQueue' \in [Node -> BOOLEAN] /\ q' \in Seq(Node)
<1> DEFINE v == e.to
           S == Subtree(Tp, v)
<1>1. TypeOK /\ RunInv /\ g \in Graphs /\ TreeIsForest BY DEF IInv, Relax
<1>2. /\ e \in g /\ e.from = u /\ u \in Node /\ v \in Node /\ e.weight \in Int
      /\ dist[u] \in Int /\ dist[u] # Unreached
      /\ dist[v] \in Int \cup {Unreached}
  BY <1>1, TodoTyped
<1>3. /\ pc' = "run" /\ g' = g /\ u' = u /\ todo' = todo \ {e}
      /\ nodeInCycle' = nodeInCycle
      /\ Improves(e) /\ u \notin S
      /\ dist' = [dist EXCEPT ![v] = dist[u] + e.weight]
      /\ pre' = [pre EXCEPT ![v] = e]
      /\ Tp' = Relink(RemoveSubtree(Tp, S), u, v)
      /\ inQueue' = [RemoveNodeInQueue(inQueue, S, v) EXCEPT ![v] = TRUE]
      /\ q' = IF inQueue[v] THEN q ELSE Append(q, v)
  BY DEF Relax, InSubTree
<1>4. Tp \in Tree /\ Acyclic(Tp) BY <1>1 DEF TypeOK, TreeIsForest
<1>5. v \in S /\ S \subseteq Node BY <1>2, <1>4, SubtreeNodes
<1>6. InTree(u) BY <1>1 DEF RunInv, Rooted
<1>7. v # Source
  BY <1>1, <1>2, <1>3, <1>6, TreeBelowSource DEF RunInv
<1>8. /\ Tp' \in Tree /\ Acyclic(Tp')
      /\ \A x \in Node :
           Tp'[x] = IF x = v THEN u ELSE IF x \in S THEN NoNode ELSE Tp[x]
  BY <1>2, <1>3, <1>4, DisassemblyKeepsForest
<1> HIDE DEF S
<1>9. /\ dist \in [Node -> Int \cup {Unreached}]
      /\ pre \in [Node -> g \cup {NoArc}]
      /\ inQueue \in [Node -> BOOLEAN] /\ q \in Seq(Node)
  BY <1>1 DEF TypeOK
<1>10. \A x \in Node : dist'[x] = IF x = v THEN dist[u] + e.weight ELSE dist[x]
  BY <1>3, <1>9
<1>11. \A x \in Node : pre'[x] = IF x = v THEN e ELSE pre[x] BY <1>3, <1>9
<1>12. \A x \in Node : inQueue'[x] <=> x = v \/ (inQueue[x] /\ x \notin S)
  <2>1. inQueue' = [x \in Node |-> IF x = v THEN TRUE
                                   ELSE inQueue[x] /\ x \notin S \ {v}]
    BY <1>3 DEF RemoveNodeInQueue
  <2> QED BY <1>5, <2>1, Zenon
<1>13. inQueue' \in [Node -> BOOLEAN] BY <1>3, <1>9 DEF RemoveNodeInQueue
<1>14. dist' \in [Node -> Int \cup {Unreached}] /\ pre' \in [Node -> g \cup {NoArc}]
  BY <1>2, <1>3, <1>9
<1>15. /\ ToSet(q') \cup {v} = ToSet(q) \cup {v} /\ v \in ToSet(q')
       /\ q' \in Seq(Node)
  <2>1. inQueue[v] => v \in ToSet(q)
    BY <1>1, <1>2 DEF RunInv, QueueIsSound
  <2>2. CASE inQueue[v] BY <1>3, <1>9, <2>1, <2>2
  <2>3. CASE ~inQueue[v]
    <3>1. q' = Append(q, v) BY <1>3, <2>3
    <3> QED BY <1>2, <1>9, <3>1, EntriesAfterPush
  <2> QED BY <2>2, <2>3
<1>16. dist[v] # Unreached => dist[v] > dist[u] + e.weight
  BY <1>3 DEF Improves
<1> QED BY <1>1, <1>2, <1>3, <1>5, <1>6, <1>7, <1>8, <1>10, <1>11, <1>12, <1>13,
           <1>14, <1>15, <1>16
        DEF S

\* The relaxed arc closes no cycle of predecessor arcs: what lies below its
\* target there is below it in the tree, or cut off, and the node scanned is
\* neither.
LEMMA RelaxKeepsPred ==
  ASSUME IInv, NEW e \in todo, Relax(e) PROVE Acyclic(Pred)'
<1> DEFINE v == e.to
           S == Subtree(Tp, v)
           Z == {x \in Node : ~InTree(x)} \cup S
<1>1. /\ TypeOK /\ RunInv
      /\ e \in g /\ e.from = u /\ v \in Node /\ v # Source
      /\ v \in S /\ S \subseteq Node /\ u \in Node \ S /\ InTree(u)
      /\ \A x \in Node : pre'[x] = IF x = v THEN e ELSE pre[x]
      /\ g' = g
  BY RelaxEffect
<1>2. Tp \in Tree BY <1>1 DEF TypeOK
<1>3. Closed(Tp, S) BY <1>1, <1>2, SubtreeClosed
<1> HIDE DEF S
<1>4. Pred \in Tree
  <2>1. \A x \in Node : pre[x] # NoArc => pre[x].from \in Node
    BY <1>1 DEF TypeOK, Arc
  <2> QED BY <2>1 DEF Pred, Tree
<1>5. Closed(Pred, Z)
  <2> SUFFICES ASSUME NEW x \in Node, Pred[x] \in Z PROVE x \in Z
    BY <1>4 DEF Closed
  <2>1. pre[x] # NoArc /\ Pred[x] = pre[x].from
    BY <1>1, NodeAssumption DEF Pred
  <2>2. CASE ~InTree(x) BY <2>2
  <2>3. CASE InTree(x)
    <3>1. x # Source BY <1>1, <2>1 DEF RunInv, ReachedByPre
    <3>2. Tp[x] # NoNode BY <2>3, <3>1 DEF InTree
    <3>3. Pred[x] = Tp[x]
      BY <1>1, <2>1, <3>2 DEF RunInv, LabelsAreJustified, Relax
    <3>4. InTree(Tp[x]) BY <1>1, <3>2 DEF RunInv, Rooted
    <3>5. Tp[x] \in S BY <3>3, <3>4
    <3> QED BY <1>2, <1>3, <3>5 DEF Closed
  <2> QED BY <2>2, <2>3
<1>6. u \notin Subtree(Pred, v)
  <2>1. Subtree(Pred, v) \subseteq Z BY <1>1, <1>4, <1>5, SubtreeLeast
  <2> QED BY <1>1, <2>1
<1>7. Acyclic(Relink(Pred, u, v))
  BY <1>1, <1>4, <1>6, RelinkKeepsForest DEF RunInv
<1>8. Pred' = Relink(Pred, u, v)
  <2>1. e # NoArc BY <1>1, GraphsAssumption DEF IInv
  <2>2. \A x \in Node : Pred'[x] = Relink(Pred, u, v)[x]
    BY <1>1, <2>1 DEF Pred, Relink
  <2> QED BY <2>2 DEF Pred, Relink
<1> QED BY <1>7, <1>8 DEF Acyclic

\* Relaxing an arc keeps the rest.  Nodes of the subtree are cut off below the
\* target, whose own label has dropped; the arcs out of them wait with them.
LEMMA RelaxStep ==
  ASSUME IInv, NEW e \in todo, Relax(e) PROVE IInv'
<1> DEFINE v == e.to
           S == Subtree(Tp, v)
           NowIn(x) == x = Source \/ Tp'[x] # NoNode
           NowCut(x) == x # Source /\ x \in Reached' /\ Tp'[x] = NoNode
<1>1. /\ TypeOK /\ RunInv /\ g \in Graphs /\ TreeIsForest
      /\ e \in g /\ e.from = u /\ e.weight \in Int /\ v \in Node /\ v # Source
      /\ v \in S /\ S \subseteq Node /\ u \in Node \ S /\ InTree(u)
      /\ dist[u] \in Int /\ dist[v] \in Int \cup {Unreached}
      /\ dist[v] # Unreached => dist[v] > dist[u] + e.weight
      /\ Tp' \in Tree /\ Acyclic(Tp')
  BY RelaxEffect
<1>2. \A x \in Node :
        /\ Tp'[x] = IF x = v THEN u ELSE IF x \in S THEN NoNode ELSE Tp[x]
        /\ dist'[x] = IF x = v THEN dist[u] + e.weight ELSE dist[x]
        /\ pre'[x] = IF x = v THEN e ELSE pre[x]
        /\ inQueue'[x] <=> x = v \/ (inQueue[x] /\ x \notin S)
  BY RelaxEffect
<1>3. /\ ToSet(q') \cup {v} = ToSet(q) \cup {v} /\ v \in ToSet(q')
      /\ pc' = "run" /\ g' = g /\ u' = u /\ todo' = todo \ {e}
      /\ nodeInCycle' = nodeInCycle
      /\ dist' \in [Node -> Int \cup {Unreached}]
      /\ pre' \in [Node -> g \cup {NoArc}]
      /\ inQueue' \in [Node -> BOOLEAN] /\ q' \in Seq(Node)
  BY RelaxEffect
<1>4. Tp \in Tree BY <1>1 DEF TypeOK
<1>5. Closed(Tp, S) /\ \A x \in S : x # v => Tp[x] \in S
  BY <1>1, <1>4, SubtreeClosed, SubtreeParent
<1> HIDE DEF S
<1>6. /\ dist'[v] = dist[u] + e.weight /\ dist'[v] \in Int
      /\ dist'[v] # Unreached /\ dist'[u] = dist[u] /\ u # v
  BY <1>1, <1>2, SourceAssumption
<1>7. Reached' = Reached \cup {v} BY <1>1, <1>2, <1>6 DEF Reached
<1>8. \A x \in Node : NowIn(x) <=> x = v \/ (InTree(x) /\ x \notin S \ {Source})
  BY <1>1, <1>2, NodeAssumption DEF InTree
<1>9. /\ Source \notin S
      /\ \A x \in S : x # v => InTree(x) /\ x \in Reached
  <2>1. \A x \in S : x # v => Tp[x] # NoNode
    BY <1>1, <1>5, NodeAssumption
  <2>2. Source \notin S BY <1>1, <2>1 DEF RunInv, Rooted
  <2>3. \A x \in S : x # v => x \in Reached
    BY <1>1, <2>1, GraphsAssumption
    DEF RunInv, LabelsAreJustified, ReachedByPre, InArcs, Relax
  <2> QED BY <2>1, <2>2, <2>3 DEF InTree
<1>10. \A x \in Node :
         NowCut(x) <=> x # v /\ (CutOff(x) \/ x \in S)
  BY <1>2, <1>1, <1>7, <1>9, NodeAssumption DEF CutOff
<1>11. TypeOK'
  <2>1. u' \in Reached' BY <1>1, <1>3, <1>7 DEF TypeOK
  <2> QED BY <1>1, <1>3, <2>1 DEF TypeOK
<1>12. TreeIsForest' BY <1>1 DEF TreeIsForest
<1>13. ReachedByPre'
  BY <1>1, <1>2, <1>7, GraphsAssumption, SourceAssumption DEF RunInv, ReachedByPre
<1>14. Rooted'
  <2>1. Tp'[Source] = NoNode
    BY <1>1, <1>2, <1>9, SourceAssumption DEF RunInv, Rooted
  <2>2. ASSUME NEW x \in Node, Tp'[x] # NoNode PROVE NowIn(Tp'[x])
    <3>1. CASE x = v BY <1>1, <1>2, <1>8, <3>1
    <3>2. CASE x # v
      <4>1. x \notin S /\ Tp'[x] = Tp[x] /\ Tp[x] # NoNode BY <1>2, <2>2, <3>2
      <4>2. Tp[x] \notin S BY <1>1, <1>5, <4>1 DEF Closed, TypeOK
      <4>3. Tp[x] \in Node /\ InTree(Tp[x]) BY <1>1, <1>4, <4>1 DEF RunInv, Rooted, Tree
      <4> QED BY <1>8, <4>1, <4>2, <4>3
    <3> QED BY <3>1, <3>2
  <2>3. NowIn(u) BY <1>1, <1>8
  <2> QED BY <1>3, <2>1, <2>2, <2>3 DEF Rooted, InTree
<1>15. QueueIsSound'
  <2>1. ToSet(q') \subseteq Reached'
    BY <1>1, <1>3, <1>7 DEF RunInv, QueueIsSound
  <2>2. ASSUME NEW x \in Node, inQueue'[x] PROVE NowIn(x) /\ x \in ToSet(q')
    <3>1. CASE x = v BY <1>3, <1>8, <3>1
    <3>2. CASE x # v
      <4>1. inQueue[x] /\ x \notin S BY <1>2, <2>2, <3>2
      <4> QED BY <1>1, <1>3, <1>8, <3>2, <4>1 DEF RunInv, QueueIsSound
    <3> QED BY <3>1, <3>2
  <2> QED BY <2>1, <2>2 DEF QueueIsSound, InTree
<1>16. Acyclic(Pred)' BY RelaxKeepsPred
<1>17. LabelsAreJustified'
  <2> SUFFICES ASSUME NEW x \in Node
               PROVE  /\ Tp'[x] # NoNode =>
                           pre'[x] \in InArcs(g, x) /\ pre'[x].from = Tp'[x]
                      /\ pre'[x] # NoArc =>
                           /\ {x, pre'[x].from} \subseteq Reached'
                           /\ dist'[x] >= dist'[pre'[x].from] + pre'[x].weight
    BY <1>3 DEF LabelsAreJustified
  <2>1. CASE x = v
    <3>1. Tp'[x] = u /\ pre'[x] = e /\ u \in Reached
      BY <1>1, <1>2, <2>1 DEF TypeOK
    <3> QED BY <1>1, <1>6, <1>7, <2>1, <3>1 DEF InArcs
  <2>2. CASE x # v
    <3>1. pre'[x] = pre[x] /\ dist'[x] = dist[x] BY <1>2, <2>2
    <3>2. Tp'[x] # NoNode => Tp'[x] = Tp[x] BY <1>2, <2>2
    <3>3. Tp'[x] # NoNode => pre'[x] \in InArcs(g, x) /\ pre'[x].from = Tp'[x]
      BY <1>1, <3>1, <3>2 DEF RunInv, LabelsAreJustified, Relax
    <3>4. ASSUME pre[x] # NoArc
          PROVE  /\ {x, pre[x].from} \subseteq Reached'
                 /\ dist[x] >= dist'[pre[x].from] + pre[x].weight
      <4>1. /\ {x, pre[x].from} \subseteq Reached
            /\ dist[x] >= dist[pre[x].from] + pre[x].weight
        BY <1>1, <3>4 DEF RunInv, LabelsAreJustified, Relax
      <4>2. pre[x] \in Arc BY <1>1, <3>4 DEF TypeOK
      <4>3. pre[x].weight \in Int /\ dist[x] \in Int /\ dist[pre[x].from] \in Int
        BY <1>1, <4>1, <4>2 DEF TypeOK, Arc, Reached
      <4>4. dist'[pre[x].from] \in Int /\ dist'[pre[x].from] <= dist[pre[x].from]
        BY <1>1, <1>2, <1>6, <4>1, <4>3 DEF Reached
      <4> QED BY <1>7, <4>1, <4>3, <4>4
    <3> QED BY <3>1, <3>3, <3>4
  <2> QED BY <2>1, <2>2
<1>18. CutOffWaits'
  <2> SUFFICES ASSUME NEW x \in Node, NowCut(x)
               PROVE  \/ NowCut(pre'[x].from)
                      \/ dist'[x] > dist'[pre'[x].from] + pre'[x].weight
    BY DEF CutOffWaits, CutOff
  <2> DEFINE p == pre[x].from
  <2>1. /\ x # v /\ x # Source /\ x \in Reached
        /\ pre'[x] = pre[x] /\ dist'[x] = dist[x]
    BY <1>2, <1>7, <1>10 DEF CutOff
  <2>2. pre[x] # NoArc BY <1>1, <2>1 DEF RunInv, ReachedByPre
  <2>3. /\ p \in Reached /\ x \in Reached
        /\ dist[x] >= dist[p] + pre[x].weight
    BY <1>1, <2>2 DEF RunInv, LabelsAreJustified, Relax
  <2>4. p \in Node /\ pre[x].weight \in Int /\ dist[x] \in Int /\ dist[p] \in Int
    BY <1>1, <2>2, <2>3 DEF TypeOK, Arc, Reached
  <2> HIDE DEF p
  <2>5. dist'[p] \in Int /\ dist'[p] <= dist[p] /\ (p = v => dist'[p] < dist[p])
    BY <1>1, <1>2, <1>6, <2>3, <2>4 DEF Reached
  <2>6. CASE p = v
    <3>1. dist[x] > dist'[p] + pre[x].weight BY <2>3, <2>4, <2>5, <2>6
    <3> QED BY <2>1, <3>1 DEF p
  <2>7. CASE p # v /\ x \in S
    <3>1. Tp[x] \in S /\ Tp[x] # NoNode BY <1>1, <1>5, <2>1, <2>7, NodeAssumption
    <3>2. p = Tp[x]
      BY <1>1, <3>1 DEF RunInv, LabelsAreJustified, p, Relax
    <3>3. NowCut(p) BY <1>10, <2>4, <2>7, <3>1, <3>2
    <3> QED BY <2>1, <3>3 DEF p
  <2>8. CASE p # v /\ x \notin S
    <3>1. CutOff(x) BY <1>10, <2>8
    <3>2. CutOff(p) \/ dist[x] > dist[p] + pre[x].weight
      BY <1>1, <3>1 DEF RunInv, CutOffWaits, p
    <3>3. CASE CutOff(p)
      <4>1. NowCut(p) BY <1>10, <2>4, <2>8, <3>3
      <4> QED BY <2>1, <4>1 DEF p
    <3>4. CASE dist[x] > dist[p] + pre[x].weight
      <4>1. dist[x] > dist'[p] + pre[x].weight BY <2>4, <2>5, <3>4
      <4> QED BY <2>1, <4>1 DEF p
    <3> QED BY <3>2, <3>3, <3>4
  <2> QED BY <2>6, <2>7, <2>8
<1>19. ArcsWait'
  <2> SUFFICES ASSUME NEW f \in g, f.from \in Reached', Improvable(f)'
               PROVE  inQueue'[f.from] \/ NowCut(f.from) \/ f \in todo'
    BY <1>3 DEF ArcsWait, CutOff
  <2>1. f \in Arc BY <1>1 DEF TypeOK
  <2>2. f.from \in Node /\ f.to \in Node /\ f.weight \in Int BY <2>1 DEF Arc
  <2>3. CASE f.from = v BY <1>1, <1>2, <2>3
  <2>4. CASE f.from # v /\ f.from \in S BY <1>10, <2>2, <2>4
  <2>5. CASE f.from # v /\ f.from \notin S
    <3>1. f.from \in Reached /\ dist'[f.from] = dist[f.from]
      BY <1>2, <1>7, <2>2, <2>5
    <3>2. dist[f.from] \in Int BY <1>1, <2>2, <3>1 DEF TypeOK, Reached
    <3>3. f # e
      <4>1. ~Improvable(e)' BY <1>1, <1>6 DEF Improvable
      <4> QED BY <4>1 DEF Improvable
    <3>4. Improvable(f)
      <4> SUFFICES ASSUME dist[f.to] # Unreached
                   PROVE  dist[f.to] > dist[f.from] + f.weight
        BY DEF Improvable
      <4>1. dist[f.to] \in Int BY <1>1, <2>2 DEF TypeOK
      <4>2. dist'[f.to] \in Int /\ dist'[f.to] <= dist[f.to]
        BY <1>1, <1>2, <1>6, <2>2, <4>1
      <4>3. dist'[f.to] > dist'[f.from] + f.weight
        BY <4>2, SourceAssumption DEF Improvable
      <4> QED BY <2>2, <3>1, <3>2, <4>1, <4>2, <4>3
    <3>5. inQueue[f.from] \/ CutOff(f.from) \/ f \in todo
      BY <1>1, <3>1, <3>4 DEF RunInv, ArcsWait
    <3> QED BY <1>2, <1>3, <1>10, <2>2, <2>5, <3>3, <3>5
  <2> QED BY <2>3, <2>4, <2>5
<1>20. LabelsAreFeasible' /\ CycleIsCertified'
  BY <1>3 DEF LabelsAreFeasible, CycleIsCertified
<1>21. g' \in Graphs BY <1>1, <1>3
<1> QED BY <1>11, <1>12, <1>13, <1>14, <1>15, <1>16, <1>17, <1>18, <1>19, <1>20, <1>21
        DEF IInv, RunInv

\* Every step keeps the invariant.
LEMMA NextIInv == IInv /\ [Next]_vars => IInv'
<1> SUFFICES ASSUME IInv, [Next]_vars PROVE IInv'
  OBVIOUS
<1>1. CASE Pop BY <1>1, PopStep
<1>2. CASE Scan BY <1>2, PassStep, DetectStep, RelaxStep DEF Scan
<1>3. CASE GiveUp BY <1>3, GiveUpStep
<1>4. CASE UNCHANGED vars
  <2>1. \A x : InTree(x)' <=> InTree(x) BY <1>4 DEF vars, InTree
  <2>2. Reached' = Reached BY <1>4 DEF vars, Reached
  <2>3. \A x : CutOff(x)' <=> CutOff(x) BY <1>4, <2>2 DEF vars, CutOff
  <2>4. \A e : Improvable(e)' <=> Improvable(e) BY <1>4 DEF vars, Improvable
  <2>5. Pred' = Pred BY <1>4 DEF vars, Pred
  <2>6. TypeOK' /\ g' \in Graphs /\ TreeIsForest' /\ LabelsAreFeasible'
    BY <1>4, <2>2 DEF vars, IInv, TypeOK, TreeIsForest, LabelsAreFeasible
  <2>7. pc' = "run" => LabelsAreJustified' /\ ReachedByPre' /\ Acyclic(Pred)'
    BY <1>4, <2>2, <2>5
    DEF vars, IInv, RunInv, LabelsAreJustified, ReachedByPre, Acyclic
  <2>8. pc' = "run" => Rooted' /\ QueueIsSound'
    BY <1>4, <2>1, <2>2 DEF vars, IInv, RunInv, Rooted, QueueIsSound, InTree
  <2>9. pc' = "run" => CutOffWaits' /\ ArcsWait'
    BY <1>4, <2>2, <2>3, <2>4
    DEF vars, IInv, RunInv, CutOffWaits, ArcsWait, CutOff
  <2>10. CycleIsCertified' BY <1>4, <2>2 DEF vars, IInv, CycleIsCertified
  <2> QED BY <2>6, <2>7, <2>8, <2>9, <2>10 DEF IInv, RunInv
<1> QED BY <1>1, <1>2, <1>3, <1>4 DEF Next

LEMMA Invariance == Spec => []IInv
BY InitIInv, NextIInv, PTL DEF Spec

-----------------------------------------------------------------------------
\* On every graph the state of the finder is well typed, and a node it scans
\* or queues has a label.
THEOREM TypeCorrect == Spec => []TypeOK
<1>1. IInv => TypeOK BY DEF IInv
<1> QED BY <1>1, Invariance, PTL

\* The tree never closes a cycle: removeNodeInQueue and inSubTree end.
THEOREM Forest == Spec => []TreeIsForest
<1>1. IInv => TreeIsForest BY DEF IInv
<1> QED BY <1>1, Invariance, PTL

\* A label is never below what its predecessor arc justifies.
THEOREM Justified == Spec => []LabelsAreJustified
<1>1. IInv => LabelsAreJustified BY DEF IInv, RunInv, LabelsAreJustified
<1> QED BY <1>1, Invariance, PTL

\* Cutting nodes off the tree and off the queue forgets no arc.
THEOREM NothingForgotten == Spec => []NoArcIsForgotten
<1>1. IInv => NoArcIsForgotten
  <2> SUFFICES ASSUME IInv, pc = "run", todo = {} PROVE NoArcIsForgotten
    BY DEF NoArcIsForgotten
  <2>1. TypeOK /\ RunInv BY DEF IInv
  <2>2. \A e \in g : e.from \in Reached /\ Improvable(e) =>
          inQueue[e.from] \/ CutOff(e.from)
    BY <2>1 DEF RunInv, ArcsWait
  <2>3. ASSUME NEW x \in Node, CutOff(x)
        PROVE  inQueue[pre[x].from] \/ CutOff(pre[x].from)
    <3>1. pre[x] # NoArc /\ pre[x].to = x
      BY <2>1, <2>3 DEF RunInv, ReachedByPre, CutOff
    <3>2. pre[x] \in g /\ pre[x].from \in Reached
      BY <2>1, <3>1 DEF TypeOK, RunInv, LabelsAreJustified
    <3>3. CutOff(pre[x].from) \/ Improvable(pre[x])
      BY <2>1, <2>3, <3>1 DEF RunInv, CutOffWaits, Improvable
    <3> QED BY <2>2, <3>2, <3>3
  <2> QED BY <2>2, <2>3 DEF NoArcIsForgotten, Improvable
<1> QED BY <1>1, Invariance, PTL

\* A false answer is right, for every graph: the labels it leaves are a
\* certificate that what node 0 reaches has no negative cycle.
THEOREM FalseIsCertified == Spec => []LabelsAreFeasible
<1>1. IInv => LabelsAreFeasible BY DEF IInv
<1> QED BY <1>1, Invariance, PTL

\* A true answer is right, for every graph: the predecessor arcs lead back to
\* _node_in_cycle, and the way round is negative.
THEOREM TrueIsCertified == Spec => []CycleIsCertified
<1>1. IInv => CycleIsCertified BY DEF IInv
<1> QED BY <1>1, Invariance, PTL

-----------------------------------------------------------------------------
(***************************************************************************)
(* What the certificates certify.                                          *)
(***************************************************************************)
\* A false answer is right: the labels are potentials of what is reached.
LEMMA FeasibleLabelsLeaveNoCycle ==
  ASSUME TypeOK, g \in Graphs, LabelsAreFeasible
  PROVE  NoneReachable
<1> SUFFICES ASSUME pc = "false"
             PROVE  LET seen == {e \in g : e.from \in Reached}
                    IN  NoNegativeCycle(Node, seen, [e \in seen |-> e.weight])
  BY DEF NoneReachable
<1> DEFINE seen == {e \in g : e.from \in Reached}
           cost == [e \in seen |-> e.weight]
           p == [x \in Node |-> IF x \in Reached THEN dist[x] ELSE 0]
<1>1. \A e \in g : e.from \in Node /\ e.to \in Node /\ e.weight \in Int
  BY DEF TypeOK, Arc
<1>2. \A x \in Reached : x \in Node /\ dist[x] \in Int BY DEF Reached, TypeOK
<1>3. IsFiniteSet(Node) /\ Node # {} BY NodeAssumption, SourceAssumption
<1>4. IsFiniteSet(seen)
  <2>1. IsFiniteSet(g) BY GraphsAssumption
  <2> QED BY <2>1, FS_Subset
<1>5. IsGraph(Node, seen) BY <1>1 DEF IsGraph
<1>6. cost \in [seen -> Int] BY <1>1
<1>7. p \in [Node -> Int] BY <1>2
<1>8. IsPotential(seen, cost, p)
  <2> SUFFICES ASSUME NEW e \in seen PROVE p[e.to] <= p[e.from] + cost[e]
    BY DEF IsPotential
  <2>1. e.from \in Reached /\ e.to \in Reached /\ dist[e.to] <= dist[e.from] + e.weight
    BY DEF LabelsAreFeasible
  <2> QED BY <1>2, <2>1
<1> HIDE DEF seen, cost, p
<1>9. NoNegativeCycle(Node, seen, cost)
  BY <1>3, <1>4, <1>5, <1>6, <1>7, <1>8, PotentialsGiveNoNegativeCycle
<1> QED BY <1>9 DEF seen, cost

\* A false answer is right for what node 0 reaches: no cycle there is negative.
THEOREM FalseIsRight == Spec => []NoneReachable
<1>1. IInv => NoneReachable BY FeasibleLabelsLeaveNoCycle DEF IInv
<1> QED BY <1>1, Invariance, PTL

\* The way back from _node_in_cycle, step by step: it stays in the subtree, and
\* what it has cost is less than what the labels fell by.
LEMMA WayBack ==
  ASSUME TypeOK, CycleIsCertified, pc = "true"
  PROVE  \E W :
           /\ LET lap == {k \in 1 .. Cardinality(Node) :
                            /\ W[k][1] = nodeInCycle
                            /\ \A i \in 1 .. k - 1 : W[i][1] # nodeInCycle}
              IN  GetNegCycle = {W[k][2] : k \in lap}
           /\ W[0] = <<nodeInCycle, 0>>
           /\ \A k \in 0 .. Cardinality(Node) :
                W[k] \in Subtree(Tp, nodeInCycle) \X Int
           /\ \A k \in 1 .. Cardinality(Node) :
                W[k] = <<pre[W[k - 1][1]].from, W[k - 1][2] + pre[W[k - 1][1]].weight>>
<1> DEFINE n == Cardinality(Node)
           S == Subtree(Tp, nodeInCycle)
           V == S \X Int
           On(p) == <<pre[p[1]].from, p[2] + pre[p[1]].weight>>
           F == [a \in (1 .. n) \X V |-> On(a[2])]
           b == <<nodeInCycle, 0>>
           W == CHOOSE h : h = [k \in 0 .. n |-> IF k = 0 THEN b ELSE On(h[k - 1])]
<1>1. n \in Nat BY NodeAssumption, FS_CardinalityType
<1>2. b \in V BY DEF Subtree
<1>3. \A p \in V : On(p) \in V
  <2> SUFFICES ASSUME NEW x \in S, NEW w \in Int
               PROVE  pre[x].from \in S /\ w + pre[x].weight \in Int
    OBVIOUS
  <2>1. pre[x] \in InArcs(g, x) /\ pre[x].from \in S BY DEF CycleIsCertified
  <2>2. pre[x].weight \in Int BY <2>1 DEF InArcs, TypeOK, Arc
  <2> QED BY <2>1, <2>2
<1>4. /\ F \in [(1 .. n) \X V -> V]
      /\ \A k \in 1 .. n, p \in V : F[<<k, p>>] = On(p)
  <2> HIDE DEF V, On, n
  <2> QED BY <1>3
<1>5. PICK f \in [0 .. n -> V] : Iterated(f, b, F, n)
  <2> HIDE DEF V, b, F, n, W, On
  <2> QED BY <1>1, <1>2, <1>4, Iterates
<1>6. f = [k \in 0 .. n |-> IF k = 0 THEN b ELSE On(f[k - 1])]
  <2> HIDE DEF V, b, On, n, F
  <2>1. ASSUME NEW k \in 0 .. n, k # 0 PROVE f[k] = On(f[k - 1])
    <3>1. k \in 1 .. n /\ k - 1 \in 0 .. n BY <1>1, <2>1
    <3>2. f[k] = F[<<k, f[k - 1]>>] BY <1>5, <3>1 DEF Iterated
    <3> QED BY <1>4, <1>5, <3>1, <3>2
  <2> QED BY <1>1, <1>5, <2>1 DEF Iterated
<1>7. W = [k \in 0 .. n |-> IF k = 0 THEN b ELSE On(W[k - 1])]
  <2> HIDE DEF b, On, n
  <2> QED BY <1>6
<1>8. LET lap == {k \in 1 .. n : /\ W[k][1] = nodeInCycle
                                 /\ \A i \in 1 .. k - 1 : W[i][1] # nodeInCycle}
      IN  GetNegCycle = {W[k][2] : k \in lap}
  BY DEF GetNegCycle
<1> HIDE DEF W
<1>9. W[0] = b /\ \A k \in 1 .. n : k - 1 \in 0 .. n /\ W[k] = On(W[k - 1])
  <2> HIDE DEF b, On, n
  <2> QED BY <1>1, <1>7
<1>10. \A k \in 0 .. n : W[k] \in V
  <2> DEFINE Z == {k \in Nat : k \in 0 .. n => W[k] \in V}
  <2>1. 0 \in Z BY <1>2, <1>9
  <2>2. ASSUME NEW k \in Nat, k \in Z PROVE k + 1 \in Z
    <3>1. CASE k + 1 \in 0 .. n
      <4> HIDE DEF n, V, On
      <4>1. k \in 0 .. n /\ k + 1 \in 1 .. n /\ (k + 1) - 1 = k BY <1>1, <3>1
      <4>2. W[k] \in V BY <2>2, <4>1
      <4>3. W[k + 1] = On(W[k]) BY <1>9, <4>1
      <4> QED BY <1>3, <4>2, <4>3
    <3> QED BY <3>1
  <2> HIDE DEF Z
  <2>3. Nat \subseteq Z BY <2>1, <2>2, AllNaturals
  <2> QED BY <2>3 DEF Z
<1> QED BY <1>8, <1>9, <1>10

\* A true answer is right.  On the way back some node is met twice; what is
\* met from there on leads round, and so _node_in_cycle is among it.
LEMMA CertifiedCycleIsNegative ==
  ASSUME TypeOK, CycleIsCertified
  PROVE  CycleIsNegative
<1> SUFFICES ASSUME pc = "true"
             PROVE  GetNegCycle # {} /\ \A w \in GetNegCycle : w < 0
  BY DEF CycleIsNegative
<1> DEFINE n == Cardinality(Node)
           c == nodeInCycle
           S == Subtree(Tp, c)
<1>1. n \in Nat /\ IsFiniteSet(Node) BY NodeAssumption, FS_CardinalityType
<1>2. PICK W :
        /\ LET lap == {k \in 1 .. n : W[k][1] = c /\ \A i \in 1 .. k - 1 : W[i][1] # c}
           IN  GetNegCycle = {W[k][2] : k \in lap}
        /\ W[0] = <<c, 0>>
        /\ \A k \in 0 .. n : W[k] \in S \X Int
        /\ \A k \in 1 .. n :
             W[k] = <<pre[W[k - 1][1]].from, W[k - 1][2] + pre[W[k - 1][1]].weight>>
  BY WayBack
<1>3. /\ \A x \in S : /\ pre[x].from \in S
                      /\ x \in Node /\ dist[x] \in Int /\ pre[x].weight \in Int
                      /\ dist[x] >= dist[pre[x].from] + pre[x].weight
      /\ c \in S /\ dist[c] > dist[pre[c].from] + pre[c].weight
      /\ \A Y \in SUBSET S : Y # {} /\ (\A x \in Y : pre[x].from \in Y) => c \in Y
  <2>1. c \in S BY DEF Subtree
  <2>2. \A x \in S : /\ pre[x] \in g /\ pre[x].from \in S
                     /\ x \in Reached
                     /\ dist[x] >= dist[pre[x].from] + pre[x].weight
    BY DEF CycleIsCertified, InArcs
  <2>3. \A x \in Reached : x \in Node /\ dist[x] \in Int BY DEF Reached, TypeOK
  <2>4. \A e \in g : e.weight \in Int BY DEF TypeOK, Arc
  <2>5. /\ dist[c] > dist[pre[c].from] + pre[c].weight
        /\ \A Y \in SUBSET S : Y # {} /\ (\A x \in Y : pre[x].from \in Y) => c \in Y
    BY DEF CycleIsCertified
  <2> HIDE DEF S, c
  <2> QED BY <2>1, <2>2, <2>3, <2>4, <2>5
<1> DEFINE lap == {k \in 1 .. n : W[k][1] = c /\ \A i \in 1 .. k - 1 : W[i][1] # c}
<1>4. GetNegCycle = {W[k][2] : k \in lap} BY <1>2
<1> HIDE DEF n, c, S
<1>5. \A k \in 0 .. n : W[k][1] \in S /\ W[k][2] \in Int BY <1>2
<1>6. \A k \in 1 .. n : /\ k - 1 \in 0 .. n
                        /\ W[k][1] = pre[W[k - 1][1]].from
                        /\ W[k][2] = W[k - 1][2] + pre[W[k - 1][1]].weight
  BY <1>1, <1>2
\* What the way has cost.
<1>7. \A k \in 1 .. n : W[k][2] + dist[W[k][1]] < dist[c]
  <2> DEFINE Z == {k \in Nat : k + 1 \in 1 .. n =>
                                 W[k + 1][2] + dist[W[k + 1][1]] < dist[c]}
  <2>1. 0 \in Z
    <3> SUFFICES ASSUME 1 \in 1 .. n PROVE W[1][2] + dist[W[1][1]] < dist[c]
      OBVIOUS
    <3>1. W[0][1] = c /\ W[0][2] = 0 BY <1>2
    <3>2. W[1][1] = pre[c].from /\ W[1][2] = 0 + pre[c].weight
      <4>1. 1 - 1 = 0 OBVIOUS
      <4> QED BY <1>6, <3>1, <4>1
    <3>3. /\ dist[c] \in Int /\ dist[pre[c].from] \in Int /\ pre[c].weight \in Int
          /\ dist[c] > dist[pre[c].from] + pre[c].weight
      BY <1>3
    <3> QED BY <3>2, <3>3
  <2>2. ASSUME NEW k \in Nat, k \in Z PROVE k + 1 \in Z
    <3> SUFFICES ASSUME (k + 1) + 1 \in 1 .. n
                 PROVE  W[(k + 1) + 1][2] + dist[W[(k + 1) + 1][1]] < dist[c]
      OBVIOUS
    <3>1. /\ k + 1 \in 1 .. n /\ k + 1 \in 0 .. n /\ ((k + 1) + 1) - 1 = k + 1
      BY <1>1
    <3>2. W[k + 1][2] + dist[W[k + 1][1]] < dist[c] BY <2>2, <3>1
    <3> DEFINE x == W[k + 1][1]
    <3>3. /\ W[(k + 1) + 1][1] = pre[x].from
          /\ W[(k + 1) + 1][2] = W[k + 1][2] + pre[x].weight
      BY <1>6, <3>1
    <3>4. x \in S /\ W[k + 1][2] \in Int BY <1>5, <3>1
    <3>5. /\ dist[x] \in Int /\ dist[pre[x].from] \in Int /\ pre[x].weight \in Int
          /\ dist[x] >= dist[pre[x].from] + pre[x].weight /\ dist[c] \in Int
      BY <1>3, <3>4
    <3> QED BY <3>2, <3>3, <3>4, <3>5
  <2> HIDE DEF Z
  <2>3. Nat \subseteq Z BY <2>1, <2>2, AllNaturals
  <2> SUFFICES ASSUME NEW k \in 1 .. n PROVE W[k][2] + dist[W[k][1]] < dist[c]
    OBVIOUS
  <2>4. k - 1 \in Nat /\ (k - 1) + 1 = k BY <1>1
  <2>5. k - 1 \in Z BY <2>3, <2>4
  <2> QED BY <2>4, <2>5 DEF Z
<1>8. \A w \in GetNegCycle : w < 0
  <2> SUFFICES ASSUME NEW k \in lap PROVE W[k][2] < 0
    BY <1>4
  <2>1. k \in 1 .. n /\ k \in 0 .. n /\ W[k][1] = c BY <1>1
  <2>2. W[k][2] \in Int /\ dist[c] \in Int BY <1>3, <1>5, <2>1
  <2>3. W[k][2] + dist[c] < dist[c] BY <1>7, <2>1
  <2> QED BY <2>2, <2>3
\* The way comes back.
<1>9. \E k \in 1 .. n : W[k][1] = c
  <2> SUFFICES ASSUME \A k \in 1 .. n : W[k][1] # c PROVE FALSE
    OBVIOUS
  <2> DEFINE at == [k \in 1 .. n |-> W[k][1]]
             T == Node \ {c}
  <2>1. at \in [1 .. n -> T] BY <1>1, <1>3, <1>5
  <2>2. IsFiniteSet(1 .. n) /\ Cardinality(1 .. n) = n /\ n # 0
    <3>1. c \in Node BY <1>3
    <3>2. n # 0 BY <1>1, <3>1, FS_EmptySet DEF n
    <3>3. IsFiniteSet(1 .. n) /\ Cardinality(1 .. n) = IF 1 > n THEN 0 ELSE n - 1 + 1
      BY <1>1, FS_Interval
    <3> QED BY <1>1, <3>2, <3>3
  <2>3. IsFiniteSet(T) /\ Cardinality(T) = n - 1
    <3>1. c \in Node BY <1>3
    <3> QED BY <1>1, <3>1, FS_RemoveElement DEF n
  <2> HIDE DEF at, T
  <2>4. Cardinality(T) < Cardinality(1 .. n) BY <1>1, <2>2, <2>3
  <2>5. PICK x \in 1 .. n, y \in 1 .. n : x # y /\ at[x] = at[y]
    BY <2>1, <2>2, <2>3, <2>4, FS_PigeonHole
  <2>6. ASSUME NEW i \in 1 .. n, NEW j \in 1 .. n, i < j, W[i][1] = W[j][1] PROVE FALSE
    <3> DEFINE Y == {W[k][1] : k \in i .. j - 1}
    <3>1. \A k \in i .. j - 1 : k \in 0 .. n /\ k \in 1 .. n /\ k + 1 \in 1 .. n /\ (k + 1) - 1 = k
      BY <1>1, <2>6
    <3>2. Y \in SUBSET S BY <1>5, <3>1
    <3>3. W[i][1] \in Y BY <2>6
    <3>4. ASSUME NEW k \in i .. j - 1 PROVE pre[W[k][1]].from \in Y
      <4>1. pre[W[k][1]].from = W[k + 1][1] BY <1>6, <3>1
      <4>2. CASE k + 1 \in i .. j - 1 BY <4>1, <4>2
      <4>3. CASE k + 1 \notin i .. j - 1
        <5>1. k + 1 = j BY <2>6, <4>3
        <5> QED BY <2>6, <3>3, <4>1, <5>1
      <4> QED BY <4>2, <4>3
    <3>5. c \in Y
      <4>1. Y # {} /\ \A z \in Y : pre[z].from \in Y BY <3>3, <3>4
      <4> HIDE DEF Y
      <4> QED BY <1>3, <3>2, <4>1
    <3> QED BY <3>1, <3>5
  <2>7. W[x][1] = W[y][1] BY <2>5 DEF at
  <2> QED BY <1>1, <2>5, <2>6, <2>7
<1>10. lap # {}
  <2> DEFINE Z == {k \in 1 .. n : W[k][1] = c}
  <2>1. Z # {} /\ Z \in SUBSET Nat BY <1>9
  <2> HIDE DEF Z
  <2>2. PICK k \in Z : \A i \in Z : k <= i BY <2>1, LeastNatural
  <2>3. k \in 1 .. n /\ W[k][1] = c BY <2>2 DEF Z
  <2>4. ASSUME NEW i \in 1 .. k - 1 PROVE W[i][1] # c
    <3>1. i \in 1 .. n /\ ~(k <= i) BY <1>1, <2>3
    <3> QED BY <2>2, <3>1 DEF Z
  <2> QED BY <2>3, <2>4
<1> HIDE DEF lap
<1> QED BY <1>4, <1>8, <1>10

\* A true answer is right: getNegCycle finds its way back, along arcs of
\* negative total weight.
THEOREM TrueIsRight == Spec => []CycleIsNegative
<1>1. IInv => CycleIsNegative BY CertifiedCycleIsNegative DEF IInv
<1> QED BY <1>1, Invariance, PTL
=============================================================================
