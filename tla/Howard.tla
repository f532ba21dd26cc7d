------------------------------- MODULE Howard -------------------------------
(***************************************************************************)
(* Howard's cycle ratio solver, LBTB/src/howard.cpp.                       *)
(*                                                                         *)
(* A policy _su gives every vertex one of its out-arcs; following it from  *)
(* anywhere ends in a cycle.  A round looks for the policy cycle with the  *)
(* least ratio, makes it the new _r, recomputes the labels _dist of the    *)
(* vertices whose policy path leads to it, and then relaxes every arc once *)
(* in place.  Vertices whose path leads to another cycle keep labels that  *)
(* belong to an older, larger ratio.                                       *)
(*                                                                         *)
(* One action per loop of a round.                                         *)
(***************************************************************************)
EXTENDS ArcGraph, Sequences, SequencesExt, FiniteSetsExt

CONSTANTS Instances,   \* [nodes, order, r0]: vertices, arcs in edge order, start
          NoArc,       \* a default-constructed boost edge descriptor
          Eps          \* the tolerance _eps

ASSUME InstancesAssumption ==
  \A i \in Instances :
    /\ i.nodes \subseteq Node /\ i.nodes \subseteq Nat /\ i.nodes # {}
    /\ i.order \in Seq(Arc)
    /\ \A k \in DOMAIN i.order : {i.order[k].from, i.order[k].to} \subseteq i.nodes
    /\ i.r0 \in Int \X (Nat \ {0})

\* findRatio divides by the delay of a cycle: run() needs graphs on which it
\* is positive.  Those of getMcrGraph are such graphs.
ASSUME CyclesAssumption ==
  \A i \in Instances : EveryCyclePositive(i.nodes, ToSet(i.order))

ASSUME EpsAssumption == Eps \in Nat \X (Nat \ {0}) /\ NoArc \notin Arc

VARIABLES h,       \* _g with its edge order, and what the constructor was given
          r,       \* _r
          su,      \* _su
          dist,    \* _dist
          handle,  \* the local handle of run(), NoNode for null_vertex
          pc       \* where run() is

vars == <<h, r, su, dist, handle, pc>>

Arcs == ToSet(h.order)

-----------------------------------------------------------------------------
(***************************************************************************)
(* Arithmetic on fractions in lowest terms; infinity absorbs.              *)
(***************************************************************************)
Divisors(n, d) == {k \in 1 .. d : n % k = 0 /\ d % k = 0}

Lowest(n, d) == LET k == Max(Divisors(n, d)) IN <<n \div k, d \div k>>

Plus(p, q) ==
  IF Infinity \in {p, q} THEN Infinity
  ELSE Lowest(p[1] * q[2] + q[1] * p[2], p[2] * q[2])

\* weight - ratio * delay, of an arc or of the totals of a path.
Reduced(weight, delay, ratio) ==
  Lowest(ratio[2] * weight - ratio[1] * delay, ratio[2])

-----------------------------------------------------------------------------
(***************************************************************************)
(* The policy.                                                             *)
(***************************************************************************)
\* The vertices a policy leads to from v, with the weight and the delay of
\* the way to each; long enough to come back to a vertex.
Path(policy, v) ==
  LET Stop[k \in 0 .. Cardinality(h.nodes)] ==
        IF k = 0 THEN [at |-> v, weight |-> 0, delay |-> 0]
        ELSE LET p == Stop[k - 1]
                 e == policy[p.at]
             IN  [at |-> e.to, weight |-> p.weight + e.weight,
                  delay |-> p.delay + e.delay]
  IN  Stop

\* The first stop of a path, of those numbered in K, that is at a vertex of X,
\* as a set: empty if there is none.
FirstAt(path, K, X) ==
  LET there == {k \in K : path[k].at \in X}
  IN  {path[k] : k \in {j \in there : \A i \in there : j <= i}}

FirstIn(path, X) == FirstAt(path, 0 .. Cardinality(h.nodes), X)

\* Once round the policy cycle of v, if v is on one.
Lap(policy, v) == FirstAt(Path(policy, v), 1 .. Cardinality(h.nodes), {v})

\* The policy cycle the walk from v runs into: the vertex at which it is met,
\* and sum / len.
Met(policy, v) ==
  LET loop == {x \in h.nodes : Lap(policy, x) # {}}
      at == (CHOOSE p \in FirstIn(Path(policy, v), loop) : TRUE).at
      p == CHOOSE p \in Lap(policy, at) : TRUE
  IN  [at |-> at, ratio |-> Lowest(p.weight, p.delay)]

-----------------------------------------------------------------------------
Init ==
  /\ h \in Instances
  /\ r = h.r0
  /\ su = [v \in h.nodes |-> NoArc]
  /\ dist = [v \in h.nodes |-> Infinity]
  /\ handle = NoNode
  /\ pc = "init"

\* Slip: changed says whether the last arc was relaxed.
RelaxedOverwrites(s, e, eps) ==
  LET better == Plus(s.dist[e.to], Reduced(e.weight, e.delay, r))
  IN  IF Less(Plus(better, eps), s.dist[e.from])
      THEN [dist |-> [s.dist EXCEPT ![e.from] = better],
            su |-> [s.su EXCEPT ![e.from] = e], changed |-> TRUE]
      ELSE [s EXCEPT !.changed = FALSE]

\* Slip: the tolerance is forgotten, and equal is as good as better.
RelaxedWeakly(s, e, eps) ==
  LET better == Plus(s.dist[e.to], Reduced(e.weight, e.delay, r))
  IN  IF ~Less(s.dist[e.from], better)
      THEN [dist |-> [s.dist EXCEPT ![e.from] = better],
            su |-> [s.su EXCEPT ![e.from] = e], changed |-> TRUE]
      ELSE s

\* Relax one arc, by more than the tolerance.
Relaxed(s, e, eps) ==
  LET better == Plus(s.dist[e.to], Reduced(e.weight, e.delay, r))
  IN  IF Less(Plus(better, eps), s.dist[e.from])
      THEN [dist |-> [s.dist EXCEPT ![e.from] = better],
            su |-> [s.su EXCEPT ![e.from] = e], changed |-> TRUE]
      ELSE s

\* Slip: the policy of the arc's target is changed.
CheapestTarget(s, e) ==
  IF Less(Reduced(e.weight, e.delay, r), s.dist[e.to])
  THEN [dist |-> [s.dist EXCEPT ![e.to] = Reduced(e.weight, e.delay, r)],
        su |-> [s.su EXCEPT ![e.to] = e]]
  ELSE s

\* An arc that is cheaper than its source's policy replaces it.
Cheapest(s, e) ==
  IF Less(Reduced(e.weight, e.delay, r), s.dist[e.from])
  THEN [dist |-> [s.dist EXCEPT ![e.from] = Reduced(e.weight, e.delay, r)],
        su |-> [s.su EXCEPT ![e.from] = e]]
  ELSE s

\* The first loop of run(): the cheapest out-arc of every vertex, and its cost.
InitPolicy ==
  /\ pc = "init"
  /\ LET Loop[k \in 0 .. Len(h.order)] ==
           IF k = 0 THEN [dist |-> dist, su |-> su]
           ELSE Cheapest(Loop[k - 1], h.order[k])
         s == Loop[Len(h.order)]
     IN  dist' = s.dist /\ su' = s.su
  /\ pc' = "find"
  /\ UNCHANGED <<h, r, handle>>

\* findRatio: the policy cycle with the least ratio below r; of several with
\* the same ratio the one the walk from the least vertex leads to, entered
\* where that walk enters it.  Following an unassigned policy is undefined.
FindRatio ==
  /\ pc = "find"
  /\ IF \E v \in h.nodes : su[v] = NoArc
     THEN pc' = "undefined" /\ UNCHANGED <<r, handle>>
     ELSE \E met \in {[v \in h.nodes |-> Met(su, v)]} :
          LET best == {v \in h.nodes :
                         /\ Less(met[v].ratio, r)
                         /\ \A w \in h.nodes : ~Less(met[w].ratio, met[v].ratio)}
          IN  IF best = {}
              THEN handle' = NoNode /\ pc' = "improve" /\ UNCHANGED r
              ELSE /\ LET v == Min(best) IN handle' = met[v].at /\ r' = met[v].ratio
                   /\ pc' = "evaluate"
  /\ UNCHANGED <<h, su, dist>>

\* Slip: the labels are left as they are.
EvaluateNothing ==
  /\ pc = "evaluate"
  /\ pc' = "improve"
  /\ UNCHANGED <<h, r, su, dist, handle>>

\* The breadth-first loop backwards from the handle: each vertex whose policy
\* path leads there gets the cost of that path.  The handle itself is met
\* again at the end of its lap, whose cost is zero.
Evaluate ==
  /\ pc = "evaluate"
  /\ dist' = [v \in h.nodes |->
       LET way == FirstIn(Path(su, v), {handle}) IN
         IF way = {} THEN dist[v]
         ELSE LET p == CHOOSE p \in way : TRUE
              IN  Plus(dist[handle], Reduced(p.weight, p.delay, r))]
  /\ pc' = "improve"
  /\ UNCHANGED <<h, r, su, handle>>

\* The last loop of a round: relax every arc once, in place and in edge order.
Improve ==
  /\ pc = "improve"
  /\ LET Loop[k \in 0 .. Len(h.order)] ==
           IF k = 0 THEN [dist |-> dist, su |-> su, changed |-> FALSE]
           ELSE Relaxed(Loop[k - 1], h.order[k], Eps)
         s == Loop[Len(h.order)]
     IN  /\ dist' = s.dist
         /\ su' = s.su
         /\ pc' = IF s.changed THEN "find" ELSE "returned"
  /\ UNCHANGED <<h, r, handle>>

Stopped == pc \in {"returned", "undefined"}

Next == InitPolicy \/ FindRatio \/ Evaluate \/ Improve

Spec == Init /\ [][Next]_vars

\* run() is sequential code: it takes its next step as long as it has one.
\* That is WF_vars(Next), written out: Next is enabled just where it has not stopped.
FairSpec == Spec /\ (<>[]Stopped \/ []<><<Next>>_vars)

-----------------------------------------------------------------------------
(***************************************************************************)
(* Properties.                                                             *)
(***************************************************************************)
\* The policy of a vertex is one of its own out-arcs, and once it is chosen
\* findRatio and the loops that follow it stay within the graph.
TypeOK ==
  /\ r \in Ratio
  /\ su \in [h.nodes -> Arcs \cup {NoArc}]
  /\ \A v \in h.nodes : su[v] # NoArc => su[v].from = v
  /\ dist \in [h.nodes -> Ratio]
  /\ handle \in h.nodes \cup {NoNode}
  /\ pc \in {"init", "find", "evaluate", "improve", "returned", "undefined"}

\* The arcs with the tolerance of the comparison added to their weights.
Tolerant ==
  {[e EXCEPT !.weight = Eps[2] * @ + Eps[1], !.delay = Eps[2] * @] : e \in Arcs}

\* What getRatio() reports is the least ratio of a cycle up to the tolerance
\* per arc, and the start only if no cycle is below it: whatever labels were
\* left from older ratios, a round that relaxes nothing has seen all arcs.
ResultIsMinimum ==
  pc = "returned" =>
    /\ AtMostEveryCycle(h.nodes, Tolerant, r)
    /\ r = h.r0 \/ SomeCycleAtMost(h.nodes, Arcs, r)

\* Once the whole policy leads to the handle, so that every label belongs to
\* r, relaxing the arcs in place, in whatever order they are listed, makes no
\* policy cycle worse than the one just measured.
NoWorseCycle ==
  [][pc = "improve" /\ handle # NoNode
       /\ (\A v \in h.nodes : FirstIn(Path(su, v), {handle}) # {})
     => \A v \in h.nodes : ~Less(r, Met(su', v).ratio)]_vars
=============================================================================
