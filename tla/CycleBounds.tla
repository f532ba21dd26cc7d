----------------------------- MODULE CycleBounds -----------------------------
(***************************************************************************)
(* What the results of the solvers of LBTB are measured against, whatever  *)
(* the solver: the costs of walks in a graph and the cycles they reveal.   *)
(*                                                                         *)
(* A graph is a set g of arcs between the nodes N, and cost a function     *)
(* from its arcs to integers.  Walks of more and more arcs are costed, as  *)
(* Bellman and Ford do.  A walk with as many arcs as there are nodes has   *)
(* met a node twice; if such walks are still the cheapest, it was worth    *)
(* going round, and only then.                                             *)
(***************************************************************************)
EXTENDS Integers, FiniteSets

Least(S) == CHOOSE x \in S : \A y \in S : x <= y

\* W has the least cost of a walk to each node, as a set of pairs; this is
\* what it becomes when walks may be one arc longer.
Extended(N, g, cost, W) ==
  LET Into(v) == {p[2] : p \in {q \in W : q[1] = v}} \cup
                 UNION {{p[2] + cost[e] : p \in {q \in W : q[1] = e.from}} :
                          e \in {f \in g : f.to = v}}
  IN  {<<v, Least(Into(v))>> : v \in N}

\* The least costs of walks of at most k arcs that begin anywhere.
WalkCosts(N, g, cost) ==
  LET Walks[k \in 0 .. Cardinality(N)] ==
        IF k = 0 THEN N \X {0}
        ELSE LET W == Walks[k - 1] IN Extended(N, g, cost, W)
  IN  Walks

\* No cycle of g has a negative total cost.
NoNegativeCycle(N, g, cost) ==
  LET Walks == WalkCosts(N, g, cost)
      n == Cardinality(N)
  IN  Walks[n] = Walks[n - 1]

-----------------------------------------------------------------------------
(***************************************************************************)
(* Extended rationals, for what the code computes in double: <<n, d>> is   *)
(* n/d with d > 0, and <<1, 0>> is numeric_limits<double>::infinity().     *)
(***************************************************************************)
Infinity == <<1, 0>>

Ratio == {Infinity} \cup (Int \X (Nat \ {0}))

Less(p, q) == p[1] * q[2] < q[1] * p[2]
Same(p, q) == p[1] * q[2] = q[1] * p[2]

-----------------------------------------------------------------------------
(***************************************************************************)
(* Cycle ratios: total weight over total delay.                            *)
(***************************************************************************)
ReducedCost(g, r) == [e \in g |-> r[2] * e.weight - r[1] * e.delay]

\* r is at most the ratio of every cycle of g whose delay is positive,
\* provided no cycle has a delay below zero.
AtMostEveryCycle(N, g, r) == NoNegativeCycle(N, g, ReducedCost(g, r))

\* Charged one for every arc, a cycle of cost zero is a negative one, and n
\* times a positive cost still outweighs the charge.
Charged(N, g, cost) == [e \in g |-> (Cardinality(N) + 1) * cost[e] - 1]

\* Some cycle of g has a ratio of at most r, provided no cycle has a delay
\* below zero.
SomeCycleAtMost(N, g, r) ==
  ~NoNegativeCycle(N, g, Charged(N, g, ReducedCost(g, r)))

\* Some cycle of g has a positive delay.
HasPositiveCycle(N, g) == ~NoNegativeCycle(N, g, [e \in g |-> -e.delay])

\* Every cycle of g has a positive delay.
EveryCyclePositive(N, g) ==
  NoNegativeCycle(N, g, Charged(N, g, [e \in g |-> e.delay]))
=============================================================================
