------------------------- MODULE CuttingPlaneProofs -------------------------
(***************************************************************************)
(* The slacks the oracle works with are those of the linear program.  A    *)
(* negative cycle names rows that cannot all be met: around it the values  *)
(* of the vertices cancel and the slacks add up to what is linear in the   *)
(* point, so that a cut along it keeps every feasible point that is        *)
(* better.  The best point is one the oracle has accepted, although the    *)
(* graph carries the slacks of another point most of the time, and where   *)
(* the finder sees no negative cycle there are potentials, which meet the  *)
(* rows: a negative cycle anywhere would contain a simple one.             *)
(***************************************************************************)
EXTENDS CuttingPlane, CommonProofs

Point == [T : Int, W : Int]

\* A constraint as an arc of slack.
Constraint(x, y, w) == arc(x, y, w, 0)

\* For every delay graph and every point, the slacks update_w gives to the arcs
\* of getEllGraph are what the rows of ellLP leave at that point: the oracle of
\* timing_oracle.hpp and the linear program of LP.cpp state one problem.
THEOREM SlacksAreRows ==
  ASSUME NEW D, IsDelayGraph(D), NEW T0, NEW z \in Point
  PROVE  {Constraint(e.from, e.to, Slack(e, z)) : e \in EllArcs(D, T0)}
           = {Constraint(q.minus, q.plus, RowSlack(q, z)) : q \in EllRows(D)}
<1> DEFINE As(e) == { EllArc(0, e[2], e[1], T0 - D[e].max, D[e].max),
                      EllArc(1, e[2], e[1], T0 - D[e].max, D[e].max),
                      EllArc(2, e[1], e[2], D[e].min, D[e].min) }
           Rs(e) == { EllRow(-1,  0, e[1], e[2], -D[e].max),
                      EllRow(-1, -1, e[1], e[2], -D[e].max),
                      EllRow( 0,  1, e[2], e[1], D[e].min) }
           FA(e) == Constraint(e.from, e.to, Slack(e, z))
           FR(q) == Constraint(q.minus, q.plus, RowSlack(q, z))
           SA(X) == {FA(e) : e \in X}
           SR(X) == {FR(q) : q \in X}
<1>1. ASSUME NEW e \in DOMAIN D
      PROVE  SA(As(e)) = SR(Rs(e))
  <2>1. D[e].max \in Int /\ D[e].min \in Int /\ z.T \in Int /\ z.W \in Int
    BY DEF IsDelayGraph, Delays, Point
  <2>2. ASSUME NEW m, NEW x, NEW y, NEW w, NEW d
        PROVE  /\ EllArc(m, x, y, w, d).from = x /\ EllArc(m, x, y, w, d).to = y
               /\ EllArc(m, x, y, w, d).mode = m /\ EllArc(m, x, y, w, d).delay = d
    BY DEF EllArc
  <2>3. /\ Slack(EllArc(0, e[2], e[1], T0 - D[e].max, D[e].max), z) = z.T - D[e].max
        /\ Slack(EllArc(1, e[2], e[1], T0 - D[e].max, D[e].max), z) = z.T + z.W - D[e].max
        /\ Slack(EllArc(2, e[1], e[2], D[e].min, D[e].min), z) = D[e].min - z.W
    BY <2>2 DEF Slack
  <2>4. /\ FA(EllArc(0, e[2], e[1], T0 - D[e].max, D[e].max))
             = Constraint(e[2], e[1], z.T - D[e].max)
        /\ FA(EllArc(1, e[2], e[1], T0 - D[e].max, D[e].max))
             = Constraint(e[2], e[1], z.T + z.W - D[e].max)
        /\ FA(EllArc(2, e[1], e[2], D[e].min, D[e].min))
             = Constraint(e[1], e[2], D[e].min - z.W)
    BY <2>2, <2>3
  <2>5. /\ RowSlack(EllRow(-1,  0, e[1], e[2], -D[e].max), z) = z.T - D[e].max
        /\ RowSlack(EllRow(-1, -1, e[1], e[2], -D[e].max), z) = z.T + z.W - D[e].max
        /\ RowSlack(EllRow( 0,  1, e[2], e[1], D[e].min), z) = D[e].min - z.W
    BY <2>1 DEF RowSlack, EllRow
  <2>6. ASSUME NEW k, NEW w, NEW x, NEW y, NEW b
        PROVE  EllRow(k, w, x, y, b).plus = x /\ EllRow(k, w, x, y, b).minus = y
    BY DEF EllRow
  <2>7. /\ FR(EllRow(-1,  0, e[1], e[2], -D[e].max))
             = Constraint(e[2], e[1], z.T - D[e].max)
        /\ FR(EllRow(-1, -1, e[1], e[2], -D[e].max))
             = Constraint(e[2], e[1], z.T + z.W - D[e].max)
        /\ FR(EllRow( 0,  1, e[2], e[1], D[e].min))
             = Constraint(e[1], e[2], D[e].min - z.W)
    BY <2>5, <2>6
  <2> HIDE DEF FA, FR
  <2> QED BY <2>4, <2>7
<1>2. /\ EllArcs(D, T0) = UNION {As(e) : e \in DOMAIN D}
      /\ EllRows(D) = UNION {Rs(e) : e \in DOMAIN D}
  BY Zenon DEF EllArcs, EllRows
<1> HIDE DEF As, Rs, FA, FR
<1>3. /\ SA(UNION {As(e) : e \in DOMAIN D}) = UNION {SA(As(e)) : e \in DOMAIN D}
      /\ SR(UNION {Rs(e) : e \in DOMAIN D}) = UNION {SR(Rs(e)) : e \in DOMAIN D}
  OBVIOUS
<1>4. UNION {SA(As(e)) : e \in DOMAIN D} = UNION {SR(Rs(e)) : e \in DOMAIN D}
  BY <1>1
<1>5. SA(EllArcs(D, T0)) = SR(EllRows(D))
  BY <1>2, <1>3, <1>4
<1> QED BY <1>5 DEF FA, FR

-----------------------------------------------------------------------------
(***************************************************************************)
(* Totals along a cycle.                                                   *)
(***************************************************************************)
\* The recursion of Total defines a function, and there is only one such.
LEMMA TotalIsSum ==
  ASSUME NEW n \in Nat, NEW s \in [1 .. n -> Int], NEW f, SumsUp(s, n, f)
  PROVE  Total(s) = f[n]
<1>1. Len(s) = n OBVIOUS
<1> DEFINE Next1(h) == [k \in 0 .. n |-> IF k = 0 THEN 0 ELSE h[k - 1] + s[k]]
           Sum == CHOOSE h : h = Next1(h)
<1>2. Total(s) = Sum[n] BY <1>1 DEF Total
<1>3. f = Next1(f) BY DEF SumsUp
<1>4. Sum = Next1(Sum)
  <2> HIDE DEF Next1
  <2> QED BY <1>3
<1> HIDE DEF Sum
<1>5. Sum[0] = 0 /\ \A k \in 1 .. n : Sum[k] = Sum[k - 1] + s[k]
  <2>1. 0 \in 0 .. n /\ \A k \in 1 .. n : k \in 0 .. n /\ k # 0 OBVIOUS
  <2> QED BY <1>4, <2>1
<1> HIDE DEF Next1
<1> DEFINE S == {k \in 0 .. n : Sum[k] = f[k]}
<1>6. 0 \in S BY <1>5 DEF SumsUp
<1>7. ASSUME NEW k \in 1 .. n, k - 1 \in S PROVE k \in S
  BY <1>5, <1>7 DEF SumsUp
<1> HIDE DEF S
<1>8. 0 .. n \subseteq S BY <1>6, <1>7, AllUpTo
<1> QED BY <1>2, <1>8 DEF S

\* The arcs c, m of them, close a cycle.
IsCycle(G, m, c) ==
  /\ m \in Nat \ {0} /\ c \in [1 .. m -> G]
  /\ \A k \in 1 .. m : c[k].to = c[IF k = m THEN 1 ELSE k + 1].from

\* With potentials for the costs s of its arcs, no cycle has a negative total.
LEMMA AroundTheCycle ==
  ASSUME NEW N, NEW G, IsGraph(N, G), NEW m, NEW c, IsCycle(G, m, c),
         NEW s \in [1 .. m -> Int], NEW q \in [N -> Int],
         \A k \in 1 .. m : q[c[k].to] <= q[c[k].from] + s[k]
  PROVE  Total(s) >= 0
<1>1. m \in Nat /\ 1 \in 1 .. m /\ m \in 1 .. m BY DEF IsCycle
<1>2. PICK f : SumsUp(s, m, f) BY <1>1, SumsExist
<1>3. Total(s) = f[m] BY <1>1, <1>2, TotalIsSum
<1>4. \A k \in 0 .. m : f[k] \in Int BY <1>2 DEF SumsUp
<1>5. \A k \in 1 .. m : q[c[k].from] \in Int /\ q[c[k].to] \in Int BY DEF IsCycle, IsGraph
<1> DEFINE S == {k \in 0 .. m : k # 0 => q[c[k].to] <= q[c[1].from] + f[k]}
<1>6. 0 \in S BY <1>1
<1>7. ASSUME NEW k \in 1 .. m, k - 1 \in S PROVE k \in S
  <2>1. q[c[k].to] <= q[c[k].from] + s[k] /\ f[k] = f[k - 1] + s[k] /\ k - 1 \in 0 .. m
    BY <1>1, <1>2 DEF SumsUp
  <2>2. CASE k = 1
    <3>1. f[k] = s[k] BY <1>1, <1>2, <2>1, <2>2 DEF SumsUp
    <3> QED BY <1>1, <2>1, <2>2, <3>1
  <2>3. CASE k # 1
    <3>1. k - 1 \in 1 .. m /\ k - 1 # m /\ (k - 1) + 1 = k BY <1>1, <2>3
    <3>2. c[k - 1].to = c[k].from BY <3>1 DEF IsCycle
    <3>3. q[c[k].from] <= q[c[1].from] + f[k - 1] BY <1>7, <3>1, <3>2
    <3>4. /\ q[c[k].from] \in Int /\ q[c[k].to] \in Int /\ q[c[1].from] \in Int
          /\ f[k] \in Int /\ f[k - 1] \in Int /\ s[k] \in Int
      BY <1>1, <1>4, <1>5, <2>1
    <3>5. q[c[k].to] <= q[c[1].from] + f[k] BY <2>1, <3>3, <3>4
    <3> QED BY <3>5
  <2> QED BY <2>2, <2>3
<1> HIDE DEF S
<1>8. 0 .. m \subseteq S BY <1>1, <1>6, <1>7, AllUpTo
<1>9. q[c[m].to] <= q[c[1].from] + f[m] BY <1>1, <1>8 DEF S
<1>10. c[m].to = c[1].from BY <1>1 DEF IsCycle
<1>11. q[c[1].from] \in Int /\ f[m] \in Int BY <1>1, <1>4, <1>5
<1> QED BY <1>3, <1>9, <1>10, <1>11

-----------------------------------------------------------------------------
(***************************************************************************)
(* The graph with the slacks of a point, and the linear program.           *)
(***************************************************************************)
IsFiniteDelayGraph(D) == IsDelayGraph(D) /\ IsFiniteSet(DOMAIN D)

\* A finite set has finitely many images.
LEMMA FiniteImage ==
  ASSUME NEW S, IsFiniteSet(S), NEW f
  PROVE  IsFiniteSet({f[x] : x \in S})
<1> DEFINE T == {f[x] : x \in S}
           h == [x \in S |-> f[x]]
<1>1. h \in Surjection(S, T) BY DEF Surjection
<1> HIDE DEF h, T
<1>2. IsFiniteSet(T) BY <1>1, FS_Surjection
<1> QED BY <1>2 DEF T

\* e is f with the slack of z.
Slackened(e, f, z) ==
  /\ e.from = f.from /\ e.to = f.to /\ e.mode = f.mode /\ e.delay = f.delay
  /\ e.weight = Slack(f, z)

LEMMA EllArcsAre ==
  ASSUME NEW D, IsFiniteDelayGraph(D), NEW T0
  PROVE  /\ IsFiniteSet(EllArcs(D, T0))
         /\ \A f \in EllArcs(D, T0) : f.mode \in 0 .. 2 /\ f.delay \in Int
<1> DEFINE As(e) == { EllArc(0, e[2], e[1], T0 - D[e].max, D[e].max),
                      EllArc(1, e[2], e[1], T0 - D[e].max, D[e].max),
                      EllArc(2, e[1], e[2], D[e].min, D[e].min) }
           All == {As(e) : e \in DOMAIN D}
<1>1. EllArcs(D, T0) = UNION All BY Zenon DEF EllArcs
<1>2. IsFiniteSet(EllArcs(D, T0))
  <2>1. IsFiniteSet(DOMAIN D) BY DEF IsFiniteDelayGraph
  <2>2. \A e \in DOMAIN D : IsFiniteSet(As(e))
    <3> SUFFICES ASSUME NEW e \in DOMAIN D PROVE IsFiniteSet(As(e))
      OBVIOUS
    <3> DEFINE x == EllArc(0, e[2], e[1], T0 - D[e].max, D[e].max)
               y == EllArc(1, e[2], e[1], T0 - D[e].max, D[e].max)
               z == EllArc(2, e[1], e[2], D[e].min, D[e].min)
    <3>1. As(e) = (({} \cup {x}) \cup {y}) \cup {z} BY Zenon
    <3> HIDE DEF x, y, z, As
    <3>2. IsFiniteSet({} \cup {x}) BY FS_EmptySet, FS_AddElement
    <3>3. IsFiniteSet(({} \cup {x}) \cup {y}) BY <3>2, FS_AddElement
    <3> QED BY <3>1, <3>3, FS_AddElement
  <2> HIDE DEF As
  <2> DEFINE h == [e \in DOMAIN D |-> As(e)]
  <2>3. IsFiniteSet(All)
    <3>1. All = {h[e] : e \in DOMAIN D} OBVIOUS
    <3> HIDE DEF h, All
    <3> QED BY <2>1, <3>1, FiniteImage
  <2>4. \A S \in All : IsFiniteSet(S) BY <2>2
  <2> HIDE DEF All
  <2> QED BY <1>1, <2>3, <2>4, FS_UNION
<1>3. ASSUME NEW e \in DOMAIN D, NEW f \in As(e) PROVE f.mode \in 0 .. 2 /\ f.delay \in Int
  <2>1. D[e].max \in Int /\ D[e].min \in Int BY DEF IsFiniteDelayGraph, IsDelayGraph, Delays
  <2> QED BY <2>1 DEF EllArc
<1> HIDE DEF As
<1> QED BY <1>1, <1>2, <1>3

\* Weighted changes the weights only.
LEMMA WeightedArcs ==
  ASSUME NEW D, IsFiniteDelayGraph(D), NEW T0, NEW z
  PROVE  /\ \A e \in Weighted(EllArcs(D, T0), z) :
              \E f \in EllArcs(D, T0) : Slackened(e, f, z)
         /\ \A f \in EllArcs(D, T0) :
              \E e \in Weighted(EllArcs(D, T0), z) : Slackened(e, f, z)
         /\ IsFiniteSet(Weighted(EllArcs(D, T0), z))
<1> DEFINE E == EllArcs(D, T0)
           On(f) == [f EXCEPT !.weight = Slack(f, z)]
<1>1. Weighted(E, z) = {On(f) : f \in E} BY DEF Weighted
<1>2. ASSUME NEW f \in E PROVE Slackened(On(f), f, z)
  <2>1. PICK m, x, y, w, d : f = EllArc(m, x, y, w, d) BY DEF EllArcs
  <2> QED BY <2>1 DEF EllArc, Slackened
<1>3. IsFiniteSet(E) BY EllArcsAre
<1> HIDE DEF On, E
<1> DEFINE h == [f \in E |-> On(f)]
<1>4. IsFiniteSet(Weighted(E, z))
  <2>1. Weighted(E, z) = {h[f] : f \in E} BY <1>1
  <2> HIDE DEF h
  <2> QED BY <1>3, <2>1, FiniteImage
<1> QED BY <1>1, <1>2, <1>4 DEF E

LEMMA WeightedVertices ==
  ASSUME NEW D, IsFiniteDelayGraph(D), NEW T0, NEW z
  PROVE  /\ Vertices(Weighted(EllArcs(D, T0), z)) = Vertices(EllArcs(D, T0))
         /\ IsFiniteSet(Vertices(EllArcs(D, T0)))
         /\ IsGraph(Vertices(EllArcs(D, T0)), Weighted(EllArcs(D, T0), z))
<1> DEFINE E == EllArcs(D, T0)
           G == Weighted(E, z)
           Froms == {e.from : e \in E}
           Tos == {e.to : e \in E}
<1>1. {e.from : e \in G} = Froms /\ {e.to : e \in G} = Tos
  <2>1. /\ \A e \in G : \E f \in E : e.from = f.from /\ e.to = f.to
        /\ \A f \in E : \E e \in G : e.from = f.from /\ e.to = f.to
    BY WeightedArcs DEF Slackened
  <2> HIDE DEF E, G
  <2> QED BY <2>1
<1>2. IsFiniteSet(E) BY EllArcsAre
<1> HIDE DEF E, G
<1> DEFINE from == [e \in E |-> e.from]
           to == [e \in E |-> e.to]
<1>3. IsFiniteSet(Froms) /\ IsFiniteSet(Tos)
  <2>1. Froms = {from[e] : e \in E} /\ Tos = {to[e] : e \in E} OBVIOUS
  <2> HIDE DEF from, to, Froms, Tos
  <2> QED BY <1>2, <2>1, FiniteImage
<1>4. Vertices(G) = Vertices(E) BY <1>1 DEF Vertices
<1>5. IsFiniteSet(Vertices(E))
  <2>1. Vertices(E) = ({Start} \cup Froms) \cup Tos BY DEF Vertices
  <2> HIDE DEF Froms, Tos
  <2>2. IsFiniteSet({Start} \cup Froms) BY <1>3, FS_Singleton, FS_Union
  <2> QED BY <1>3, <2>1, <2>2, FS_Union
<1>6. IsGraph(Vertices(E), G)
  <2>1. Froms \cup Tos \subseteq Vertices(E) BY DEF Vertices
  <2> QED BY <1>1, <2>1 DEF IsGraph
<1> QED BY <1>4, <1>5, <1>6 DEF E, G

\* The slack of an arc does not depend on its weight.
LEMMA SlackOfArc ==
  ASSUME NEW D, IsFiniteDelayGraph(D), NEW T0, NEW z \in Point, NEW p \in Point,
         NEW f \in EllArcs(D, T0), NEW e, Slackened(e, f, z)
  PROVE  Slack(e, p) = Slack(f, p) /\ Slack(f, p) \in Int
<1>1. f.mode \in 0 .. 2 /\ f.delay \in Int BY EllArcsAre
<1>2. e.mode = f.mode /\ e.delay = f.delay BY DEF Slackened
<1>3. p.T \in Int /\ p.W \in Int BY DEF Point
<1>4. f.mode = 0 \/ f.mode = 1 \/ f.mode = 2 BY <1>1
<1> QED BY <1>1, <1>2, <1>3, <1>4 DEF Slack

\* Potentials for the slacks of the arcs of G at p.
Fits(G, p, q) == \A e \in G : q[e.to] <= q[e.from] + Slack(e, p)

\* The rows of the linear program have no negative cycle at p just when the
\* slacks of p have potentials on the graph, whatever its weights.
LEMMA RowsOrPotentials ==
  ASSUME NEW D, IsFiniteDelayGraph(D), NEW T0, NEW z \in Point, NEW p \in Point
  PROVE  LET N == Vertices(EllArcs(D, T0))
             Rows == {arc(q.minus, q.plus, RowSlack(q, p), 0) : q \in EllRows(D)}
         IN  NoNegativeCycle(N, Rows, [e \in Rows |-> e.weight])
               <=> \E q \in [N -> Int] : Fits(Weighted(EllArcs(D, T0), z), p, q)
<1> DEFINE E == EllArcs(D, T0)
           N == Vertices(E)
           G == Weighted(E, z)
           Rows == {arc(q.minus, q.plus, RowSlack(q, p), 0) : q \in EllRows(D)}
           cost == [e \in Rows |-> e.weight]
           Of(f) == Constraint(f.from, f.to, Slack(f, p))
<1>1. Rows = {Of(f) : f \in E}
  <2>1. {Of(f) : f \in E} = {Constraint(q.minus, q.plus, RowSlack(q, p)) : q \in EllRows(D)}
    BY SlacksAreRows DEF IsFiniteDelayGraph
  <2> QED BY <2>1 DEF Constraint
<1>2. ASSUME NEW f \in E
      PROVE  /\ Of(f).from = f.from /\ Of(f).to = f.to /\ Of(f).weight = Slack(f, p)
             /\ Slack(f, p) \in Int
  <2>1. PICK e \in G : Slackened(e, f, z) BY WeightedArcs
  <2>2. Slack(f, p) \in Int BY <2>1, SlackOfArc
  <2> QED BY <2>2 DEF Constraint, arc
<1>3. IsFiniteSet(E) /\ IsFiniteSet(N) /\ IsGraph(N, G) BY EllArcsAre, WeightedVertices
<1>4. /\ \A e \in G : \E f \in E : Slackened(e, f, z)
      /\ \A f \in E : \E e \in G : Slackened(e, f, z)
  BY WeightedArcs
<1>5. \A f \in E : \A e : Slackened(e, f, z) => Slack(e, p) = Slack(f, p)
  BY SlackOfArc
<1>6. N # {} BY DEF Vertices
<1> HIDE DEF Of, E, G, N
<1>7. IsFiniteSet(Rows)
  <2> DEFINE h == [f \in E |-> Of(f)]
  <2>1. Rows = {h[f] : f \in E} BY <1>1
  <2> HIDE DEF h
  <2> QED BY <1>3, <2>1, FiniteImage
<1>8. IsGraph(N, Rows)
  <2> SUFFICES ASSUME NEW r \in Rows PROVE r.from \in N /\ r.to \in N
    BY DEF IsGraph
  <2>1. PICK f \in E : r = Of(f) BY <1>1
  <2>2. PICK e \in G : Slackened(e, f, z) BY <1>4
  <2> QED BY <1>2, <1>3, <2>1, <2>2 DEF IsGraph, Slackened
<1> HIDE DEF Rows
<1>9. cost \in [Rows -> Int] BY <1>1, <1>2
<1>10. ASSUME NEW q \in [N -> Int] PROVE IsPotential(Rows, cost, q) <=> Fits(G, p, q)
  <2>1. ASSUME IsPotential(Rows, cost, q) PROVE Fits(G, p, q)
    <3> SUFFICES ASSUME NEW e \in G PROVE q[e.to] <= q[e.from] + Slack(e, p)
      BY DEF Fits
    <3>1. PICK f \in E : Slackened(e, f, z) BY <1>4
    <3>2. Of(f) \in Rows /\ cost[Of(f)] = Slack(f, p) BY <1>1, <1>2
    <3>3. q[Of(f).to] <= q[Of(f).from] + cost[Of(f)] BY <2>1, <3>2 DEF IsPotential
    <3> HIDE DEF cost
    <3> QED BY <1>2, <1>5, <3>1, <3>2, <3>3 DEF Slackened
  <2>2. ASSUME Fits(G, p, q) PROVE IsPotential(Rows, cost, q)
    <3> SUFFICES ASSUME NEW r \in Rows PROVE q[r.to] <= q[r.from] + cost[r]
      BY DEF IsPotential
    <3>1. PICK f \in E : r = Of(f) BY <1>1
    <3>2. PICK e \in G : Slackened(e, f, z) BY <1>4
    <3>3. q[e.to] <= q[e.from] + Slack(e, p) BY <2>2 DEF Fits
    <3>4. cost[r] = Slack(f, p) /\ Slack(e, p) = Slack(f, p) BY <1>2, <1>5, <3>1, <3>2
    <3> HIDE DEF cost
    <3> QED BY <1>2, <3>1, <3>2, <3>3, <3>4 DEF Slackened
  <2> QED BY <2>1, <2>2
<1>11. NoNegativeCycle(N, Rows, cost) <=> \E q \in [N -> Int] : IsPotential(Rows, cost, q)
  <2> HIDE DEF cost
  <2> QED BY <1>3, <1>6, <1>7, <1>8, <1>9, Potentials
<1>12. NoNegativeCycle(N, Rows, cost) <=> \E q \in [N -> Int] : Fits(G, p, q)
  <2> HIDE DEF cost
  <2> QED BY <1>10, <1>11
<1> QED BY <1>12 DEF N, Rows, G, E

-----------------------------------------------------------------------------
(***************************************************************************)
(* The cuts.                                                               *)
(***************************************************************************)
\* What an arc adds to the components of the gradient, by its mode.
ByMode(i) == IF i = 1 THEN <<-1, -1, 0>> ELSE <<0, -1, 1>>

LEMMA Distribute ==
  ASSUME NEW a \in Int, NEW b \in Int, NEW x \in Int
  PROVE  /\ (a + b) * x = a * x + b * x
         /\ a * x \in Int /\ b * x \in Int
OBVIOUS

LEMMA ThreeParts ==
  ASSUME NEW a \in Int, NEW b \in Int, NEW d \in Int
  PROVE  LET three == <<a, b>> \o <<d>>
         IN  three[1] = a /\ three[2] = b /\ three[3] = d
OBVIOUS

\* From one point to another, slacks change by what the gradient says.
LEMMA SlackChanges ==
  ASSUME NEW D, IsFiniteDelayGraph(D), NEW T0, NEW z \in Point, NEW p \in Point,
         NEW e \in Weighted(EllArcs(D, T0), z)
  PROVE  LET i == e.mode + 1
             inT == ByMode(1)[i]
             inW == ByMode(2)[i]
         IN  /\ inT \in {-1, 0} /\ inW \in {-1, 0, 1} /\ e.weight \in Int
             /\ Slack(e, p) = e.weight - inT * (p.T - z.T) - inW * (p.W - z.W)
<1>1. PICK f \in EllArcs(D, T0) : Slackened(e, f, z) BY WeightedArcs
<1>2. f.mode \in 0 .. 2 /\ f.delay \in Int BY EllArcsAre
<1>3. e.mode = f.mode /\ e.delay = f.delay /\ e.weight = Slack(f, z)
  BY <1>1 DEF Slackened
<1>4. /\ p.T \in Int /\ p.W \in Int /\ z.T \in Int /\ z.W \in Int BY DEF Point
<1>5. CASE f.mode = 0
  BY <1>2, <1>3, <1>4, <1>5 DEF Slack, ByMode
<1>6. CASE f.mode = 1
  BY <1>2, <1>3, <1>4, <1>6 DEF Slack, ByMode
<1>7. CASE f.mode = 2
  BY <1>2, <1>3, <1>4, <1>7 DEF Slack, ByMode
<1> QED BY <1>2, <1>5, <1>6, <1>7

\* The cut at a negative cycle keeps every feasible point: around the cycle the
\* slacks of the point add up to no less than zero, and to what those of the
\* centre add up to less what the gradient takes off.
LEMMA CycleCut ==
  ASSUME NEW D, IsFiniteDelayGraph(D), NEW T0, NEW z \in Point, NEW p \in Point,
         NEW N, NEW G, G = Weighted(EllArcs(D, T0), z), IsGraph(N, G),
         NEW q \in [N -> Int], Fits(G, p, q),
         NEW m, NEW c, IsCycle(G, m, c), TotalWeight(c) < 0
  PROVE  Keeps(Gradient(c) \o <<TotalWeight(c)>>, z, p)
<1> DEFINE x == p.T - z.T
           y == p.W - z.W
           ws == [k \in 1 .. m |-> c[k].weight]
           ts == [k \in 1 .. m |-> ByMode(1)[c[k].mode + 1]]
           us == [k \in 1 .. m |-> ByMode(2)[c[k].mode + 1]]
           ps == [k \in 1 .. m |-> Slack(c[k], p)]
<1>1. m \in Nat /\ m \in 1 .. m /\ DOMAIN c = 1 .. m /\ \A k \in 1 .. m : c[k] \in G
  BY DEF IsCycle
<1>2. x \in Int /\ y \in Int BY DEF Point
<1>3. ASSUME NEW k \in 1 .. m
      PROVE  /\ ws[k] \in Int /\ ts[k] \in Int /\ us[k] \in Int /\ ps[k] \in Int
             /\ ps[k] = ws[k] - ts[k] * x - us[k] * y
  <2> DEFINE e == c[k]
  <2>1. e \in G BY <1>1
  <2>2. /\ ByMode(1)[e.mode + 1] \in {-1, 0} /\ ByMode(2)[e.mode + 1] \in {-1, 0, 1}
        /\ e.weight \in Int
        /\ Slack(e, p) = e.weight - ByMode(1)[e.mode + 1] * (p.T - z.T)
                                  - ByMode(2)[e.mode + 1] * (p.W - z.W)
    BY <2>1, SlackChanges
  <2>3. ws[k] = e.weight /\ ts[k] = ByMode(1)[e.mode + 1]
        /\ us[k] = ByMode(2)[e.mode + 1] /\ ps[k] = Slack(e, p)
    OBVIOUS
  <2>4. ts[k] \in Int /\ us[k] \in Int BY <2>2, <2>3
  <2>5. ps[k] = ws[k] - ts[k] * x - us[k] * y BY <2>2, <2>3
  <2> HIDE DEF ws, ts, us, ps, x, y, e
  <2> QED BY <1>2, <2>2, <2>3, <2>4, <2>5
<1>4. ws \in [1 .. m -> Int] /\ ts \in [1 .. m -> Int]
      /\ us \in [1 .. m -> Int] /\ ps \in [1 .. m -> Int]
  BY <1>3
<1>5. /\ TotalWeight(c) = Total(ws)
      /\ Gradient(c) = <<Total(ts), Total(us)>>
  BY <1>1 DEF TotalWeight, Gradient, ByMode
<1>6. \A k \in 1 .. m : q[c[k].to] <= q[c[k].from] + ps[k] BY <1>1 DEF Fits
<1> HIDE DEF ws, ts, us, ps, x, y
<1>7. PICK fw : SumsUp(ws, m, fw) BY <1>1, <1>4, SumsExist
<1>8. PICK ft : SumsUp(ts, m, ft) BY <1>1, <1>4, SumsExist
<1>9. PICK fu : SumsUp(us, m, fu) BY <1>1, <1>4, SumsExist
<1>10. PICK fp : SumsUp(ps, m, fp) BY <1>1, <1>4, SumsExist
<1>11. /\ Total(ws) = fw[m] /\ Total(ts) = ft[m] /\ Total(us) = fu[m] /\ Total(ps) = fp[m]
  BY <1>1, <1>4, <1>7, <1>8, <1>9, <1>10, TotalIsSum
<1>12. \A k \in 0 .. m : fw[k] \in Int /\ ft[k] \in Int /\ fu[k] \in Int /\ fp[k] \in Int
  BY <1>7, <1>8, <1>9, <1>10 DEF SumsUp
<1> DEFINE S == {k \in 0 .. m : fp[k] = fw[k] - ft[k] * x - fu[k] * y}
<1>13. 0 \in S BY <1>1, <1>2, <1>7, <1>8, <1>9, <1>10 DEF SumsUp
<1>14. ASSUME NEW k \in 1 .. m, k - 1 \in S PROVE k \in S
  <2> DEFINE w0 == fw[k - 1]  t0 == ft[k - 1]  u0 == fu[k - 1]
             w1 == ws[k]  t1 == ts[k]  u1 == us[k]
  <2>1. /\ fw[k] = w0 + w1 /\ ft[k] = t0 + t1 /\ fu[k] = u0 + u1
        /\ fp[k] = fp[k - 1] + ps[k]
    BY <1>7, <1>8, <1>9, <1>10 DEF SumsUp
  <2>2. fp[k - 1] = w0 - t0 * x - u0 * y BY <1>14
  <2>3. ps[k] = w1 - t1 * x - u1 * y BY <1>3
  <2>4. /\ w0 \in Int /\ t0 \in Int /\ u0 \in Int /\ w1 \in Int /\ t1 \in Int /\ u1 \in Int
    BY <1>1, <1>3, <1>12
  <2> HIDE DEF w0, t0, u0, w1, t1, u1
  <2>5. (t0 + t1) * x = t0 * x + t1 * x /\ (u0 + u1) * y = u0 * y + u1 * y
        /\ t0 * x \in Int /\ t1 * x \in Int /\ u0 * y \in Int /\ u1 * y \in Int
    BY <1>2, <2>4, Distribute
  <2>6. fp[k] = (w0 + w1) - (t0 * x + t1 * x) - (u0 * y + u1 * y)
    <3> DEFINE a == t0 * x  b == t1 * x  d == u0 * y  e == u1 * y
    <3>1. fp[k] = (w0 - a - d) + (w1 - b - e) BY <2>1, <2>2, <2>3
    <3>2. a \in Int /\ b \in Int /\ d \in Int /\ e \in Int BY <2>5
    <3> HIDE DEF a, b, d, e
    <3>3. fp[k] = (w0 + w1) - (a + b) - (d + e) BY <2>4, <3>1, <3>2
    <3> QED BY <3>3 DEF a, b, d, e
  <2>7. fp[k] = fw[k] - ft[k] * x - fu[k] * y BY <2>1, <2>5, <2>6
  <2> QED BY <2>7
<1> HIDE DEF S
<1>15. 0 .. m \subseteq S BY <1>1, <1>13, <1>14, AllUpTo
<1>16. fp[m] = fw[m] - ft[m] * x - fu[m] * y BY <1>1, <1>15 DEF S
<1>17. fp[m] >= 0
  <2>1. Total(ps) >= 0 BY <1>4, <1>6, AroundTheCycle
  <2> QED BY <1>11, <2>1
<1>18. ft[m] * x + fu[m] * y + fw[m] <= 0
  <2> DEFINE a == ft[m] * x  b == fu[m] * y
  <2>1. fp[m] = fw[m] - a - b BY <1>16
  <2>2. a \in Int /\ b \in Int /\ fw[m] \in Int /\ fp[m] \in Int
    BY <1>1, <1>2, <1>12, Distribute
  <2>3. fw[m] < 0 BY <1>5, <1>11
  <2> HIDE DEF a, b
  <2>4. a + b + fw[m] <= 0 BY <1>17, <2>1, <2>2, <2>3
  <2> QED BY <2>4 DEF a, b
<1>19. LET cut3 == Gradient(c) \o <<TotalWeight(c)>>
       IN  cut3[1] = ft[m] /\ cut3[2] = fu[m] /\ cut3[3] = fw[m]
  <2>1. Gradient(c) = <<ft[m], fu[m]>> /\ TotalWeight(c) = fw[m] BY <1>5, <1>11
  <2>2. ft[m] \in Int /\ fu[m] \in Int /\ fw[m] \in Int BY <1>1, <1>12
  <2> QED BY <2>1, <2>2, ThreeParts
<1> QED BY <1>18, <1>19 DEF Keeps, x, y

-----------------------------------------------------------------------------
(***************************************************************************)
(* What node 0 reaches.                                                    *)
(***************************************************************************)
Grown(G, S) == S \cup {e.to : e \in {f \in G : f.from \in S}}

\* f has what is reached in up to k steps, for every k.
Reaching(G, n, f) ==
  /\ f[0] = {Start}
  /\ \A k \in 1 .. n : f[k] = Grown(G, f[k - 1])

LEMMA ReachedInSteps ==
  ASSUME NEW G, IsFiniteSet(Vertices(G))
  PROVE  LET n == Cardinality(Vertices(G))
         IN  \E f : Reaching(G, n, f) /\ Reached(G) = f[n]
<1> DEFINE n == Cardinality(Vertices(G))
           V == SUBSET Vertices(G)
           F == [x \in (1 .. n) \X V |-> Grown(G, x[2])]
           b == {Start}
           Next1(h) == [k \in 0 .. n |-> IF k = 0 THEN b ELSE Grown(G, h[k - 1])]
           R == CHOOSE h : h = Next1(h)
<1>1. n \in Nat BY FS_CardinalityType
<1>2. F \in [(1 .. n) \X V -> V] /\ b \in V
  <2>1. \A S \in V : Grown(G, S) \in V BY DEF Grown, Vertices
  <2> HIDE DEF n
  <2> QED BY <2>1 DEF Vertices
<1>3. PICK f \in [0 .. n -> V] : Iterated(f, b, F, n)
  <2> HIDE DEF F, V, b, n
  <2> QED BY <1>1, <1>2, Iterates
<1>4. f = Next1(f)
  <2> HIDE DEF V, b, n
  <2>1. ASSUME NEW k \in 0 .. n, k # 0 PROVE f[k] = Grown(G, f[k - 1])
    <3>1. k \in 1 .. n /\ k - 1 \in 0 .. n BY <1>1, <2>1
    <3> QED BY <1>3, <3>1 DEF Iterated
  <2> QED BY <1>1, <1>3, <2>1 DEF Iterated
<1>5. R = Next1(R)
  <2> HIDE DEF Next1
  <2> QED BY <1>4
<1>6. Reached(G) = R[n] BY DEF Reached, Grown
<1> HIDE DEF R, b, n
<1>7. R[0] = b /\ \A k \in 1 .. n : R[k] = Grown(G, R[k - 1])
  <2>1. 0 \in 0 .. n /\ \A k \in 1 .. n : k \in 0 .. n /\ k # 0 BY <1>1
  <2> QED BY <1>5, <2>1
<1>8. Reaching(G, n, R) BY <1>7 DEF Reaching, b
<1> QED BY <1>6, <1>8 DEF n

\* The weights have no part in it.
LEMMA ReachedWhateverWeights ==
  ASSUME NEW G, NEW H, IsFiniteSet(Vertices(G)), Vertices(G) = Vertices(H),
         \A e \in G : \E f \in H : e.from = f.from /\ e.to = f.to,
         \A f \in H : \E e \in G : e.from = f.from /\ e.to = f.to
  PROVE  Reached(G) = Reached(H)
<1> DEFINE n == Cardinality(Vertices(G))
<1>1. n \in Nat BY FS_CardinalityType
<1>2. PICK x : Reaching(G, n, x) /\ Reached(G) = x[n] BY ReachedInSteps
<1>3. PICK y : Reaching(H, n, y) /\ Reached(H) = y[n] BY ReachedInSteps
<1> HIDE DEF n
<1>4. ASSUME NEW S PROVE Grown(G, S) = Grown(H, S) BY DEF Grown
<1> DEFINE S == {k \in 0 .. n : x[k] = y[k]}
<1>5. 0 \in S
  <2>1. x[0] = {Start} /\ y[0] = {Start} BY <1>2, <1>3 DEF Reaching
  <2>2. 0 \in 0 .. n BY <1>1
  <2> QED BY <2>1, <2>2
<1>6. ASSUME NEW k \in 1 .. n, k - 1 \in S PROVE k \in S
  <2>1. x[k] = Grown(G, x[k - 1]) /\ y[k] = Grown(H, y[k - 1])
    BY <1>2, <1>3 DEF Reaching
  <2>2. x[k - 1] = y[k - 1] /\ k \in 0 .. n BY <1>6
  <2> QED BY <1>4, <2>1, <2>2
<1> HIDE DEF S
<1>7. 0 .. n \subseteq S BY <1>1, <1>5, <1>6, AllUpTo
<1> QED BY <1>1, <1>2, <1>3, <1>7 DEF S

\* Where everything is reached and no cycle of slacks is found, the slacks have
\* potentials: a negative cycle would be one the finder can report.
LEMMA NoneFoundFits ==
  ASSUME NEW D, IsFiniteDelayGraph(D), NEW T0, NEW z \in Point,
         NEW G, G = Weighted(EllArcs(D, T0), z),
         Reached(G) = Vertices(G), NegativeCycles(G) = {}
  PROVE  \E q \in [Vertices(EllArcs(D, T0)) -> Int] : Fits(G, z, q)
<1> DEFINE N == Vertices(G)
           cost == [e \in G |-> e.weight]
<1>1. N = Vertices(EllArcs(D, T0)) /\ IsFiniteSet(N) /\ IsGraph(N, G)
  BY WeightedVertices
<1>2. N # {} BY DEF Vertices
<1>3. IsFiniteSet(G) BY WeightedArcs
<1>4. ASSUME NEW e \in G PROVE e.weight \in Int /\ e.weight = Slack(e, z)
  <2>1. PICK f \in EllArcs(D, T0) : Slackened(e, f, z) BY WeightedArcs
  <2> QED BY <2>1, SlackOfArc DEF Slackened
<1>5. cost \in [G -> Int] BY <1>4
<1>6. {e \in G : e.from \in Reached(G)} = G BY <1>1 DEF IsGraph
<1>7. NoNegativeCycle(N, G, cost)
  <2> SUFFICES ASSUME ~NoNegativeCycle(N, G, cost) PROVE FALSE
    OBVIOUS
  <2>1. PICK m \in 1 .. Cardinality(N) : \E c, s : NegativeCycle(G, cost, m, c, s)
    <3> HIDE DEF N, cost
    <3> QED BY <1>1, <1>2, <1>3, <1>5, NegativeCycleIsSimple
  <2>2. PICK c, s : NegativeCycle(G, cost, m, c, s) BY <2>1
  <2>3. /\ c \in [1 .. m -> G] /\ s \in [0 .. m -> Int]
        /\ \A k \in 1 .. m : c[k].to = c[IF k = m THEN 1 ELSE k + 1].from
        /\ \A k, l \in 1 .. m : c[k].from = c[l].from => k = l
        /\ s[0] = 0 /\ \A k \in 1 .. m : s[k] = s[k - 1] + cost[c[k]]
        /\ s[m] < 0
    BY <2>2 DEF NegativeCycle
  <2>4. Cardinality(N) \in Nat BY <1>1, FS_CardinalityType
  <2> HIDE DEF N
  <2>5. m \in Nat BY <2>4
  <2>6. DOMAIN c = 1 .. m /\ Len(c) = m
    <3>1. c \in [1 .. m -> G] BY <2>3
    <3> QED BY <2>5, <3>1
  <2>7. c \in Cycles(G)
    <3>1. c \in UNION {[1 .. k -> G] : k \in 1 .. Cardinality(N)} BY <2>3
    <3> QED BY <2>3, <2>6, <3>1 DEF Cycles, N
  <2>8. TotalWeight(c) = s[m]
    <3> DEFINE ws == [k \in 1 .. m |-> c[k].weight]
    <3>1. ws \in [1 .. m -> Int] BY <1>4, <2>3
    <3>2. \A k \in 1 .. m : cost[c[k]] = c[k].weight BY <2>3
    <3>3. TotalWeight(c) = Total(ws) BY <2>6 DEF TotalWeight
    <3>4. SumsUp(ws, m, s) BY <2>3, <3>2 DEF SumsUp
    <3> HIDE DEF ws
    <3> QED BY <2>5, <3>1, <3>3, <3>4, TotalIsSum
  <2>9. c \in NegativeCycles(G) BY <1>6, <2>3, <2>7, <2>8 DEF NegativeCycles
  <2> QED BY <2>9
<1>8. PICK q \in [N -> Int] : IsPotential(G, cost, q)
  <2> HIDE DEF N, cost
  <2> QED BY <1>1, <1>2, <1>3, <1>5, <1>7, Potentials
<1>9. Fits(G, z, q)
  <2> SUFFICES ASSUME NEW e \in G PROVE q[e.to] <= q[e.from] + Slack(e, z)
    BY DEF Fits
  <2>1. q[e.to] <= q[e.from] + cost[e] BY <1>8 DEF IsPotential
  <2>2. cost[e] = Slack(e, z) BY <1>4
  <2> HIDE DEF cost
  <2> QED BY <2>1, <2>2
<1> QED BY <1>1, <1>9

-----------------------------------------------------------------------------
(***************************************************************************)
(* The weights.                                                            *)
(***************************************************************************)
Original == EllArcs(dg, TInitial)

\* Writing weights at one point after another leaves those of the last.
LEMMA Reweighted ==
  ASSUME NEW D, NEW T0, NEW y, NEW z
  PROVE  Weighted(Weighted(EllArcs(D, T0), y), z) = Weighted(EllArcs(D, T0), z)
<1> DEFINE G == EllArcs(D, T0)
           On(e, p) == [e EXCEPT !.weight = Slack(e, p)]
<1>1. ASSUME NEW e \in G PROVE On(On(e, y), z) = On(e, z)
  <2>1. PICK m, x1, x2, w, d : e = EllArc(m, x1, x2, w, d)
    BY DEF EllArcs
  <2>2. ASSUME NEW p
        PROVE  On(e, p) = EllArc(m, x1, x2, Slack(e, p), d)
    BY <2>1 DEF EllArc
  <2>3. ASSUME NEW v, NEW p
        PROVE  Slack(EllArc(m, x1, x2, v, d), p) = Slack(e, p)
    BY <2>1 DEF EllArc, Slack
  <2>4. ASSUME NEW v, NEW p
        PROVE  On(EllArc(m, x1, x2, v, d), p) = EllArc(m, x1, x2, Slack(e, p), d)
    BY <2>3 DEF EllArc
  <2> HIDE DEF On
  <2> QED BY <2>2, <2>4
<1> HIDE DEF On
<1>2. {On(e, z) : e \in {On(e, y) : e \in G}} = {On(e, z) : e \in G}
  BY <1>1
<1> QED BY <1>2 DEF Weighted, On

-----------------------------------------------------------------------------
(***************************************************************************)
(* The best point.                                                         *)
(***************************************************************************)
\* z is inside the bounds of the oracle, and G has no negative cycle.
Accepts(G, z) ==
  /\ ~(z.T < 0) /\ ~(z.W < 0) /\ ~(2 * z.W > z.T)
  /\ NegativeCycles(G) = {}

\* So it is with the graph of its own slacks.
Accepted(p) == Accepts(Weighted(Original, p), p)

\* The value t is that of the best point, and the best point was accepted.
BestWasAccepted == t # Huge => t = xBest.T + xBest.W /\ Accepted(xBest)

\* The graph is the original one but for the weights, which are those of the
\* centre when the oracle looks at them.
WeightsAreSlacks ==
  /\ g = Original \/ \E z \in Grid : g = Weighted(Original, z)
  /\ pc = "ask" => g = Weighted(Original, xc)

\* Where the points come from.
PointsAreGiven == dg \in DelayGraphs /\ xc \in Grid /\ xBest \in Grid /\ t \in Int

IInv == PointsAreGiven /\ WeightsAreSlacks /\ BestWasAccepted

LEMMA InitIInv == Init => IInv
BY GridAssumption
DEF Init, IInv, PointsAreGiven, WeightsAreSlacks, BestWasAccepted, Original

LEMMA AnswerIsAValue ==
  ASSUME NEW G, NEW z \in Point, NEW v \in Int, NEW a \in Answers(G, z, v)
  PROVE  /\ a.t \in Int
         /\ a.t # v => a.t = z.T + z.W /\ a.t < v /\ Accepts(G, z)
<1>1. z.T \in Int /\ z.W \in Int BY DEF Point
<1> QED BY <1>1 DEF Answers, Accepts

LEMMA PointsStayGiven == PointsAreGiven /\ [Next]_vars => PointsAreGiven'
<1> SUFFICES ASSUME PointsAreGiven, [Next]_vars PROVE PointsAreGiven'
  OBVIOUS
<1>1. CASE Update BY <1>1 DEF Update, PointsAreGiven
<1>2. CASE Ask
  <2>1. PICK a \in Answers(g, xc, t) :
          t' = a.t /\ xBest' = IF t # a.t THEN xc ELSE xBest
    BY <1>2 DEF Ask
  <2>2. xc \in Point /\ t \in Int BY GridAssumption DEF PointsAreGiven, Point
  <2>3. a.t \in Int BY <2>2, AnswerIsAValue
  <2> QED BY <1>2, <2>1, <2>3 DEF Ask, PointsAreGiven
<1>3. CASE Cut BY <1>3 DEF Cut, PointsAreGiven
<1>4. CASE End BY <1>4 DEF End, PointsAreGiven
<1>5. CASE UNCHANGED vars BY <1>5 DEF vars, PointsAreGiven
<1> QED BY <1>1, <1>2, <1>3, <1>4, <1>5 DEF Next

LEMMA NextIInv == IInv /\ [Next]_vars => IInv'
<1> SUFFICES ASSUME IInv, [Next]_vars PROVE WeightsAreSlacks' /\ BestWasAccepted'
  BY PointsStayGiven DEF IInv
<1>1. CASE Update
  <2>1. g' = Weighted(Original, xc)
    BY <1>1, Reweighted DEF Update, IInv, WeightsAreSlacks, Original
  <2>2. Original' = Original
    BY <1>1 DEF Update, Original, TInitial
  <2> QED
    BY <1>1, <2>1, <2>2
    DEF Update, IInv, PointsAreGiven, WeightsAreSlacks, BestWasAccepted, Accepted
<1>2. CASE Ask
  <2>1. PICK a \in Answers(g, xc, t) :
          t' = a.t /\ xBest' = IF t # a.t THEN xc ELSE xBest
    BY <1>2 DEF Ask
  <2>2. g = Weighted(Original, xc) /\ xc \in Point /\ t \in Int
    BY <1>2, GridAssumption DEF Ask, IInv, PointsAreGiven, WeightsAreSlacks, Point
  <2>3. Original' = Original /\ dg' = dg /\ g' = g /\ xc' = xc /\ pc' = "cut"
    BY <1>2 DEF Ask, Original, TInitial
  <2>4. CASE a.t = t
    BY <2>1, <2>2, <2>3, <2>4 DEF IInv, WeightsAreSlacks, BestWasAccepted, Accepted
  <2>5. CASE a.t # t
    <3>1. a.t = xc.T + xc.W /\ Accepts(g, xc)
      BY <2>1, <2>2, <2>5, AnswerIsAValue
    <3> QED
      BY <2>1, <2>2, <2>3, <2>5, <3>1
      DEF IInv, WeightsAreSlacks, BestWasAccepted, Accepted
  <2> QED BY <2>4, <2>5
<1>3. CASE Cut
  <2>1. Original' = Original
    BY <1>3 DEF Cut, Original, TInitial
  <2> QED
    BY <1>3, <2>1 DEF Cut, IInv, WeightsAreSlacks, BestWasAccepted, Accepted
<1>4. CASE End
  <2>1. Original' = Original
    BY <1>4 DEF End, Original, TInitial
  <2> QED
    BY <1>4, <2>1 DEF End, IInv, WeightsAreSlacks, BestWasAccepted, Accepted
<1>5. CASE UNCHANGED vars
  <2>1. Original' = Original
    BY <1>5 DEF vars, Original, TInitial
  <2> QED
    BY <1>5, <2>1 DEF vars, IInv, WeightsAreSlacks, BestWasAccepted, Accepted
<1> QED
  BY <1>1, <1>2, <1>3, <1>4, <1>5 DEF Next

\* For every delay graph and whatever centres the search space proposes, the
\* point cutting_plane_dc returns is one whose own slacks have no negative cycle
\* for the finder to report, and t is its value: the incremental rewriting of
\* the weights leaves nothing of the points asked about in between.
THEOREM ReturnsAnAcceptedPoint == Spec => []BestWasAccepted
<1>1. IInv => BestWasAccepted
  BY DEF IInv
<1> QED
  BY <1>1, InitIInv, NextIInv, PTL DEF Spec

-----------------------------------------------------------------------------
(***************************************************************************)
(* Feasible points.                                                        *)
(***************************************************************************)
\* Feasible, of the parts of the state it looks at.
FeasibleIn(D, N, p) ==
  LET Rows == {arc(q.minus, q.plus, RowSlack(q, p), 0) : q \in EllRows(D)}
  IN  /\ p.T >= 0 /\ p.W >= 0 /\ 2 * p.W <= p.T
      /\ NoNegativeCycle(N, Rows, [e \in Rows |-> e.weight])

LEMMA OriginalIs ==
  ASSUME IInv
  PROVE  /\ IsFiniteDelayGraph(dg) /\ xc \in Point /\ xBest \in Point
         /\ Vertices(g) = Vertices(Original)
         /\ \A p : Feasible(p) <=> FeasibleIn(dg, Vertices(Original), p)
<1>1. IsFiniteDelayGraph(dg) /\ xc \in Point /\ xBest \in Point
  BY DelayGraphsAssumption, GridAssumption DEF IInv, PointsAreGiven, IsFiniteDelayGraph, Point
<1>2. Vertices(g) = Vertices(Original)
  BY <1>1, WeightedVertices DEF IInv, WeightsAreSlacks, Original
<1>3. \A p : Feasible(p) <=> FeasibleIn(dg, Vertices(g), p)
  BY Zenon DEF Feasible, FeasibleIn
<1> QED BY <1>1, <1>2, <1>3

\* A feasible point is within the bounds and has potentials on the graph.
LEMMA FeasibleFits ==
  ASSUME IInv, NEW p \in Point, NEW z \in Point
  PROVE  Feasible(p) <=> /\ p.T >= 0 /\ p.W >= 0 /\ 2 * p.W <= p.T
                         /\ \E q \in [Vertices(Original) -> Int] :
                              Fits(Weighted(Original, z), p, q)
<1>1. IsFiniteDelayGraph(dg) /\ (Feasible(p) <=> FeasibleIn(dg, Vertices(Original), p))
  BY OriginalIs
<1> DEFINE N == Vertices(Original)
           Rows == {arc(q.minus, q.plus, RowSlack(q, p), 0) : q \in EllRows(dg)}
<1>2. NoNegativeCycle(N, Rows, [e \in Rows |-> e.weight])
        <=> \E q \in [N -> Int] : Fits(Weighted(Original, z), p, q)
  BY <1>1, RowsOrPotentials DEF Original
<1>3. FeasibleIn(dg, N, p) <=>
        /\ p.T >= 0 /\ p.W >= 0 /\ 2 * p.W <= p.T
        /\ NoNegativeCycle(N, Rows, [e \in Rows |-> e.weight])
  BY Zenon DEF FeasibleIn
<1> HIDE DEF N, Rows
<1>4. Feasible(p) <=> FeasibleIn(dg, N, p) BY <1>1 DEF N
<1> QED BY <1>2, <1>3, <1>4 DEF N

\* For every delay graph all of whose vertices are reached from vertex 0, the
\* point cutting_plane_dc returns is feasible for the linear program of LP.cpp:
\* were there a negative cycle of slacks, there would be a simple one, and the
\* oracle would not have accepted the point.
THEOREM ReturnsAFeasiblePoint == Spec => []BestIsFeasible
<1>1. IInv => BestIsFeasible
  <2> SUFFICES ASSUME IInv, Connected, t # Huge
               PROVE  Feasible(xBest) /\ t = xBest.T + xBest.W
    BY DEF BestIsFeasible
  <2> DEFINE G == Weighted(Original, xBest)
  <2>1. /\ t = xBest.T + xBest.W
        /\ ~(xBest.T < 0) /\ ~(xBest.W < 0) /\ ~(2 * xBest.W > xBest.T)
        /\ NegativeCycles(G) = {}
    BY DEF IInv, BestWasAccepted, Accepted, Accepts
  <2>2. IsFiniteDelayGraph(dg) /\ xBest \in Point /\ Vertices(g) = Vertices(Original)
    BY OriginalIs
  <2>3. Vertices(G) = Vertices(Original) /\ IsFiniteSet(Vertices(Original))
    BY <2>2, WeightedVertices DEF Original
  <2>4. /\ \A e \in G : \E f \in Original : e.from = f.from /\ e.to = f.to
        /\ \A f \in Original : \E e \in G : e.from = f.from /\ e.to = f.to
    BY <2>2, WeightedArcs DEF Original, Slackened
  <2>5. Reached(G) = Reached(Original)
    <3> HIDE DEF G
    <3> QED BY <2>3, <2>4, ReachedWhateverWeights
  <2>6. Reached(g) = Reached(Original)
    <3>1. CASE g = Original BY <3>1
    <3>2. CASE g # Original
      <4>1. PICK z \in Grid : g = Weighted(Original, z)
        BY <3>2 DEF IInv, WeightsAreSlacks
      <4>2. /\ \A e \in g : \E f \in Original : e.from = f.from /\ e.to = f.to
            /\ \A f \in Original : \E e \in g : e.from = f.from /\ e.to = f.to
        BY <2>2, <4>1, WeightedArcs DEF Original, Slackened
      <4> QED BY <2>2, <2>3, <4>2, ReachedWhateverWeights
    <3> QED BY <3>1, <3>2
  <2>7. Reached(G) = Vertices(G) BY <2>2, <2>3, <2>5, <2>6 DEF Connected
  <2>8. \E q \in [Vertices(Original) -> Int] : Fits(G, xBest, q)
    BY <2>1, <2>2, <2>7, NoneFoundFits DEF Original
  <2>9. xBest.T \in Int /\ xBest.W \in Int BY <2>2 DEF Point
  <2> HIDE DEF G
  <2>10. xBest.T >= 0 /\ xBest.W >= 0 /\ 2 * xBest.W <= xBest.T BY <2>1, <2>9
  <2> QED BY <2>1, <2>2, <2>8, <2>10, FeasibleFits DEF G
<1> QED
  BY <1>1, InitIInv, NextIInv, PTL DEF Spec

-----------------------------------------------------------------------------
(***************************************************************************)
(* What the cuts keep.                                                     *)
(***************************************************************************)
\* Until it is applied, a cut keeps all that is feasible and better than t.
CutIsSafe ==
  pc = "cut" => \A p \in Grid : Feasible(p) /\ p.T + p.W < t => Keeps(cut, xc, p)

LEMMA AnswerKeeps ==
  ASSUME IInv, pc = "ask", NEW a \in Answers(g, xc, t),
         NEW p \in Grid, Feasible(p), p.T + p.W < a.t
  PROVE  Keeps(a.cut, xc, p)
<1>1. /\ p \in Point /\ xc \in Point /\ t \in Int
      /\ g = Weighted(Original, xc) /\ IsFiniteDelayGraph(dg)
  BY OriginalIs, GridAssumption DEF IInv, PointsAreGiven, WeightsAreSlacks, Point
<1>2. p.T \in Int /\ p.W \in Int /\ xc.T \in Int /\ xc.W \in Int BY <1>1 DEF Point
<1>3. /\ p.T >= 0 /\ p.W >= 0 /\ 2 * p.W <= p.T
      /\ \E q \in [Vertices(Original) -> Int] : Fits(g, p, q)
  BY <1>1, FeasibleFits
<1>4. CASE xc.T < 0
  <2>1. a.cut = <<-1, 0, -xc.T>> BY <1>2, <1>4 DEF Answers
  <2> QED BY <1>2, <1>3, <2>1 DEF Keeps
<1>5. CASE xc.T >= 0 /\ xc.W < 0
  <2>1. a.cut = <<0, -1, -xc.W>> BY <1>2, <1>5 DEF Answers
  <2> QED BY <1>2, <1>3, <2>1 DEF Keeps
<1>6. CASE xc.T >= 0 /\ xc.W >= 0 /\ 2 * xc.W > xc.T
  <2>1. a.cut = <<-1, 2, 2 * xc.W - xc.T>> BY <1>2, <1>6 DEF Answers
  <2> QED BY <1>2, <1>3, <2>1 DEF Keeps
<1>7. CASE xc.T >= 0 /\ xc.W >= 0 /\ ~(2 * xc.W > xc.T)
  <2>1. CASE NegativeCycles(g) # {}
    <3>1. PICK c \in NegativeCycles(g) : a.cut = Gradient(c) \o <<TotalWeight(c)>>
      BY <1>2, <1>7, <2>1 DEF Answers
    <3>2. \E m : IsCycle(g, m, c)
      <4> DEFINE H == {e \in g : e.from \in Reached(g)}
                 n == Cardinality(Vertices(H))
      <4>1. c \in Cycles(H) BY <3>1 DEF NegativeCycles
      <4>2. /\ c \in UNION {[1 .. k -> H] : k \in 1 .. n}
            /\ \A k \in DOMAIN c : c[k].to = c[IF k = Len(c) THEN 1 ELSE k + 1].from
        BY <4>1 DEF Cycles
      <4>3. H \subseteq g OBVIOUS
      <4>4. IsFiniteSet(Vertices(H))
        <5>1. Vertices(H) \subseteq Vertices(g) BY DEF Vertices
        <5>2. IsFiniteSet(Vertices(g))
          BY <1>1, WeightedVertices DEF Original
        <5> QED BY <5>1, <5>2, FS_Subset
      <4>5. n \in Nat BY <4>4, FS_CardinalityType
      <4> HIDE DEF H, n
      <4>6. PICK m \in 1 .. n : c \in [1 .. m -> H] BY <4>2
      <4>7. m \in Nat \ {0} BY <4>5, <4>6
      <4>8. DOMAIN c = 1 .. m /\ Len(c) = m BY <4>6, <4>7
      <4>9. c \in [1 .. m -> g] BY <4>3, <4>6
      <4>10. IsCycle(g, m, c) BY <4>2, <4>7, <4>8, <4>9 DEF IsCycle
      <4> QED BY <4>10
    <3>3. TotalWeight(c) < 0 BY <3>1 DEF NegativeCycles
    <3>4. IsGraph(Vertices(Original), g) BY <1>1, WeightedVertices DEF Original
    <3> QED BY <1>1, <1>3, <3>1, <3>2, <3>3, <3>4, CycleCut DEF Original
  <2>2. CASE NegativeCycles(g) = {} /\ xc.T + xc.W < t
    <3>1. a.cut = <<1, 1, 0>> /\ a.t = xc.T + xc.W BY <1>2, <1>7, <2>2 DEF Answers
    <3>2. p.T + p.W < xc.T + xc.W BY <3>1
    <3> QED BY <1>2, <3>1, <3>2 DEF Keeps
  <2>3. CASE NegativeCycles(g) = {} /\ ~(xc.T + xc.W < t)
    <3>1. a.cut = <<1, 1, xc.T + xc.W - t>> /\ a.t = t BY <1>1, <1>2, <1>7, <2>3 DEF Answers
    <3>2. p.T + p.W < t BY <3>1
    <3> QED BY <1>1, <1>2, <3>1, <3>2 DEF Keeps
  <2> QED BY <2>1, <2>2, <2>3
<1> QED BY <1>2, <1>4, <1>5, <1>6, <1>7

\* What is feasible stays so: the weights have no part in it.
LEMMA FeasibleStays ==
  ASSUME IInv, [Next]_vars
  PROVE  \A p : Feasible(p)' <=> Feasible(p)
<1>1. dg' = dg BY DEF Next, Update, Ask, Cut, End, vars
<1>2. Vertices(g') = Vertices(g)
  <2>1. CASE Update
    <3>1. g' = Weighted(Original, xc)
      BY <2>1, Reweighted DEF Update, IInv, WeightsAreSlacks, Original
    <3> QED BY <3>1, OriginalIs, WeightedVertices DEF Original
  <2>2. CASE ~Update
    <3>1. g' = g BY <2>2 DEF Next, Ask, Cut, End, vars
    <3> QED BY <3>1
  <2> QED BY <2>1, <2>2
<1>3. \A p : Feasible(p) <=> FeasibleIn(dg, Vertices(g), p)
  BY Zenon DEF Feasible, FeasibleIn
<1>4. \A p : Feasible(p)' <=> FeasibleIn(dg', Vertices(g'), p)
  BY Zenon DEF Feasible, FeasibleIn
<1> QED BY <1>1, <1>2, <1>3, <1>4

Safe == CutIsSafe /\ NothingBetterIsLost

LEMMA InitSafe == Init => Safe
BY DEF Init, Safe, CutIsSafe, NothingBetterIsLost

LEMMA NextSafe == IInv /\ Safe /\ [Next]_vars => Safe'
<1> SUFFICES ASSUME IInv, Safe, [Next]_vars PROVE Safe'
  OBVIOUS
<1>1. \A p : Feasible(p)' <=> Feasible(p) BY FeasibleStays
<1>2. \A p \in Grid : Feasible(p) /\ p.T + p.W < t => p \in space
  BY DEF Safe, NothingBetterIsLost
<1> SUFFICES ASSUME NEW p \in Grid, Feasible(p), p.T + p.W < t'
             PROVE  p \in space' /\ (pc' = "cut" => Keeps(cut', xc', p))
  BY <1>1 DEF Safe, CutIsSafe, NothingBetterIsLost
<1>3. CASE Update BY <1>2, <1>3 DEF Update
<1>4. CASE Ask
  <2>1. PICK a \in Answers(g, xc, t) : cut' = a.cut /\ t' = a.t
    BY <1>4 DEF Ask
  <2>2. Keeps(a.cut, xc, p) BY <1>4, <2>1, AnswerKeeps DEF Ask
  <2>3. p.T + p.W < t
    <3>1. xc \in Point /\ t \in Int /\ p.T \in Int /\ p.W \in Int
      BY GridAssumption DEF IInv, PointsAreGiven, Point
    <3>2. a.t \in Int /\ (a.t # t => a.t < t) BY <2>1, <3>1, AnswerIsAValue
    <3> QED BY <2>1, <3>1, <3>2
  <2> QED BY <1>2, <1>4, <2>1, <2>2, <2>3 DEF Ask
<1>5. CASE Cut
  <2>1. p.T + p.W < t /\ pc = "cut" BY <1>5 DEF Cut
  <2>2. Keeps(cut, xc, p) BY <2>1 DEF Safe, CutIsSafe
  <2> QED BY <1>2, <1>5, <2>1, <2>2 DEF Cut
<1>6. CASE End BY <1>2, <1>6 DEF End
<1>7. CASE UNCHANGED vars BY <1>2, <1>7 DEF vars, Safe, CutIsSafe
<1> QED BY <1>3, <1>4, <1>5, <1>6, <1>7 DEF Next

\* For every delay graph, and whatever centres the search space proposes, no cut
\* of the oracle removes a feasible point that is better than the best known.
THEOREM NothingIsLost == Spec => []NothingBetterIsLost
<1>1. Safe => NothingBetterIsLost BY DEF Safe
<1> QED
  BY <1>1, InitIInv, NextIInv, InitSafe, NextSafe, PTL DEF Spec
=============================================================================
