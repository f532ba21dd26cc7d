----------------------------- MODULE LBTBProofs -----------------------------
(***************************************************************************)
(* Howard's result, on every graph whose cycles have a positive delay.     *)
(*                                                                         *)
(* That no cycle is below it follows from the last round: it relaxed no    *)
(* arc, so the labels are potentials, up to the tolerance.  The labels are *)
(* fractions and the potentials of the theorem on cycles are integers:     *)
(* rounded down, in units in which the arcs cost whole numbers, the labels *)
(* are still potentials.  That some cycle has it follows from how it was   *)
(* found: once round a policy cycle the potentials of any node cancel.     *)
(*                                                                         *)
(* The policy does not get worse once all of it leads to the cycle that    *)
(* was measured: along its arcs the labels then fall by their costs.       *)
(*                                                                         *)
(* Then main(): on a measurement Howard's result, read as a period, is the *)
(* optimum of the linear program; what is proved of YTO alone holds of YTO *)
(* there; and both return one ratio.                                       *)
(***************************************************************************)
EXTENDS LBTB, CommonProofs

-----------------------------------------------------------------------------
(***************************************************************************)
(* Fractions.                                                              *)
(***************************************************************************)
Fraction == Int \X (Nat \ {0})

\* p is n/d.
Is(p, n, d) == p[1] * d = n * p[2]

\* A factor that is not zero may be cancelled.
LEMMA Cancel ==
  ASSUME NEW a \in Int, NEW b \in Int, NEW k \in Nat \ {0}, a * k = b * k
  PROVE  a = b
<1>1. a * k \in Int /\ b * k \in Int OBVIOUS
<1>2. a <= b /\ b <= a BY <1>1, TimesMonotone
<1> QED BY <1>2

\* Max is what it is called.
LEMMA MaxIs ==
  ASSUME NEW S \in SUBSET Int, IsFiniteSet(S), S # {}
  PROVE  Max(S) \in S /\ \A y \in S : y <= Max(S)
<1> DEFINE f == [x \in S |-> -x]
<1>1. f \in [S -> Int] OBVIOUS
<1>2. PICK x \in S : \A y \in S : f[x] <= f[y]
  <2> HIDE DEF f
  <2> QED BY <1>1, LeastValue
<1>3. \A y \in S : x >= y BY <1>2
<1>4. Max(S) \in S /\ \A y \in S : Max(S) >= y BY <1>3 DEF Max
<1> QED BY <1>4

\* A common divisor divides both parts, and a largest one exists.
LEMMA MaxDivisor ==
  ASSUME NEW n \in Int, NEW d \in Nat \ {0}
  PROVE  Max(Divisors(n, d)) \in Divisors(n, d)
<1> DEFINE D == Divisors(n, d)
<1>1. D \subseteq 1 .. d /\ D \in SUBSET Int BY DEF Divisors
<1>2. IsFiniteSet(D)
  <2>1. IsFiniteSet(1 .. d) BY FS_Interval
  <2> HIDE DEF D
  <2> QED BY <1>1, <2>1, FS_Subset
<1>3. 1 \in D BY DEF Divisors
<1> HIDE DEF D
<1> QED BY <1>1, <1>2, <1>3, MaxIs DEF D

\* Lowest is the fraction it is given.
LEMMA LowestIs ==
  ASSUME NEW n \in Int, NEW d \in Nat \ {0}
  PROVE  Lowest(n, d) \in Fraction /\ Is(Lowest(n, d), n, d)
<1> DEFINE k == Max(Divisors(n, d))
           a == n \div k
           b == d \div k
<1>1. k \in 1 .. d /\ n % k = 0 /\ d % k = 0 BY MaxDivisor DEF Divisors
<1> HIDE DEF k
<1>2. k \in Nat \ {0} BY <1>1
<1>3. a \in Int /\ n = k * a BY <1>1, <1>2
<1>4. b \in Int /\ d = k * b BY <1>1, <1>2
<1> HIDE DEF a, b
<1>5. b \in Nat \ {0}
  <2>1. ~(b <= 0)
    <3> SUFFICES ASSUME b <= 0 PROVE FALSE OBVIOUS
    <3>1. k * b <= 0 BY <1>2, <1>4
    <3> QED BY <1>4, <3>1
  <2> QED BY <1>4, <2>1
<1>6. a * d = n * b
  <2>1. a * d = a * (k * b) /\ n * b = (k * a) * b BY <1>3, <1>4
  <2> QED BY <1>2, <1>3, <1>4, <2>1
<1>7. Lowest(n, d) = <<a, b>> BY DEF Lowest, a, b, k
<1> QED BY <1>3, <1>5, <1>6, <1>7 DEF Fraction, Is

LEMMA FractionParts ==
  ASSUME NEW p \in Fraction
  PROVE  p[1] \in Int /\ p[2] \in Nat \ {0} /\ p \in Ratio /\ p # Infinity
BY DEF Fraction, Ratio, Infinity

LEMMA RatioCases ==
  ASSUME NEW p \in Ratio
  PROVE  p = Infinity \/ p \in Fraction
BY DEF Fraction, Ratio

\* Sums are sums.
LEMMA PlusIs ==
  ASSUME NEW p \in Fraction, NEW q \in Fraction,
         NEW n \in Int, NEW d \in Nat \ {0}, Is(p, n, d),
         NEW m \in Int, NEW e \in Nat \ {0}, Is(q, m, e)
  PROVE  /\ Plus(p, q) \in Fraction
         /\ Is(Plus(p, q), n * e + m * d, d * e)
<1> DEFINE p1 == p[1]  p2 == p[2]  q1 == q[1]  q2 == q[2]
           N == p1 * q2 + q1 * p2
           D == p2 * q2
           s == Plus(p, q)
<1>1. p1 \in Int /\ p2 \in Nat \ {0} /\ q1 \in Int /\ q2 \in Nat \ {0}
      /\ p # Infinity /\ q # Infinity
  BY FractionParts
<1>2. p1 * d = n * p2 /\ q1 * e = m * q2 BY DEF Is
<1>3. s = Lowest(N, D) BY <1>1 DEF Plus
<1> HIDE DEF p1, p2, q1, q2, s
<1>4. N \in Int /\ D \in Nat \ {0} BY <1>1
<1> HIDE DEF N, D
<1>5. s \in Fraction /\ Is(s, N, D) BY <1>3, <1>4, LowestIs
<1> DEFINE a == s[1]  b == s[2]
<1>6. a \in Int /\ b \in Nat \ {0} /\ a * D = N * b BY <1>5, FractionParts DEF Is
<1> HIDE DEF a, b
<1>7. N * (d * e) = (n * e + m * d) * D
  <2>1. N * (d * e) = (p1 * d) * (q2 * e) + (q1 * e) * (p2 * d) BY <1>1 DEF N
  <2>2. N * (d * e) = (n * p2) * (q2 * e) + (m * q2) * (p2 * d) BY <1>2, <2>1
  <2> QED BY <1>1, <2>2 DEF D
<1>8. a * (d * e) = (n * e + m * d) * b
  <2> DEFINE x == a * (d * e)  y == (n * e + m * d) * b  M == n * e + m * d  E == d * e
  <2>0. M \in Int /\ E \in Int /\ x \in Int /\ y \in Int BY <1>6
  <2>1. x * D = (a * D) * E BY <1>4, <1>6
  <2>2. (a * D) * E = (N * b) * E BY <1>6
  <2>3. (N * b) * E = (N * E) * b BY <1>4, <1>6
  <2>4. (N * E) * b = (M * D) * b BY <1>7
  <2>5. (M * D) * b = y * D BY <1>4, <1>6
  <2>6. x * D = y * D BY <2>1, <2>2, <2>3, <2>4, <2>5
  <2> HIDE DEF x, y
  <2>7. x = y BY <1>4, <2>0, <2>6, Cancel
  <2> QED BY <2>7 DEF x, y
<1> QED BY <1>5, <1>8 DEF Is, a, b, s

\* p in units of 1/M, rounded down.
Floor(p, M) == (M * p[1]) \div p[2]

\* What holds of a quotient rounded down.
LEMMA Quotient ==
  ASSUME NEW n \in Int, NEW d \in Nat \ {0}
  PROVE  /\ n \div d \in Int
         /\ d * (n \div d) <= n
         /\ n < d * (n \div d + 1)
OBVIOUS

\* Of f <= t + c/M with whole c only the fractional parts are lost.
LEMMA FloorsKeepOrder ==
  ASSUME NEW f \in Fraction, NEW t \in Fraction, NEW M \in Nat \ {0}, NEW c \in Int,
         f[1] * (t[2] * M) <= (t[1] * M + c * t[2]) * f[2]
  PROVE  Floor(f, M) <= Floor(t, M) + c
<1> DEFINE a == f[1]  b == f[2]  x == t[1]  y == t[2]
           F == Floor(f, M)
           T == Floor(t, M)
<1>1. a \in Int /\ b \in Nat \ {0} /\ x \in Int /\ y \in Nat \ {0}
  BY FractionParts
<1>2. a * (y * M) <= (x * M + c * y) * b OBVIOUS
<1>3. F = (M * a) \div b /\ T = (M * x) \div y BY DEF Floor
<1> HIDE DEF a, b, x, y, F, T
<1>4. M * a \in Int /\ M * x \in Int BY <1>1
<1>5. F \in Int /\ b * F <= M * a BY <1>1, <1>3, <1>4, Quotient
<1>6. T \in Int /\ M * x < y * (T + 1) BY <1>1, <1>3, <1>4, Quotient
<1> SUFFICES ASSUME F >= T + c + 1 PROVE FALSE
  BY <1>5, <1>6 DEF F, T
<1>7. (T + c + 1) * (b * y) <= F * (b * y)
  <2>1. b * y \in Nat BY <1>1
  <2> QED BY <1>5, <1>6, <2>1, TimesMonotone
<1>8. F * (b * y) <= (M * a) * y
  <2>1. (b * F) * y <= (M * a) * y
    <3>1. b * F \in Int BY <1>1, <1>5
    <3> QED BY <1>1, <1>4, <1>5, <3>1, TimesMonotone
  <2> QED BY <1>1, <1>5, <2>1
<1>9. (M * a) * y <= (x * M + c * y) * b BY <1>1, <1>2
<1>10. (x * M + c * y) * b + b <= (y * (T + 1) + c * y) * b
  <2>1. x * M + c * y + 1 <= y * (T + 1) + c * y
    <3> DEFINE P == x * M  Q == y * (T + 1)  R == c * y
    <3>1. P \in Int /\ Q \in Int /\ R \in Int BY <1>1, <1>6
    <3>2. P < Q
      <4>1. M * x = P BY <1>1
      <4> QED BY <1>6, <4>1
    <3> HIDE DEF P, Q, R
    <3>3. P + R + 1 <= Q + R BY <3>1, <3>2
    <3> QED BY <3>3 DEF P, Q, R
  <2>2. x * M + c * y + 1 \in Int /\ y * (T + 1) + c * y \in Int BY <1>1, <1>6
  <2>3. (x * M + c * y + 1) * b <= (y * (T + 1) + c * y) * b
    BY <1>1, <2>1, <2>2, TimesMonotone
  <2> QED BY <1>1, <2>3
<1>11. (y * (T + 1) + c * y) * b = (T + c + 1) * (b * y) BY <1>1, <1>6
<1> DEFINE p == (T + c + 1) * (b * y)  q == F * (b * y)  u == (M * a) * y
           w == (x * M + c * y) * b
<1>12. p \in Int /\ q \in Int /\ u \in Int /\ w \in Int
  BY <1>1, <1>5, <1>6
<1>13. p <= q /\ q <= u /\ u <= w /\ w + b <= p BY <1>7, <1>8, <1>9, <1>10, <1>11
<1> HIDE DEF p, q, u, w
<1> QED BY <1>1, <1>12, <1>13

\* Reduced is weight - ratio * delay.
LEMMA ReducedIs ==
  ASSUME NEW w \in Int, NEW d \in Int, NEW x \in Fraction
  PROVE  /\ Reduced(w, d, x) \in Fraction
         /\ x[2] * w - x[1] * d \in Int
         /\ Is(Reduced(w, d, x), x[2] * w - x[1] * d, x[2])
<1>1. x[1] \in Int /\ x[2] \in Nat \ {0} BY FractionParts
<1>2. x[2] * w - x[1] * d \in Int BY <1>1
<1> QED BY <1>1, <1>2, LowestIs DEF Reduced

\* The cost, in units of 1 / (x[2] * Eps[2]), of an arc with the tolerance.
TolerantCost(w, d, x) == x[2] * (Eps[2] * w + Eps[1]) - x[1] * (Eps[2] * d)

LEMMA EpsIs ==
  /\ Eps \in Fraction
  /\ Eps[1] \in Nat
  /\ Is(Eps, Eps[1], Eps[2])
BY EpsAssumption DEF Fraction, Is

\* An arc that is not relaxed keeps its labels, rounded, in order.
LEMMA UnrelaxedArc ==
  ASSUME NEW w \in Int, NEW d \in Int, NEW x \in Fraction,
         NEW f \in Fraction, NEW t \in Fraction,
         ~Less(Plus(Plus(t, Reduced(w, d, x)), Eps), f)
  PROVE  /\ TolerantCost(w, d, x) \in Int
         /\ Floor(f, x[2] * Eps[2]) <= Floor(t, x[2] * Eps[2]) + TolerantCost(w, d, x)
<1> DEFINE x1 == x[1]  x2 == x[2]  E1 == Eps[1]  E2 == Eps[2]  t1 == t[1]  t2 == t[2]
           f1 == f[1]  f2 == f[2]
           n == x2 * w - x1 * d
           q == Reduced(w, d, x)
           b == Plus(t, q)
           s == Plus(b, Eps)
           M == x2 * E2
           c == TolerantCost(w, d, x)
<1>1. /\ x1 \in Int /\ x2 \in Nat \ {0} /\ t1 \in Int /\ t2 \in Nat \ {0}
      /\ E1 \in Int /\ E2 \in Nat \ {0} /\ f1 \in Int /\ f2 \in Nat \ {0}
  BY FractionParts, EpsIs
<1>2. q \in Fraction /\ n \in Int /\ Is(q, n, x2) BY ReducedIs
<1>3. Is(t, t1, t2) BY DEF Is
<1>4. c = n * E2 + E1 * x2
  <2>1. c = x2 * (E2 * w + E1) - x1 * (E2 * d) BY DEF TolerantCost
  <2> HIDE DEF x1, x2, E1, E2, c
  <2> QED BY <1>1, <2>1
<1>5. ~Less(s, f) /\ Is(Eps, E1, E2) BY EpsIs
<1> HIDE DEF x1, x2, E1, E2, t1, t2, f1, f2, q, b, s, c
<1>6. c \in Int /\ M \in Nat \ {0} BY <1>1, <1>2, <1>4
<1>7. b \in Fraction /\ Is(b, t1 * x2 + n * t2, t2 * x2)
  BY <1>1, <1>2, <1>3, PlusIs DEF b
<1> HIDE DEF n
<1> DEFINE m == t1 * x2 + n * t2
           e == t2 * x2
<1>8. m \in Int /\ e \in Nat \ {0} BY <1>1, <1>2
<1>9. s \in Fraction /\ Is(s, m * E2 + E1 * e, e * E2)
  <2> HIDE DEF m, e
  <2> QED BY <1>1, <1>5, <1>7, <1>8, EpsIs, PlusIs DEF s, m, e
<1>10. m * E2 + E1 * e = t1 * M + c * t2 /\ e * E2 = t2 * M
  BY <1>1, <1>2, <1>4
<1> HIDE DEF m, e, M
<1> DEFINE s1 == s[1]  s2 == s[2]  k == t1 * M + c * t2
<1>11. s1 \in Int /\ s2 \in Nat \ {0} BY <1>9, FractionParts
<1>12. s1 * (t2 * M) = k * s2 BY <1>9, <1>10 DEF Is
<1>13. f1 * s2 <= s1 * f2
  <2>1. f[1] * s2 \in Int /\ s1 * f[2] \in Int BY <1>1, <1>11 DEF f1, f2
  <2>2. ~(s1 * f[2] < f[1] * s2) BY <1>5 DEF Less
  <2> HIDE DEF s1, s2
  <2> QED BY <2>1, <2>2 DEF f1, f2
<1> HIDE DEF s1, s2, k
<1>14. f1 * (t2 * M) <= k * f2
  <2> DEFINE A == f1 * (t2 * M)  B == k * f2
  <2>0. k \in Int BY <1>1, <1>6 DEF k
  <2>1. A \in Int /\ B \in Int /\ t2 * M \in Nat BY <1>1, <1>6, <2>0
  <2>2. A * s2 = (f1 * s2) * (t2 * M) BY <1>1, <1>6, <1>11
  <2>3. (f1 * s2) * (t2 * M) <= (s1 * f2) * (t2 * M)
    <3>1. f1 * s2 \in Int /\ s1 * f2 \in Int BY <1>1, <1>11
    <3> QED BY <1>13, <2>1, <3>1, TimesMonotone
  <2>4. (s1 * f2) * (t2 * M) = (s1 * (t2 * M)) * f2 BY <1>1, <1>6, <1>11
  <2>5. (s1 * (t2 * M)) * f2 = B * s2 BY <1>1, <1>11, <1>12, <2>0
  <2>6. A * s2 <= B * s2 BY <2>2, <2>3, <2>4, <2>5
  <2> HIDE DEF A, B
  <2>7. A <= B BY <1>11, <2>1, <2>6, TimesMonotone
  <2> QED BY <2>7 DEF A, B
<1>15. Floor(f, M) <= Floor(t, M) + c
  BY <1>6, <1>14, FloorsKeepOrder DEF f1, f2, t1, t2, k
<1> QED BY <1>6, <1>15 DEF c, M, x2, E2

-----------------------------------------------------------------------------
(***************************************************************************)
(* Policies and where they lead.                                           *)
(***************************************************************************)
\* What run() is given.
LEMMA GraphGiven ==
  ASSUME h \in Instances
  PROVE  /\ IsFiniteSet(h.nodes) /\ h.nodes # {}
         /\ Cardinality(h.nodes) \in Nat \ {0}
         /\ Arcs \subseteq Arc /\ IsFiniteSet(Arcs)
         /\ IsGraph(h.nodes, Arcs)
         /\ \A e \in Arcs : e.weight \in Int /\ e.delay \in Int
         /\ EveryCyclePositive(h.nodes, Arcs)
         /\ h.r0 \in Fraction
<1>1. /\ h.nodes \subseteq Node /\ h.nodes # {}
      /\ h.order \in Seq(Arc)
      /\ \A k \in DOMAIN h.order : {h.order[k].from, h.order[k].to} \subseteq h.nodes
      /\ h.r0 \in Int \X (Nat \ {0})
  BY InstancesAssumption
<1>2. IsFiniteSet(h.nodes) BY <1>1, NodeAssumption, FS_Subset
<1>3. Cardinality(h.nodes) \in Nat \ {0}
  BY <1>1, <1>2, FS_CardinalityType, FS_EmptySet
<1>4. Arcs = {h.order[k] : k \in 1 .. Len(h.order)} /\ Len(h.order) \in Nat
      /\ DOMAIN h.order = 1 .. Len(h.order)
  BY <1>1 DEF Arcs, ToSet
<1>5. Arcs \subseteq Arc BY <1>1, <1>4
<1>6. IsFiniteSet(Arcs)
  <2> DEFINE D == 1 .. Len(h.order)
  <2>1. IsFiniteSet(D) BY <1>4, FS_Interval
  <2>2. [k \in D |-> h.order[k]] \in Surjection(D, Arcs) BY <1>4 DEF Surjection
  <2> HIDE DEF D
  <2> QED BY <2>1, <2>2, FS_Surjection
<1>7. IsGraph(h.nodes, Arcs) BY <1>1, <1>4 DEF IsGraph
<1>8. \A e \in Arcs : e.weight \in Int /\ e.delay \in Int BY <1>5 DEF Arc
<1>9. EveryCyclePositive(h.nodes, Arcs) BY CyclesAssumption DEF Arcs
<1> QED BY <1>1, <1>2, <1>3, <1>5, <1>6, <1>7, <1>8, <1>9 DEF Fraction

\* Every vertex has one of its own out-arcs.
IsPolicy(policy) == \A v \in h.nodes : policy[v] \in Arcs /\ policy[v].from = v

Stops == [at : h.nodes, weight : Int, delay : Int]

\* One arc further.
Onward(policy, p) ==
  [at |-> policy[p.at].to, weight |-> p.weight + policy[p.at].weight,
   delay |-> p.delay + policy[p.at].delay]

LEMMA OnwardStops ==
  ASSUME h \in Instances, NEW policy, IsPolicy(policy), NEW p \in Stops
  PROVE  Onward(policy, p) \in Stops
<1>1. p.at \in h.nodes /\ p.weight \in Int /\ p.delay \in Int BY DEF Stops
<1> DEFINE e == policy[p.at]
<1>2. e \in Arcs BY <1>1 DEF IsPolicy
<1>3. e.to \in h.nodes /\ e.weight \in Int /\ e.delay \in Int
  <2> HIDE DEF e
  <2> QED BY <1>2, GraphGiven DEF IsGraph
<1>4. Onward(policy, p) = [at |-> e.to, weight |-> p.weight + e.weight, delay |-> p.delay + e.delay]
  BY DEF Onward
<1> HIDE DEF e
<1> QED BY <1>1, <1>3, <1>4 DEF Stops

\* The recursion of Path defines a function, the stops one after the other.
LEMMA PathStops ==
  ASSUME h \in Instances, NEW policy, IsPolicy(policy), NEW v \in h.nodes
  PROVE  /\ Path(policy, v) \in [0 .. Cardinality(h.nodes) -> Stops]
         /\ Path(policy, v)[0] = [at |-> v, weight |-> 0, delay |-> 0]
         /\ \A k \in 1 .. Cardinality(h.nodes) :
              Path(policy, v)[k] = Onward(policy, Path(policy, v)[k - 1])
<1> DEFINE n == Cardinality(h.nodes)
           b == [at |-> v, weight |-> 0, delay |-> 0]
           O(p) == Onward(policy, p)
           F == [x \in (1 .. n) \X Stops |-> O(x[2])]
           P == Path(policy, v)
<1>1. n \in Nat BY GraphGiven
<1>2. b \in Stops BY DEF Stops
<1>3. \A p \in Stops : O(p) \in Stops BY OnwardStops
<1>4. P = CHOOSE f : f = [k \in 0 .. n |-> IF k = 0 THEN b ELSE O(f[k - 1])]
  BY DEF Path, Onward
<1> HIDE DEF n, b, O, P
<1>5. F \in [(1 .. n) \X Stops -> Stops] BY <1>3
<1>6. PICK f \in [0 .. n -> Stops] : Iterated(f, b, F, n)
  <2> HIDE DEF F
  <2> QED BY <1>1, <1>2, <1>5, Iterates
<1>7. f = [k \in 0 .. n |-> IF k = 0 THEN b ELSE O(f[k - 1])]
  <2>1. ASSUME NEW k \in 0 .. n, k # 0 PROVE f[k] = O(f[k - 1])
    <3>1. k \in 1 .. n /\ k - 1 \in 0 .. n /\ f[k - 1] \in Stops BY <1>1, <2>1
    <3>2. f[k] = F[<<k, f[k - 1]>>] BY <1>6, <3>1 DEF Iterated
    <3> QED BY <3>1, <3>2
  <2> QED BY <1>1, <1>6, <2>1 DEF Iterated
<1>8. P = [k \in 0 .. n |-> IF k = 0 THEN b ELSE O(P[k - 1])] BY <1>4, <1>7
<1>9. P[0] = b /\ \A k \in 1 .. n : k - 1 \in 0 .. n /\ P[k] = O(P[k - 1])
  BY <1>1, <1>8
<1>10. \A k \in 0 .. n : P[k] \in Stops
  <2> DEFINE S == {k \in 0 .. n : P[k] \in Stops}
  <2>1. 0 \in S BY <1>1, <1>2, <1>9
  <2>2. \A k \in 1 .. n : k - 1 \in S => k \in S BY <1>3, <1>9
  <2> HIDE DEF S
  <2>3. 0 .. n \subseteq S BY <1>1, <2>1, <2>2, AllUpTo
  <2> QED BY <2>3 DEF S
<1>11. P \in [0 .. n -> Stops] BY <1>8, <1>10
<1> QED BY <1>9, <1>11 DEF P, n, b, O

\* Going on from a stop is the rest of the path.
LEMMA PathGoesOn ==
  ASSUME h \in Instances, NEW policy, IsPolicy(policy), NEW v \in h.nodes,
         NEW i \in 0 .. Cardinality(h.nodes), NEW j \in 0 .. Cardinality(h.nodes),
         i + j <= Cardinality(h.nodes)
  PROVE  LET q == Path(policy, Path(policy, v)[i].at)[j]
         IN  /\ q.at = Path(policy, v)[i + j].at
             /\ Path(policy, v)[i + j].weight = Path(policy, v)[i].weight + q.weight
             /\ Path(policy, v)[i + j].delay = Path(policy, v)[i].delay + q.delay
<1> DEFINE n == Cardinality(h.nodes)
           P == Path(policy, v)
           x == P[i].at
           Q == Path(policy, x)
<1>1. n \in Nat BY GraphGiven
<1>2. P \in [0 .. n -> Stops] /\ \A k \in 1 .. n : P[k] = Onward(policy, P[k - 1])
  BY PathStops
<1>3. x \in h.nodes BY <1>2 DEF Stops
<1>4. /\ Q \in [0 .. n -> Stops] /\ Q[0] = [at |-> x, weight |-> 0, delay |-> 0]
      /\ \A k \in 1 .. n : Q[k] = Onward(policy, Q[k - 1])
  <2> HIDE DEF x
  <2> QED BY <1>3, PathStops
<1> DEFINE Rest(k) == /\ Q[k].at = P[i + k].at
                      /\ P[i + k].weight = P[i].weight + Q[k].weight
                      /\ P[i + k].delay = P[i].delay + Q[k].delay
           S == {k \in 0 .. n : i + k <= n => Rest(k)}
<1> HIDE DEF n, P, Q
<1>5. 0 \in S
  <2>1. P[i] \in Stops /\ i + 0 = i BY <1>2 DEF n
  <2>2. P[i].weight \in Int /\ P[i].delay \in Int BY <2>1 DEF Stops
  <2>3. Q[0].at = P[i].at /\ Q[0].weight = 0 /\ Q[0].delay = 0 BY <1>4
  <2>4. Rest(0) BY <2>1, <2>2, <2>3
  <2> QED BY <1>1, <2>4
<1>6. ASSUME NEW k \in 1 .. n, k - 1 \in S PROVE k \in S
  <2> SUFFICES ASSUME i + k <= n PROVE Rest(k)
    BY <1>6
  <2>1. i + (k - 1) <= n /\ i + k \in 1 .. n /\ (i + k) - 1 = i + (k - 1)
    BY <1>1 DEF n
  <2>2. Rest(k - 1) BY <1>6, <2>1
  <2>3. Q[k] = Onward(policy, Q[k - 1]) BY <1>4
  <2>4. P[i + k] = Onward(policy, P[i + (k - 1)])
    <3>1. P[i + k] = Onward(policy, P[(i + k) - 1]) BY <1>2, <2>1
    <3> QED BY <2>1, <3>1
  <2> DEFINE e == policy[Q[k - 1].at]
  <2>5. /\ Q[k].at = e.to
        /\ Q[k].weight = Q[k - 1].weight + e.weight
        /\ Q[k].delay = Q[k - 1].delay + e.delay
    BY <2>3 DEF Onward
  <2>6. /\ P[i + k].at = e.to
        /\ P[i + k].weight = P[i + (k - 1)].weight + e.weight
        /\ P[i + k].delay = P[i + (k - 1)].delay + e.delay
    BY <2>2, <2>4 DEF Onward
  <2>7. P[i] \in Stops /\ Q[k - 1] \in Stops BY <1>1, <1>2, <1>4 DEF n
  <2>8. e.weight \in Int /\ e.delay \in Int
    <3>1. Q[k - 1].at \in h.nodes BY <2>7 DEF Stops
    <3>2. e \in Arcs BY <3>1 DEF IsPolicy
    <3> HIDE DEF e
    <3> QED BY <3>2, GraphGiven
  <2> HIDE DEF e
  <2>9. /\ P[i].weight \in Int /\ P[i].delay \in Int
        /\ Q[k - 1].weight \in Int /\ Q[k - 1].delay \in Int
    BY <2>7 DEF Stops
  <2>10. P[i + k].weight = P[i].weight + Q[k].weight BY <2>2, <2>5, <2>6, <2>8, <2>9
  <2>11. P[i + k].delay = P[i].delay + Q[k].delay BY <2>2, <2>5, <2>6, <2>8, <2>9
  <2> QED BY <2>5, <2>6, <2>10, <2>11
<1> HIDE DEF S
<1>7. 0 .. n \subseteq S BY <1>1, <1>5, <1>6, AllUpTo
<1> QED BY <1>7 DEF S, n, P, Q

\* A path is long enough to come by some vertex twice.
LEMMA PathComesBack ==
  ASSUME h \in Instances, NEW policy, IsPolicy(policy), NEW v \in h.nodes
  PROVE  \E i \in 0 .. Cardinality(h.nodes) : Lap(policy, Path(policy, v)[i].at) # {}
<1> DEFINE n == Cardinality(h.nodes)
           P == Path(policy, v)
           at == [k \in 0 .. n |-> P[k].at]
<1>1. n \in Nat /\ IsFiniteSet(h.nodes) BY GraphGiven
<1>2. P \in [0 .. n -> Stops] BY PathStops
<1>3. at \in [0 .. n -> h.nodes] BY <1>2 DEF Stops
<1>4. IsFiniteSet(0 .. n) /\ Cardinality(0 .. n) = n + 1
  BY <1>1, FS_Interval
<1>5. PICK x \in 0 .. n, y \in 0 .. n : x # y /\ at[x] = at[y]
  <2>1. Cardinality(h.nodes) < Cardinality(0 .. n) BY <1>1, <1>4
  <2> HIDE DEF at, n
  <2> QED BY <1>1, <1>3, <1>4, <2>1, FS_PigeonHole
<1>6. ASSUME NEW i \in 0 .. n, NEW j \in 0 .. n, i < j, P[i].at = P[j].at
      PROVE  Lap(policy, P[i].at) # {}
  <2> DEFINE k == j - i
             z == P[i].at
             there == {m \in 1 .. n : Path(policy, z)[m].at \in {z}}
  <2>1. k \in 1 .. n /\ k \in 0 .. n /\ i + k <= n /\ i + k = j BY <1>1, <1>6
  <2>2. Path(policy, z)[k].at = z
    <3> HIDE DEF k
    <3> QED BY <1>6, <2>1, PathGoesOn
  <2>3. k \in there BY <2>1, <2>2
  <2> HIDE DEF there, z
  <2>4. PICK m \in there : \A l \in there : m <= l
    <3>1. there \in SUBSET Nat BY <1>1 DEF there
    <3> QED BY <2>3, <3>1, LeastNatural
  <2>5. Lap(policy, z) = {Path(policy, z)[q] : q \in {l \in there : \A o \in there : l <= o}}
    BY DEF Lap, FirstAt, there
  <2>6. Lap(policy, z) # {} BY <2>4, <2>5
  <2> QED BY <2>6 DEF z
<1>7. CASE x < y BY <1>5, <1>6, <1>7
<1>8. CASE y < x BY <1>5, <1>6, <1>8
<1> QED BY <1>1, <1>5, <1>7, <1>8

\* What FirstAt finds, and when it does.
LEMMA FirstAtIs ==
  ASSUME NEW K \in SUBSET Nat, NEW path, NEW X
  PROVE  /\ \A p \in FirstAt(path, K, X) : \E k \in K : p = path[k] /\ path[k].at \in X
         /\ (\E k \in K : path[k].at \in X) => FirstAt(path, K, X) # {}
<1> DEFINE there == {k \in K : path[k].at \in X}
<1>1. FirstAt(path, K, X) = {path[k] : k \in {j \in there : \A i \in there : j <= i}}
  BY DEF FirstAt
<1>2. there \in SUBSET Nat OBVIOUS
<1>3. there # {} => \E m \in there : \A i \in there : m <= i
  <2> HIDE DEF there
  <2> QED BY <1>2, LeastNatural
<1> QED BY <1>1, <1>3

\* The first of the stops numbered in K that is at a vertex of X.
IsFirst(path, K, X, k) ==
  k \in K /\ path[k].at \in X /\ \A i \in K : path[i].at \in X => k <= i

\* It finds the first.
LEMMA FirstAtIsFirst ==
  ASSUME NEW K \in SUBSET Nat, NEW path, NEW X
  PROVE  \A p \in FirstAt(path, K, X) : \E k \in K : p = path[k] /\ IsFirst(path, K, X, k)
BY DEF FirstAt, IsFirst

\* The walk from v runs into a policy cycle, and Met has its ratio.
LEMMA MetIsACycle ==
  ASSUME h \in Instances, NEW policy, IsPolicy(policy), NEW v \in h.nodes
  PROVE  \E x \in h.nodes, k \in 1 .. Cardinality(h.nodes) :
           /\ Path(policy, x)[k].at = x
           /\ IsFirst(Path(policy, x), 1 .. Cardinality(h.nodes), {x}, k)
           /\ Met(policy, v) =
                [at |-> x,
                 ratio |-> Lowest(Path(policy, x)[k].weight, Path(policy, x)[k].delay)]
<1> DEFINE n == Cardinality(h.nodes)
           loop == {x \in h.nodes : Lap(policy, x) # {}}
           first == FirstIn(Path(policy, v), loop)
           a == CHOOSE p \in first : TRUE
           x == a.at
           l == CHOOSE p \in Lap(policy, x) : TRUE
<1>1. n \in Nat /\ 0 .. n \in SUBSET Nat /\ 1 .. n \in SUBSET Nat BY GraphGiven
<1>2. Path(policy, v) \in [0 .. n -> Stops] BY PathStops
<1>3. PICK i \in 0 .. n : Lap(policy, Path(policy, v)[i].at) # {} BY PathComesBack
<1>4. Path(policy, v)[i].at \in loop BY <1>2, <1>3 DEF Stops
<1>5. first = FirstAt(Path(policy, v), 0 .. n, loop) BY DEF FirstIn
<1>6. first # {} /\ \A p \in first : p.at \in loop
  <2> DEFINE K == 0 .. n  path == Path(policy, v)
  <2>1. K \in SUBSET Nat /\ first = FirstAt(path, K, loop) BY <1>1, <1>5
  <2>2. \E k \in K : path[k].at \in loop BY <1>4
  <2> HIDE DEF loop, first, K, path
  <2>3. first # {} BY <2>1, <2>2, FirstAtIs
  <2>4. \A p \in first : \E k \in K : p = path[k] /\ path[k].at \in loop
    BY <2>1, FirstAtIs
  <2> QED BY <2>3, <2>4
<1>7. x \in loop
  <2>1. a \in first BY <1>6
  <2> HIDE DEF a, loop, first
  <2> QED BY <1>6, <2>1
<1>8. x \in h.nodes /\ Lap(policy, x) # {}
  <2> HIDE DEF x
  <2> QED BY <1>7
<1>9. l \in Lap(policy, x) BY <1>8
<1>10. Met(policy, v) = [at |-> x, ratio |-> Lowest(l.weight, l.delay)]
  BY DEF Met
<1> HIDE DEF x, l, n
<1>11. PICK k \in 1 .. n : l = Path(policy, x)[k] /\ IsFirst(Path(policy, x), 1 .. n, {x}, k)
  <2> DEFINE K == 1 .. n  path == Path(policy, x)  X == {x}
  <2>1. l \in FirstAt(path, K, X) /\ K \in SUBSET Nat BY <1>1, <1>9 DEF Lap, n
  <2> HIDE DEF K, path, X
  <2>2. \E k \in K : l = path[k] /\ IsFirst(path, K, X, k) BY <2>1, FirstAtIsFirst
  <2> QED BY <2>2 DEF K, path, X
<1> QED BY <1>8, <1>10, <1>11 DEF n, IsFirst

\* Along a path potentials rise by no more than its costs, if they do so along
\* the arcs of the policy.
LEMMA PathCosts ==
  ASSUME h \in Instances, NEW policy, IsPolicy(policy), NEW v \in h.nodes,
         NEW a \in Int, NEW b \in Int, NEW c \in Int,
         NEW p \in [h.nodes -> Int],
         \A u \in h.nodes : p[policy[u].to]
           <= p[u] + (a * policy[u].weight + b * policy[u].delay + c),
         NEW k \in 0 .. Cardinality(h.nodes)
  PROVE  p[Path(policy, v)[k].at]
           <= p[v] + (a * Path(policy, v)[k].weight + b * Path(policy, v)[k].delay + k * c)
<1> DEFINE n == Cardinality(h.nodes)
           P == Path(policy, v)
           Holds(i) == p[P[i].at] <= p[v] + (a * P[i].weight + b * P[i].delay + i * c)
           S == {i \in 0 .. n : Holds(i)}
<1>1. n \in Nat BY GraphGiven
<1>2. /\ P \in [0 .. n -> Stops]
      /\ P[0] = [at |-> v, weight |-> 0, delay |-> 0]
      /\ \A i \in 1 .. n : P[i] = Onward(policy, P[i - 1])
  BY PathStops
<1> HIDE DEF n, P
<1>3. 0 \in S
  <2>1. P[0].at = v /\ P[0].weight = 0 /\ P[0].delay = 0 BY <1>2
  <2>2. p[v] \in Int OBVIOUS
  <2> QED BY <1>1, <2>1, <2>2
<1>4. ASSUME NEW i \in 1 .. n, i - 1 \in S PROVE i \in S
  <2> DEFINE s == P[i - 1]  e == policy[s.at]
  <2>1. i - 1 \in 0 .. n /\ Holds(i - 1) BY <1>4
  <2>2. s \in Stops BY <1>2, <2>1
  <2>3. s.at \in h.nodes /\ s.weight \in Int /\ s.delay \in Int BY <2>2 DEF Stops
  <2>4. e \in Arcs /\ e.from = s.at
    <3> HIDE DEF s
    <3> QED BY <2>3 DEF IsPolicy
  <2>5. P[i] = Onward(policy, s) BY <1>2
  <2>6. P[i].at = e.to /\ P[i].weight = s.weight + e.weight /\ P[i].delay = s.delay + e.delay
    BY <2>5 DEF Onward
  <2>7. p[s.at] <= p[v] + (a * s.weight + b * s.delay + (i - 1) * c) BY <2>1
  <2> HIDE DEF s, e
  <2>8. e.weight \in Int /\ e.delay \in Int /\ e.to \in h.nodes
    BY <2>4, GraphGiven DEF IsGraph
  <2>9. p[e.to] <= p[s.at] + (a * e.weight + b * e.delay + c)
    BY <2>3, <2>4 DEF s, e
  <2> DEFINE x == a * s.weight + b * s.delay + (i - 1) * c
             y == a * e.weight + b * e.delay + c
             z == a * P[i].weight + b * P[i].delay + i * c
  <2>10. x + y = z
    <3>1. z = a * (s.weight + e.weight) + b * (s.delay + e.delay) + i * c BY <2>6
    <3>2. a * (s.weight + e.weight) = a * s.weight + a * e.weight BY <2>3, <2>8
    <3>3. b * (s.delay + e.delay) = b * s.delay + b * e.delay BY <2>3, <2>8
    <3>4. i * c = (i - 1) * c + c BY <1>1
    <3>5. /\ a * s.weight \in Int /\ a * e.weight \in Int /\ b * s.delay \in Int
          /\ b * e.delay \in Int /\ (i - 1) * c \in Int
      BY <1>1, <2>3, <2>8
    <3> QED BY <3>1, <3>2, <3>3, <3>4, <3>5
  <2>11. x \in Int /\ y \in Int BY <1>1, <2>3, <2>8
  <2>12. p[v] \in Int /\ p[s.at] \in Int /\ p[e.to] \in Int BY <2>3, <2>8
  <2>13. p[e.to] <= p[v] + z
    <3>1. p[s.at] <= p[v] + x /\ p[e.to] <= p[s.at] + y BY <2>7, <2>9
    <3> HIDE DEF x, y, z
    <3> QED BY <2>10, <2>11, <2>12, <3>1
  <2>14. Holds(i) BY <2>6, <2>13
  <2> QED BY <2>14
<1> HIDE DEF S
<1>5. 0 .. n \subseteq S BY <1>1, <1>3, <1>4, AllUpTo
<1> QED BY <1>5 DEF S, n, P

\* Once round a policy cycle the potentials cancel.
LEMMA LapCosts ==
  ASSUME h \in Instances, NEW policy, IsPolicy(policy), NEW x \in h.nodes,
         NEW a \in Int, NEW b \in Int, NEW c \in Int,
         NEW cost, cost = [e \in Arcs |-> a * e.weight + b * e.delay + c],
         NoNegativeCycle(h.nodes, Arcs, cost),
         NEW k \in 1 .. Cardinality(h.nodes), Path(policy, x)[k].at = x
  PROVE  0 <= a * Path(policy, x)[k].weight + b * Path(policy, x)[k].delay + k * c
<1> DEFINE n == Cardinality(h.nodes)
           s == Path(policy, x)[k]
<1>1. cost \in [Arcs -> Int] /\ \A e \in Arcs : cost[e] = a * e.weight + b * e.delay + c
  BY GraphGiven
<1>2. PICK p \in [h.nodes -> Int] : IsPotential(Arcs, cost, p)
  BY <1>1, GraphGiven, Potentials
<1>3. n \in Nat /\ k \in 0 .. n BY GraphGiven
<1>4. p[s.at] <= p[x] + (a * s.weight + b * s.delay + k * c)
  <2>1. ASSUME NEW u \in h.nodes
        PROVE  p[policy[u].to] <= p[u] + (a * policy[u].weight + b * policy[u].delay + c)
    <3>1. policy[u] \in Arcs /\ policy[u].from = u BY DEF IsPolicy
    <3> QED BY <1>1, <1>2, <3>1 DEF IsPotential
  <2> QED BY <1>2, <1>3, <2>1, PathCosts
<1>5. s \in Stops
  <2>1. Path(policy, x) \in [0 .. n -> Stops] BY PathStops
  <2> QED BY <1>3, <2>1
<1>6. s.weight \in Int /\ s.delay \in Int BY <1>5 DEF Stops
<1>7. a * s.weight + b * s.delay + k * c \in Int BY <1>3, <1>6
<1>8. p[s.at] = p[x] /\ p[x] \in Int OBVIOUS
<1> HIDE DEF s
<1> QED BY <1>4, <1>7, <1>8 DEF s

\* A policy cycle has a positive delay, as every cycle has.
LEMMA LapIsPositive ==
  ASSUME h \in Instances, NEW policy, IsPolicy(policy), NEW x \in h.nodes,
         NEW k \in 1 .. Cardinality(h.nodes), Path(policy, x)[k].at = x
  PROVE  /\ Path(policy, x)[k].weight \in Int
         /\ Path(policy, x)[k].delay \in Nat \ {0}
<1> DEFINE n == Cardinality(h.nodes)
           s == Path(policy, x)[k]
           one == [e \in Arcs |-> 0 * e.weight + (n + 1) * e.delay + (-1)]
<1>1. n \in Nat \ {0} /\ k \in 0 .. n BY GraphGiven
<1>2. s.weight \in Int /\ s.delay \in Int
  <2>1. Path(policy, x) \in [0 .. n -> Stops] BY PathStops
  <2>2. s \in Stops BY <1>1, <2>1
  <2> QED BY <2>2 DEF Stops
<1>3. Charged(h.nodes, Arcs, [e \in Arcs |-> e.delay]) = one
  <2>1. ASSUME NEW e \in Arcs
        PROVE  (n + 1) * e.delay - 1 = 0 * e.weight + (n + 1) * e.delay + (-1)
    <3>1. e.weight \in Int /\ e.delay \in Int BY GraphGiven
    <3>2. (n + 1) * e.delay \in Int /\ 0 * e.weight = 0 BY <1>1, <3>1
    <3> QED BY <3>2
  <2> QED BY <2>1 DEF Charged
<1>4. NoNegativeCycle(h.nodes, Arcs, one)
  <2> HIDE DEF one
  <2> QED BY <1>3, GraphGiven DEF EveryCyclePositive
<1>5. 0 <= 0 * s.weight + (n + 1) * s.delay + k * (-1)
  <2> DEFINE z == 0  m == n + 1  o == -1
  <2>1. z \in Int /\ m \in Int /\ o \in Int BY <1>1
  <2>2. one = [e \in Arcs |-> z * e.weight + m * e.delay + o] OBVIOUS
  <2> HIDE DEF one, z, m, o
  <2>3. 0 <= z * Path(policy, x)[k].weight + m * Path(policy, x)[k].delay + k * o
    BY <1>4, <2>1, <2>2, LapCosts
  <2> QED BY <2>3 DEF z, m, o
<1>6. s.delay > 0
  <2> SUFFICES ASSUME s.delay <= 0 PROVE FALSE
    BY <1>2
  <2> DEFINE d == s.delay
  <2>1. (n + 1) * d <= 0 /\ (n + 1) * d \in Int BY <1>1, <1>2
  <2>2. 0 * s.weight = 0 /\ k * (-1) < 0 /\ k * (-1) \in Int BY <1>1, <1>2
  <2> HIDE DEF d
  <2> QED BY <1>5, <2>1, <2>2 DEF d
<1> QED BY <1>2, <1>6

\* The costs of the arcs at the ratio y, in any unit, less a charge of one.
Charging(y, K) == [e \in Arcs |-> K * (y[2] * e.weight - y[1] * e.delay) - 1]

\* Some cycle has a ratio of at most y, in any unit of cost.
Reaches(y) ==
  \A K \in Nat \ {0} : ~NoNegativeCycle(h.nodes, Arcs, Charging(y, K))

\* The ratio of a policy cycle is that of some cycle.
LEMMA LapIsSomeCycle ==
  ASSUME h \in Instances, NEW policy, IsPolicy(policy), NEW x \in h.nodes,
         NEW k \in 1 .. Cardinality(h.nodes), Path(policy, x)[k].at = x,
         NEW y, y = Lowest(Path(policy, x)[k].weight, Path(policy, x)[k].delay)
  PROVE  y \in Fraction /\ Reaches(y)
<1> DEFINE W == Path(policy, x)[k].weight
           D == Path(policy, x)[k].delay
<1>1. k \in Nat \ {0} BY GraphGiven
<1>2. W \in Int /\ D \in Nat \ {0} BY LapIsPositive
<1>3. y \in Fraction /\ y[1] * D = W * y[2]
  <2> HIDE DEF W, D
  <2> QED BY <1>2, LowestIs DEF Is, W, D
<1>4. y[1] \in Int /\ y[2] \in Nat \ {0} BY <1>3, FractionParts
<1>5. ASSUME NEW K \in Nat \ {0}, NoNegativeCycle(h.nodes, Arcs, Charging(y, K))
      PROVE  FALSE
  <2> DEFINE a == K * y[2]
             b == -(K * y[1])
             o == -1
             cost == Charging(y, K)
  <2>1. a \in Int /\ b \in Int /\ o \in Int BY <1>4
  <2>2. cost = [e \in Arcs |-> a * e.weight + b * e.delay + o]
    <3>1. ASSUME NEW e \in Arcs
          PROVE  K * (y[2] * e.weight - y[1] * e.delay) - 1
                   = a * e.weight + b * e.delay + o
      <4> DEFINE w == e.weight  d == e.delay  y1 == y[1]  y2 == y[2]
      <4>1. w \in Int /\ d \in Int BY GraphGiven
      <4>2. y1 \in Int /\ y2 \in Int BY <1>4
      <4> HIDE DEF w, d, y1, y2
      <4>3. K * (y2 * w - y1 * d) - 1 = (K * y2) * w + (-(K * y1)) * d + (-1)
        BY <4>1, <4>2
      <4> QED BY <4>3 DEF w, d, y1, y2
    <3> QED BY <3>1 DEF Charging
  <2>3. 0 <= a * W + b * D + k * o
    <3> HIDE DEF a, b, cost, o
    <3>1. 0 <= a * Path(policy, x)[k].weight + b * Path(policy, x)[k].delay + k * o
      BY <1>5, <2>1, <2>2, LapCosts DEF cost
    <3> QED BY <3>1
  <2>4. a * W + b * D = 0
    <3> DEFINE y1 == y[1]  y2 == y[2]
    <3>1. y1 * D = W * y2 /\ y1 \in Int /\ y2 \in Int BY <1>3, <1>4
    <3> HIDE DEF y1, y2, W, D
    <3>2. (K * y2) * W + (-(K * y1)) * D = K * (W * y2) - K * (y1 * D)
      BY <1>2, <3>1
    <3>3. (K * y2) * W + (-(K * y1)) * D = 0
      <4>1. K * (W * y2) \in Int BY <1>2, <3>1
      <4> QED BY <3>1, <3>2, <4>1
    <3> QED BY <3>3 DEF y1, y2
  <2>5. k * o < 0 /\ k * o \in Int BY <1>1
  <2> HIDE DEF a, b, W, D, o
  <2> QED BY <2>3, <2>4, <2>5
<1> QED BY <1>3, <1>5 DEF Reaches

LEMMA ReachesSomeCycle ==
  ASSUME h \in Instances, NEW y, Reaches(y)
  PROVE  SomeCycleAtMost(h.nodes, Arcs, y)
<1> DEFINE K == Cardinality(h.nodes) + 1
<1>1. K \in Nat \ {0} BY GraphGiven
<1>2. Charged(h.nodes, Arcs, ReducedCost(Arcs, y)) = Charging(y, K)
  BY DEF Charged, ReducedCost, Charging
<1> HIDE DEF K
<1> QED BY <1>1, <1>2 DEF SomeCycleAtMost, Reaches

-----------------------------------------------------------------------------
(***************************************************************************)
(* The inductive invariant of run().                                       *)
(***************************************************************************)
\* No arc is worth relaxing.
Settled ==
  \A e \in Arcs :
    ~Less(Plus(Plus(dist[e.to], Reduced(e.weight, e.delay, r)), Eps), dist[e.from])

\* A label is finite once its vertex has a policy.
Labelled == \A v \in h.nodes : su[v] # NoArc => dist[v] # Infinity

\* A vertex has a policy as soon as it can have one.
Served ==
  IF pc = "init"
  THEN \A v \in h.nodes : su[v] = NoArc /\ dist[v] = Infinity
  ELSE \A v \in h.nodes : su[v] = NoArc <=> OutArcs(Arcs, v) = {}

\* Where the program goes on, all vertices have one.
Defined ==
  /\ pc \in {"evaluate", "improve", "returned"} => \A v \in h.nodes : su[v] # NoArc
  /\ pc = "undefined" => \E v \in h.nodes : su[v] = NoArc

\* r is where the search began or the ratio of a cycle.
Attained == r = h.r0 \/ Reaches(r)

IInv ==
  /\ h \in Instances
  /\ TypeOK
  /\ r \in Fraction
  /\ Labelled
  /\ Served
  /\ Defined
  /\ pc = "evaluate" => handle \in h.nodes
  /\ Attained
  /\ pc = "returned" => Settled

LEMMA InitIInv == Init => IInv
<1> SUFFICES ASSUME Init PROVE IInv
  OBVIOUS
<1>1. h \in Instances BY DEF Init
<1>2. r \in Fraction /\ r \in Ratio BY <1>1, GraphGiven, FractionParts DEF Init
<1>3. su = [v \in h.nodes |-> NoArc] /\ dist = [v \in h.nodes |-> Infinity]
      /\ handle = NoNode /\ pc = "init" /\ r = h.r0
  BY DEF Init
<1>4. Infinity \in Ratio BY DEF Ratio
<1>5. su \in [h.nodes -> Arcs \cup {NoArc}] /\ dist \in [h.nodes -> Ratio]
  BY <1>3, <1>4
<1>6. \A v \in h.nodes : su[v] = NoArc /\ dist[v] = Infinity BY <1>3
<1>7. TypeOK BY <1>2, <1>3, <1>5, <1>6 DEF TypeOK
<1> QED BY <1>1, <1>2, <1>3, <1>6, <1>7 DEF IInv, Labelled, Served, Defined, Attained

\* The labels and the policy where every vertex has one.
LEMMA PolicyGiven ==
  ASSUME IInv, pc # "init", \A v \in h.nodes : su[v] # NoArc
  PROVE  /\ IsPolicy(su)
         /\ dist \in [h.nodes -> Fraction]
         /\ su \in [h.nodes -> Arcs]
<1>1. su \in [h.nodes -> Arcs] /\ IsPolicy(su)
  BY DEF IInv, TypeOK, IsPolicy
<1>2. \A v \in h.nodes : dist[v] \in Fraction
  BY RatioCases DEF IInv, TypeOK, Labelled
<1> QED BY <1>1, <1>2 DEF IInv, TypeOK

\* The vertices, their labels and their arcs while InitPolicy goes over them:
\* a policy is one of the vertex's own arcs and comes with a finite label.
Choosing ==
  {s \in [dist : [h.nodes -> Ratio], su : [h.nodes -> Arcs \cup {NoArc}]] :
     \A v \in h.nodes : IF s.su[v] = NoArc THEN s.dist[v] = Infinity
                        ELSE s.su[v].from = v /\ s.dist[v] # Infinity}

LEMMA CheapestChooses ==
  ASSUME h \in Instances, r \in Fraction, NEW s \in Choosing, NEW e \in Arcs
  PROVE  /\ Cheapest(s, e) \in Choosing
         /\ Cheapest(s, e).su[e.from] # NoArc
         /\ \A v \in h.nodes : s.su[v] # NoArc => Cheapest(s, e).su[v] # NoArc
<1> DEFINE q == Reduced(e.weight, e.delay, r)
           u == e.from
           c == Cheapest(s, e)
<1>1. u \in h.nodes /\ e.weight \in Int /\ e.delay \in Int /\ e # NoArc
  BY GraphGiven, EpsAssumption DEF IsGraph
<1>2. q \in Fraction /\ q \in Ratio /\ q # Infinity
  BY <1>1, ReducedIs, FractionParts
<1>3. /\ s.dist \in [h.nodes -> Ratio] /\ s.su \in [h.nodes -> Arcs \cup {NoArc}]
      /\ \A v \in h.nodes : IF s.su[v] = NoArc THEN s.dist[v] = Infinity
                            ELSE s.su[v].from = v /\ s.dist[v] # Infinity
  BY DEF Choosing
<1>4. c = IF Less(q, s.dist[u])
          THEN [dist |-> [s.dist EXCEPT ![u] = q], su |-> [s.su EXCEPT ![u] = e]]
          ELSE s
  BY DEF Cheapest
<1> HIDE DEF q, c
<1>5. CASE Less(q, s.dist[u])
  <2>1. c.dist = [s.dist EXCEPT ![u] = q] /\ c.su = [s.su EXCEPT ![u] = e]
        /\ c = [dist |-> c.dist, su |-> c.su]
    BY <1>4, <1>5
  <2>2. c.dist \in [h.nodes -> Ratio] /\ c.su \in [h.nodes -> Arcs \cup {NoArc}]
    <3> DEFINE D == s.dist  P == s.su
    <3>1. D \in [h.nodes -> Ratio] /\ P \in [h.nodes -> Arcs \cup {NoArc}] BY <1>3
    <3>2. c.dist = [D EXCEPT ![u] = q] /\ c.su = [P EXCEPT ![u] = e] BY <2>1
    <3> HIDE DEF D, P, u
    <3>3. c.dist \in [h.nodes -> Ratio] BY <1>2, <3>1, <3>2
    <3>4. c.su \in [h.nodes -> Arcs \cup {NoArc}] BY <3>1, <3>2
    <3> QED BY <3>3, <3>4
  <2>3. \A v \in h.nodes : /\ c.su[v] = IF v = u THEN e ELSE s.su[v]
                           /\ c.dist[v] = IF v = u THEN q ELSE s.dist[v]
    BY <1>3, <2>1
  <2>4. \A v \in h.nodes : IF c.su[v] = NoArc THEN c.dist[v] = Infinity
                           ELSE c.su[v].from = v /\ c.dist[v] # Infinity
    BY <1>1, <1>2, <1>3, <2>3
  <2>5. c \in [dist : [h.nodes -> Ratio], su : [h.nodes -> Arcs \cup {NoArc}]]
    BY <2>1, <2>2
  <2> QED BY <1>1, <2>3, <2>4, <2>5 DEF Choosing, c
<1>6. CASE ~Less(q, s.dist[u])
  <2>1. c = s BY <1>4, <1>6
  <2>2. s.dist[u] # Infinity
    <3>1. q[2] \in Nat \ {0} /\ q[1] \in Int BY <1>2, FractionParts
    <3>2. Less(q, Infinity) BY <3>1 DEF Less, Infinity
    <3> QED BY <1>6, <3>2
  <2>3. s.su[u] # NoArc BY <1>1, <1>3, <2>2
  <2> QED BY <2>1, <2>3 DEF c
<1> QED BY <1>5, <1>6

LEMMA InitPolicyStep == ASSUME IInv, InitPolicy PROVE IInv'
<1> DEFINE n == Len(h.order)
           b == [dist |-> dist, su |-> su]
           C(s, k) == Cheapest(s, h.order[k])
           F == [x \in (1 .. n) \X Choosing |-> C(x[2], x[1])]
           L == CHOOSE f : f = [k \in 0 .. n |-> IF k = 0 THEN b ELSE C(f[k - 1], k)]
<1>1. h \in Instances /\ r \in Fraction /\ TypeOK /\ Served /\ pc = "init"
  BY DEF IInv, InitPolicy
<1>2. n \in Nat /\ Arcs = {h.order[k] : k \in 1 .. n}
  <2>1. h.order \in Seq(Arc) BY <1>1, InstancesAssumption
  <2> QED BY <2>1 DEF Arcs, ToSet
<1>3. dist' = L[n].dist /\ su' = L[n].su /\ pc' = "find" /\ h' = h /\ r' = r
      /\ handle' = handle
  BY DEF InitPolicy
<1>4. b \in Choosing
  <2>1. dist \in [h.nodes -> Ratio] /\ su \in [h.nodes -> Arcs \cup {NoArc}]
    BY <1>1 DEF TypeOK
  <2>2. \A v \in h.nodes : su[v] = NoArc /\ dist[v] = Infinity BY <1>1 DEF Served
  <2> QED BY <2>1, <2>2 DEF Choosing
<1>5. \A k \in 1 .. n : \A s \in Choosing :
        /\ C(s, k) \in Choosing
        /\ C(s, k).su[h.order[k].from] # NoArc
        /\ \A v \in h.nodes : s.su[v] # NoArc => C(s, k).su[v] # NoArc
  BY <1>1, <1>2, CheapestChooses
<1> HIDE DEF n, b, C, L
<1>6. F \in [(1 .. n) \X Choosing -> Choosing] BY <1>5
<1>7. PICK f \in [0 .. n -> Choosing] : Iterated(f, b, F, n)
  <2> HIDE DEF F
  <2> QED BY <1>2, <1>4, <1>6, Iterates
<1>8. f = [k \in 0 .. n |-> IF k = 0 THEN b ELSE C(f[k - 1], k)]
  <2>1. ASSUME NEW k \in 0 .. n, k # 0 PROVE f[k] = C(f[k - 1], k)
    <3>1. k \in 1 .. n /\ k - 1 \in 0 .. n /\ f[k - 1] \in Choosing BY <1>2, <2>1
    <3>2. f[k] = F[<<k, f[k - 1]>>] BY <1>7, <3>1 DEF Iterated
    <3> QED BY <3>1, <3>2
  <2> QED BY <1>2, <1>7, <2>1 DEF Iterated
<1>9. L = [k \in 0 .. n |-> IF k = 0 THEN b ELSE C(L[k - 1], k)] BY <1>8 DEF L
<1>10. L[0] = b /\ \A k \in 1 .. n : k - 1 \in 0 .. n /\ L[k] = C(L[k - 1], k)
  BY <1>2, <1>9
<1> DEFINE S == {k \in 0 .. n : /\ L[k] \in Choosing
                                /\ \A j \in 1 .. k : L[k].su[h.order[j].from] # NoArc}
<1>11. 0 \in S BY <1>2, <1>4, <1>10
<1>12. ASSUME NEW k \in 1 .. n, k - 1 \in S PROVE k \in S
  <2>1. L[k - 1] \in Choosing /\ L[k] = C(L[k - 1], k) BY <1>10, <1>12
  <2>2. L[k] \in Choosing /\ L[k].su[h.order[k].from] # NoArc BY <1>5, <2>1
  <2>3. ASSUME NEW j \in 1 .. k - 1 PROVE L[k].su[h.order[j].from] # NoArc
    <3>1. L[k - 1].su[h.order[j].from] # NoArc BY <1>12, <2>3
    <3>2. h.order[j] \in Arcs BY <1>2, <2>3
    <3>3. h.order[j].from \in h.nodes BY <1>1, <3>2, GraphGiven DEF IsGraph
    <3> QED BY <1>5, <2>1, <3>1, <3>3
  <2>4. \A j \in 1 .. k : j = k \/ j \in 1 .. k - 1 BY <1>2
  <2> QED BY <2>2, <2>3, <2>4
<1>13. n \in S
  <2> HIDE DEF S
  <2>1. 0 .. n \subseteq S BY <1>2, <1>11, <1>12, AllUpTo
  <2> QED BY <1>2, <2>1
<1>14. /\ dist' \in [h.nodes -> Ratio] /\ su' \in [h.nodes -> Arcs \cup {NoArc}]
       /\ \A v \in h.nodes : IF su'[v] = NoArc THEN dist'[v] = Infinity
                             ELSE su'[v].from = v /\ dist'[v] # Infinity
  BY <1>3, <1>13 DEF Choosing
<1>15. \A e \in Arcs : su'[e.from] # NoArc BY <1>2, <1>3, <1>13
<1>16. Arcs' = Arcs BY <1>3 DEF Arcs
<1>17. TypeOK'
  BY <1>1, <1>3, <1>14, <1>16 DEF TypeOK
<1>18. Served'
  <2>1. \A v \in h.nodes : su'[v] = NoArc <=> OutArcs(Arcs, v) = {}
    BY <1>14, <1>15 DEF OutArcs
  <2> QED BY <1>3, <1>16, <2>1 DEF Served
<1>19. Labelled' BY <1>3, <1>14 DEF Labelled
<1>20. Attained' BY <1>3, <1>16 DEF IInv, Attained, Reaches, Charging
<1> QED BY <1>1, <1>3, <1>17, <1>18, <1>19, <1>20 DEF IInv, Defined

LEMMA FindRatioStep == ASSUME IInv, FindRatio PROVE IInv'
<1>1. /\ h \in Instances /\ r \in Fraction /\ TypeOK /\ Served /\ Attained /\ Labelled
      /\ pc = "find" /\ h' = h /\ su' = su /\ dist' = dist
  BY DEF IInv, FindRatio
<1>2. Arcs' = Arcs BY <1>1 DEF Arcs
<1>3. Labelled' BY <1>1 DEF Labelled
<1>4. pc' # "init" => Served' BY <1>1, <1>2 DEF Served
<1>5. CASE \E v \in h.nodes : su[v] = NoArc
  <2>1. pc' = "undefined" /\ r' = r /\ handle' = handle BY <1>5 DEF FindRatio
  <2>2. TypeOK' BY <1>1, <1>2, <2>1 DEF TypeOK
  <2>3. Attained' BY <1>1, <1>2, <2>1 DEF Attained, Reaches, Charging
  <2> QED BY <1>1, <1>3, <1>4, <1>5, <2>1, <2>2, <2>3 DEF IInv, Defined
<1>6. CASE \A v \in h.nodes : su[v] # NoArc
  <2> DEFINE met == [v \in h.nodes |-> Met(su, v)]
             best == {v \in h.nodes :
                        /\ Less(met[v].ratio, r)
                        /\ \A w \in h.nodes : ~Less(met[w].ratio, met[v].ratio)}
  <2>1. IF best = {}
        THEN handle' = NoNode /\ pc' = "improve" /\ r' = r
        ELSE handle' = met[Min(best)].at /\ r' = met[Min(best)].ratio /\ pc' = "evaluate"
    BY <1>6 DEF FindRatio
  <2> HIDE DEF best
  <2>2. CASE best = {}
    <3>1. TypeOK' BY <1>1, <1>2, <2>1, <2>2 DEF TypeOK
    <3>2. Attained' BY <1>1, <1>2, <2>1, <2>2 DEF Attained, Reaches, Charging
    <3> QED BY <1>1, <1>3, <1>4, <1>6, <2>1, <2>2, <3>1, <3>2 DEF IInv, Defined
  <2>3. CASE best # {}
    <3> DEFINE v == Min(best)
    <3>1. v \in h.nodes
      <4>1. best \subseteq h.nodes BY DEF best
      <4>2. best \in SUBSET Nat BY <1>1, <4>1, InstancesAssumption
      <4>3. PICK m \in best : \A w \in best : m <= w BY <2>3, <4>2, LeastNatural
      <4>4. v \in best BY <4>3 DEF Min
      <4> QED BY <4>1, <4>4
    <3>2. IsPolicy(su) BY <1>1, <1>6, PolicyGiven
    <3>3. PICK x \in h.nodes, k \in 1 .. Cardinality(h.nodes) :
            /\ Path(su, x)[k].at = x
            /\ Met(su, v) =
                [at |-> x, ratio |-> Lowest(Path(su, x)[k].weight, Path(su, x)[k].delay)]
      <4> HIDE DEF v
      <4> QED BY <1>1, <3>1, <3>2, MetIsACycle
    <3>4. handle' = x /\ r' = Lowest(Path(su, x)[k].weight, Path(su, x)[k].delay)
          /\ pc' = "evaluate"
      BY <2>1, <2>3, <3>1, <3>3
    <3>5. r' \in Fraction /\ Reaches(r')
      BY <1>1, <3>2, <3>3, <3>4, LapIsSomeCycle
    <3>6. TypeOK' BY <1>1, <1>2, <3>4, <3>5, FractionParts DEF TypeOK
    <3>7. Attained' BY <1>1, <1>2, <3>5 DEF Attained, Reaches, Charging
    <3> QED BY <1>1, <1>3, <1>4, <1>6, <3>4, <3>5, <3>6, <3>7 DEF IInv, Defined
  <2> QED BY <2>2, <2>3
<1> QED BY <1>5, <1>6

LEMMA EvaluateStep == ASSUME IInv, Evaluate PROVE IInv'
<1> DEFINE n == Cardinality(h.nodes)
           way(v) == FirstIn(Path(su, v), {handle})
           p(v) == CHOOSE x \in way(v) : TRUE
           cost(v) == Plus(dist[handle], Reduced(p(v).weight, p(v).delay, r))
<1>1. /\ h \in Instances /\ r \in Fraction /\ TypeOK /\ Served /\ Attained
      /\ pc = "evaluate" /\ pc' = "improve" /\ h' = h /\ r' = r /\ su' = su
      /\ handle' = handle /\ handle \in h.nodes
      /\ \A v \in h.nodes : su[v] # NoArc
  BY DEF IInv, Evaluate, Defined
<1>2. dist' = [v \in h.nodes |-> IF way(v) = {} THEN dist[v] ELSE cost(v)]
  BY DEF Evaluate
<1>3. IsPolicy(su) /\ dist \in [h.nodes -> Fraction] BY <1>1, PolicyGiven
<1>4. ASSUME NEW v \in h.nodes, way(v) # {} PROVE cost(v) \in Fraction
  <2> DEFINE K == 0 .. n  path == Path(su, v)  X == {handle}  q == p(v)
  <2>0. n \in Nat BY <1>1, GraphGiven
  <2>1. q \in way(v) BY <1>4
  <2>2. way(v) = FirstAt(path, K, X) /\ K \in SUBSET Nat BY <2>0 DEF FirstIn
  <2>3. path \in [K -> Stops] BY <1>1, <1>3, PathStops
  <2> DEFINE W == way(v)
  <2> HIDE DEF q, K, path, X, W
  <2>4. q \in Stops
    <3>1. q \in FirstAt(path, K, X) /\ K \in SUBSET Nat BY <2>1, <2>2 DEF W
    <3>2. \A z \in FirstAt(path, K, X) : \E k \in K : z = path[k] /\ path[k].at \in X
      BY <3>1, FirstAtIs
    <3> QED BY <2>3, <3>1, <3>2
  <2>5. q.weight \in Int /\ q.delay \in Int BY <2>4 DEF Stops
  <2> DEFINE z == Reduced(q.weight, q.delay, r)
  <2>6. z \in Fraction BY <1>1, <2>5, ReducedIs
  <2>7. dist[handle] \in Fraction BY <1>1, <1>3
  <2> HIDE DEF z
  <2>8. Plus(dist[handle], z) \in Fraction
    <3> DEFINE d == dist[handle]
    <3>1. Is(d, d[1], d[2]) /\ Is(z, z[1], z[2]) BY DEF Is
    <3>2. d[1] \in Int /\ d[2] \in Nat \ {0} /\ z[1] \in Int /\ z[2] \in Nat \ {0}
      BY <2>6, <2>7, FractionParts
    <3> HIDE DEF d
    <3> QED BY <2>6, <2>7, <3>1, <3>2, PlusIs DEF d
  <2> QED BY <2>8 DEF z, q
<1> HIDE DEF cost, way
<1>5. dist' \in [h.nodes -> Fraction] BY <1>2, <1>3, <1>4
<1>6. \A v \in h.nodes : dist'[v] \in Ratio /\ dist'[v] # Infinity
  BY <1>5, FractionParts
<1>7. Arcs' = Arcs BY <1>1 DEF Arcs
<1>8. dist' \in [h.nodes -> Ratio]
  <2>1. Fraction \subseteq Ratio BY FractionParts
  <2> QED BY <1>5, <2>1
<1>9. TypeOK' BY <1>1, <1>7, <1>8 DEF TypeOK
<1>10. Served' BY <1>1, <1>7 DEF Served
<1>11. Attained' BY <1>1, <1>7 DEF Attained, Reaches, Charging
<1> QED BY <1>1, <1>6, <1>9, <1>10, <1>11 DEF IInv, Labelled, Defined

\* The sum of two fractions is a fraction.
LEMMA PlusFraction ==
  ASSUME NEW p \in Fraction, NEW q \in Fraction
  PROVE  Plus(p, q) \in Fraction
<1>1. Is(p, p[1], p[2]) /\ Is(q, q[1], q[2]) BY DEF Is
<1>2. p[1] \in Int /\ p[2] \in Nat \ {0} /\ q[1] \in Int /\ q[2] \in Nat \ {0}
  BY FractionParts
<1> QED BY <1>1, <1>2, PlusIs

\* What Improve goes through.
Improving ==
  {s \in [dist : [h.nodes -> Fraction], su : [h.nodes -> Arcs], changed : BOOLEAN] :
     \A v \in h.nodes : s.su[v].from = v}

\* Relaxing keeps the policies, and changes nothing just if the arc was not
\* worth it.
LEMMA RelaxedImproves ==
  ASSUME h \in Instances, r \in Fraction, NEW s \in Improving, NEW e \in Arcs
  PROVE  /\ Relaxed(s, e, Eps) \in Improving
         /\ ~Relaxed(s, e, Eps).changed =>
              /\ Relaxed(s, e, Eps) = s
              /\ ~Less(Plus(Plus(s.dist[e.to], Reduced(e.weight, e.delay, r)), Eps),
                       s.dist[e.from])
<1> DEFINE q == Reduced(e.weight, e.delay, r)
           better == Plus(s.dist[e.to], q)
           u == e.from
           c == Relaxed(s, e, Eps)
<1>1. u \in h.nodes /\ e.to \in h.nodes /\ e.weight \in Int /\ e.delay \in Int
  BY GraphGiven DEF IsGraph
<1>2. q \in Fraction BY <1>1, ReducedIs
<1>3. /\ s.dist \in [h.nodes -> Fraction] /\ s.su \in [h.nodes -> Arcs]
      /\ s.changed \in BOOLEAN /\ \A v \in h.nodes : s.su[v].from = v
  BY DEF Improving
<1>4. better \in Fraction
  <2>1. s.dist[e.to] \in Fraction BY <1>1, <1>3
  <2> HIDE DEF q
  <2> QED BY <1>2, <2>1, PlusFraction
<1>5. c = IF Less(Plus(better, Eps), s.dist[u])
          THEN [dist |-> [s.dist EXCEPT ![u] = better],
                su |-> [s.su EXCEPT ![u] = e], changed |-> TRUE]
          ELSE s
  BY DEF Relaxed
<1>6. CASE Less(Plus(better, Eps), s.dist[u])
  <2> DEFINE D == s.dist  P == s.su
  <2>1. c = [dist |-> [D EXCEPT ![u] = better], su |-> [P EXCEPT ![u] = e], changed |-> TRUE]
    <3> HIDE DEF c, better
    <3> QED BY <1>5, <1>6
  <2>2. D \in [h.nodes -> Fraction] /\ P \in [h.nodes -> Arcs]
        /\ \A v \in h.nodes : P[v].from = v
    BY <1>3
  <2>3. e.from = u OBVIOUS
  <2> HIDE DEF D, P, u, better, c
  <2>4. [D EXCEPT ![u] = better] \in [h.nodes -> Fraction] BY <1>4, <2>2
  <2>5. [P EXCEPT ![u] = e] \in [h.nodes -> Arcs] BY <2>2
  <2>6. \A v \in h.nodes : [P EXCEPT ![u] = e][v].from = v BY <2>2, <2>3
  <2>7. c \in Improving BY <2>1, <2>4, <2>5, <2>6 DEF Improving
  <2>8. c.changed = TRUE BY <2>1
  <2> QED BY <2>7, <2>8 DEF c
<1>7. CASE ~Less(Plus(better, Eps), s.dist[u])
  <2>1. c = s
    <3> HIDE DEF c, better
    <3> QED BY <1>5, <1>7
  <2> QED BY <1>7, <2>1
<1> QED BY <1>6, <1>7

\* The recursion of Improve defines a function, the states of its loop.
LEMMA ImproveLoop ==
  ASSUME IInv, Improve
  PROVE  LET n == Len(h.order) IN
         \E L \in [0 .. n -> Improving] :
           /\ L[0] = [dist |-> dist, su |-> su, changed |-> FALSE]
           /\ \A k \in 1 .. n : h.order[k] \in Arcs /\ L[k] = Relaxed(L[k - 1], h.order[k], Eps)
           /\ dist' = L[n].dist /\ su' = L[n].su
           /\ pc' = IF L[n].changed THEN "find" ELSE "returned"
<1> DEFINE n == Len(h.order)
           b == [dist |-> dist, su |-> su, changed |-> FALSE]
           C(s, k) == Relaxed(s, h.order[k], Eps)
           F == [x \in (1 .. n) \X Improving |-> C(x[2], x[1])]
           L == CHOOSE f : f = [k \in 0 .. n |-> IF k = 0 THEN b ELSE C(f[k - 1], k)]
<1>1. /\ h \in Instances /\ r \in Fraction /\ TypeOK
      /\ pc = "improve" /\ \A v \in h.nodes : su[v] # NoArc
  BY DEF IInv, Improve, Defined
<1>2. n \in Nat /\ Arcs = {h.order[k] : k \in 1 .. n}
  <2>1. h.order \in Seq(Arc) BY <1>1, InstancesAssumption
  <2> QED BY <2>1 DEF Arcs, ToSet
<1>3. /\ dist' = L[n].dist /\ su' = L[n].su
      /\ pc' = IF L[n].changed THEN "find" ELSE "returned"
  BY DEF Improve
<1>4. b \in Improving
  <2>1. IsPolicy(su) /\ dist \in [h.nodes -> Fraction] /\ su \in [h.nodes -> Arcs]
    BY <1>1, PolicyGiven
  <2> QED BY <2>1 DEF Improving, IsPolicy
<1>5. \A k \in 1 .. n : h.order[k] \in Arcs /\ \A s \in Improving : C(s, k) \in Improving
  BY <1>1, <1>2, RelaxedImproves
<1> HIDE DEF n, b, C, L
<1>6. F \in [(1 .. n) \X Improving -> Improving] BY <1>5
<1>7. PICK f \in [0 .. n -> Improving] : Iterated(f, b, F, n)
  <2> HIDE DEF F
  <2> QED BY <1>2, <1>4, <1>6, Iterates
<1>8. f = [k \in 0 .. n |-> IF k = 0 THEN b ELSE C(f[k - 1], k)]
  <2>1. ASSUME NEW k \in 0 .. n, k # 0 PROVE f[k] = C(f[k - 1], k)
    <3>1. k \in 1 .. n /\ k - 1 \in 0 .. n /\ f[k - 1] \in Improving BY <1>2, <2>1
    <3>2. f[k] = F[<<k, f[k - 1]>>] BY <1>7, <3>1 DEF Iterated
    <3> QED BY <3>1, <3>2
  <2> QED BY <1>2, <1>7, <2>1 DEF Iterated
<1>9. L = [k \in 0 .. n |-> IF k = 0 THEN b ELSE C(L[k - 1], k)] BY <1>8 DEF L
<1>10. L[0] = b /\ \A k \in 1 .. n : k - 1 \in 0 .. n /\ L[k] = C(L[k - 1], k)
  BY <1>2, <1>9
<1> DEFINE S == {k \in 0 .. n : L[k] \in Improving}
<1>11. 0 \in S BY <1>2, <1>4, <1>10
<1>12. ASSUME NEW k \in 1 .. n, k - 1 \in S PROVE k \in S
  <2>1. L[k - 1] \in Improving /\ L[k] = C(L[k - 1], k) BY <1>10, <1>12
  <2> QED BY <1>5, <2>1
<1> HIDE DEF S
<1>13. 0 .. n \subseteq S BY <1>2, <1>11, <1>12, AllUpTo
<1>14. L \in [0 .. n -> Improving]
  <2>1. \A k \in 0 .. n : L[k] \in Improving BY <1>13 DEF S
  <2> QED BY <1>9, <2>1
<1> QED BY <1>3, <1>5, <1>10, <1>14 DEF n, b, C

LEMMA ImproveStep == ASSUME IInv, Improve PROVE IInv'
<1> DEFINE n == Len(h.order)
           b == [dist |-> dist, su |-> su, changed |-> FALSE]
           still(e) == ~Less(Plus(Plus(dist[e.to], Reduced(e.weight, e.delay, r)), Eps),
                             dist[e.from])
<1>1. /\ h \in Instances /\ r \in Fraction /\ TypeOK /\ Served /\ Attained
      /\ pc = "improve" /\ \A v \in h.nodes : su[v] # NoArc
  BY DEF IInv, Improve, Defined
<1>2. n \in Nat /\ Arcs = {h.order[k] : k \in 1 .. n}
  <2>1. h.order \in Seq(Arc) BY <1>1, InstancesAssumption
  <2> QED BY <2>1 DEF Arcs, ToSet
<1>3. h' = h /\ r' = r /\ handle' = handle BY DEF Improve
<1>4. PICK L \in [0 .. n -> Improving] :
        /\ L[0] = b
        /\ \A k \in 1 .. n : h.order[k] \in Arcs /\ L[k] = Relaxed(L[k - 1], h.order[k], Eps)
        /\ dist' = L[n].dist /\ su' = L[n].su
        /\ pc' = IF L[n].changed THEN "find" ELSE "returned"
  BY ImproveLoop
<1>5. ASSUME NEW k \in 1 .. n, ~L[k].changed
      PROVE  L[k] = L[k - 1] /\ (L[k].dist = dist => still(h.order[k]))
  <2> DEFINE e == h.order[k]  s == L[k - 1]
  <2>1. e \in Arcs /\ s \in Improving /\ L[k] = Relaxed(s, e, Eps) BY <1>2, <1>4
  <2> HIDE DEF e, s
  <2>2. /\ L[k] = s
        /\ ~Less(Plus(Plus(s.dist[e.to], Reduced(e.weight, e.delay, r)), Eps), s.dist[e.from])
    BY <1>1, <1>5, <2>1, RelaxedImproves
  <2> QED BY <2>2 DEF e, s
<1>6. b.dist = dist /\ b.changed = FALSE OBVIOUS
<1> HIDE DEF n, b, still
<1> DEFINE S == {k \in 0 .. n : ~L[k].changed =>
                    L[k] = b /\ \A j \in 1 .. k : still(h.order[j])}
<1>7. 0 \in S BY <1>2, <1>4
<1>8. ASSUME NEW k \in 1 .. n, k - 1 \in S PROVE k \in S
  <2> SUFFICES ASSUME ~L[k].changed PROVE L[k] = b /\ \A j \in 1 .. k : still(h.order[j])
    BY <1>2
  <2>1. L[k] = L[k - 1] BY <1>5
  <2>2. L[k - 1] = b /\ \A j \in 1 .. k - 1 : still(h.order[j]) BY <1>8, <2>1
  <2>3. still(h.order[k]) BY <1>5, <1>6, <2>1, <2>2
  <2>4. \A j \in 1 .. k : j = k \/ j \in 1 .. k - 1 BY <1>2
  <2> QED BY <2>1, <2>2, <2>3, <2>4
<1>9. n \in S /\ L[n] \in Improving
  <2> HIDE DEF S
  <2>1. 0 .. n \subseteq S BY <1>2, <1>7, <1>8, AllUpTo
  <2> QED BY <1>2, <1>4, <2>1
<1>10. /\ dist' \in [h.nodes -> Fraction] /\ su' \in [h.nodes -> Arcs]
       /\ \A v \in h.nodes : su'[v].from = v
  BY <1>4, <1>9 DEF Improving
<1>11. \A v \in h.nodes : su'[v] # NoArc /\ dist'[v] # Infinity
  BY <1>1, <1>10, GraphGiven, EpsAssumption, FractionParts
<1>12. Arcs' = Arcs BY <1>3 DEF Arcs
<1>13. TypeOK'
  <2>1. Fraction \subseteq Ratio BY FractionParts
  <2>2. dist' \in [h.nodes -> Ratio] BY <1>10, <2>1
  <2> QED BY <1>1, <1>3, <1>4, <1>10, <1>12, <2>2 DEF TypeOK
<1>14. Served' BY <1>1, <1>3, <1>4, <1>11, <1>12 DEF Served
<1>15. Attained' BY <1>1, <1>3, <1>12 DEF Attained, Reaches, Charging
<1>16. pc' = "returned" => Settled'
  <2> SUFFICES ASSUME pc' = "returned" PROVE Settled'
    OBVIOUS
  <2>1. ~L[n].changed BY <1>4
  <2>2. L[n] = b /\ \A j \in 1 .. n : still(h.order[j]) BY <1>9, <2>1
  <2>3. dist' = dist BY <1>4, <1>6, <2>2
  <2>4. \A e \in Arcs : still(e) BY <1>2, <2>2
  <2> QED BY <1>3, <1>12, <2>3, <2>4 DEF Settled, still
<1>17. Labelled' /\ Defined' BY <1>3, <1>4, <1>11 DEF Labelled, Defined
<1>18. pc' # "evaluate" BY <1>4
<1> QED BY <1>1, <1>3, <1>4, <1>10, <1>13, <1>14, <1>15, <1>16, <1>17, <1>18 DEF IInv

LEMMA NextIInv == IInv /\ [Next]_vars => IInv'
<1> SUFFICES ASSUME IInv, [Next]_vars PROVE IInv'
  OBVIOUS
<1>1. CASE InitPolicy BY <1>1, InitPolicyStep
<1>2. CASE FindRatio BY <1>2, FindRatioStep
<1>3. CASE Evaluate BY <1>3, EvaluateStep
<1>4. CASE Improve BY <1>4, ImproveStep
<1>5. CASE UNCHANGED vars
  <2>1. h' = h /\ r' = r /\ su' = su /\ dist' = dist /\ handle' = handle /\ pc' = pc
    BY <1>5 DEF vars
  <2>2. Arcs' = Arcs BY <2>1 DEF Arcs
  <2> QED BY <2>1, <2>2 DEF IInv, TypeOK, Labelled, Served, Defined, Attained,
       Reaches, Charging, Settled
<1> QED BY <1>1, <1>2, <1>3, <1>4, <1>5 DEF Next

-----------------------------------------------------------------------------
(***************************************************************************)
(* The results.                                                            *)
(***************************************************************************)
LEMMA TolerantArc ==
  ASSUME h \in Instances, NEW e \in Arcs, NEW t,
         t = [e EXCEPT !.weight = Eps[2] * @ + Eps[1], !.delay = Eps[2] * @]
  PROVE  /\ t.from = e.from /\ t.to = e.to
         /\ t.weight = Eps[2] * e.weight + Eps[1]
         /\ t.delay = Eps[2] * e.delay
<1>1. e \in Arc BY GraphGiven
<1>2. e = [from |-> e.from, to |-> e.to, weight |-> e.weight, delay |-> e.delay]
  BY <1>1 DEF Arc
<1> QED BY <1>1, <1>2 DEF Arc

\* A round that relaxes nothing leaves potentials for the costs with the tolerance.
LEMMA SettledPotential ==
  ASSUME IInv, pc = "returned"
  PROVE  \E p \in [h.nodes -> Int] : \A e \in Arcs :
           /\ TolerantCost(e.weight, e.delay, r) \in Int
           /\ p[e.to] <= p[e.from] + TolerantCost(e.weight, e.delay, r)
<1> DEFINE M == r[2] * Eps[2]
           p == [v \in h.nodes |-> -Floor(dist[v], M)]
<1>1. h \in Instances /\ r \in Fraction /\ Settled /\ \A v \in h.nodes : su[v] # NoArc
  BY DEF IInv, Defined
<1>2. dist \in [h.nodes -> Fraction] BY <1>1, PolicyGiven
<1>3. M \in Int
  <2>1. r[2] \in Nat \ {0} /\ Eps[2] \in Nat \ {0} BY <1>1, EpsIs, FractionParts
  <2> QED BY <2>1
<1>4. \A e \in Arcs : /\ e.from \in h.nodes /\ e.to \in h.nodes
                      /\ e.weight \in Int /\ e.delay \in Int
  BY <1>1, GraphGiven DEF IsGraph
<1> HIDE DEF M
<1>5. \A v \in h.nodes : Floor(dist[v], M) \in Int
  <2> SUFFICES ASSUME NEW v \in h.nodes PROVE Floor(dist[v], M) \in Int
    OBVIOUS
  <2> DEFINE x == dist[v]
  <2>1. x[1] \in Int /\ x[2] \in Nat \ {0}
    <3>1. x \in Fraction BY <1>2
    <3> HIDE DEF x
    <3> QED BY <3>1, FractionParts
  <2>2. M * x[1] \in Int BY <1>3, <2>1
  <2> HIDE DEF x
  <2>3. Floor(x, M) \in Int BY <2>1, <2>2, Quotient DEF Floor
  <2> QED BY <2>3 DEF x
<1>6. ASSUME NEW e \in Arcs
      PROVE  /\ TolerantCost(e.weight, e.delay, r) \in Int
             /\ p[e.to] <= p[e.from] + TolerantCost(e.weight, e.delay, r)
  <2> DEFINE w == e.weight  d == e.delay  f == dist[e.from]  t == dist[e.to]
             x == Floor(f, M)  y == Floor(t, M)  c == TolerantCost(w, d, r)
  <2>1. w \in Int /\ d \in Int /\ f \in Fraction /\ t \in Fraction BY <1>2, <1>4
  <2>2. ~Less(Plus(Plus(t, Reduced(w, d, r)), Eps), f) BY <1>1 DEF Settled
  <2>3. p[e.to] = -y /\ p[e.from] = -x /\ x \in Int /\ y \in Int BY <1>4, <1>5
  <2> HIDE DEF w, d, f, t, p
  <2>4. c \in Int /\ x <= y + c BY <1>1, <2>1, <2>2, UnrelaxedArc DEF M
  <2> HIDE DEF x, y, c
  <2>5. -y <= -x + c BY <2>3, <2>4
  <2> QED BY <2>3, <2>4, <2>5 DEF c, w, d
<1>7. p \in [h.nodes -> Int] BY <1>5
<1> HIDE DEF p
<1> QED BY <1>6, <1>7

LEMMA SettledIsMinimum ==
  ASSUME IInv, pc = "returned"
  PROVE  AtMostEveryCycle(h.nodes, Tolerant, r)
<1> DEFINE E1 == Eps[1]  E2 == Eps[2]
           made(e) == [e EXCEPT !.weight = Eps[2] * @ + Eps[1], !.delay = Eps[2] * @]
           cost == ReducedCost(Tolerant, r)
<1>1. h \in Instances BY DEF IInv
<1>2. PICK p \in [h.nodes -> Int] : \A e \in Arcs :
        /\ TolerantCost(e.weight, e.delay, r) \in Int
        /\ p[e.to] <= p[e.from] + TolerantCost(e.weight, e.delay, r)
  BY SettledPotential
<1>3. Tolerant = {made(e) : e \in Arcs} BY DEF Tolerant
<1>4. \A e \in Arcs : /\ made(e).from = e.from /\ made(e).to = e.to
                      /\ made(e).weight = E2 * e.weight + E1
                      /\ made(e).delay = E2 * e.delay
  BY <1>1, TolerantArc
<1> HIDE DEF made, E1, E2
<1>5. IsGraph(h.nodes, Tolerant) BY <1>1, <1>3, <1>4, GraphGiven DEF IsGraph
<1>6. IsFiniteSet(Tolerant)
  <2>1. [e \in Arcs |-> made(e)] \in Surjection(Arcs, Tolerant) BY <1>3 DEF Surjection
  <2>2. IsFiniteSet(Arcs) BY <1>1, GraphGiven
  <2> QED BY <2>1, <2>2, FS_Surjection
<1>7. \A e \in Arcs : cost[made(e)] = TolerantCost(e.weight, e.delay, r)
  <2>1. \A t \in Tolerant : cost[t] = r[2] * t.weight - r[1] * t.delay BY DEF ReducedCost
  <2> HIDE DEF cost
  <2> QED BY <1>3, <1>4, <2>1 DEF TolerantCost, E1, E2
<1>8. cost \in [Tolerant -> Int]
  <2>1. \A t \in Tolerant : cost[t] \in Int BY <1>2, <1>3, <1>7
  <2>2. cost = [t \in Tolerant |-> cost[t]] BY DEF ReducedCost
  <2> HIDE DEF cost
  <2> QED BY <2>1, <2>2
<1> HIDE DEF cost
<1>9. IsPotential(Tolerant, cost, p) BY <1>2, <1>3, <1>4, <1>7 DEF IsPotential
<1>10. NoNegativeCycle(h.nodes, Tolerant, cost)
  <2>1. IsFiniteSet(h.nodes) /\ h.nodes # {} BY <1>1, GraphGiven
  <2> QED BY <1>5, <1>6, <1>8, <1>9, <2>1, Potentials
<1> QED BY <1>10 DEF AtMostEveryCycle, cost

LEMMA MinimumOfIInv == IInv => ResultIsMinimum
BY SettledIsMinimum, ReachesSomeCycle DEF ResultIsMinimum, IInv, Attained

\* Whatever graph run() is given and in whatever order it lists the arcs, the
\* policies are among the vertices' own arcs, and a ratio is one of numbers.
THEOREM HowardTypes == Spec => []TypeOK
<1>1. IInv => TypeOK BY DEF IInv
<1> QED BY <1>1, InitIInv, NextIInv, PTL DEF Spec

\* getRatio() reports the least ratio of a cycle up to the tolerance per arc.
THEOREM HowardMinimum == Spec => []ResultIsMinimum
<1>1. IInv => ResultIsMinimum BY MinimumOfIInv
<1> QED BY <1>1, InitIInv, NextIInv, PTL DEF Spec

-----------------------------------------------------------------------------
(***************************************************************************)
(* The policy does not get worse.                                          *)
(*                                                                         *)
(* Evaluate gives every vertex the label of its arc plus that of the next  *)
(* vertex.  Improve only lowers labels, and gives a vertex it relaxes the  *)
(* label of its new arc; so along the policy arcs labels fall by the cost  *)
(* of the arc or more, and no policy cycle has a positive cost at r.       *)
(***************************************************************************)
\* The cost at r, in units of 1 / r[2], of an arc or of the totals of a path.
CostNow(p) == r[2] * p.weight - r[1] * p.delay

\* f is at most c/M above t.
Within(f, t, c, M) == f[1] * (t[2] * M) <= (t[1] * M + c * t[2]) * f[2]

\* The next label is lower by the cost of the arc or more.
Downhill(label, policy) ==
  \A v \in h.nodes : Within(label[policy[v].to], label[v], -CostNow(policy[v]), r[2])

\* a/b + x/M and a/b + y/M differ by (x - y)/M.
LEMMA Apart ==
  ASSUME NEW f \in Fraction, NEW t \in Fraction,
         NEW a \in Int, NEW b \in Nat \ {0}, NEW M \in Nat \ {0},
         NEW x \in Int, NEW y \in Int,
         Is(f, a * M + x * b, b * M), Is(t, a * M + y * b, b * M)
  PROVE  Within(f, t, x - y, M)
<1> DEFINE f1 == f[1]  f2 == f[2]  t1 == t[1]  t2 == t[2]
           X == a * M + x * b  Y == a * M + y * b  k == b * M
           l == f1 * (t2 * M)  q == (t1 * M + (x - y) * t2) * f2
<1>1. f1 \in Int /\ f2 \in Nat \ {0} /\ t1 \in Int /\ t2 \in Nat \ {0}
  BY FractionParts
<1>2. f1 * k = X * f2 /\ t1 * k = Y * t2 BY DEF Is
<1>3. X \in Int /\ Y \in Int /\ k \in Nat \ {0} /\ (x - y) * b = X - Y
  <2>1. a * M \in Int /\ x * b \in Int /\ y * b \in Int OBVIOUS
  <2>2. (x - y) * b = x * b - y * b OBVIOUS
  <2> QED BY <2>1, <2>2
<1> HIDE DEF f1, f2, t1, t2
<1>4. l \in Int /\ q \in Int BY <1>1
<1>5. l * k = X * (f2 * t2 * M)
  <2> HIDE DEF X, k
  <2>1. l * k = (f1 * k) * (t2 * M) BY <1>1, <1>3
  <2>2. (X * f2) * (t2 * M) = X * (f2 * t2 * M) BY <1>1, <1>3
  <2> QED BY <1>2, <2>1, <2>2
<1>6. q * k = X * (f2 * t2 * M)
  <2> HIDE DEF X, Y, l
  <2>1. q * k = (t1 * k) * (M * f2) + ((x - y) * b) * (M * t2 * f2)
    <3>1. q = (t1 * M) * f2 + ((x - y) * t2) * f2 BY <1>1
    <3>2. ((t1 * M) * f2) * k = (t1 * k) * (M * f2) BY <1>1, <1>3
    <3>3. (((x - y) * t2) * f2) * (b * M) = ((x - y) * b) * (M * t2 * f2) BY <1>1
    <3>4. (t1 * M) * f2 \in Int /\ ((x - y) * t2) * f2 \in Int BY <1>1
    <3> DEFINE u == (t1 * M) * f2  w == ((x - y) * t2) * f2
    <3>5. q * k = u * k + w * k
      <4>1. q = u + w BY <3>1
      <4> HIDE DEF q, u, w, k
      <4> QED BY <1>3, <3>4, <4>1 DEF u, w
    <3> QED BY <3>2, <3>3, <3>5
  <2> HIDE DEF q, k
  <2>2. q * k = (Y * t2) * (M * f2) + (X - Y) * (M * t2 * f2) BY <1>2, <1>3, <2>1
  <2> DEFINE z == f2 * t2 * M
  <2>3. (Y * t2) * (M * f2) = Y * z /\ (X - Y) * (M * t2 * f2) = (X - Y) * z /\ z \in Int
    BY <1>1, <1>3
  <2> HIDE DEF z
  <2>4. Y * z + (X - Y) * z = X * z BY <1>3, <2>3
  <2> QED BY <2>2, <2>3, <2>4 DEF z
<1> HIDE DEF l, q, k, X, Y
<1>7. l = q BY <1>3, <1>4, <1>5, <1>6, Cancel
<1> QED BY <1>4, <1>7 DEF Within, l, q, f1, f2, t1, t2

\* What is below f is within of what f is.
LEMMA WithinBelow ==
  ASSUME NEW f \in Fraction, NEW g \in Fraction, NEW t \in Fraction,
         NEW c \in Int, NEW M \in Nat \ {0}, ~Less(f, g), Within(f, t, c, M)
  PROVE  Within(g, t, c, M)
<1> DEFINE f1 == f[1]  f2 == f[2]  g1 == g[1]  g2 == g[2]  t1 == t[1]  t2 == t[2]
           e == t1 * M + c * t2  d == t2 * M
<1>1. /\ f1 \in Int /\ f2 \in Nat \ {0} /\ g1 \in Int /\ g2 \in Nat \ {0}
      /\ t1 \in Int /\ t2 \in Nat \ {0}
  BY FractionParts
<1>2. ~(f1 * g2 < g1 * f2) BY DEF Less
<1>3. f1 * d <= e * f2 BY DEF Within
<1> HIDE DEF f1, f2, g1, g2, t1, t2
<1>4. e \in Int /\ d \in Nat \ {0} BY <1>1
<1>5. g1 * f2 <= f1 * g2
  <2>1. g1 * f2 \in Int /\ f1 * g2 \in Int BY <1>1
  <2> QED BY <1>2, <2>1
<1> HIDE DEF e, d
<1>6. g1 * d <= e * g2 BY <1>1, <1>3, <1>4, <1>5, FractionsTransitive
<1> QED BY <1>6 DEF Within, e, d, g1, g2, t1, t2

\* An arc worth relaxing does not raise the label.
LEMMA RelaxingLowers ==
  ASSUME NEW b \in Fraction, NEW f \in Fraction, Less(Plus(b, Eps), f)
  PROVE  ~Less(f, b)
<1> DEFINE s == Plus(b, Eps)  E1 == Eps[1]  E2 == Eps[2]
           b1 == b[1]  b2 == b[2]  s1 == s[1]  s2 == s[2]
<1>1. /\ b1 \in Int /\ b2 \in Nat \ {0} /\ E1 \in Nat /\ E2 \in Nat \ {0}
      /\ Is(b, b1, b2) /\ Is(Eps, E1, E2) /\ Eps \in Fraction
  BY FractionParts, EpsIs DEF Is
<1> HIDE DEF b1, b2, E1, E2
<1>2. s \in Fraction /\ Is(s, b1 * E2 + E1 * b2, b2 * E2) BY <1>1, PlusIs
<1>3. s1 \in Int /\ s2 \in Nat \ {0} /\ s1 * (b2 * E2) = (b1 * E2 + E1 * b2) * s2
  <2> HIDE DEF s
  <2> QED BY <1>2, FractionParts DEF Is
<1> HIDE DEF s1, s2, s
<1>4. b1 * s2 <= s1 * b2
  <2>1. (s1 * b2) * E2 = (b1 * s2) * E2 + (E1 * b2) * s2 BY <1>1, <1>3
  <2>2. (E1 * b2) * s2 \in Nat BY <1>1, <1>3
  <2> DEFINE x == s1 * b2  y == b1 * s2
  <2>3. x \in Int /\ y \in Int BY <1>1, <1>3
  <2>4. x * E2 \in Int /\ y * E2 \in Int BY <1>1, <2>3
  <2> HIDE DEF x, y
  <2>5. y * E2 <= x * E2 BY <2>1, <2>2, <2>4 DEF x, y
  <2>6. y <= x BY <1>1, <2>3, <2>5, TimesMonotone
  <2> QED BY <2>6 DEF x, y
<1>5. ~Less(s, b)
  <2>1. s1 * b2 \in Int /\ b1 * s2 \in Int BY <1>1, <1>3
  <2>2. ~(s1 * b2 < b1 * s2) BY <1>4, <2>1
  <2> QED BY <2>2 DEF Less, s1, s2, b1, b2
<1>6. s \in Ratio /\ b \in Ratio /\ f \in Ratio BY <1>2, FractionParts
<1>7. ~Less(f, s) BY <1>6, LessOrder DEF s
<1> QED BY <1>5, <1>6, <1>7, NotLessTransitive

LEMMA CostNowIs ==
  ASSUME h \in Instances, r \in Fraction, NEW e \in Arcs
  PROVE  CostNow(e) \in Int /\ -CostNow(e) \in Int
<1>1. e.weight \in Int /\ e.delay \in Int /\ r[1] \in Int /\ r[2] \in Int
  BY GraphGiven, FractionParts
<1>2. r[2] * e.weight \in Int /\ r[1] * e.delay \in Int BY <1>1
<1>3. r[2] * e.weight - r[1] * e.delay \in Int BY <1>2
<1> QED BY <1>3 DEF CostNow

\* The label an arc gives is that of its end point and its cost.
LEMMA BetterIs ==
  ASSUME h \in Instances, r \in Fraction, NEW e \in Arcs, NEW t \in Fraction,
         NEW b, b = Plus(t, Reduced(e.weight, e.delay, r))
  PROVE  b \in Fraction /\ Within(t, b, -CostNow(e), r[2])
<1> DEFINE q == Reduced(e.weight, e.delay, r)  c == CostNow(e)  M == r[2]
           t1 == t[1]  t2 == t[2]
<1>1. /\ c \in Int /\ M \in Nat \ {0} /\ t1 \in Int /\ t2 \in Nat \ {0}
      /\ e.weight \in Int /\ e.delay \in Int
  BY CostNowIs, GraphGiven, FractionParts
<1>2. q \in Fraction /\ Is(q, c, M) BY <1>1, ReducedIs DEF CostNow
<1>3. Is(t, t1, t2) /\ t1 = t[1] /\ t2 = t[2] BY DEF Is
<1> HIDE DEF q, c, M, t1, t2
<1>4. b \in Fraction /\ Is(b, t1 * M + c * t2, t2 * M)
  BY <1>1, <1>2, <1>3, PlusIs DEF q
<1>5. Is(t, t1 * M + 0 * t2, t2 * M)
  <2>1. t1 * (t2 * M) = (t1 * M + 0 * t2) * t2 BY <1>1
  <2> QED BY <1>3, <2>1 DEF Is
<1>6. Within(t, b, 0 - c, M)
  <2> DEFINE z == 0
  <2>1. z \in Int /\ Is(t, t1 * M + z * t2, t2 * M) BY <1>5
  <2> HIDE DEF z
  <2>2. Within(t, b, z - c, M) BY <1>1, <1>4, <2>1, Apart
  <2> QED BY <2>2 DEF z
<1>7. 0 - c = -c BY <1>1
<1> QED BY <1>4, <1>6, <1>7 DEF c, M

\* Relaxing an arc keeps the labels falling along the policy.
LEMMA RelaxedDownhill ==
  ASSUME h \in Instances, r \in Fraction, NEW s \in Improving, NEW e \in Arcs,
         Downhill(s.dist, s.su)
  PROVE  Downhill(Relaxed(s, e, Eps).dist, Relaxed(s, e, Eps).su)
<1> DEFINE D == s.dist  P == s.su  u == e.from  M == r[2]
           better == Plus(D[e.to], Reduced(e.weight, e.delay, r))
           c == Relaxed(s, e, Eps)
<1>1. /\ D \in [h.nodes -> Fraction] /\ P \in [h.nodes -> Arcs]
      /\ u \in h.nodes /\ e.to \in h.nodes /\ M \in Nat \ {0}
      /\ \A x \in Arcs : x.to \in h.nodes
  BY GraphGiven, FractionParts DEF Improving, IsGraph
<1>2. D[e.to] \in Fraction BY <1>1
<1>3. better \in Fraction /\ Within(D[e.to], better, -CostNow(e), M)
  <2> DEFINE t == D[e.to]
  <2> HIDE DEF t, D
  <2> QED BY <1>2, BetterIs DEF t
<1>4. c = IF Less(Plus(better, Eps), D[u])
          THEN [dist |-> [D EXCEPT ![u] = better], su |-> [P EXCEPT ![u] = e], changed |-> TRUE]
          ELSE s
  BY DEF Relaxed
<1>5. \A v \in h.nodes : Within(D[P[v].to], D[v], -CostNow(P[v]), M) BY DEF Downhill
<1> HIDE DEF better, c, M
<1>6. CASE ~Less(Plus(better, Eps), D[u]) BY <1>4, <1>6 DEF c
<1>7. CASE Less(Plus(better, Eps), D[u])
  <2> DEFINE N == [D EXCEPT ![u] = better]  Q == [P EXCEPT ![u] = e]
  <2>1. c.dist = N /\ c.su = Q BY <1>4, <1>7
  <2> HIDE DEF D, P, u
  <2>2. \A v \in h.nodes : /\ N[v] = IF v = u THEN better ELSE D[v]
                           /\ Q[v] = IF v = u THEN e ELSE P[v]
    BY <1>1
  <2>3. \A v \in h.nodes : D[v] \in Fraction /\ N[v] \in Fraction BY <1>1, <1>3, <2>2
  <2>4. \A v \in h.nodes : ~Less(D[v], N[v])
    <3>1. D[u] \in Fraction BY <1>1
    <3>2. ~Less(D[u], better) BY <1>3, <1>7, <3>1, RelaxingLowers
    <3>3. \A v \in h.nodes : ~Less(D[v], D[v])
      <4> SUFFICES ASSUME NEW v \in h.nodes PROVE ~Less(D[v], D[v])
        OBVIOUS
      <4>1. D[v] \in Ratio BY <2>3, FractionParts
      <4> QED BY <4>1, LessOrder
    <3> QED BY <2>2, <3>2, <3>3
  <2> HIDE DEF N, Q
  <2>5. ASSUME NEW v \in h.nodes
        PROVE  Within(N[Q[v].to], N[v], -CostNow(Q[v]), M)
    <3> DEFINE a == Q[v]  x == a.to
    <3>1. a \in Arcs /\ x \in h.nodes BY <1>1, <2>2
    <3>2. Within(D[x], N[v], -CostNow(a), M) BY <1>3, <1>5, <2>2
    <3> HIDE DEF a, x
    <3>3. -CostNow(a) \in Int BY <3>1, CostNowIs
    <3>4. D[x] \in Fraction /\ N[x] \in Fraction /\ N[v] \in Fraction /\ ~Less(D[x], N[x])
      BY <2>3, <2>4, <3>1
    <3> DEFINE k == -CostNow(a)  f == D[x]  g == N[x]  t == N[v]
    <3> HIDE DEF k, f, g, t
    <3>5. Within(g, t, k, M)
      <4>1. k \in Int /\ f \in Fraction /\ g \in Fraction /\ t \in Fraction
            /\ ~Less(f, g) /\ Within(f, t, k, M)
        BY <3>2, <3>3, <3>4 DEF k, f, g, t
      <4> QED BY <1>1, <4>1, WithinBelow
    <3> QED BY <3>5 DEF k, g, t, a, x
  <2> QED BY <2>1, <2>5 DEF Downhill, M, c
<1> QED BY <1>6, <1>7

\* Where the labels fall along the policy no policy cycle is below r in reverse.
LEMMA DownhillCycles ==
  ASSUME h \in Instances, r \in Fraction, NEW s \in Improving,
         Downhill(s.dist, s.su), NEW v \in h.nodes
  PROVE  ~Less(r, Met(s.su, v).ratio)
<1> DEFINE D == s.dist  P == s.su  M == r[2]  a == -r[2]  b == r[1]
           p == [u \in h.nodes |-> Floor(D[u], M)]
<1>1. D \in [h.nodes -> Fraction] /\ P \in [h.nodes -> Arcs] /\ IsPolicy(P)
  BY DEF Improving, IsPolicy
<1>2. M \in Nat \ {0} /\ a \in Int /\ b \in Int BY FractionParts
<1>3. \A u \in h.nodes : P[u].to \in h.nodes /\ P[u].weight \in Int /\ P[u].delay \in Int
  BY <1>1, GraphGiven DEF IsGraph
<1>4. \A u \in h.nodes : Within(D[P[u].to], D[u], -CostNow(P[u]), M) BY DEF Downhill
<1>5. \A u \in h.nodes : Floor(D[u], M) \in Int
  <2> SUFFICES ASSUME NEW u \in h.nodes PROVE Floor(D[u], M) \in Int
    OBVIOUS
  <2> DEFINE x == D[u]
  <2>1. x \in Fraction BY <1>1
  <2> HIDE DEF x, M
  <2>2. x[1] \in Int /\ x[2] \in Nat \ {0} BY <2>1, FractionParts
  <2>3. M * x[1] \in Int BY <1>2, <2>2
  <2>4. Floor(x, M) \in Int BY <2>2, <2>3, Quotient DEF Floor
  <2> QED BY <2>4 DEF x
<1>6. p \in [h.nodes -> Int] BY <1>5
<1>7. ASSUME NEW u \in h.nodes
      PROVE  p[P[u].to] <= p[u] + (a * P[u].weight + b * P[u].delay + 0)
  <2> DEFINE e == P[u]  f == D[e.to]  t == D[u]  c == -CostNow(e)
  <2>1. f \in Fraction /\ t \in Fraction /\ c \in Int /\ Within(f, t, c, M)
    <3>1. e \in Arcs BY <1>1
    <3>2. f \in Fraction /\ t \in Fraction /\ Within(f, t, c, M) BY <1>1, <1>3, <1>4
    <3> HIDE DEF e
    <3>3. c \in Int BY <3>1, CostNowIs
    <3> QED BY <3>2, <3>3
  <2>2. p[e.to] = Floor(f, M) /\ p[u] = Floor(t, M) BY <1>3
  <2>3. c = a * e.weight + b * e.delay + 0
    <3> DEFINE w == e.weight  d == e.delay  r1 == r[1]  r2 == r[2]
    <3>1. w \in Int /\ d \in Int /\ r1 \in Int /\ r2 \in Int BY <1>3, FractionParts
    <3> HIDE DEF w, d, r1, r2
    <3>2. -(r2 * w - r1 * d) = (-r2) * w + r1 * d + 0
      <4>1. (-r2) * w = -(r2 * w) /\ r2 * w \in Int /\ r1 * d \in Int BY <3>1
      <4> QED BY <4>1
    <3> QED BY <3>2 DEF CostNow, w, d, r1, r2
  <2> HIDE DEF e, f, t, c, p, M
  <2>4. f[1] * (t[2] * M) <= (t[1] * M + c * t[2]) * f[2] BY <2>1 DEF Within
  <2>5. Floor(f, M) <= Floor(t, M) + c BY <1>2, <2>1, <2>4, FloorsKeepOrder
  <2> QED BY <2>2, <2>3, <2>5 DEF e
<1>8. PICK x \in h.nodes, k \in 1 .. Cardinality(h.nodes) :
        /\ Path(P, x)[k].at = x
        /\ Met(P, v) = [at |-> x, ratio |-> Lowest(Path(P, x)[k].weight, Path(P, x)[k].delay)]
  <2> HIDE DEF P
  <2> QED BY <1>1, MetIsACycle
<1> DEFINE W == Path(P, x)[k].weight  d == Path(P, x)[k].delay  y == Met(P, v).ratio
<1>9. W \in Int /\ d \in Nat \ {0} /\ y = Lowest(W, d)
  <2> HIDE DEF P
  <2> QED BY <1>1, <1>8, LapIsPositive
<1>10. k \in Nat /\ k \in 0 .. Cardinality(h.nodes) BY GraphGiven
<1>11. p[x] <= p[x] + (a * W + b * d + k * 0)
  <2> DEFINE z == 0
  <2>0. z = 0 /\ z \in Int OBVIOUS
  <2> HIDE DEF p, P, a, b, z
  <2>1. \A u \in h.nodes : p[P[u].to] <= p[u] + (a * P[u].weight + b * P[u].delay + z)
    BY <1>7, <2>0
  <2>2. p[Path(P, x)[k].at] <= p[x] + (a * W + b * d + k * z)
    BY <1>1, <1>2, <1>6, <1>10, <2>0, <2>1, PathCosts
  <2> QED BY <1>8, <2>0, <2>2
<1>12. y \in Fraction /\ y[1] * d = W * y[2]
  <2> HIDE DEF W, d, y
  <2> QED BY <1>9, LowestIs DEF Is
<1> DEFINE r1 == r[1]  y1 == y[1]  y2 == y[2]
<1>13. r1 \in Int /\ y1 \in Int /\ y2 \in Nat \ {0} BY <1>12, FractionParts
<1>14. M * W <= r1 * d
  <2>1. p[x] \in Int BY <1>6
  <2>2. a * W = -(M * W) /\ M * W \in Int /\ b * d = r1 * d /\ r1 * d \in Int /\ k * 0 = 0
    <3>1. a = -M /\ b = r1 OBVIOUS
    <3> HIDE DEF a, b, M, r1, W, d
    <3> QED BY <1>2, <1>9, <1>10, <1>13, <3>1
  <2> DEFINE l == a * W  q == b * d  o == k * 0
  <2>3. p[x] <= p[x] + (l + q + o) BY <1>11
  <2>4. l = -(M * W) /\ q = r1 * d /\ o = 0 BY <2>2
  <2> HIDE DEF p, l, q, o, M, W, d, r1
  <2> QED BY <2>1, <2>2, <2>3, <2>4
<1>15. y1 * M <= r1 * y2
  <2>1. y1 * d = W * y2 BY <1>12
  <2> HIDE DEF y1, y2, y, M, W, d, r1
  <2>2. (y1 * M) * d = (M * W) * y2
    <3>1. (y1 * M) * d = (y1 * d) * M BY <1>2, <1>9, <1>13
    <3>2. (W * y2) * M = (M * W) * y2 BY <1>2, <1>9, <1>13
    <3> QED BY <2>1, <3>1, <3>2
  <2>3. (M * W) * y2 <= (r1 * d) * y2
    <3>1. M * W \in Int /\ r1 * d \in Int /\ y2 \in Nat BY <1>2, <1>9, <1>13
    <3> QED BY <1>14, <3>1, TimesMonotone
  <2>4. (r1 * d) * y2 = (r1 * y2) * d BY <1>9, <1>13
  <2> DEFINE l == y1 * M  q == r1 * y2
  <2>5. l \in Int /\ q \in Int BY <1>2, <1>13
  <2>6. l * d <= q * d BY <2>2, <2>3, <2>4
  <2> HIDE DEF l, q
  <2>7. l <= q BY <1>9, <2>5, <2>6, TimesMonotone
  <2> QED BY <2>7 DEF l, q
<1>16. ~(r1 * y2 < y1 * M)
  <2>1. r1 * y2 \in Int /\ y1 * M \in Int BY <1>2, <1>13
  <2> HIDE DEF r1, y1, y2, M
  <2> QED BY <1>15, <2>1
<1> QED BY <1>16 DEF Less

\* Every policy path leads to the handle.
AllLead == \A v \in h.nodes : FirstIn(Path(su, v), {handle}) # {}

\* k arcs lead from v to the handle for the first time.
Leads(v, k) == IsFirst(Path(su, v), 0 .. Cardinality(h.nodes), {handle}, k)

\* k arcs lead from v to the handle for the first time after the start.
ComesTo(v, k) == IsFirst(Path(su, v), 1 .. Cardinality(h.nodes), {handle}, k)

\* The ratio is that of the handle's cycle.
RatioOfLap ==
  \E k \in 1 .. Cardinality(h.nodes) :
    /\ ComesTo(handle, k)
    /\ r = Lowest(Path(su, handle)[k].weight, Path(su, handle)[k].delay)

\* After the first arc the way is that of the next vertex.
LEMMA OneArcOn ==
  ASSUME h \in Instances, IsPolicy(su), NEW v \in h.nodes,
         NEW k \in 1 .. Cardinality(h.nodes), ComesTo(v, k)
  PROVE  /\ su[v].to \in h.nodes /\ su[v] \in Arcs
         /\ k - 1 \in 0 .. Cardinality(h.nodes)
         /\ Leads(su[v].to, k - 1)
         /\ Path(su, v)[k] \in Stops /\ Path(su, su[v].to)[k - 1] \in Stops
         /\ r \in Fraction =>
              CostNow(Path(su, v)[k]) = CostNow(su[v]) + CostNow(Path(su, su[v].to)[k - 1])
<1> DEFINE n == Cardinality(h.nodes)  e == su[v]  w == e.to
           P == Path(su, v)  Q == Path(su, w)
<1>1. n \in Nat /\ 1 \in 1 .. n /\ 1 \in 0 .. n /\ k - 1 \in 0 .. n /\ 1 - 1 = 0
      /\ k \in 0 .. n
  BY GraphGiven
<1>2. e \in Arcs BY DEF IsPolicy
<1>3. w \in h.nodes /\ e.weight \in Int /\ e.delay \in Int
  <2> HIDE DEF e
  <2> QED BY <1>2, GraphGiven DEF IsGraph
<1>4. P \in [0 .. n -> Stops] /\ P[0] = [at |-> v, weight |-> 0, delay |-> 0]
      /\ P[1] = Onward(su, P[0])
  <2> HIDE DEF n
  <2>1. P[1] = Onward(su, P[1 - 1]) BY <1>1, PathStops DEF n
  <2> QED BY <1>1, <2>1, PathStops DEF n
<1>5. Q \in [0 .. n -> Stops]
  <2> HIDE DEF w
  <2> QED BY <1>3, PathStops
<1>6. P[1].at = w /\ P[1].weight = e.weight /\ P[1].delay = e.delay
  <2>1. P[0].at = v /\ P[0].weight = 0 /\ P[0].delay = 0 BY <1>4
  <2>2. P[1].at = w /\ P[1].weight = 0 + e.weight /\ P[1].delay = 0 + e.delay
    BY <1>4, <2>1 DEF Onward
  <2> HIDE DEF e, P
  <2> QED BY <1>3, <2>2
<1>7. ASSUME NEW j \in 0 .. n, 1 + j <= n
      PROVE  /\ Q[j].at = P[1 + j].at
             /\ P[1 + j].weight = e.weight + Q[j].weight
             /\ P[1 + j].delay = e.delay + Q[j].delay
  <2> DEFINE o == 1
  <2>1. o \in 0 .. n /\ o + j <= n /\ P[o].at = w /\ P[o].weight = e.weight
        /\ P[o].delay = e.delay
    BY <1>1, <1>6, <1>7
  <2> HIDE DEF o, e
  <2>2. LET q == Path(su, Path(su, v)[o].at)[j]
        IN  /\ q.at = Path(su, v)[o + j].at
            /\ Path(su, v)[o + j].weight = Path(su, v)[o].weight + q.weight
            /\ Path(su, v)[o + j].delay = Path(su, v)[o].delay + q.delay
    BY <1>7, <2>1, PathGoesOn
  <2> QED BY <2>1, <2>2 DEF o
<1>8. 1 + (k - 1) = k /\ 1 + (k - 1) <= n BY <1>1
<1>9. /\ Q[k - 1].at = P[k].at
      /\ P[k].weight = e.weight + Q[k - 1].weight
      /\ P[k].delay = e.delay + Q[k - 1].delay
  <2> HIDE DEF P, Q, e
  <2>1. /\ Q[k - 1].at = P[1 + (k - 1)].at
        /\ P[1 + (k - 1)].weight = e.weight + Q[k - 1].weight
        /\ P[1 + (k - 1)].delay = e.delay + Q[k - 1].delay
    BY <1>1, <1>7, <1>8
  <2> QED BY <1>8, <2>1
<1>10. P[k].at = handle /\ \A i \in 1 .. n : P[i].at = handle => k <= i
  BY DEF ComesTo, IsFirst
<1>11. ASSUME NEW i \in 0 .. n, Q[i].at = handle PROVE k - 1 <= i
  <2>1. CASE i = n BY <1>1, <2>1
  <2>2. CASE i # n
    <3>1. 1 + i <= n /\ 1 + i \in 1 .. n BY <1>1, <2>2
    <3>2. P[1 + i].at = handle BY <1>7, <1>11, <3>1
    <3>3. k <= 1 + i BY <1>10, <3>1, <3>2
    <3> HIDE DEF n
    <3> QED BY <3>3
  <2> QED BY <2>1, <2>2
<1>12. Leads(w, k - 1) BY <1>1, <1>9, <1>10, <1>11 DEF Leads, IsFirst
<1>13. P[k] \in Stops /\ Q[k - 1] \in Stops BY <1>1, <1>4, <1>5
<1>14. ASSUME r \in Fraction PROVE CostNow(P[k]) = CostNow(e) + CostNow(Q[k - 1])
  <2> DEFINE a == e.weight  b == e.delay  c == Q[k - 1].weight  d == Q[k - 1].delay
             r1 == r[1]  r2 == r[2]
  <2>1. a \in Int /\ b \in Int /\ c \in Int /\ d \in Int /\ r1 \in Int /\ r2 \in Int
    BY <1>3, <1>13, <1>14, FractionParts DEF Stops
  <2>2. CostNow(P[k]) = r2 * (a + c) - r1 * (b + d)
        /\ CostNow(e) = r2 * a - r1 * b /\ CostNow(Q[k - 1]) = r2 * c - r1 * d
    BY <1>9 DEF CostNow
  <2> HIDE DEF a, b, c, d, r1, r2
  <2>3. r2 * (a + c) = r2 * a + r2 * c /\ r1 * (b + d) = r1 * b + r1 * d BY <2>1
  <2>4. r2 * a \in Int /\ r2 * c \in Int /\ r1 * b \in Int /\ r1 * d \in Int BY <2>1
  <2> QED BY <2>2, <2>3, <2>4
<1> QED BY <1>1, <1>2, <1>3, <1>12, <1>13, <1>14

\* The label Evaluate gives a vertex that k arcs lead to the handle.
LEMMA EvaluatedLabel ==
  ASSUME IInv, Evaluate, NEW v \in h.nodes, NEW k \in 0 .. Cardinality(h.nodes), Leads(v, k)
  PROVE  /\ dist'[v] \in Fraction
         /\ dist[handle] \in Fraction
         /\ CostNow(Path(su, v)[k]) \in Int
         /\ Is(dist'[v], dist[handle][1] * r[2] + CostNow(Path(su, v)[k]) * dist[handle][2],
               dist[handle][2] * r[2])
<1> DEFINE n == Cardinality(h.nodes)  s == Path(su, v)[k]
           path == Path(su, v)  K == 0 .. n  X == {handle}
           way == FirstIn(Path(su, v), {handle})
           p == CHOOSE q \in way : TRUE
<1>1. /\ h \in Instances /\ r \in Fraction /\ handle \in h.nodes
      /\ pc = "evaluate" /\ \A u \in h.nodes : su[u] # NoArc
  BY DEF IInv, Evaluate, Defined
<1>2. IsPolicy(su) /\ dist \in [h.nodes -> Fraction] BY <1>1, PolicyGiven
<1>3. K \in SUBSET Nat /\ way = FirstAt(path, K, X) /\ IsFirst(path, K, X, k)
  <2>1. n \in Nat BY <1>1, GraphGiven
  <2> QED BY <2>1 DEF FirstIn, Leads
<1>4. way # {} /\ p = s
  <2> HIDE DEF way, p, K, path, X
  <2>1. \E j \in K : path[j].at \in X BY <1>3 DEF IsFirst
  <2>2. FirstAt(path, K, X) # {} BY <1>3, <2>1, FirstAtIs
  <2>3. p \in way BY <1>3, <2>2 DEF p
  <2>4. PICK j \in K : p = path[j] /\ IsFirst(path, K, X, j)
    BY <1>3, <2>3, FirstAtIsFirst
  <2>5. j = k
    <3>1. j <= k /\ k <= j /\ j \in Nat /\ k \in Nat BY <1>3, <2>4 DEF IsFirst
    <3> QED BY <3>1
  <2> QED BY <1>3, <2>2, <2>4, <2>5 DEF path
<1>5. s \in Stops
  <2>1. path \in [K -> Stops] BY <1>1, <1>2, PathStops
  <2> QED BY <2>1
<1>6. s.weight \in Int /\ s.delay \in Int BY <1>5 DEF Stops
<1>7. dist'[v] = Plus(dist[handle], Reduced(s.weight, s.delay, r))
  <2>1. dist' = [u \in h.nodes |->
         LET there == FirstIn(Path(su, u), {handle}) IN
           IF there = {} THEN dist[u]
           ELSE LET q == CHOOSE q \in there : TRUE
                IN  Plus(dist[handle], Reduced(q.weight, q.delay, r))]
    BY DEF Evaluate
  <2>2. dist'[v] = Plus(dist[handle], Reduced(p.weight, p.delay, r)) BY <1>4, <2>1
  <2> HIDE DEF p, s
  <2> QED BY <1>4, <2>2
<1> DEFINE t == dist[handle]  c == CostNow(s)
           q == Reduced(s.weight, s.delay, r)  r2 == r[2]  t1 == t[1]  t2 == t[2]
<1>8. t \in Fraction BY <1>1, <1>2
<1>9. q \in Fraction /\ c \in Int /\ Is(q, c, r2) /\ r2 \in Nat \ {0}
  <2> HIDE DEF s
  <2> QED BY <1>1, <1>6, ReducedIs, FractionParts DEF CostNow
<1>10. t1 \in Int /\ t2 \in Nat \ {0} /\ Is(t, t1, t2)
  <2> HIDE DEF t
  <2> QED BY <1>8, FractionParts DEF Is
<1>11. dist'[v] = Plus(t, q) BY <1>7
<1> HIDE DEF t, q, c, r2, t1, t2
<1>12. Plus(t, q) \in Fraction /\ Is(Plus(t, q), t1 * r2 + c * t2, t2 * r2)
  BY <1>8, <1>9, <1>10, PlusIs
<1> QED BY <1>8, <1>9, <1>11, <1>12 DEF t, c, r2, t1, t2, s

\* A policy cycle costs nothing at its own ratio.
LEMMA LapCostsNothing ==
  ASSUME h \in Instances, IsPolicy(su), handle \in h.nodes,
         NEW k \in 1 .. Cardinality(h.nodes), ComesTo(handle, k),
         r = Lowest(Path(su, handle)[k].weight, Path(su, handle)[k].delay)
  PROVE  CostNow(Path(su, handle)[k]) = 0
<1> DEFINE W == Path(su, handle)[k].weight  d == Path(su, handle)[k].delay
<1>1. Path(su, handle)[k].at = handle BY DEF ComesTo, IsFirst
<1>2. W \in Int /\ d \in Nat \ {0} BY <1>1, LapIsPositive
<1>3. CostNow(Path(su, handle)[k]) = r[2] * W - r[1] * d /\ r = Lowest(W, d) BY DEF CostNow
<1> HIDE DEF W, d
<1>4. r \in Fraction /\ r[1] * d = W * r[2] BY <1>2, <1>3, LowestIs DEF Is
<1>5. r[1] \in Int /\ r[2] \in Int BY <1>4, FractionParts
<1>6. r[2] * W = W * r[2] /\ W * r[2] \in Int BY <1>2, <1>5
<1> QED BY <1>3, <1>4, <1>6

\* Evaluate makes the labels fall along the policy by just the costs of the arcs.
LEMMA EvaluateDownhill ==
  ASSUME IInv, Evaluate, RatioOfLap, AllLead
  PROVE  Downhill(dist', su)
<1> DEFINE n == Cardinality(h.nodes)  D1 == dist[handle][1]  D2 == dist[handle][2]  M == r[2]
<1>1. /\ h \in Instances /\ r \in Fraction /\ handle \in h.nodes
      /\ pc = "evaluate" /\ \A u \in h.nodes : su[u] # NoArc
  BY DEF IInv, Evaluate, Defined
<1>2. IsPolicy(su) /\ dist \in [h.nodes -> Fraction] BY <1>1, PolicyGiven
<1>3. n \in Nat /\ 0 \in 0 .. n BY <1>1, GraphGiven
<1>4. D1 \in Int /\ D2 \in Nat \ {0} /\ M \in Nat \ {0}
  <2> DEFINE t == dist[handle]
  <2>1. t \in Fraction BY <1>1, <1>2
  <2> HIDE DEF t
  <2>2. t[1] \in Int /\ t[2] \in Nat \ {0} BY <2>1, FractionParts
  <2> QED BY <1>1, <2>2, FractionParts DEF t
<1>5. ASSUME NEW v \in h.nodes
      PROVE  \E k \in 1 .. n :
               /\ ComesTo(v, k)
               /\ dist'[v] \in Fraction
               /\ Is(dist'[v], D1 * M + CostNow(Path(su, v)[k]) * D2, D2 * M)
  <2>1. CASE v = handle
    <3>1. PICK k \in 1 .. n :
            /\ ComesTo(v, k)
            /\ r = Lowest(Path(su, handle)[k].weight, Path(su, handle)[k].delay)
      BY <2>1 DEF RatioOfLap
    <3>2. CostNow(Path(su, v)[k]) = 0 BY <1>1, <1>2, <2>1, <3>1, LapCostsNothing
    <3>3. Path(su, v)[0] = [at |-> v, weight |-> 0, delay |-> 0] BY <1>1, <1>2, PathStops
    <3>4. Path(su, v)[0].at = v /\ Path(su, v)[0].weight = 0 /\ Path(su, v)[0].delay = 0
      BY <3>3
    <3>5. Leads(v, 0)
      <4>1. \A i \in 0 .. n : 0 <= i OBVIOUS
      <4> QED BY <1>3, <2>1, <3>4, <4>1 DEF Leads, IsFirst
    <3>6. CostNow(Path(su, v)[0]) = 0
      <4>1. r[1] \in Int /\ r[2] \in Int BY <1>1, FractionParts
      <4>2. r[2] * 0 - r[1] * 0 = 0 BY <4>1
      <4> QED BY <3>4, <4>2 DEF CostNow
    <3> DEFINE z == 0
    <3>7. z \in 0 .. n /\ Leads(v, z) BY <1>3, <3>5
    <3> HIDE DEF z, D1, D2, M
    <3>8. dist'[v] \in Fraction
          /\ Is(dist'[v], D1 * M + CostNow(Path(su, v)[z]) * D2, D2 * M)
      BY <3>7, EvaluatedLabel DEF D1, D2, M
    <3>9. CostNow(Path(su, v)[z]) = CostNow(Path(su, v)[k]) BY <3>2, <3>6 DEF z
    <3> QED BY <3>1, <3>8, <3>9
  <2>2. CASE v # handle
    <3> DEFINE way == FirstIn(Path(su, v), {handle})  path == Path(su, v)
               K == 0 .. n  X == {handle}
    <3>1. way # {} /\ way = FirstAt(path, K, X) /\ K \in SUBSET Nat
      <4>1. way # {} BY DEF AllLead
      <4>2. way = FirstAt(path, K, X) BY DEF FirstIn
      <4> HIDE DEF way, path, X
      <4> QED BY <1>3, <4>1, <4>2
    <3>2. PICK k \in K : IsFirst(path, K, X, k)
      <4> HIDE DEF way, path, K, X
      <4> QED BY <3>1, FirstAtIsFirst
    <3>3. Leads(v, k) BY <3>2 DEF Leads
    <3>4. path[0].at = v
      <4>1. path[0] = [at |-> v, weight |-> 0, delay |-> 0] BY <1>1, <1>2, PathStops
      <4> QED BY <4>1
    <3>5. k # 0 BY <2>2, <3>2, <3>4 DEF IsFirst
    <3>6. k \in 1 .. n BY <1>3, <3>5
    <3>7. ComesTo(v, k)
      <4>1. 1 .. n \subseteq 0 .. n BY <1>3
      <4> QED BY <3>2, <3>6, <4>1 DEF ComesTo, IsFirst
    <3> HIDE DEF D1, D2, M
    <3>8. dist'[v] \in Fraction
          /\ Is(dist'[v], D1 * M + CostNow(Path(su, v)[k]) * D2, D2 * M)
      BY <3>3, EvaluatedLabel DEF D1, D2, M
    <3> QED BY <3>6, <3>7, <3>8
  <2> QED BY <2>1, <2>2
<1>6. ASSUME NEW v \in h.nodes
      PROVE  Within(dist'[su[v].to], dist'[v], -CostNow(su[v]), M)
  <2> DEFINE e == su[v]  w == e.to
  <2>1. PICK k \in 1 .. n :
          /\ ComesTo(v, k)
          /\ dist'[v] \in Fraction
          /\ Is(dist'[v], D1 * M + CostNow(Path(su, v)[k]) * D2, D2 * M)
    BY <1>5
  <2>2. /\ w \in h.nodes /\ e \in Arcs /\ k - 1 \in 0 .. n /\ Leads(w, k - 1)
        /\ CostNow(Path(su, v)[k]) = CostNow(e) + CostNow(Path(su, w)[k - 1])
    BY <1>1, <1>2, <2>1, OneArcOn
  <2> DEFINE j == k - 1
  <2>3. j \in 0 .. n /\ Leads(w, j)
        /\ CostNow(Path(su, v)[k]) = CostNow(e) + CostNow(Path(su, w)[j])
    BY <2>2
  <2> DEFINE x == CostNow(Path(su, w)[j])  y == CostNow(Path(su, v)[k])  c == CostNow(e)
  <2> HIDE DEF j, w, e, n, D1, D2, M
  <2>4. /\ dist'[w] \in Fraction /\ x \in Int
        /\ Is(dist'[w], D1 * M + x * D2, D2 * M)
    BY <2>2, <2>3, EvaluatedLabel DEF D1, D2, M, n
  <2>5. c \in Int /\ y = c + x BY <1>1, <2>2, <2>3, CostNowIs
  <2>6. dist'[v] \in Fraction /\ Is(dist'[v], D1 * M + y * D2, D2 * M) BY <2>1
  <2> DEFINE f == dist'[w]  t == dist'[v]
  <2> HIDE DEF x, y, c, f, t
  <2>7. y \in Int /\ x - y = -c BY <2>4, <2>5
  <2>8. Within(f, t, x - y, M)
    <3>1. f \in Fraction /\ t \in Fraction /\ Is(f, D1 * M + x * D2, D2 * M)
          /\ Is(t, D1 * M + y * D2, D2 * M)
      BY <2>4, <2>6 DEF f, t
    <3> QED BY <1>4, <2>4, <2>7, <3>1, Apart
  <2> QED BY <2>7, <2>8 DEF f, t, c, w, e
<1> QED BY <1>6 DEF Downhill

\* What the labels are worth while a cycle found is evaluated and improved.
Measured ==
  /\ pc = "evaluate" => RatioOfLap
  /\ pc = "improve" /\ handle # NoNode /\ AllLead => Downhill(dist, su)

LEMMA InitMeasured == Init => Measured
BY DEF Init, Measured

\* Path, with what it takes from the state as a parameter.
PathOf(n, policy, v) ==
  LET Stop[k \in 0 .. n] ==
        IF k = 0 THEN [at |-> v, weight |-> 0, delay |-> 0]
        ELSE LET p == Stop[k - 1]
                 e == policy[p.at]
             IN  [at |-> e.to, weight |-> p.weight + e.weight,
                  delay |-> p.delay + e.delay]
  IN  Stop

\* Paths and where they lead depend on the graph, the policy and the start.
LEMMA PathStays ==
  ASSUME h' = h, su' = su
  PROVE  /\ \A v : Path(su, v)' = Path(su, v)
         /\ \A x : handle' = x => Path(su, handle)' = Path(su, x)
         /\ handle' = handle => \A v : FirstIn(Path(su, v), {handle})' = FirstIn(Path(su, v), {handle})
<1> DEFINE n == Cardinality(h.nodes)
<1>1. \A v : Path(su, v) = PathOf(n, su, v) BY DEF Path, PathOf
<1>2. \A v : Path(su, v)' = PathOf(n', su', v) BY DEF Path, PathOf
<1>3. Path(su, handle)' = PathOf(n', su', handle') BY DEF Path, PathOf
<1>4. n' = n OBVIOUS
<1>5. \A v : Path(su, v)' = Path(su, v)
  <2> HIDE DEF n
  <2> QED BY <1>1, <1>2, <1>4
<1>6. \A x : handle' = x => Path(su, handle)' = Path(su, x)
  <2> HIDE DEF n
  <2> QED BY <1>1, <1>3, <1>4
<1>7. ASSUME handle' = handle, NEW v
      PROVE  FirstIn(Path(su, v), {handle})' = FirstIn(Path(su, v), {handle})
  <2>1. FirstIn(Path(su, v), {handle})' = FirstAt(Path(su, v)', 0 .. n', {handle'})
    BY DEF FirstIn
  <2>2. FirstIn(Path(su, v), {handle}) = FirstAt(Path(su, v), 0 .. n, {handle})
    BY DEF FirstIn
  <2> HIDE DEF n
  <2> QED BY <1>4, <1>5, <1>7, <2>1, <2>2
<1> QED BY <1>5, <1>6, <1>7

LEMMA FindRatioMeasured == ASSUME IInv, FindRatio PROVE Measured'
<1>1. h \in Instances /\ pc = "find" /\ h' = h /\ su' = su BY DEF IInv, FindRatio
<1>2. pc' = "improve" => handle' = NoNode BY DEF FindRatio
<1>3. ASSUME pc' = "evaluate" PROVE RatioOfLap'
  <2> DEFINE met == [v \in h.nodes |-> Met(su, v)]
             best == {v \in h.nodes :
                        /\ Less(met[v].ratio, r)
                        /\ \A w \in h.nodes : ~Less(met[w].ratio, met[v].ratio)}
             v == Min(best)
  <2>1. \A u \in h.nodes : su[u] # NoArc BY <1>3 DEF FindRatio
  <2>2. best # {} /\ handle' = met[v].at /\ r' = met[v].ratio BY <1>3, <2>1 DEF FindRatio
  <2>3. v \in h.nodes
    <3> HIDE DEF best
    <3>1. best \subseteq h.nodes BY DEF best
    <3>2. best \in SUBSET Nat BY <1>1, <3>1, InstancesAssumption
    <3>3. PICK m \in best : \A w \in best : m <= w BY <2>2, <3>2, LeastNatural
    <3>4. v \in best BY <3>3 DEF Min
    <3> QED BY <3>1, <3>4
  <2>4. IsPolicy(su) BY <1>1, <2>1, PolicyGiven
  <2> HIDE DEF v, best
  <2>5. PICK x \in h.nodes, k \in 1 .. Cardinality(h.nodes) :
          /\ IsFirst(Path(su, x), 1 .. Cardinality(h.nodes), {x}, k)
          /\ Met(su, v) =
               [at |-> x, ratio |-> Lowest(Path(su, x)[k].weight, Path(su, x)[k].delay)]
    BY <1>1, <2>3, <2>4, MetIsACycle
  <2>6. handle' = x /\ r' = Lowest(Path(su, x)[k].weight, Path(su, x)[k].delay)
    BY <2>2, <2>3, <2>5
  <2>7. Path(su, handle)' = Path(su, x) BY <1>1, <2>6, PathStays
  <2>8. r' = Lowest(Path(su, handle)'[k].weight, Path(su, handle)'[k].delay) BY <2>6, <2>7
  <2>9. ComesTo(handle, k)' BY <1>1, <2>5, <2>6, <2>7 DEF ComesTo
  <2>10. k \in 1 .. Cardinality(h'.nodes) BY <1>1
  <2> QED BY <2>8, <2>9, <2>10 DEF RatioOfLap
<1> QED BY <1>2, <1>3 DEF Measured

LEMMA EvaluateMeasured == ASSUME IInv, Measured, Evaluate PROVE Measured'
<1>1. pc = "evaluate" /\ pc' = "improve" /\ h' = h /\ r' = r /\ su' = su /\ handle' = handle
  BY DEF Evaluate
<1>2. RatioOfLap BY <1>1 DEF Measured
<1>3. AllLead' => AllLead BY <1>1, PathStays DEF AllLead
<1>4. AllLead' => Downhill(dist', su) BY <1>2, <1>3, EvaluateDownhill
<1>5. AllLead' => Downhill(dist, su)' BY <1>1, <1>4 DEF Downhill, CostNow
<1> QED BY <1>1, <1>5 DEF Measured

LEMMA NextMeasured == IInv /\ Measured /\ [Next]_vars => Measured'
<1> SUFFICES ASSUME IInv, Measured, [Next]_vars PROVE Measured'
  OBVIOUS
<1>1. CASE InitPolicy BY <1>1 DEF InitPolicy, Measured
<1>2. CASE FindRatio BY <1>2, FindRatioMeasured
<1>3. CASE Evaluate BY <1>3, EvaluateMeasured
<1>4. CASE Improve BY <1>4 DEF Improve, Measured
<1>5. CASE UNCHANGED vars
  <2>1. h' = h /\ r' = r /\ su' = su /\ dist' = dist /\ handle' = handle /\ pc' = pc
    BY <1>5 DEF vars
  <2>2. AllLead' <=> AllLead BY <2>1, PathStays DEF AllLead
  <2>3. Path(su, handle)' = Path(su, handle) BY <2>1, PathStays
  <2>4. RatioOfLap => RatioOfLap' BY <2>1, <2>3 DEF RatioOfLap, ComesTo
  <2>5. Downhill(dist, su) => Downhill(dist, su)' BY <2>1 DEF Downhill, CostNow
  <2> QED BY <2>1, <2>2, <2>4, <2>5 DEF Measured
<1> QED BY <1>1, <1>2, <1>3, <1>4, <1>5 DEF Next

\* A pass over the arcs that starts with labels that fall ends with such labels.
LEMMA ImproveNoWorse ==
  ASSUME IInv, Measured, Improve, handle # NoNode, AllLead, NEW v \in h.nodes
  PROVE  ~Less(r, Met(su', v).ratio)
<1> DEFINE n == Len(h.order)
<1>1. h \in Instances /\ r \in Fraction /\ Downhill(dist, su)
  BY DEF IInv, Measured, Improve
<1>2. n \in Nat
  <2>1. h.order \in Seq(Arc) BY <1>1, InstancesAssumption
  <2> QED BY <2>1
<1>3. PICK L \in [0 .. n -> Improving] :
        /\ L[0] = [dist |-> dist, su |-> su, changed |-> FALSE]
        /\ \A k \in 1 .. n : h.order[k] \in Arcs /\ L[k] = Relaxed(L[k - 1], h.order[k], Eps)
        /\ su' = L[n].su
  BY ImproveLoop
<1> HIDE DEF n
<1> DEFINE S == {k \in 0 .. n : Downhill(L[k].dist, L[k].su)}
<1>4. 0 \in S
  <2>1. L[0].dist = dist /\ L[0].su = su BY <1>3
  <2> QED BY <1>1, <1>2, <2>1
<1>5. ASSUME NEW k \in 1 .. n, k - 1 \in S PROVE k \in S
  <2> DEFINE s == L[k - 1]  e == h.order[k]
  <2>1. s \in Improving /\ e \in Arcs /\ L[k] = Relaxed(s, e, Eps)
        /\ Downhill(s.dist, s.su)
    BY <1>2, <1>3, <1>5
  <2> HIDE DEF s, e
  <2>2. Downhill(L[k].dist, L[k].su) BY <1>1, <2>1, RelaxedDownhill
  <2> QED BY <1>2, <2>2
<1>6. n \in S
  <2> HIDE DEF S
  <2>1. 0 .. n \subseteq S BY <1>2, <1>4, <1>5, AllUpTo
  <2> QED BY <1>2, <2>1
<1> DEFINE s == L[n]
<1>7. s \in Improving /\ Downhill(s.dist, s.su) /\ su' = s.su BY <1>2, <1>3, <1>6
<1> HIDE DEF s
<1>8. ~Less(r, Met(s.su, v).ratio) BY <1>1, <1>7, DownhillCycles
<1> QED BY <1>7, <1>8

\* Once the whole policy leads to the cycle just measured, relaxing the arcs
\* in place makes no policy cycle worse than it.
THEOREM HowardNoWorse == Spec => NoWorseCycle
<1> DEFINE A == pc = "improve" /\ handle # NoNode
                  /\ (\A v \in h.nodes : FirstIn(Path(su, v), {handle}) # {})
                => \A v \in h.nodes : ~Less(r, Met(su', v).ratio)
<1>1. IInv /\ Measured /\ [Next]_vars => [A]_vars
  <2> SUFFICES ASSUME IInv, Measured, Next, pc = "improve", handle # NoNode, AllLead,
                      NEW v \in h.nodes
               PROVE  ~Less(r, Met(su', v).ratio)
    BY DEF AllLead
  <2>1. Improve BY DEF Next, InitPolicy, FindRatio, Evaluate
  <2> QED BY <2>1, ImproveNoWorse
<1> QED BY <1>1, InitIInv, NextIInv, InitMeasured, NextMeasured, PTL DEF Spec, NoWorseCycle

-----------------------------------------------------------------------------
(***************************************************************************)
(* main().                                                                 *)
(***************************************************************************)
\* YTO begins when Howard has returned.
HowardFirst == ypc # "initialize" => pc = "returned"

LEMMA InitMain == MainInit => IInv /\ HowardFirst
<1>1. yto!Init => ypc = "initialize" BY DEF yto!Init
<1> QED BY <1>1, InitIInv DEF MainInit, HowardFirst

LEMMA NextMain == IInv /\ HowardFirst /\ [MainNext]_mainVars => (IInv /\ HowardFirst)'
<1> SUFFICES ASSUME IInv, HowardFirst, [MainNext]_mainVars PROVE IInv' /\ HowardFirst'
  OBVIOUS
<1>1. CASE RunHoward
  <2>1. Next /\ ypc' = ypc BY <1>1 DEF RunHoward, ytoVars
  <2>2. pc # "returned" BY <2>1 DEF Next, InitPolicy, FindRatio, Evaluate, Improve
  <2> QED BY <2>1, <2>2, NextIInv DEF HowardFirst
<1>2. CASE RunYTO
  <2>1. UNCHANGED vars /\ pc = "returned" BY <1>2 DEF RunYTO
  <2>2. pc' = pc BY <2>1 DEF vars
  <2> QED BY <2>1, <2>2, NextIInv DEF HowardFirst
<1>3. CASE UNCHANGED mainVars
  <2>1. UNCHANGED vars /\ pc' = pc /\ ypc' = ypc BY <1>3 DEF mainVars, vars, ytoVars
  <2> QED BY <2>1, NextIInv DEF HowardFirst
<1> QED BY <1>1, <1>2, <1>3 DEF MainNext

\* A measurement: its flip-flops, vertices and arcs.
LEMMA MeasurementGiven ==
  ASSUME h \in Instances, IsMeasured(h)
  PROVE  \E n \in Nat \ {0}, T0 \in Delays :
           /\ IsDelayGraph(h.dg) /\ DOMAIN h.dg # {}
           /\ DOMAIN h.dg \subseteq (0 .. n - 1) \X (0 .. n - 1)
           /\ Indices(h.dg) = 0 .. n - 1
           /\ h.nodes = McrNodes(n)
           /\ Arcs = McrArcs(h.dg, T0)
           /\ h.r0 = <<T0, 1>>
<1> DEFINE dg == h.dg
           T0 == TInitial(dg)
           Ends == UNION {{e[1], e[2]} : e \in DOMAIN dg}
           m == Max(Ends)
           All == {dg[e].max : e \in DOMAIN dg}
<1>1. /\ IsDelayGraph(dg) /\ IsFiniteSet(DOMAIN dg) /\ DOMAIN dg # {}
      /\ Arcs = McrArcs(dg, T0) /\ h = Measurement(dg, h.order)
  BY MeasurementsAssumption DEF IsMeasured, Arcs
<1>2. h.nodes = McrNodes(Cardinality(Indices(dg))) /\ h.r0 = <<T0, 1>>
  BY <1>1 DEF Measurement
<1> HIDE DEF dg
<1>3. \A e \in DOMAIN dg : e[1] \in Nat /\ e[2] \in Nat /\ e = <<e[1], e[2]>>
                           /\ dg[e].max \in Delays
  BY <1>1 DEF IsDelayGraph
<1>4. IsFiniteSet(All)
  <2>1. [e \in DOMAIN dg |-> dg[e].max] \in Surjection(DOMAIN dg, All) BY DEF Surjection
  <2> QED BY <1>1, <2>1, FS_Surjection
<1>5. T0 \in Delays
  <2>1. All \in SUBSET Int /\ All # {} /\ All \subseteq Delays
    BY <1>1, <1>3 DEF Delays
  <2>2. T0 = Max(All) BY DEF TInitial
  <2> HIDE DEF All, T0
  <2> QED BY <1>4, <2>1, <2>2, MaxIs
<1>6. IsFiniteSet(Ends)
  <2> DEFINE P == {{e[1], e[2]} : e \in DOMAIN dg}
  <2>1. [e \in DOMAIN dg |-> {e[1], e[2]}] \in Surjection(DOMAIN dg, P) BY DEF Surjection
  <2>2. IsFiniteSet(P) BY <1>1, <2>1, FS_Surjection
  <2>3. \A X \in P : IsFiniteSet(X)
    <3>1. ASSUME NEW x, NEW y PROVE IsFiniteSet({x, y})
      <4>1. IsFiniteSet({x}) BY FS_Singleton
      <4>2. IsFiniteSet({x} \cup {y}) BY <4>1, FS_AddElement
      <4>3. {x, y} = {x} \cup {y} OBVIOUS
      <4> QED BY <4>2, <4>3
    <3> QED BY <3>1
  <2> HIDE DEF P
  <2>4. IsFiniteSet(UNION P) BY <2>2, <2>3, FS_UNION
  <2> QED BY <2>4 DEF P
<1>7. m \in Nat /\ \A e \in DOMAIN dg : e[1] <= m /\ e[2] <= m
  <2>1. Ends \in SUBSET Int /\ Ends \subseteq Nat BY <1>3
  <2>3. \A e \in DOMAIN dg : e[1] \in Ends /\ e[2] \in Ends OBVIOUS
  <2>2. Ends # {}
    <3>1. PICK e \in DOMAIN dg : TRUE BY <1>1
    <3>2. e[1] \in Ends BY <2>3, <3>1
    <3> QED BY <3>2
  <2> HIDE DEF Ends
  <2>4. m \in Ends /\ \A y \in Ends : y <= m BY <1>6, <2>1, <2>2, MaxIs
  <2> QED BY <2>1, <2>3, <2>4
<1>8. Indices(dg) = 0 .. m BY DEF Indices
<1> HIDE DEF m, Ends, All, T0
<1> DEFINE n == m + 1
<1>9. n \in Nat \ {0} /\ n - 1 = m BY <1>7
<1>10. Cardinality(Indices(dg)) = n BY <1>7, <1>8, FS_Interval
<1>11. DOMAIN dg \subseteq (0 .. n - 1) \X (0 .. n - 1)
  <2> SUFFICES ASSUME NEW e \in DOMAIN dg PROVE e \in (0 .. n - 1) \X (0 .. n - 1)
    OBVIOUS
  <2>1. e[1] \in 0 .. n - 1 /\ e[2] \in 0 .. n - 1 BY <1>3, <1>7, <1>9
  <2> QED BY <1>3, <2>1
<1> HIDE DEF n
<1> QED BY <1>1, <1>2, <1>5, <1>8, <1>9, <1>10, <1>11 DEF dg

LEMMA Dangling ==
  ASSUME IInv, HowardFirst
  PROVE  DanglingIsUndefined
<1> SUFFICES ASSUME MainStopped, IsMeasured(h)
             PROVE  pc = "undefined" <=>
                      \E i \in Indices(h.dg) : \/ \A e \in DOMAIN h.dg : e[1] # i
                                               \/ \A e \in DOMAIN h.dg : e[2] # i
  BY DEF DanglingIsUndefined
<1>1. h \in Instances /\ Served /\ Defined BY DEF IInv
<1>2. pc \in {"undefined", "returned"} BY DEF MainStopped, HowardFirst
<1>3. pc = "undefined" <=> \E v \in h.nodes : su[v] = NoArc BY <1>1, <1>2 DEF Defined
<1>4. \A v \in h.nodes : su[v] = NoArc <=> ~\E y \in Arcs : y.from = v
  <2>1. \A v \in h.nodes : su[v] = NoArc <=> OutArcs(Arcs, v) = {} BY <1>1, <1>2 DEF Served
  <2>2. \A v : OutArcs(Arcs, v) = {} <=> ~\E y \in Arcs : y.from = v BY DEF OutArcs
  <2> QED BY <2>1, <2>2
<1>5. PICK n \in Nat \ {0}, T0 \in Delays :
        /\ IsDelayGraph(h.dg) /\ DOMAIN h.dg # {}
        /\ DOMAIN h.dg \subseteq (0 .. n - 1) \X (0 .. n - 1)
        /\ Indices(h.dg) = 0 .. n - 1
        /\ h.nodes = McrNodes(n)
        /\ Arcs = McrArcs(h.dg, T0)
  BY <1>1, MeasurementGiven
<1> DEFINE dg == h.dg
           Left(k)  == \E e \in DOMAIN dg : e[1] = k
           Ended(k) == \E e \in DOMAIN dg : e[2] = k
<1>6. (\A x \in h.nodes : \E y \in Arcs : y.from = x)
        <=> \A k \in 0 .. n - 1 : Left(k) /\ Ended(k)
  <2>1. IsDelayGraph(dg) /\ DOMAIN dg # {} /\ n \in Nat /\ T0 \in Delays
        /\ DOMAIN dg \subseteq (0 .. n - 1) \X (0 .. n - 1)
        /\ h.nodes = McrNodes(n) /\ Arcs = McrArcs(dg, T0)
    BY <1>5
  <2> HIDE DEF dg
  <2>2. (\A x \in McrNodes(n) : \E y \in McrArcs(dg, T0) : y.from = x)
          <=> \A k \in 0 .. n - 1 : /\ \E e \in DOMAIN dg : e[1] = k
                                    /\ \E e \in DOMAIN dg : e[2] = k
    BY <2>1, WhenHowardIsDefined
  <2> QED BY <2>1, <2>2
<1>7. pc = "undefined" <=> ~\A x \in h.nodes : \E y \in Arcs : y.from = x
  BY <1>3, <1>4
<1>8. pc = "undefined" <=> \E k \in 0 .. n - 1 : ~Left(k) \/ ~Ended(k)
  <2> HIDE DEF Left, Ended
  <2> QED BY <1>6, <1>7
<1>9. \A k : /\ ~Left(k) <=> \A e \in DOMAIN h.dg : e[1] # k
             /\ ~Ended(k) <=> \A e \in DOMAIN h.dg : e[2] # k
  OBVIOUS
<1>10. Indices(h.dg) = 0 .. n - 1 BY <1>5
<1> HIDE DEF Left, Ended, dg
<1> QED BY <1>8, <1>9, <1>10

\* On a measurement the solvers stop at an unset policy just when some end
\* point of the report is never the start or never the end of a path.
THEOREM HowardIsDefined == MainSpec => []DanglingIsUndefined
BY InitMain, NextMain, Dangling, PTL DEF MainSpec

-----------------------------------------------------------------------------
(***************************************************************************)
(* The period printed for Howard.                                          *)
(***************************************************************************)
\* The row an arc of the constraint graph states, as Rows has it.
RowOf(x, T0) == arc(x.from, x.to, x.weight - x.delay * HalfT(T0), -x.delay)

LEMMA RowNumbers ==
  ASSUME NEW dg, IsDelayGraph(dg), NEW q \in McrRows(dg)
  PROVE  q.t2 \in Int /\ q.bound \in Int
<1>1. PICK e \in DOMAIN dg : q \in EdgeRows(e[1], e[2], dg[e]) BY DEF McrRows
<1>2. dg[e].min \in Int /\ -dg[e].max \in Int BY DEF IsDelayGraph, Delays
<1>3. -2 \in Int /\ 0 \in Int /\ 1 \in Int /\ 2 \in Int OBVIOUS
<1>4. ASSUME NEW t2 \in Int, NEW plus, NEW minus, NEW bound \in Int,
             q = row(t2, plus, minus, bound)
      PROVE  q.t2 \in Int /\ q.bound \in Int
  BY <1>4 DEF row
<1> QED BY <1>1, <1>2, <1>3, <1>4 DEF EdgeRows

LEMMA RowsOfArcs ==
  ASSUME h \in Instances, IsMeasured(h)
  PROVE  \E T0 \in Delays : /\ h.r0 = <<T0, 1>>
                            /\ Rows = {RowOf(x, T0) : x \in Arcs}
<1>1. PICK n \in Nat \ {0}, T0 \in Delays :
        IsDelayGraph(h.dg) /\ Arcs = McrArcs(h.dg, T0) /\ h.r0 = <<T0, 1>>
  BY MeasurementGiven
<1> DEFINE dg == h.dg
           made(q) == arc(q.minus, q.plus, q.bound, q.t2)
<1>2. IsDelayGraph(dg) BY <1>1
<1>3. Rows = {made(q) : q \in McrRows(dg)} BY DEF Rows
<1> HIDE DEF dg
<1>4. Arcs = {RowArc(q, T0) : q \in McrRows(dg)} BY <1>1, <1>2, RowsAreArcs DEF dg
<1>5. ASSUME NEW q \in McrRows(dg) PROVE RowOf(RowArc(q, T0), T0) = made(q)
  <2> DEFINE t2 == q.t2  b == q.bound  k == HalfT(T0)
  <2>1. t2 \in Int /\ b \in Int /\ k \in Int BY <1>2, RowNumbers, Halves
  <2>2. RowArc(q, T0) = arc(q.minus, q.plus, b - t2 * k, -t2) BY DEF RowArc
  <2> HIDE DEF t2, b, k
  <2>3. (b - t2 * k) - (-t2) * k = b /\ -(-t2) = t2
    <3>1. (-t2) * k = -(t2 * k) /\ t2 * k \in Int BY <2>1
    <3> QED BY <2>1, <3>1
  <2>4. RowOf(RowArc(q, T0), T0)
          = arc(q.minus, q.plus, (b - t2 * k) - (-t2) * k, -(-t2))
    BY <2>2 DEF RowOf, arc, k
  <2>5. RowOf(RowArc(q, T0), T0) = arc(q.minus, q.plus, b, t2) BY <2>3, <2>4
  <2> QED BY <2>5 DEF b, t2
<1> HIDE DEF made
<1>6. Rows = {RowOf(x, T0) : x \in Arcs} BY <1>3, <1>4, <1>5
<1> QED BY <1>1, <1>6

\* Three arcs around the reference have the ratio the search begins with, or
\* a smaller one, so that on a measurement the result is that of a cycle.
LEMMA StartReaches ==
  ASSUME h \in Instances, IsMeasured(h)
  PROVE  Reaches(h.r0)
<1>1. PICK n \in Nat \ {0}, T0 \in Delays :
        /\ IsDelayGraph(h.dg) /\ DOMAIN h.dg # {}
        /\ Arcs = McrArcs(h.dg, T0) /\ h.r0 = <<T0, 1>>
  BY MeasurementGiven
<1>2. PICK e \in DOMAIN h.dg : TRUE BY <1>1
<1> DEFINE v == e[2]
           x == arc(ref, A_(v), T0, 2)
           y == arc(A_(v), a_(v), 0, 0)
           z == arc(a_(v), ref, 0, 0)
<1>3. x \in Arcs /\ y \in Arcs /\ z \in Arcs
  <2>1. EdgeArcs(e[1], e[2], h.dg[e], T0) \subseteq Arcs BY <1>1, <1>2 DEF McrArcs
  <2>2. {x, y, z} \subseteq EdgeArcs(e[1], e[2], h.dg[e], T0) BY DEF EdgeArcs
  <2> QED BY <2>1, <2>2
<1>4. ASSUME NEW K \in Nat \ {0}, NoNegativeCycle(h.nodes, Arcs, Charging(h.r0, K))
      PROVE  FALSE
  <2> DEFINE cost == Charging(h.r0, K)
  <2>1. T0 \in Nat BY DEF Delays
  <2>2. \A a \in Arcs : cost[a] = K * (1 * a.weight - T0 * a.delay) - 1
    BY <1>1 DEF Charging
  <2>3. cost \in [Arcs -> Int]
    <3>1. \A a \in Arcs : cost[a] \in Int
      <4> SUFFICES ASSUME NEW a \in Arcs PROVE cost[a] \in Int
        OBVIOUS
      <4> DEFINE w == a.weight  d == a.delay
      <4>1. w \in Int /\ d \in Int BY GraphGiven
      <4>2. cost[a] = K * (1 * w - T0 * d) - 1 BY <2>2
      <4> HIDE DEF w, d, cost
      <4>3. 1 * w - T0 * d \in Int BY <2>1, <4>1
      <4> QED BY <4>2, <4>3
    <3>2. cost = [a \in Arcs |-> cost[a]] BY DEF Charging
    <3> HIDE DEF cost
    <3> QED BY <3>1, <3>2
  <2>4. /\ cost[x] = K * (1 * T0 - T0 * 2) - 1
        /\ cost[y] = K * (1 * 0 - T0 * 0) - 1
        /\ cost[z] = K * (1 * 0 - T0 * 0) - 1
    <3>1. /\ x.weight = T0 /\ x.delay = 2 /\ y.weight = 0 /\ y.delay = 0
          /\ z.weight = 0 /\ z.delay = 0
      BY DEF arc
    <3> HIDE DEF cost, x, y, z
    <3> QED BY <1>3, <2>2, <3>1
  <2>5. /\ x.from = ref /\ x.to = A_(v) /\ y.from = A_(v) /\ y.to = a_(v)
        /\ z.from = a_(v) /\ z.to = ref
    BY DEF arc
  <2> HIDE DEF cost, x, y, z
  <2>6. PICK p \in [h.nodes -> Int] : IsPotential(Arcs, cost, p)
    BY <1>4, <2>3, GraphGiven, Potentials DEF cost
  <2> DEFINE p0 == p[ref]  p1 == p[A_(v)]  p2 == p[a_(v)]
  <2>7. p1 <= p0 + cost[x] /\ p2 <= p1 + cost[y] /\ p0 <= p2 + cost[z]
    BY <1>3, <2>5, <2>6 DEF IsPotential
  <2>8. p0 \in Int /\ p1 \in Int /\ p2 \in Int
    BY <1>3, <2>5, <2>6, GraphGiven DEF IsGraph
  <2> HIDE DEF p0, p1, p2
  <2>9. K * (1 * T0 - T0 * 2) <= 0 /\ K * (1 * T0 - T0 * 2) \in Int
        /\ K * (1 * 0 - T0 * 0) = 0
    <3>1. 1 * T0 - T0 * 2 = -T0 /\ 1 * 0 - T0 * 0 = 0 BY <2>1
    <3>2. K * T0 \in Nat /\ K * (-T0) = -(K * T0) BY <2>1
    <3> QED BY <3>1, <3>2
  <2> QED BY <2>4, <2>7, <2>8, <2>9
<1> QED BY <1>4 DEF Reaches

\* The rows cost what their arcs do.
LEMMA RowCosts ==
  ASSUME h \in Instances, IsMeasured(h), NEW T0 \in Delays, h.r0 = <<T0, 1>>,
         NEW x \in Arcs, NEW y \in Fraction,
         NEW s1 \in Nat, NEW s2 \in Nat \ {0}, RowOf(x, T0) \in Rows
  PROVE  /\ CostAt(Period(y), <<s1, s2>>)[RowOf(x, T0)]
              = 2 * (y[2] * (s2 * x.weight + s1) - y[1] * (s2 * x.delay))
         /\ y[2] * (s2 * x.weight + s1) - y[1] * (s2 * x.delay) \in Int
         /\ RowOf(x, T0).from = x.from /\ RowOf(x, T0).to = x.to
<1> DEFINE w == x.weight  d == x.delay  k == HalfT(T0)  y1 == y[1]  y2 == y[2]
           e == RowOf(x, T0)
<1>1. w \in Int /\ d \in Int BY GraphGiven
<1>2. k \in Int /\ T0 = 2 * k BY Halves
<1>3. y1 \in Int /\ y2 \in Nat \ {0} BY FractionParts
<1>4. e.from = x.from /\ e.to = x.to /\ e.weight = w - d * k /\ e.delay = -d
  BY DEF RowOf, arc
<1>5. Period(y) = <<T0 * y2 - 2 * y1, y2>> BY DEF Period
<1>6. CostAt(Period(y), <<s1, s2>>)[e]
        = s2 * (2 * y2 * e.weight - (T0 * y2 - 2 * y1) * e.delay) + 2 * y2 * s1
  BY <1>5 DEF CostAt
<1> HIDE DEF w, d, k, y1, y2, e
<1>7. s2 * (2 * y2 * (w - d * k) - (T0 * y2 - 2 * y1) * (-d)) + 2 * y2 * s1
        = 2 * (y2 * (s2 * w + s1) - y1 * (s2 * d))
  <2> DEFINE a == y2 * w  b == y2 * d * k  c == y1 * d
  <2>1. a \in Int /\ b \in Int /\ c \in Int BY <1>1, <1>2, <1>3
  <2>2. 2 * y2 * (w - d * k) = 2 * a - 2 * b BY <1>1, <1>2, <1>3
  <2>3. (T0 * y2 - 2 * y1) * (-d) = 2 * c - 2 * b BY <1>1, <1>2, <1>3
  <2>4. y2 * (s2 * w + s1) - y1 * (s2 * d) = s2 * a + y2 * s1 - s2 * c
    BY <1>1, <1>3
  <2> HIDE DEF a, b, c
  <2>5. s2 * ((2 * a - 2 * b) - (2 * c - 2 * b)) = 2 * (s2 * a) - 2 * (s2 * c)
    <3>1. (2 * a - 2 * b) - (2 * c - 2 * b) = 2 * (a - c) BY <2>1
    <3>2. s2 * (2 * (a - c)) = 2 * (s2 * a) - 2 * (s2 * c) BY <2>1
    <3> QED BY <3>1, <3>2
  <2>6. s2 * a \in Int /\ s2 * c \in Int /\ y2 * s1 \in Int /\ 2 * y2 * s1 = 2 * (y2 * s1)
    BY <1>3, <2>1
  <2> HIDE DEF a, b, c
  <2> QED BY <2>2, <2>3, <2>4, <2>5, <2>6
<1>8. y2 * (s2 * w + s1) - y1 * (s2 * d) \in Int BY <1>1, <1>3
<1> QED BY <1>4, <1>6, <1>7, <1>8 DEF w, d, y1, y2, e

LEMMA HowardPeriod ==
  ASSUME IInv
  PROVE  PeriodIsOptimum
<1> SUFFICES ASSUME pc = "returned", IsMeasured(h)
             PROVE  Satisfiable(Period(r), Eps) /\ Tight(Period(r))
  BY DEF PeriodIsOptimum
<1>1. h \in Instances /\ r \in Fraction BY DEF IInv
<1>2. PICK T0 \in Delays : h.r0 = <<T0, 1>> /\ Rows = {RowOf(x, T0) : x \in Arcs}
  BY <1>1, RowsOfArcs
<1> DEFINE slackCost(x, s1, s2) == r[2] * (s2 * x.weight + s1) - r[1] * (s2 * x.delay)
<1>3. ASSUME NEW s1 \in Nat, NEW s2 \in Nat \ {0}, NEW x \in Arcs
      PROVE  /\ CostAt(Period(r), <<s1, s2>>)[RowOf(x, T0)] = 2 * slackCost(x, s1, s2)
             /\ slackCost(x, s1, s2) \in Int
             /\ RowOf(x, T0).from = x.from /\ RowOf(x, T0).to = x.to
  BY <1>1, <1>2, RowCosts
<1> HIDE DEF slackCost
<1>4. IsFiniteSet(Rows) /\ IsGraph(h.nodes, Rows)
  <2>1. [x \in Arcs |-> RowOf(x, T0)] \in Surjection(Arcs, Rows) BY <1>2 DEF Surjection
  <2>2. IsFiniteSet(Arcs) /\ IsGraph(h.nodes, Arcs) BY <1>1, GraphGiven
  <2>3. IsFiniteSet(Rows) BY <2>1, <2>2, FS_Surjection
  <2>4. \A x \in Arcs : RowOf(x, T0).from = x.from /\ RowOf(x, T0).to = x.to
    <3>1. 0 \in Nat /\ 1 \in Nat \ {0} OBVIOUS
    <3> QED BY <1>3, <3>1
  <2> QED BY <1>2, <2>2, <2>3, <2>4 DEF IsGraph
<1>5. ASSUME NEW s1 \in Nat, NEW s2 \in Nat \ {0}
      PROVE  CostAt(Period(r), <<s1, s2>>) \in [Rows -> Int]
  <2> DEFINE cost == CostAt(Period(r), <<s1, s2>>)
  <2>1. cost = [e \in Rows |-> cost[e]] BY DEF CostAt
  <2>2. \A x \in Arcs : cost[RowOf(x, T0)] \in Int BY <1>3
  <2> HIDE DEF cost
  <2>3. \A e \in Rows : cost[e] \in Int BY <1>2, <2>2
  <2> QED BY <2>1, <2>3 DEF cost
<1>6. IsFiniteSet(h.nodes) /\ h.nodes # {} BY <1>1, GraphGiven
<1>7. Satisfiable(Period(r), Eps)
  <2> DEFINE E1 == Eps[1]  E2 == Eps[2]  cost == CostAt(Period(r), Eps)
  <2>1. E1 \in Nat /\ E2 \in Nat \ {0} /\ Eps = <<E1, E2>> BY EpsAssumption
  <2>2. PICK p \in [h.nodes -> Int] : \A x \in Arcs :
          /\ TolerantCost(x.weight, x.delay, r) \in Int
          /\ p[x.to] <= p[x.from] + TolerantCost(x.weight, x.delay, r)
    BY SettledPotential
  <2>3. \A x \in Arcs : TolerantCost(x.weight, x.delay, r) = slackCost(x, E1, E2)
    BY DEF TolerantCost, slackCost
  <2> DEFINE q == [v \in h.nodes |-> 2 * p[v]]
  <2>4. q \in [h.nodes -> Int] OBVIOUS
  <2> HIDE DEF E1, E2
  <2>5. cost \in [Rows -> Int] BY <1>5, <2>1
  <2>6. \A x \in Arcs : /\ cost[RowOf(x, T0)] = 2 * slackCost(x, E1, E2)
                        /\ RowOf(x, T0).from = x.from /\ RowOf(x, T0).to = x.to
    BY <1>3, <2>1
  <2> HIDE DEF cost
  <2>7. IsPotential(Rows, cost, q)
    <3>1. ASSUME NEW x \in Arcs
          PROVE  q[RowOf(x, T0).to] <= q[RowOf(x, T0).from] + cost[RowOf(x, T0)]
      <4> DEFINE a == p[x.from]  b == p[x.to]  c == slackCost(x, E1, E2)
      <4>1. x.from \in h.nodes /\ x.to \in h.nodes BY <1>1, GraphGiven DEF IsGraph
      <4>2. a \in Int /\ b \in Int /\ c \in Int /\ b <= a + c BY <2>2, <2>3, <4>1
      <4>3. q[x.from] = 2 * a /\ q[x.to] = 2 * b BY <4>1
      <4> HIDE DEF a, b, c, q
      <4>4. 2 * b <= 2 * a + 2 * c BY <4>2
      <4> QED BY <2>6, <4>3, <4>4 DEF c
    <3> HIDE DEF q
    <3> QED BY <1>2, <3>1 DEF IsPotential
  <2> HIDE DEF q
  <2>8. NoNegativeCycle(h.nodes, Rows, cost)
    BY <1>4, <1>6, <2>4, <2>5, <2>7, Potentials
  <2> QED BY <2>8 DEF Satisfiable, cost
<1>8. Tight(Period(r))
  <2> DEFINE m == Cardinality(h.nodes) + 1
             at == CostAt(Period(r), <<0, 1>>)
             cost == Charged(h.nodes, Rows, at)
             K == 2 * m
  <2> SUFFICES ASSUME NoNegativeCycle(h.nodes, Rows, cost) PROVE FALSE
    BY DEF Tight
  <2>1. m \in Nat \ {0} BY <1>1, GraphGiven
  <2>2. K \in Nat \ {0} BY <2>1
  <2>3. Reaches(r)
    <3>1. r = h.r0 \/ Reaches(r) BY DEF IInv, Attained
    <3>2. Reaches(h.r0) BY <1>1, StartReaches
    <3> QED BY <3>1, <3>2
  <2>4. ~NoNegativeCycle(h.nodes, Arcs, Charging(r, K)) BY <2>2, <2>3 DEF Reaches
  <2>5. cost = [e \in Rows |-> m * at[e] - 1] BY DEF Charged
  <2>6. \A x \in Arcs : /\ at[RowOf(x, T0)] = 2 * slackCost(x, 0, 1)
                        /\ slackCost(x, 0, 1) \in Int
                        /\ RowOf(x, T0).from = x.from /\ RowOf(x, T0).to = x.to
    <3>1. 0 \in Nat /\ 1 \in Nat \ {0} OBVIOUS
    <3> QED BY <1>3, <3>1
  <2>7. \A x \in Arcs : slackCost(x, 0, 1) = r[2] * x.weight - r[1] * x.delay
    <3>1. ASSUME NEW x \in Arcs PROVE slackCost(x, 0, 1) = r[2] * x.weight - r[1] * x.delay
      <4> DEFINE w == x.weight  d == x.delay
      <4>1. w \in Int /\ d \in Int BY <1>1, GraphGiven
      <4>2. slackCost(x, 0, 1) = r[2] * (1 * w + 0) - r[1] * (1 * d) BY DEF slackCost
      <4> HIDE DEF w, d
      <4>3. 1 * w + 0 = w /\ 1 * d = d BY <4>1
      <4>4. slackCost(x, 0, 1) = r[2] * w - r[1] * d BY <4>2, <4>3
      <4> QED BY <4>4 DEF w, d
    <3> QED BY <3>1
  <2>8. at \in [Rows -> Int]
    <3>1. 0 \in Nat /\ 1 \in Nat \ {0} OBVIOUS
    <3> QED BY <1>5, <3>1
  <2> HIDE DEF at, m
  <2>9. cost \in [Rows -> Int] BY <2>1, <2>5, <2>8
  <2>10. \A x \in Arcs : cost[RowOf(x, T0)] = Charging(r, K)[x]
    <3>1. ASSUME NEW x \in Arcs PROVE cost[RowOf(x, T0)] = Charging(r, K)[x]
      <4> DEFINE c == slackCost(x, 0, 1)
      <4>1. cost[RowOf(x, T0)] = m * (2 * c) - 1
        <5>1. RowOf(x, T0) \in Rows BY <1>2
        <5> HIDE DEF cost
        <5> QED BY <2>5, <2>6, <5>1
      <4>2. Charging(r, K)[x] = K * c - 1 BY <2>7 DEF Charging
      <4>3. c \in Int BY <2>6
      <4> HIDE DEF c, cost
      <4>4. m * (2 * c) = (2 * m) * c BY <2>1, <4>3
      <4> QED BY <4>1, <4>2, <4>4
    <3> QED BY <3>1
  <2> HIDE DEF cost, K
  <2>11. PICK p \in [h.nodes -> Int] : IsPotential(Rows, cost, p)
    BY <1>4, <1>6, <2>9, Potentials
  <2>12. Charging(r, K) \in [Arcs -> Int]
    <3> DEFINE f == Charging(r, K)
    <3>1. f = [x \in Arcs |-> f[x]] BY DEF Charging
    <3>2. \A x \in Arcs : f[x] \in Int BY <1>2, <2>9, <2>10
    <3> HIDE DEF f
    <3>3. f \in [Arcs -> Int] BY <3>1, <3>2
    <3> QED BY <3>3 DEF f
  <2>13. IsPotential(Arcs, Charging(r, K), p)
    BY <1>2, <2>6, <2>10, <2>11 DEF IsPotential
  <2>14. NoNegativeCycle(h.nodes, Arcs, Charging(r, K))
    BY <1>1, <2>12, <2>13, GraphGiven, Potentials
  <2> QED BY <2>4, <2>14
<1> QED BY <1>7, <1>8

\* The period printed for Howard is the least at which the rows of the linear
\* program, eased by the tolerance, can all be met: main() says of two
\* formulations of one problem the same.
THEOREM HowardPeriodIsOptimum == MainSpec => []PeriodIsOptimum
<1>1. IInv /\ HowardFirst => PeriodIsOptimum BY HowardPeriod
<1> QED BY <1>1, InitMain, NextMain, PTL DEF MainSpec

-----------------------------------------------------------------------------
(***************************************************************************)
(* YTO in main().                                                          *)
(***************************************************************************)
yp == INSTANCE YTOProofs WITH Graphs <- {ToSet(i.order) : i \in Instances},
                         g <- Arcs, r <- yr, dist <- ydist, pc <- ypc

\* main() meets the assumptions of YTO.
LEMMA YtoGiven ==
  /\ \A x : yp!IsFiniteSet(x) <=> IsFiniteSet(x)
  /\ yp!Arc = Arc
  /\ \A x, v : yp!InArcs(x, v) = InArcs(x, v)
  /\ \A x \in {ToSet(i.order) : i \in Instances} :
       /\ x \subseteq Arc /\ NoArc \notin x /\ IsFiniteSet(x)
       /\ \A v \in Node : \A S \in SUBSET InArcs(x, v) : S # {} => FirstOf(S) \in S
<1>1. ASSUME NEW i \in Instances
      PROVE  ToSet(i.order) \subseteq Arc /\ IsFiniteSet(ToSet(i.order))
  <2>1. i.order \in Seq(Arc) BY InstancesAssumption
  <2> DEFINE s == i.order
  <2>2. Len(s) \in Nat /\ s \in [1 .. Len(s) -> Arc] BY <2>1
  <2> HIDE DEF s
  <2>3. s \in Surjection(1 .. Len(s), ToSet(s)) BY <2>2 DEF Surjection, ToSet
  <2>4. IsFiniteSet(ToSet(s)) BY <2>2, <2>3, FS_Interval, FS_Surjection
  <2>5. ToSet(s) \subseteq Arc BY <2>2 DEF ToSet
  <2> QED BY <2>4, <2>5 DEF s
<1>2. \A x : yp!IsFiniteSet(x) <=> IsFiniteSet(x) BY DEF yp!IsFiniteSet, IsFiniteSet
<1>3. yp!Arc = Arc BY DEF yp!Arc, Arc
<1>4. \A x, v : yp!InArcs(x, v) = InArcs(x, v) BY DEF yp!InArcs, InArcs
<1> HIDE DEF ToSet
<1> QED BY <1>1, <1>2, <1>3, <1>4, EpsAssumption, FirstOfAssumption

\* The steps of YTO are those its theorems are about.
LEMMA SameStep == yto!Next => yp!Next
<1>1. yto!Initialize => yp!Initialize
  BY DEF yto!Initialize, yp!Initialize, yto!Rescan, yp!Rescan, yto!Improving,
       yp!Improving, yto!InArcs, yp!InArcs, yto!FindArcKey, yp!FindArcKey, yto!Less,
       yp!Less, yto!DeltaD, yp!DeltaD, yto!DeltaT, yp!DeltaT, yto!Infinity, yp!Infinity
<1>2. yto!FindMin => yp!FindMin
  BY DEF yto!FindMin, yp!FindMin, yto!Less, yp!Less, yto!Infinity, yp!Infinity,
       yto!InSubTree, yp!InSubTree, yto!Subtree, yp!Subtree, yto!Closed, yp!Closed,
       yto!data, yp!data, yto!keys, yp!keys
<1>3. yto!Shift => yp!Shift
  BY DEF yto!Shift, yp!Shift, yto!Subtree, yp!Subtree, yto!Closed, yp!Closed,
       yto!keys, yp!keys, yto!DeltaD, yp!DeltaD, yto!DeltaT, yp!DeltaT, yto!Relink,
       yp!Relink
<1>4. yto!Entering => yp!Entering
  BY DEF yto!Entering, yp!Entering, yto!Rescan, yp!Rescan, yto!Improving,
       yp!Improving, yto!Subtree, yp!Subtree, yto!Closed, yp!Closed, yto!data, yp!data,
       yto!InArcs, yp!InArcs, yto!FindArcKey, yp!FindArcKey, yto!Less, yp!Less,
       yto!DeltaD, yp!DeltaD, yto!DeltaT, yp!DeltaT, yto!Infinity, yp!Infinity
<1>5. yto!Leaving => yp!Leaving
  BY DEF yto!Leaving, yp!Leaving, yto!Rescan, yp!Rescan, yto!Improving,
       yp!Improving, yto!Subtree, yp!Subtree, yto!Closed, yp!Closed, yto!data, yp!data,
       yto!InArcs, yp!InArcs, yto!FindArcKey, yp!FindArcKey, yto!Less, yp!Less,
       yto!DeltaD, yp!DeltaD, yto!DeltaT, yp!DeltaT, yto!Infinity, yp!Infinity
<1> QED BY <1>1, <1>2, <1>3, <1>4, <1>5 DEF yto!Next, yp!Next

\* main() is a run of YTO on the graph Howard was given: it takes steps of YTO,
\* and steps YTO does not see.
THEOREM MainIsYto == MainSpec => yp!Spec
<1>1. MainInit => yp!Init
  BY DEF MainInit, yto!Init, yp!Init, yto!NoTree, yp!NoTree, yto!Infinity, yp!Infinity
<1>2. [MainNext]_mainVars => [yp!Next]_(yp!vars)
  <2> SUFFICES ASSUME [MainNext]_mainVars PROVE [yp!Next]_(yp!vars)
    OBVIOUS
  <2>1. CASE RunHoward
    <3>1. h' = h BY <2>1 DEF RunHoward, Next, InitPolicy, FindRatio, Evaluate, Improve
    <3>2. Arcs' = Arcs BY <3>1 DEF Arcs
    <3>3. UNCHANGED ytoVars BY <2>1 DEF RunHoward
    <3> QED BY <3>2, <3>3 DEF ytoVars, yp!vars
  <2>2. CASE RunYTO BY <2>2, SameStep DEF RunYTO
  <2>3. CASE UNCHANGED mainVars
    <3>1. h' = h /\ UNCHANGED ytoVars BY <2>3 DEF mainVars, vars
    <3>2. Arcs' = Arcs BY <3>1 DEF Arcs
    <3> QED BY <3>1, <3>2 DEF ytoVars, yp!vars
  <2> QED BY <2>1, <2>2, <2>3 DEF MainNext
<1> QED BY <1>1, <1>2, PTL DEF MainSpec, yp!Spec

\* What YTO returns in main() is the ratio of a real cycle.
THEOREM YtoInMain == MainSpec => []YtoResultIsACycle
<1> HIDE DEF ToSet
<1>1. yp!NodeAssumption BY NodeAssumption, YtoGiven DEF yp!NodeAssumption
<1>2. yp!GraphsAssumption BY YtoGiven DEF yp!GraphsAssumption
<1>3. yp!FirstOfAssumption BY YtoGiven DEF yp!FirstOfAssumption
<1>4. yp!Spec => []yp!ResultIsACycle BY yp!ResultCycle, <1>1, <1>2, <1>3
<1>5. yp!ResultIsACycle => YtoResultIsACycle
  BY DEF YtoResultIsACycle, yto!ResultIsACycle, yp!ResultIsACycle, yto!InSubTree,
       yp!InSubTree, yto!Subtree, yp!Subtree, yto!Closed, yp!Closed, yto!Same, yp!Same,
       yto!FindArcKey, yp!FindArcKey, yto!DeltaD, yp!DeltaD, yto!DeltaT, yp!DeltaT,
       yto!Infinity, yp!Infinity
<1> QED BY <1>4, <1>5, MainIsYto, PTL

-----------------------------------------------------------------------------
(***************************************************************************)
(* Both results of main().                                                 *)
(***************************************************************************)
\* W and D behave like the weight and the delay of a cycle of m arcs: they are
\* not below what any potentials allow its arcs to add up to.
Around(m, W, D) ==
  \A a, b, c \in Int : \A p \in [h.nodes -> Int] :
    (\A e \in Arcs : p[e.to] <= p[e.from] + (a * e.weight + b * e.delay + c))
      => 0 <= a * W + b * D + m * c

\* So do those of a cycle.
LEMMA CycleIsAround ==
  ASSUME h \in Instances, NEW cost, NEW m \in Nat \ {0}, NEW c, NEW s,
         NegativeCycle(Arcs, cost, m, c, s),
         NEW w, SumsUp([k \in 1 .. m |-> c[k].weight], m, w),
         NEW d, SumsUp([k \in 1 .. m |-> c[k].delay], m, d)
  PROVE  Around(m, w[m], d[m])
<1> SUFFICES ASSUME NEW a \in Int, NEW b \in Int, NEW o \in Int,
                    NEW p \in [h.nodes -> Int],
                    \A e \in Arcs :
                      p[e.to] <= p[e.from] + (a * e.weight + b * e.delay + o)
             PROVE  0 <= a * w[m] + b * d[m] + m * o
  BY DEF Around
<1>1. /\ \A k \in 1 .. m : c[k] \in Arcs
      /\ \A k \in 1 .. m : c[k].to = c[IF k = m THEN 1 ELSE k + 1].from
  BY DEF NegativeCycle
<1>2. \A k \in 1 .. m : /\ c[k].weight \in Int /\ c[k].delay \in Int
                        /\ p[c[k].from] \in Int /\ p[c[k].to] \in Int
  BY <1>1, GraphGiven DEF IsGraph
<1>3. /\ \A k \in 0 .. m : w[k] \in Int /\ d[k] \in Int
      /\ w[0] = 0 /\ d[0] = 0
      /\ \A k \in 1 .. m : w[k] = w[k - 1] + c[k].weight /\ d[k] = d[k - 1] + c[k].delay
  BY DEF SumsUp
<1> DEFINE f == [k \in 0 .. m |-> a * w[k] + b * d[k] + k * o]
           S == {k \in 0 .. m : k # 0 => p[c[k].to] <= p[c[1].from] + f[k]}
<1>4. 0 \in S /\ m \in 0 .. m /\ 1 \in 1 .. m OBVIOUS
<1>5. \A k \in 0 .. m : f[k] \in Int /\ f[k] = a * w[k] + b * d[k] + k * o
  BY <1>3
<1> HIDE DEF f
<1>6. ASSUME NEW k \in 1 .. m, k - 1 \in S PROVE k \in S
  <2> DEFINE W == w[k - 1]  D == d[k - 1]  v == c[k].weight  t == c[k].delay
  <2>1. /\ W \in Int /\ D \in Int /\ v \in Int /\ t \in Int /\ k - 1 \in 0 .. m
        /\ w[k] = W + v /\ d[k] = D + t
    BY <1>2, <1>3
  <2>2. f[k - 1] = a * W + b * D + (k - 1) * o /\ f[k] = a * w[k] + b * d[k] + k * o
    <3>1. k \in 0 .. m /\ k - 1 \in 0 .. m BY <2>1
    <3> HIDE DEF S
    <3> QED BY <1>5, <3>1
  <2>3. p[c[k].to] <= p[c[k].from] + (a * v + b * t + o) BY <1>1
  <2> HIDE DEF W, D, v, t
  <2>4. f[k] = f[k - 1] + (a * v + b * t + o)
    <3>1. a * (W + v) = a * W + a * v /\ b * (D + t) = b * D + b * t
          /\ (k - 1) * o = k * o - o
      BY <2>1
    <3>2. a * W \in Int /\ a * v \in Int /\ b * D \in Int /\ b * t \in Int /\ k * o \in Int
      BY <2>1
    <3> QED BY <2>1, <2>2, <3>1, <3>2
  <2>5. a * v + b * t + o \in Int BY <2>1
  <2>6. CASE k = 1
    <3>1. f[k - 1] = a * 0 + b * 0 + 0 * o
      <4>1. k - 1 = 0 /\ W = 0 /\ D = 0 BY <1>3, <2>6 DEF W, D
      <4> QED BY <2>2, <4>1
    <3>2. f[k - 1] = 0 BY <3>1
    <3> QED BY <1>2, <1>5, <2>3, <2>4, <2>5, <2>6, <3>2
  <2>7. CASE k # 1
    <3>1. k - 1 \in 1 .. m /\ k - 1 # m /\ (k - 1) + 1 = k BY <2>7
    <3>2. c[k - 1].to = c[k].from BY <1>1, <3>1
    <3>3. p[c[k].from] <= p[c[1].from] + f[k - 1] BY <1>6, <3>1, <3>2
    <3>4. p[c[1].from] \in Int /\ p[c[k].from] \in Int /\ p[c[k].to] \in Int
      BY <1>2, <1>4
    <3>5. f[k - 1] \in Int /\ f[k] \in Int BY <1>5, <2>1
    <3> DEFINE x == p[c[1].from]  y == p[c[k].from]  z == p[c[k].to]
               F == f[k - 1]  G == f[k]  H == a * v + b * t + o
    <3>6. z <= x + G
      <4>1. y <= x + F /\ z <= y + H /\ G = F + H BY <2>3, <2>4, <3>3
      <4>2. x \in Int /\ y \in Int /\ z \in Int /\ F \in Int /\ H \in Int
        BY <2>5, <3>4, <3>5
      <4> HIDE DEF x, y, z, F, G, H
      <4> QED BY <4>1, <4>2
    <3> QED BY <3>6
  <2> QED BY <2>6, <2>7
<1> HIDE DEF S
<1>7. 0 .. m \subseteq S BY <1>4, <1>6, AllUpTo
<1>8. p[c[m].to] <= p[c[1].from] + f[m] BY <1>4, <1>7 DEF S
<1>9. c[m].to = c[1].from /\ m \in 1 .. m BY <1>1
<1>10. p[c[1].from] \in Int /\ f[m] \in Int BY <1>2, <1>4, <1>5
<1>11. 0 <= f[m] BY <1>8, <1>9, <1>10
<1> QED BY <1>4, <1>5, <1>11

\* A ratio some cycle does not exceed: there are totals of such a cycle.
LEMMA CycleOfRatio ==
  ASSUME h \in Instances, NEW y \in Fraction, SomeCycleAtMost(h.nodes, Arcs, y)
  PROVE  \E m \in 1 .. Cardinality(h.nodes), W \in Int, D \in Nat \ {0} :
           Around(m, W, D) /\ y[2] * W <= y[1] * D
<1> DEFINE n == Cardinality(h.nodes)
           a == y[2]  b == y[1]
           cost == Charged(h.nodes, Arcs, ReducedCost(Arcs, y))
<1>1. n \in Nat \ {0} /\ a \in Int /\ b \in Int BY GraphGiven, FractionParts
<1>2. \A e \in Arcs : /\ e.weight \in Int /\ e.delay \in Int
                      /\ cost[e] = (n + 1) * (a * e.weight - b * e.delay) - 1
  BY GraphGiven DEF Charged, ReducedCost
<1>3. cost \in [Arcs -> Int]
  <2>1. \A e \in Arcs : cost[e] \in Int
    <3> HIDE DEF cost, a, b, n
    <3> QED BY <1>1, <1>2
  <2>2. cost = [e \in Arcs |-> cost[e]] BY DEF Charged
  <2> HIDE DEF cost
  <2> QED BY <2>1, <2>2
<1>4. ~NoNegativeCycle(h.nodes, Arcs, cost) BY DEF SomeCycleAtMost
<1> HIDE DEF cost
<1>5. PICK m \in 1 .. n : \E c, s : NegativeCycle(Arcs, cost, m, c, s)
  BY <1>3, <1>4, GraphGiven, NegativeCycleIsSimple
<1>6. PICK c, s : NegativeCycle(Arcs, cost, m, c, s) BY <1>5
<1> HIDE DEF a, b, n
<1>7. m \in Nat \ {0} BY <1>1
<1>8. \A k \in 1 .. m : c[k] \in Arcs BY <1>6 DEF NegativeCycle
<1> DEFINE ws == [k \in 1 .. m |-> c[k].weight]
           ds == [k \in 1 .. m |-> c[k].delay]
<1>9. ws \in [1 .. m -> Int] /\ ds \in [1 .. m -> Int] BY <1>2, <1>8
<1> HIDE DEF ws, ds
<1>10. PICK w : SumsUp(ws, m, w) BY <1>7, <1>9, SumsExist
<1>11. PICK d : SumsUp(ds, m, d) BY <1>7, <1>9, SumsExist
<1>12. Around(m, w[m], d[m])
  BY <1>6, <1>7, <1>10, <1>11, CycleIsAround DEF ws, ds
<1>13. \A k \in 0 .. m : w[k] \in Int /\ d[k] \in Int BY <1>10, <1>11 DEF SumsUp
<1>14. m \in 0 .. m BY <1>7
<1>15. a * w[m] <= b * d[m]
  <2> DEFINE S == {k \in 0 .. m : s[k] = (n + 1) * (a * w[k] - b * d[k]) - k}
  <2>1. 0 \in S
    <3>1. s[0] = 0 /\ w[0] = 0 /\ d[0] = 0 BY <1>6, <1>10, <1>11 DEF NegativeCycle, SumsUp
    <3> QED BY <1>1, <1>7, <3>1
  <2>2. ASSUME NEW k \in 1 .. m, k - 1 \in S PROVE k \in S
    <3> DEFINE e == c[k]  v == e.weight  t == e.delay  W == w[k - 1]  D == d[k - 1]
               X == a * W - b * D  Y == a * v - b * t
    <3>1. v \in Int /\ t \in Int /\ cost[e] = (n + 1) * Y - 1 BY <1>2, <1>8
    <3>2. ws[k] = v /\ ds[k] = t BY DEF ws, ds
    <3>3. /\ W \in Int /\ D \in Int /\ k - 1 \in 0 .. m /\ k \in 0 .. m
          /\ w[k] = W + v /\ d[k] = D + t
      BY <1>10, <1>11, <1>13, <3>2 DEF SumsUp
    <3>4. s[k] = s[k - 1] + cost[e] /\ s[k - 1] = (n + 1) * X - (k - 1)
      BY <1>6, <2>2 DEF NegativeCycle
    <3> HIDE DEF e, v, t, W, D
    <3>5. a * w[k] - b * d[k] = X + Y
      <4>1. a * (W + v) = a * W + a * v /\ b * (D + t) = b * D + b * t
        BY <1>1, <3>1, <3>3
      <4>2. a * W \in Int /\ a * v \in Int /\ b * D \in Int /\ b * t \in Int
        BY <1>1, <3>1, <3>3
      <4> QED BY <3>3, <4>1, <4>2
    <3>6. X \in Int /\ Y \in Int BY <1>1, <3>1, <3>3
    <3> HIDE DEF X, Y
    <3>7. (n + 1) * (X + Y) = (n + 1) * X + (n + 1) * Y
          /\ (n + 1) * X \in Int /\ (n + 1) * Y \in Int
      BY <1>1, <3>6
    <3>8. s[k] = (n + 1) * (X + Y) - k BY <3>1, <3>4, <3>7
    <3> QED BY <3>3, <3>5, <3>8
  <2> HIDE DEF S
  <2>3. 0 .. m \subseteq S BY <1>7, <2>1, <2>2, AllUpTo
  <2> DEFINE z == a * w[m] - b * d[m]
  <2>4. s[m] = (n + 1) * z - m BY <1>14, <2>3 DEF S
  <2>5. s[m] < 0 BY <1>6 DEF NegativeCycle
  <2>6. a * w[m] \in Int /\ b * d[m] \in Int BY <1>1, <1>13, <1>14
  <2>7. z \in Int BY <2>6
  <2> SUFFICES ASSUME z >= 1 PROVE FALSE
    BY <2>6, <2>7
  <2> HIDE DEF z
  <2>8. (n + 1) * z >= n + 1 BY <1>1, <2>7
  <2> QED BY <1>1, <2>4, <2>5, <2>7, <2>8
<1>16. d[m] > 0
  <2> DEFINE one == [e \in Arcs |-> (n + 1) * e.delay - 1]
             z == 0  k1 == n + 1  o == -1
  <2>1. NoNegativeCycle(h.nodes, Arcs, one)
    <3>1. Charged(h.nodes, Arcs, [e \in Arcs |-> e.delay]) = one BY DEF Charged, n
    <3> HIDE DEF one
    <3> QED BY <3>1, GraphGiven DEF EveryCyclePositive
  <2>2. one \in [Arcs -> Int] BY <1>1, <1>2
  <2>3. \A e \in Arcs : one[e] = z * e.weight + k1 * e.delay + o
    <3>1. \A e \in Arcs : 0 * e.weight = 0 /\ (n + 1) * e.delay \in Int BY <1>1, <1>2
    <3> QED BY <3>1
  <2> HIDE DEF one
  <2>4. PICK p \in [h.nodes -> Int] : IsPotential(Arcs, one, p)
    BY <2>1, <2>2, GraphGiven, Potentials
  <2>5. z \in Int /\ k1 \in Int /\ o \in Int BY <1>1
  <2>6. \A e \in Arcs : p[e.to] <= p[e.from] + (z * e.weight + k1 * e.delay + o)
    BY <2>3, <2>4 DEF IsPotential
  <2> HIDE DEF z, k1, o
  <2>7. 0 <= z * w[m] + k1 * d[m] + m * o BY <1>12, <2>5, <2>6 DEF Around
  <2> DEFINE x == d[m]
  <2>8. x \in Int /\ w[m] \in Int BY <1>13, <1>14
  <2>9. z * w[m] = 0 /\ m * o = -m BY <1>7, <2>8 DEF z, o
  <2> SUFFICES ASSUME x <= 0 PROVE FALSE
    BY <2>8
  <2>10. k1 * x <= 0 /\ k1 * x \in Int BY <1>1, <2>8 DEF k1
  <2> HIDE DEF x
  <2> QED BY <1>7, <2>7, <2>9, <2>10 DEF x
<1>17. w[m] \in Int /\ d[m] \in Nat \ {0} BY <1>13, <1>14, <1>16
<1> QED BY <1>12, <1>15, <1>17 DEF a, b, n

\* Potentials that speak of every arc also speak of what goes around.
LEMMA AroundUnder ==
  ASSUME NEW m \in Nat, NEW W \in Int, NEW D \in Int, Around(m, W, D),
         NEW a \in Int, NEW b \in Int, NEW c \in Int, NEW p \in [h.nodes -> Int],
         \A e \in Arcs : p[e.to] <= p[e.from] + (a * e.weight + b * e.delay + c)
  PROVE  0 <= a * W + b * D + m * c
BY DEF Around

\* The tolerance, added up over as many arcs as there are vertices, is less
\* than the unit of the ratio Howard has found.
ToleranceIsFine == Cardinality(h.nodes) * (r[2] * Eps[1]) < Eps[2]

\* Howard, who goes down from r0, begins above the least ratio.
StartsAbove == SomeCycleAtMost(h.nodes, Arcs, h.r0)

\* Howard's ratio is not below YTO's: it is one a cycle has, and YTO's labels
\* are potentials at YTO's.
LEMMA HowardNotBelow ==
  ASSUME IInv, yp!Returned, ypc = "returned", pc = "returned", yto!StartSuits,
         StartsAbove
  PROVE  /\ yr \in Fraction
         /\ r[1] * yr[2] >= yr[1] * r[2]
<1> DEFINE x1 == r[1]  x2 == r[2]  y1 == yr[1]  y2 == yr[2]
<1>1. h \in Instances /\ r \in Fraction /\ x1 \in Int /\ x2 \in Nat \ {0}
  BY FractionParts DEF IInv
<1>2. SomeCycleAtMost(h.nodes, Arcs, r)
  BY <1>1, ReachesSomeCycle DEF IInv, Attained, StartsAbove
<1>3. PICK m \in 1 .. Cardinality(h.nodes), W \in Int, D \in Nat \ {0} :
        Around(m, W, D) /\ x2 * W <= x1 * D
  BY <1>1, <1>2, CycleOfRatio
<1>4. m \in Nat /\ D \in Int BY <1>1, GraphGiven
<1>5. /\ yr \in Ratio /\ ydist \in [Node -> Int] /\ transit \in [Node -> Int]
      /\ yr = Infinity => \A e \in Arcs : transit[e.from] + e.delay <= transit[e.to]
      /\ yr # Infinity =>
           \A e \in Arcs : yr[2] * (ydist[e.from] + e.weight - ydist[e.to])
                             - yr[1] * (transit[e.from] + e.delay - transit[e.to]) >= 0
  BY DEF yp!Returned, yp!Ratio, yp!Infinity, Ratio, Infinity, yp!StartSuits,
       yto!StartSuits, yp!DeltaD, yp!DeltaT
<1>6. \A e \in Arcs : /\ e.from \in h.nodes /\ e.to \in h.nodes
                      /\ e.weight \in Int /\ e.delay \in Int
  BY <1>1, GraphGiven DEF IsGraph
<1>7. h.nodes \subseteq Node BY <1>1, InstancesAssumption
<1>8. \A v \in h.nodes : ydist[v] \in Int /\ transit[v] \in Int BY <1>5, <1>7
<1>9. yr # Infinity
  <2> SUFFICES ASSUME yr = Infinity PROVE FALSE
    OBVIOUS
  <2> DEFINE p == [v \in h.nodes |-> -transit[v]]  z == 0  o == -1
  <2>1. p \in [h.nodes -> Int] BY <1>8
  <2>2. ASSUME NEW e \in Arcs PROVE p[e.to] <= p[e.from] + (z * e.weight + o * e.delay + z)
    <3>1. transit[e.from] + e.delay <= transit[e.to] BY <1>5
    <3>2. 0 * e.weight = 0 /\ (-1) * e.delay = -e.delay BY <1>6
    <3>3. p[e.to] = -transit[e.to] /\ p[e.from] = -transit[e.from] BY <1>6
    <3>4. /\ transit[e.from] \in Int /\ transit[e.to] \in Int /\ e.delay \in Int
      BY <1>6, <1>8
    <3> QED BY <3>1, <3>2, <3>3, <3>4
  <2>3. z \in Int /\ o \in Int OBVIOUS
  <2> HIDE DEF p, z, o
  <2>4. 0 <= z * W + o * D + m * z BY <1>3, <1>4, <2>1, <2>2, <2>3, AroundUnder
  <2>5. z * W = 0 /\ o * D = -D /\ m * z = 0 BY <1>3, <1>4 DEF z, o
  <2> QED BY <1>3, <2>4, <2>5
<1>10. yr \in Fraction BY <1>5, <1>9, RatioCases
<1>11. y1 \in Int /\ y2 \in Nat \ {0} BY <1>10, FractionParts
<1>12. 0 <= y2 * W + (-y1) * D + m * 0
  <2> DEFINE p == [v \in h.nodes |-> y2 * ydist[v] - y1 * transit[v]]  z == 0  b == -y1
  <2>1. \A v \in h.nodes : p[v] \in Int /\ p[v] = y2 * ydist[v] - y1 * transit[v]
    <3> HIDE DEF y1, y2
    <3> QED BY <1>8, <1>11
  <2>2. p \in [h.nodes -> Int]
    <3>1. p = [v \in h.nodes |-> p[v]] OBVIOUS
    <3> HIDE DEF p
    <3> QED BY <2>1, <3>1
  <2> HIDE DEF p
  <2>3. ASSUME NEW e \in Arcs PROVE p[e.to] <= p[e.from] + (y2 * e.weight + b * e.delay + z)
    <3> DEFINE x == ydist[e.from]  y == ydist[e.to]  s == transit[e.from]  t == transit[e.to]
               w == e.weight  d == e.delay
    <3>1. x \in Int /\ y \in Int /\ s \in Int /\ t \in Int /\ w \in Int /\ d \in Int
      BY <1>6, <1>8
    <3>2. y2 * (x + w - y) - y1 * (s + d - t) >= 0 BY <1>5, <1>9
    <3>3. p[e.to] = y2 * y - y1 * t /\ p[e.from] = y2 * x - y1 * s BY <1>6, <2>1
    <3> HIDE DEF x, y, s, t, w, d, y1, y2
    <3>4. /\ y2 * (x + w - y) = y2 * x + y2 * w - y2 * y
          /\ y1 * (s + d - t) = y1 * s + y1 * d - y1 * t
          /\ b * d = -(y1 * d)
      BY <1>11, <3>1
    <3>5. /\ y2 * x \in Int /\ y2 * w \in Int /\ y2 * y \in Int
          /\ y1 * s \in Int /\ y1 * d \in Int /\ y1 * t \in Int
      BY <1>11, <3>1
    <3>6. p[e.to] <= p[e.from] + (y2 * w + b * d + z) BY <3>2, <3>3, <3>4, <3>5
    <3> QED BY <3>6 DEF w, d
  <2>4. b \in Int /\ z \in Int /\ y2 \in Int
    <3> HIDE DEF y1, y2
    <3> QED BY <1>11
  <2> HIDE DEF z, b, y1, y2
  <2>5. 0 <= y2 * W + b * D + m * z BY <1>3, <1>4, <2>2, <2>3, <2>4, AroundUnder
  <2> QED BY <2>5 DEF z, b
<1> HIDE DEF x1, x2, y1, y2
<1>13. 0 <= y2 * W - y1 * D
  <2>1. (-y1) * D = -(y1 * D) /\ m * 0 = 0 /\ y2 * W \in Int /\ y1 * D \in Int
    BY <1>3, <1>4, <1>11
  <2> QED BY <1>12, <2>1
<1>14. (y1 * x2) * D <= (x1 * y2) * D
  <2>1. (y1 * D) * x2 <= (y2 * W) * x2
    <3>1. y1 * D \in Int /\ y2 * W \in Int /\ y1 * D <= y2 * W
      BY <1>3, <1>4, <1>11, <1>13
    <3> QED BY <1>1, <3>1, TimesMonotone
  <2>2. (x2 * W) * y2 <= (x1 * D) * y2
    <3>1. x2 * W \in Int /\ x1 * D \in Int BY <1>1, <1>3, <1>4
    <3> QED BY <1>3, <1>11, <3>1, TimesMonotone
  <2>3. /\ (y1 * D) * x2 = (y1 * x2) * D
        /\ (y2 * W) * x2 = (x2 * W) * y2
        /\ (x1 * D) * y2 = (x1 * y2) * D
    BY <1>1, <1>3, <1>4, <1>11
  <2>4. (y1 * x2) * D \in Int /\ (x2 * W) * y2 \in Int /\ (x1 * y2) * D \in Int
    BY <1>1, <1>3, <1>4, <1>11
  <2> QED BY <2>1, <2>2, <2>3, <2>4
<1>15. y1 * x2 <= x1 * y2
  <2> DEFINE A == y1 * x2  B == x1 * y2
  <2>1. A \in Int /\ B \in Int /\ A * D <= B * D BY <1>1, <1>11, <1>14
  <2> HIDE DEF A, B
  <2>2. A <= B BY <1>3, <2>1
  <2> QED BY <2>2 DEF A, B
<1>16. x1 * y2 \in Int /\ y1 * x2 \in Int BY <1>1, <1>11
<1> QED BY <1>10, <1>15, <1>16 DEF x1, x2, y1, y2

\* Nor is it above it: YTO's ratio is one a cycle has, and Howard's labels are
\* potentials at Howard's, up to a tolerance too small to tell.
LEMMA HowardNotAbove ==
  ASSUME IInv, yp!Returned, ypc = "returned", pc = "returned", yr \in Fraction,
         ToleranceIsFine
  PROVE  r[1] * yr[2] <= yr[1] * r[2]
<1> DEFINE x1 == r[1]  x2 == r[2]  y1 == yr[1]  y2 == yr[2]  E1 == Eps[1]  E2 == Eps[2]
           n == Cardinality(h.nodes)
<1>1. h \in Instances /\ r \in Fraction /\ x1 \in Int /\ x2 \in Nat \ {0}
  BY FractionParts DEF IInv
<1>2. y1 \in Int /\ y2 \in Nat \ {0} /\ yr # Infinity BY FractionParts
<1>3. E1 \in Nat /\ E2 \in Nat \ {0} BY EpsIs, FractionParts
<1>4. \A e \in Arcs : e.weight \in Int /\ e.delay \in Int BY <1>1, GraphGiven
<1>5. SomeCycleAtMost(h.nodes, Arcs, yr)
  <2>1. h.nodes \in SUBSET Node BY <1>1, InstancesAssumption
  <2>2. IsGraph(h.nodes, Arcs) BY <1>1, GraphGiven
  <2>3. \A N \in SUBSET Node, K \in Nat \ {0} : IsGraph(N, Arcs) =>
          \A p \in [N -> Int] : ~yp!Forbids(K, yr, p)
    BY <1>2 DEF yp!Returned, yp!IsGraph, IsGraph, yp!Infinity, Infinity
  <2> DEFINE K == n + 1
             cost == Charging(yr, K)
  <2>4. K \in Nat \ {0} BY <1>1, GraphGiven
  <2>5. cost \in [Arcs -> Int]
    <3>1. \A e \in Arcs : K * (y2 * e.weight - y1 * e.delay) - 1 \in Int
      <4> HIDE DEF K, y1, y2
      <4> QED BY <1>2, <1>4, <2>4
    <3> QED BY <3>1 DEF Charging
  <2>6. \A e \in Arcs : cost[e] = K * (yr[2] * e.weight - yr[1] * e.delay) - 1
    BY DEF Charging
  <2>7. cost = Charged(h.nodes, Arcs, ReducedCost(Arcs, yr))
    BY DEF Charged, ReducedCost, Charging
  <2> HIDE DEF K, cost
  <2>8. ASSUME NoNegativeCycle(h.nodes, Arcs, cost) PROVE FALSE
    <3>1. PICK p \in [h.nodes -> Int] : IsPotential(Arcs, cost, p)
      BY <1>1, <2>5, <2>8, GraphGiven, Potentials
    <3>2. yp!Forbids(K, yr, p) BY <2>6, <3>1 DEF yp!Forbids, IsPotential
    <3> QED BY <2>1, <2>2, <2>3, <2>4, <3>2
  <2> QED BY <2>7, <2>8 DEF SomeCycleAtMost
<1>6. PICK m \in 1 .. n, W \in Int, D \in Nat \ {0} :
        Around(m, W, D) /\ y2 * W <= y1 * D
  BY <1>1, <1>5, CycleOfRatio
<1>7. n \in Nat /\ m \in Nat /\ D \in Int BY <1>1, GraphGiven
<1> DEFINE a == x2 * E2  b == -(x1 * E2)  c == x2 * E1
<1>8. 0 <= a * W + b * D + m * c
  <2>1. PICK p \in [h.nodes -> Int] : \A e \in Arcs :
          p[e.to] <= p[e.from] + TolerantCost(e.weight, e.delay, r)
    BY SettledPotential
  <2>2. ASSUME NEW e \in Arcs
        PROVE  TolerantCost(e.weight, e.delay, r) = a * e.weight + b * e.delay + c
    <3> DEFINE w == e.weight  d == e.delay
    <3>1. w \in Int /\ d \in Int BY <1>4
    <3>2. TolerantCost(w, d, r) = x2 * (E2 * w + E1) - x1 * (E2 * d) BY DEF TolerantCost
    <3> HIDE DEF w, d, x1, x2, E1, E2
    <3>3. /\ x2 * (E2 * w + E1) = (x2 * E2) * w + x2 * E1
          /\ (-(x1 * E2)) * d = -(x1 * (E2 * d))
      BY <1>1, <1>3, <3>1
    <3>4. x2 * E1 \in Int /\ (x2 * E2) * w \in Int /\ x1 * (E2 * d) \in Int
      BY <1>1, <1>3, <3>1
    <3> QED BY <3>2, <3>3, <3>4 DEF w, d
  <2>3. a \in Int /\ b \in Int /\ c \in Int
    <3> HIDE DEF x1, x2, E1, E2
    <3> QED BY <1>1, <1>3
  <2> HIDE DEF a, b, c
  <2>4. \A e \in Arcs : p[e.to] <= p[e.from] + (a * e.weight + b * e.delay + c)
    BY <2>1, <2>2
  <2> QED BY <1>6, <1>7, <2>3, <2>4, AroundUnder
<1>9. n * (x2 * E1) < E2 BY DEF ToleranceIsFine
<1> HIDE DEF x1, x2, y1, y2, E1, E2, n
<1> DEFINE gap == x1 * D - x2 * W
<1>10. E2 * gap <= m * (x2 * E1) /\ gap \in Int
  <2>1. /\ (x2 * E2) * W = E2 * (x2 * W) /\ (-(x1 * E2)) * D = -(E2 * (x1 * D))
        /\ x2 * W \in Int /\ x1 * D \in Int
    BY <1>1, <1>3, <1>6, <1>7
  <2> DEFINE A == x1 * D  B == x2 * W
  <2>2. A \in Int /\ B \in Int BY <2>1
  <2>3. 0 <= E2 * B - E2 * A + m * (x2 * E1)
    <3>1. E2 * A \in Int /\ E2 * B \in Int /\ m * (x2 * E1) \in Int BY <1>1, <1>3, <1>7, <2>2
    <3>2. 0 <= E2 * B + (-(E2 * A)) + m * (x2 * E1) BY <1>8, <2>1
    <3> HIDE DEF A, B
    <3> QED BY <3>1, <3>2
  <2> HIDE DEF A, B
  <2>4. E2 * (A - B) = E2 * A - E2 * B /\ E2 * A \in Int /\ E2 * B \in Int
        /\ m * (x2 * E1) \in Int
    BY <1>1, <1>3, <1>7, <2>2
  <2>5. E2 * (A - B) <= m * (x2 * E1) BY <2>3, <2>4
  <2> QED BY <2>2, <2>5 DEF A, B
<1>11. gap <= 0
  <2> HIDE DEF gap
  <2>1. m * (x2 * E1) <= n * (x2 * E1)
    <3> DEFINE e == x2 * E1
    <3>1. e \in Nat /\ m <= n BY <1>1, <1>3, <1>6, <1>7
    <3> HIDE DEF e
    <3>2. m * e <= n * e BY <1>7, <3>1
    <3> QED BY <3>2 DEF e
  <2>2. m * (x2 * E1) \in Int /\ n * (x2 * E1) \in Int /\ E2 * gap \in Int
    BY <1>1, <1>3, <1>7, <1>10
  <2>3. E2 * gap < E2 BY <1>3, <1>9, <1>10, <2>1, <2>2
  <2> SUFFICES ASSUME gap >= 1 PROVE FALSE
    BY <1>10
  <2>4. E2 * gap >= E2 BY <1>3, <1>10
  <2> QED BY <1>3, <2>2, <2>3, <2>4
<1>12. x1 * D <= x2 * W /\ x1 * D \in Int /\ x2 * W \in Int BY <1>1, <1>6, <1>7, <1>11
<1>13. (x1 * y2) * D <= (y1 * x2) * D
  <2>1. (x1 * D) * y2 <= (x2 * W) * y2 BY <1>2, <1>12, TimesMonotone
  <2>2. (y2 * W) * x2 <= (y1 * D) * x2
    <3>1. y2 * W \in Int /\ y1 * D \in Int BY <1>2, <1>6, <1>7
    <3> QED BY <1>1, <1>6, <3>1, TimesMonotone
  <2>3. /\ (x1 * D) * y2 = (x1 * y2) * D
        /\ (x2 * W) * y2 = (y2 * W) * x2
        /\ (y1 * D) * x2 = (y1 * x2) * D
    BY <1>1, <1>2, <1>6, <1>7
  <2>4. (x1 * y2) * D \in Int /\ (y2 * W) * x2 \in Int /\ (y1 * x2) * D \in Int
    BY <1>1, <1>2, <1>6, <1>7
  <2> QED BY <2>1, <2>2, <2>3, <2>4
<1>14. x1 * y2 <= y1 * x2
  <2> DEFINE A == x1 * y2  B == y1 * x2
  <2>1. A \in Int /\ B \in Int /\ A * D <= B * D BY <1>1, <1>2, <1>13
  <2> HIDE DEF A, B
  <2>2. A <= B BY <1>6, <2>1
  <2> QED BY <2>2 DEF A, B
<1> QED BY <1>14 DEF x1, x2, y1, y2

\* On every graph YTO's start suits and all of whose cycles have positive
\* delays, the two solvers return one ratio, the one going up from below and the
\* other down from above, if Howard begins above it and his tolerance is fine.
THEOREM BothAgree ==
  MainSpec => [](ToleranceIsFine /\ StartsAbove => SolversAgree)
<1> HIDE DEF ToSet
<1>1. yp!Spec => []yp!Returned
  <2>1. yp!NodeAssumption BY NodeAssumption, YtoGiven DEF yp!NodeAssumption
  <2>2. yp!GraphsAssumption BY YtoGiven DEF yp!GraphsAssumption
  <2>3. yp!FirstOfAssumption BY YtoGiven DEF yp!FirstOfAssumption
  <2> QED BY <2>1, <2>2, <2>3, yp!ReturnsWith
<1>2. IInv /\ HowardFirst /\ yp!Returned =>
        (ToleranceIsFine /\ StartsAbove => SolversAgree)
  <2> SUFFICES ASSUME IInv, HowardFirst, yp!Returned, ToleranceIsFine, StartsAbove,
                      ypc = "returned", yto!StartSuits
               PROVE  Same(r, yr)
    BY DEF SolversAgree
  <2>1. pc = "returned" BY DEF HowardFirst
  <2>2. yr \in Fraction /\ r[1] * yr[2] >= yr[1] * r[2] BY <2>1, HowardNotBelow
  <2>3. r[1] * yr[2] <= yr[1] * r[2] BY <2>1, <2>2, HowardNotAbove
  <2>4. r \in Fraction BY DEF IInv
  <2>5. r[1] * yr[2] \in Int /\ yr[1] * r[2] \in Int BY <2>2, <2>4, FractionParts
  <2>6. r[2] * yr[1] = yr[1] * r[2] BY <2>2, <2>4, FractionParts
  <2> QED BY <2>2, <2>3, <2>5, <2>6 DEF Same
<1> QED BY <1>1, <1>2, InitMain, NextMain, MainIsYto, PTL DEF MainSpec
=============================================================================
