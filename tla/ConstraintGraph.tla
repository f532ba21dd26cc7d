-------------------------- MODULE ConstraintGraph --------------------------
(***************************************************************************)
(* The constraint systems LBTB derives from a delay graph.                 *)
(*                                                                         *)
(* A delay graph is a function from edges <<u, v>> between flip-flop       *)
(* indices to [max, min], the longest and shortest path delay.  A latch i  *)
(* has an early and a late arrival (a, A) and an early and a late          *)
(* departure (d, D).  Three pieces of code state the constraints between   *)
(* them for a clock of period T:                                           *)
(*   - getMcrGraph: arcs x -> y meaning  y - x <= weight - r*delay,        *)
(*     where T = T0 - 2*r and T0 is the longest delay;                     *)
(*   - mcrLP: the rows of a linear program that minimises T;               *)
(*   - getEllGraph: one setup arc per use of T and one hold arc, the       *)
(*     graph of the unused cutting-plane solver.                           *)
(* Delays are even numbers of time units, so that T0/2 is a whole number.  *)
(***************************************************************************)
EXTENDS Integers, FiniteSets

Delays == {d \in Nat : d % 2 = 0}

IsDelayGraph(dg) ==
  \A e \in DOMAIN dg : /\ e \in Nat \X Nat
                       /\ dg[e].max \in Delays /\ dg[e].min \in Delays

\* The vertices of getMcrGraph: the reference, then four per flip-flop.
ref == 0
a_(i) == 4 * i + 1
A_(i) == 4 * i + 2
d_(i) == 4 * i + 3
D_(i) == 4 * i + 4

McrNodes(n) == 0 .. 4 * n

arc(x, y, w, t) == [from |-> x, to |-> y, weight |-> w, delay |-> t]

-----------------------------------------------------------------------------
(***************************************************************************)
(* getMcrGraph: ten arcs for every edge of the delay graph.                *)
(***************************************************************************)
HalfT(T0) == T0 \div 2

\* Slip: the transit of the setup arc has the sign of the hold arc's.
EdgeArcsSetupSign(u, v, delay, T0) ==
  { arc(a_(v), ref, 0, 0),
    arc(ref, A_(v), T0, 2),
    arc(D_(u), ref, -HalfT(T0), -1),
    arc(d_(u), a_(v), delay.min - T0, -2),
    arc(A_(v), D_(u), T0 - delay.max, -2),
    arc(A_(v), a_(v), 0, 0),
    arc(D_(v), d_(v), 0, 0) }

\* Slip: the half-period arcs bound the departures of the target.
EdgeArcsTarget(u, v, delay, T0) ==
  { arc(a_(v), ref, 0, 0),
    arc(ref, A_(v), T0, 2),
    arc(d_(v), ref, -HalfT(T0), -1),
    arc(D_(v), ref, -HalfT(T0), -1),
    arc(d_(u), a_(v), delay.min - T0, -2),
    arc(A_(v), D_(u), T0 - delay.max, 2),
    arc(A_(v), a_(v), 0, 0),
    arc(D_(v), d_(v), 0, 0) }

EdgeArcs(u, v, delay, T0) ==
  { arc(a_(v), ref, 0, 0),
    arc(ref, A_(v), T0, 2),
    arc(d_(u), a_(u), 0, 0),
    arc(d_(u), ref, -HalfT(T0), -1),
    arc(D_(u), A_(u), 0, 0),
    arc(D_(u), ref, -HalfT(T0), -1),
    arc(d_(u), a_(v), delay.min - T0, -2),
    arc(A_(v), D_(u), T0 - delay.max, 2),
    arc(A_(v), a_(v), 0, 0),
    arc(D_(v), d_(v), 0, 0) }

McrArcs(dg, T0) == UNION {EdgeArcs(e[1], e[2], dg[e], T0) : e \in DOMAIN dg}

-----------------------------------------------------------------------------
(***************************************************************************)
(* mcrLP: ten rows  t2/2 * T + x[plus] - x[minus] <= bound  per edge.      *)
(* Column k of the code is vertex k - 1 here; where a row has no column    *)
(* with the sign, the place is taken by the reference, which is zero.      *)
(***************************************************************************)
row(t2, plus, minus, bound) ==
  [t2 |-> t2, plus |-> plus, minus |-> minus, bound |-> bound]

\* Slip: the half-period rows bound the departures of the target.
EdgeRowsTarget(i, j, delay) ==
  { row( 0, ref,   a_(j), 0), row(-2, A_(j), ref,   0),
    row( 0, a_(i), d_(i), 0), row( 1, ref,   d_(j), 0),
    row( 0, A_(i), D_(i), 0), row( 1, ref,   D_(j), 0),
    row( 2, a_(j), d_(i), delay.min), row(-2, D_(i), A_(j), -delay.max),
    row( 0, a_(j), A_(j), 0), row( 0, d_(j), D_(j), 0) }

EdgeRows(i, j, delay) ==
  { row( 0, ref,   a_(j), 0),
    row(-2, A_(j), ref,   0),
    row( 0, a_(i), d_(i), 0),
    row( 1, ref,   d_(i), 0),
    row( 0, A_(i), D_(i), 0),
    row( 1, ref,   D_(i), 0),
    row( 2, a_(j), d_(i), delay.min),
    row(-2, D_(i), A_(j), -delay.max),
    row( 0, a_(j), A_(j), 0),
    row( 0, d_(j), D_(j), 0) }

McrRows(dg) == UNION {EdgeRows(e[1], e[2], dg[e]) : e \in DOMAIN dg}

\* The arc that states a row once T is written T0 - 2*r.
RowArc(q, T0) ==
  arc(q.minus, q.plus, q.bound - q.t2 * HalfT(T0), -q.t2)

-----------------------------------------------------------------------------
(***************************************************************************)
(* getEllGraph: mode 0 is the setup arc in T, mode 1 the setup arc in      *)
(* T and W, mode 2 the hold arc.                                           *)
(***************************************************************************)
EllArc(mode, x, y, w, delay) ==
  [mode |-> mode, from |-> x, to |-> y, weight |-> w, delay |-> delay]

EllArcs(dg, T0) ==
  UNION {{ EllArc(0, e[2], e[1], T0 - dg[e].max, dg[e].max),
           EllArc(1, e[2], e[1], T0 - dg[e].max, dg[e].max),
           EllArc(2, e[1], e[2], dg[e].min, dg[e].min) } : e \in DOMAIN dg}

-----------------------------------------------------------------------------
(***************************************************************************)
(* ellLP: three rows  t*T + w*W + x[plus] - x[minus] <= bound  per edge,   *)
(* with T + W minimised over T, W >= 0.  The code leaves the two columns   *)
(* out where they are the same.                                            *)
(***************************************************************************)
EllRow(t, w, plus, minus, bound) ==
  [t |-> t, w |-> w, plus |-> plus, minus |-> minus, bound |-> bound]

EllRows(dg) ==
  UNION {{ EllRow(-1,  0, e[1], e[2], -dg[e].max),
           EllRow(-1, -1, e[1], e[2], -dg[e].max),
           EllRow( 0,  1, e[2], e[1], dg[e].min) } : e \in DOMAIN dg}

\* What a row leaves for x[plus] - x[minus] at a period and a window.
RowSlack(q, z) == q.bound - q.t * z.T - q.w * z.W

=============================================================================
