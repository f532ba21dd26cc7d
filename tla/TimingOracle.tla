---------------------------- MODULE TimingOracle ----------------------------
(***************************************************************************)
(* The separation oracle of the cutting-plane solver,                      *)
(* LBTB/src/timing_oracle.hpp.  A point <<T, W>> is a clock period and a   *)
(* borrowing window.  The graph is that of getEllGraph; update_w writes    *)
(* the slack every constraint has at a point into its arcs, and the point  *)
(* is feasible when no cycle of slacks is negative.                        *)
(*                                                                         *)
(* A cut <<gT, gW, beta>> at the point z keeps the points p with           *)
(*   gT * (p.T - z.T) + gW * (p.W - z.W) + beta <= 0.                      *)
(* Coordinates are whole numbers; the cut for W <= T/2 is doubled.         *)
(***************************************************************************)
EXTENDS ConstraintGraph, Sequences

\* The source of the search in negCycleFinder.
Start == 0

\* update_w, with the four latch parameters at zero.
Slack(e, z) ==
  CASE e.mode = 0 -> z.T - e.delay
    [] e.mode = 1 -> z.T + z.W - e.delay
    [] e.mode = 2 -> e.delay - z.W

Weighted(g, z) == {[e EXCEPT !.weight = Slack(e, z)] : e \in g}

-----------------------------------------------------------------------------
(***************************************************************************)
(* What the finder is relied on for, see NegCycleFinder: if the part of    *)
(* the graph that node 0 reaches has a negative cycle it reports one.      *)
(***************************************************************************)
Vertices(g) == {Start} \cup {e.from : e \in g} \cup {e.to : e \in g}

Reached(g) ==
  LET Grown(S) == S \cup {e.to : e \in {f \in g : f.from \in S}}
      R[k \in 0 .. Cardinality(Vertices(g))] ==
        IF k = 0 THEN {Start} ELSE Grown(R[k - 1])
  IN  R[Cardinality(Vertices(g))]

\* The cycles of g that meet no vertex twice, as sequences of arcs.
Cycles(g) ==
  {c \in UNION {[1 .. k -> g] : k \in 1 .. Cardinality(Vertices(g))} :
     \A k \in DOMAIN c :
       /\ c[k].to = c[IF k = Len(c) THEN 1 ELSE k + 1].from
       /\ \A l \in DOMAIN c : c[k].from = c[l].from => k = l}

\* What the numbers of a sequence add up to.
Total(s) ==
  LET Sum[k \in 0 .. Len(s)] == IF k = 0 THEN 0 ELSE Sum[k - 1] + s[k]
  IN  Sum[Len(s)]

TotalWeight(c) == Total([k \in DOMAIN c |-> c[k].weight])

NegativeCycles(g) ==
  {c \in Cycles({e \in g : e.from \in Reached(g)}) : TotalWeight(c) < 0}

-----------------------------------------------------------------------------
\* Slip: the window has the same sign in both kinds of constraint.
GradientWindowSign(c) ==
  << Total([k \in DOMAIN c |-> <<-1, -1, 0>>[c[k].mode + 1]]),
     Total([k \in DOMAIN c |-> <<0, -1, -1>>[c[k].mode + 1]]) >>

\* grad_T and grad_W: what the modes of the arcs of a cycle add up to.
Gradient(c) ==
  << Total([k \in DOMAIN c |-> <<-1, -1, 0>>[c[k].mode + 1]]),
     Total([k \in DOMAIN c |-> <<0, -1, 1>>[c[k].mode + 1]]) >>

\* operator(): a cut, and the value of the best point known.  Which of several
\* negative cycles the finder reports is left open.
Answers(g, z, t) ==
  LET value == z.T + z.W
      negative == NegativeCycles(g)
      With(cuts) == [cut : cuts, t : {t}]
  IN  CASE z.T < 0 -> With({<<-1, 0, -z.T>>})
        [] z.T >= 0 /\ z.W < 0 -> With({<<0, -1, -z.W>>})
        [] z.T >= 0 /\ z.W >= 0 /\ 2 * z.W > z.T -> With({<<-1, 2, 2 * z.W - z.T>>})
        [] OTHER ->
             IF negative # {}
             THEN With({Gradient(c) \o <<TotalWeight(c)>> : c \in negative})
             ELSE IF value < t THEN {[cut |-> <<1, 1, 0>>, t |-> value]}
             ELSE With({<<1, 1, value - t>>})

Keeps(cut, z, p) == cut[1] * (p.T - z.T) + cut[2] * (p.W - z.W) + cut[3] <= 0
=============================================================================
