---------------------------- MODULE CuttingPlane ----------------------------
(***************************************************************************)
(* The optimiser cutting_plane_dc, LBTB/src/cutting_plane.hpp, with the    *)
(* timing oracle: it asks the oracle about the centre of a search space    *)
(* and has the space cut, up to max_it times.                              *)
(*                                                                         *)
(* The ellipsoid is not in the repository.  What is assumed of it: it      *)
(* never loses a point that every cut so far keeps.  space is the set of   *)
(* those points; the centre may be anywhere, inside or not, and update may *)
(* report any status.                                                      *)
(***************************************************************************)
EXTENDS TimingOracle, CycleBounds

CONSTANTS DelayGraphs,  \* the delay graphs to optimise for
          Grid,         \* the points [T, W] considered
          MaxIt,        \* options.max_it
          Huge          \* numeric_limits<double>::max()

ASSUME DelayGraphsAssumption ==
  \A D \in DelayGraphs : IsDelayGraph(D) /\ IsFiniteSet(DOMAIN D)

ASSUME GridAssumption ==
  /\ Grid \subseteq [T : Int, W : Int]
  /\ Huge \in Int /\ \A p \in Grid : p.T + p.W < Huge

VARIABLES dg, g,   \* the delay graph, and the graph in which weights change
          space,   \* S
          xc,      \* S.xc()
          t,       \* the best value
          xBest, niter, cut, pc

vars == <<dg, g, space, xc, t, xBest, niter, cut, pc>>

TInitial == CHOOSE m \in {dg[e].max : e \in DOMAIN dg} :
              \A e \in DOMAIN dg : dg[e].max <= m

Init ==
  /\ dg \in DelayGraphs
  /\ g = EllArcs(dg, TInitial)
  /\ space = Grid
  /\ xc \in Grid
  /\ t = Huge
  /\ xBest = xc
  /\ niter = 1
  /\ cut = <<>>
  /\ pc = "loop"

\* Slip: the weights are written in the first turn only.
UpdateOnce ==
  /\ pc = "loop" /\ niter # MaxIt
  /\ g' = IF niter = 1 THEN Weighted(g, xc) ELSE g
  /\ pc' = "ask"
  /\ UNCHANGED <<dg, space, xc, t, xBest, niter, cut>>

\* update_w: the slacks at the centre become the weights.
Update ==
  /\ pc = "loop" /\ niter # MaxIt
  /\ g' = Weighted(g, xc)
  /\ pc' = "ask"
  /\ UNCHANGED <<dg, space, xc, t, xBest, niter, cut>>

\* The oracle's answer, and the best point when the value has changed.
Ask ==
  /\ pc = "ask"
  /\ \E a \in Answers(g, xc, t) :
       /\ cut' = a.cut
       /\ t' = a.t
       /\ xBest' = IF t # a.t THEN xc ELSE xBest
  /\ pc' = "cut"
  /\ UNCHANGED <<dg, g, space, xc, niter>>

\* update: on success the next centre, otherwise the loop is left.
Cut ==
  /\ pc = "cut"
  /\ space' = {p \in space : Keeps(cut, xc, p)}
  /\ \/ xc' \in Grid /\ niter' = niter + 1 /\ pc' = "loop"
     \/ pc' = "ended" /\ UNCHANGED <<xc, niter>>
  /\ UNCHANGED <<dg, g, t, xBest, cut>>

\* The iterations are used up.
End ==
  /\ pc = "loop" /\ niter = MaxIt
  /\ pc' = "ended"
  /\ UNCHANGED <<dg, g, space, xc, t, xBest, niter, cut>>

Next == Update \/ Ask \/ Cut \/ End

Spec == Init /\ [][Next]_vars

-----------------------------------------------------------------------------
(***************************************************************************)
(* Properties.                                                             *)
(***************************************************************************)
\* A point of the linear program of ellLP, with W <= T/2 besides.
Feasible(p) ==
  LET Rows == {arc(q.minus, q.plus, RowSlack(q, p), 0) : q \in EllRows(dg)}
  IN  /\ p.T >= 0 /\ p.W >= 0 /\ 2 * p.W <= p.T
      /\ NoNegativeCycle(Vertices(g), Rows, [e \in Rows |-> e.weight])

\* Whatever centres are asked about, no cut removes a feasible point that is
\* better than the best known: the gradients of the modes and the slacks in the
\* arcs fit the rows of the linear program for the same problem.
NothingBetterIsLost ==
  \A p \in Grid : Feasible(p) /\ p.T + p.W < t => p \in space

\* The search for a negative cycle starts at vertex 0 and sees all.
Connected == Vertices(g) = Reached(g)

\* In such a graph the best point is feasible and t its value, although the
\* weights in the graph are those of another point most of the time.
BestIsFeasible ==
  Connected /\ t # Huge => Feasible(xBest) /\ t = xBest.T + xBest.W
=============================================================================
