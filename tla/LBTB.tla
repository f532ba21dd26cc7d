-------------------------------- MODULE LBTB --------------------------------
(***************************************************************************)
(* One measurement of LBTB/src/main.cpp: the constraint graph of a delay   *)
(* graph is given to Howard and then to YTO, each a fresh object, and for  *)
(* the ratio r each returns the period tInitial - 2r is printed.  The      *)
(* third solver, mcrLP, minimises the period under ConstraintGraph!McrRows.*)
(*                                                                         *)
(* Howard's variables keep their names; those of YTO have a y before them. *)
(* Both read the one graph h.  The solvers do not depend on where a graph  *)
(* comes from, so that graphs made by hand may stand beside measurements.  *)
(***************************************************************************)
EXTENDS Howard, ConstraintGraph

CONSTANT FirstOf(_)   \* see YTO

VARIABLES yr, Tp, ydist, transit, nodeKey, arcKey, pq, pivot, ypc

ytoVars == <<yr, Tp, ydist, transit, nodeKey, arcKey, pq, pivot, ypc>>
mainVars == <<vars, ytoVars>>

-----------------------------------------------------------------------------
\* The indices of the end points are 0 .. k without a gap, see TimingGraph.
Indices(dg) == 0 .. Max(UNION {{e[1], e[2]} : e \in DOMAIN dg})

TInitial(dg) == Max({dg[e].max : e \in DOMAIN dg})

\* g_mcr, its edges in some order, and the ratio Howard starts from.
Measurement(dg, order) ==
  [dg |-> dg, nodes |-> McrNodes(Cardinality(Indices(dg))), order |-> order,
   r0 |-> <<TInitial(dg), 1>>]

\* An instance without a delay graph is made by hand.
IsMeasured(i) == DOMAIN i.dg # {}

ASSUME MeasurementsAssumption ==
  \A i \in Instances : IsMeasured(i) =>
    /\ IsDelayGraph(i.dg) /\ IsFiniteSet(DOMAIN i.dg)
    /\ ToSet(i.order) = McrArcs(i.dg, TInitial(i.dg))
    /\ i = Measurement(i.dg, i.order)

ASSUME FirstOfAssumption ==
  \A i \in Instances : \A v \in Node : \A S \in SUBSET InArcs(ToSet(i.order), v) :
    S # {} => FirstOf(S) \in S

yto == INSTANCE YTO WITH Graphs <- {ToSet(i.order) : i \in Instances},
                         g <- Arcs, r <- yr, dist <- ydist, pc <- ypc

MainInit == Init /\ yto!Init

RunHoward == Next /\ UNCHANGED ytoVars

RunYTO == pc = "returned" /\ UNCHANGED vars /\ yto!Next

MainNext == RunHoward \/ RunYTO

MainStopped == pc = "undefined" \/ ypc = "returned"

MainSpec == MainInit /\ [][MainNext]_mainVars

\* main() is sequential code: it takes its next step as long as it has one.
\* That is WF(MainNext) written out: MainNext is enabled where it has not stopped.
FairMain == MainSpec /\ (<>[]MainStopped \/ []<><<MainNext>>_mainVars)

-----------------------------------------------------------------------------
(***************************************************************************)
(* Properties.                                                             *)
(***************************************************************************)
Period(ratio) == <<h.r0[1] * ratio[2] - 2 * ratio[1], ratio[2]>>

\* The rows of mcrLP, t2/2 * T + x[plus] - x[minus] <= bound, as the costs of
\* arcs at a period T, with the bounds raised by slack and a common divisor.
Rows == {arc(q.minus, q.plus, q.bound, q.t2) : q \in McrRows(h.dg)}

CostAt(T, slack) ==
  [e \in Rows |->
     slack[2] * (2 * T[2] * e.weight - T[1] * e.delay) + 2 * T[2] * slack[1]]

Satisfiable(T, slack) ==
  NoNegativeCycle(h.nodes, Rows, CostAt(T, slack))

\* Some rows that add up to a bound on T alone are tight at T.
Tight(T) ==
  ~NoNegativeCycle(h.nodes, Rows, Charged(h.nodes, Rows, CostAt(T, <<0, 1>>)))

\* The period printed for Howard is the optimum of the linear program: its
\* rows can be met at that period, up to the tolerance, and at no smaller one.
\* (Looked at before YTO begins, which never touches Howard's ratio.)
PeriodIsOptimum ==
  pc = "returned" /\ ypc = "initialize" /\ IsMeasured(h) => Satisfiable(Period(r), Eps) /\ Tight(Period(r))

\* What YTO returns is the ratio of a real cycle even on the constraint graphs
\* of main.cpp, to which its start does not suit.
YtoResultIsACycle == yto!ResultIsACycle

\* Where YTO's start suits the graph the two algorithms, one going up from
\* below and one down from above, return the same ratio.
SolversAgree == ypc = "returned" /\ yto!StartSuits => Same(r, yr)

\* main.cpp prints a period for each of three solvers of one problem; they are
\* the same period.
PeriodsAgree == ypc = "returned" => Same(r, yr)

\* Howard dereferences an unset policy just when some end point of the timing
\* report is never the start or never the end of a path (howard.cpp:26):
\* these are the vertices getMcrGraph gives no out-arc.
DanglingIsUndefined ==
  MainStopped /\ IsMeasured(h) =>
    (pc = "undefined" <=>
       \E i \in Indices(h.dg) :
         \/ \A e \in DOMAIN h.dg : e[1] # i
         \/ \A e \in DOMAIN h.dg : e[2] # i)

\* Both solvers return, or Howard is undefined.
MainReturns == <>MainStopped
=============================================================================
