# A verification of RTB

RTB raises the clock speed of an FPGA netlist in two stages. *Iterative
retiming* (`src/`) runs the VPR tool on the netlist, moves one latch on the
critical path that VPR reports over one LUT, and repeats. *Latch-based time
borrowing* (`LBTB/`) replaces flip-flops by latches and computes the least clock
period the path delays allow, as a minimum cycle ratio and as a linear program.

This directory holds TLA+ models of both stages and of the file that joins them,
TLC configurations that check them on small instances, and TLAPS proofs about
the solvers, the graphs they are given, the conversion of reports into these
graphs, and the driver. `PROJECT.json` lists the runs, the source lines each
definition models, the hazards the properties are aimed at and the findings.

- [The system](#the-system) – components, state, operations, what is hard
- [Modules](#modules) – which module models what, and how
- [Runs](#runs) – what each run asks, its bounds, what it shows
- [Findings](#findings)
- [Proofs](#proofs)
- [What is not modelled](#what-is-not-modelled)
- [Plan](#plan)

## The system

Everything is sequential: there are no threads and no callbacks. The two programs
meet through files, and the first drives an external tool through files as well.
What is hard is of another kind: *long sequences* of text rewritings each of
which sees one line at a time; *state kept from an earlier iteration* and used
in a later one; *partial failure* of one step of a sequence; and *caches and
incremental updates* in graph algorithms whose correctness is a global
property of the graph.

| component | state it keeps | operations | what makes it correct |
|---|---|---|---|
| driver, `src/main.cpp` | `i`, the run directory `FP`, the report on disk | one iteration: read the report, move backward, else forward, else stop; run VPR | it always ends; the result is a run VPR could time; the pair moved is the one reported |
| rewriting, `src/SR.cpp` | `forwardFF/LUT`, `backwardFF/LUT`, `Rslt` | `loadTimingRptFw/Bw`, `BlifForwardModify`, `BlifBackwardModify`, `RsltExtract`, `RsltPrint` | the new netlist is a legal retiming of the old |
| VPR (external) | its report and log | time a netlist | – |
| conversion, `src/blifoutput.cpp` | two tables of paths | `benchmarkConversion`, `printrsltfile`, `benchmark_vtr` | every path of both reports appears with its own two delays |
| graphs, `LBTB/src/timing_graph.cpp` | `nodeIdxMap`, the delay graph, `tInitial`, the constraint graph | `getDelayGraph`, `getRsltDelayGraph`, `getMcrGraph`, `getEllGraph` | the delay graph is the merge of the rows; the constraint graph is one the solvers can work on and states what the program states |
| YTO, `LBTB/src/YTO.cpp` | tree, distances, delays, cached keys, priority queue | one pivot per round | the first cycle closed is the one with the least ratio |
| Howard, `LBTB/src/howard.cpp` | policy, values, ratio | evaluate, improve | the same ratio |
| linear programs, `LBTB/src/LP.cpp` | rows handed to GLPK | `mcrLP`, `ellLP` | the rows are the arcs |
| negative cycle finder, `LBTB/src/negativeCycleFinder.cpp` | labels, tree, queue with flags | `hasNegCycle`, `getNegCycle` | a cycle is reported exactly if there is one |
| oracle, `LBTB/src/timing_oracle.hpp`, `cutting_plane.hpp` | search space, best value | `operator()`, `update_w`, `cutting_plane_dc` | no cut loses a better feasible point; the best point is feasible |

Interactions: the driver calls `SR` and VPR (`popen`); VPR writes the report and
the log that `SR` parses; when the loop ends `benchmark_vtr` converts the
reports of the fastest run into the `.out` file; LBTB's `main` builds the
constraint graph from it and gives the same graph to Howard and YTO, and the same
file to `mcrLP`. The oracle calls the negative cycle finder; that part is
compiled as a template and its call in `LBTB/src/main.cpp:52-66` is commented
out.

## Modules

```
ParentTree ──┐
CycleBounds ─┴ ArcGraph ─┬─ YTO ── MCYTO                     (proofs: YTOProofs)
     │                   ├─ NegCycleFinder ── MCNegCycleFinder   (proofs: NegCycleFinderProofs)
     │                   └─ Howard ─┐
     │                              ├─ LBTB (instantiates YTO) ── MCLBTB   (proofs: LBTBProofs)
     │  ConstraintGraph ────────────┤
     │                              ├─ TimingGraph ── MCTimingGraph        (proofs: TimingGraphProofs)
     │                              └─ TimingOracle ─┐
     └───────────────────────────────────────────────┴ CuttingPlane ── MCCuttingPlane
                                                             (proofs: CuttingPlaneProofs)

BlifOutput ── ReportFlow (instantiates TimingGraph) ── MCReportFlow
                                                             (proofs: ReportFlowProofs)

Netlist ── Retiming ── IterativeRetiming ── MCRetiming       (proofs: IterativeRetimingProofs)
```

Two modules compose components. `LBTB` is one measurement of `LBTB/src/main.cpp`:
the graph of `ConstraintGraph` goes to Howard and then to YTO, beside the linear
program. `ReportFlow` takes the two reports of VPR through `BlifOutput` into the
delay graph of `TimingGraph`, whose report is the file `BlifOutput` wrote.
The proof modules hold nothing but theorems, and the definitions these need.
`CommonProofs` has what several of them need, about numbers and sequences,
`ParentTree`, `CycleBounds` and `ConstraintGraph`; all the others extend it.

A definition whose comment starts with *Slip* is a plausible mistake in the
definition that follows it. Slips are not used by any specification; each is the
mutation under which one property has been seen to fail.

**CycleBounds** – what results are measured against, for any graph and any
costs and whatever the solver: the least costs of walks of more and more arcs, no
negative cycle, and a lower bound of all cycle ratios. It models no code. Here
are also the fractions that stand for the code's doubles: they are exact, rounding is
not modelled.

**ParentTree** – the tree `_Tp` that YTO and the negative cycle finder keep: a
function to the parent, since both remove the in-edge before they add one.
`Subtree` is the least set that contains a node and is closed under children; the code
computes it breadth first and `inSubTree` climbs.

**ArcGraph** – the constraint graph (a set of arcs; parallel equal arcs cannot
be told apart by a solver), and what a suitable start for a solver is.

**YTO** – `run()` with one action per loop of a round: `Initialize`, `FindMin`,
`Shift`, `Entering`, `Leaving`. Between the loops the cached keys are stale, as
they are in the code, and the invariant that says they are fresh holds only where
the code relies on it. `FindMin` may pick any node with the least priority
(LEDA's tie-breaking is not relied on); within a scan the first arc with the
least key wins, and the constant `FirstOf` says which arc comes first. The
sentinel the code inserts with key infinity only keeps the queue from being
empty and has no counterpart.

**ConstraintGraph**, **TimingGraph** – reading a report line by line
(`getDelayGraph`, `getRsltDelayGraph`), including the extra turn of
`while (infile)` after the last line and the second reading of a last line
without an end of line; the ten arcs per edge of `getMcrGraph`; the ten rows
per edge of `mcrLP`. Here are also the arcs of
`getEllGraph` and the rows of `ellLP`, for the oracle. Delays are even numbers of a small unit so that half the
period is whole. A line is its kind, two names and two delays. `Put` is
insertion into an `std::map`.

**NegCycleFinder** – `hasNegCycle` with one action per queue entry popped
(`Pop`) and one per out-arc scanned (`Pass`, `Detect`, `Relax`), in any order of
the out-arcs. `_inQuene` and the `std::queue` are separate variables because the
code clears the flag of a node and leaves its entry in the queue.

**Howard** – `run()` with one action per loop: `InitPolicy`, `FindRatio`,
`Evaluate`, `Improve`. Numbers are fractions in lowest terms, with the tolerance
as a constant, since the loop ends by it. Arcs are relaxed in place in the order
of the edge list, so that order is part of an instance. `Evaluate` is stated by
what the backward breadth-first loop computes: the cost of the policy path to the
handle for every vertex whose path leads there, the old label for the others.
A policy that was never assigned makes `FindRatio` undefined, as dereferencing a
default-constructed edge descriptor is. `_minRatioCycle` is never filled by the
code and `getCycle` is left out.

**LBTB** – Howard's variables keep their names, YTO's are a second set
(`yto == INSTANCE YTO`). `Satisfiable` and `Tight` say of a period that the rows of
`mcrLP` can be met at it and that some rows add up to a bound it attains, so
that "the optimum of the linear program" needs no model of the simplex method.

**BlifOutput** – `benchmarkConversion` turn by turn, on the words of each line.
The code reads `words[1]` of lines that have one word; `memory` is what the storage of the
vector still holds, and the count of three "arrival" lines per path relies on it.
`printrsltfile` is modelled turn by turn of its two outer loops, with `flag` and
`arr` as locals whose start is arbitrary (`flag`) or whose bounds can be exceeded
(`arr`). The text form of a delay is abstracted: delays are whole numbers, of which
formatting and parsing lose nothing.

**TimingOracle**, **CuttingPlane** – `operator()` with its four kinds of cut and
`update_w`; the loop of `cutting_plane_dc`. `ell.hpp` is not in the repository:
the search space is the set of points of a grid that all cuts keep, the centre is
any point, and `update` may report any status. The finder stands in by what it
is relied on for (a negative cycle if vertex 0 reaches one), which
`NegCycleFinder` and its proofs establish. Its source is `LBTB/src/main.cpp:52-66`,
whose calls are commented out.

**Netlist** – BLIF as the rewriting sees it: a sequence of lines, a line a
directive and names. Names are sequences of pieces, because the code makes names
by appending (`Lnew1`) and compares some by substring (`in`) and some by token
(`in_exact`). A line may be *glued*: with no blank before the end of the line the
last token has the end of line in it and token comparisons with it fail. The
meaning of a netlist is `Sources`: the LUT or input each net is driven by and
through how many latches; `IsRetiming(old, new, lag)` is Leiserson and Saxe's
condition, stated on sources and independent of names.

**Retiming** – `BlifBackwardModify` and `BlifForwardModify`. The code writes the
chain of conditions out for each number of LUT inputs; here it is written once,
with the differences between the copies as data: `Groups` (with four inputs there
are no branches for the pairs with the fourth), `Guard` (the comparison at
SR.cpp:1299 is with the wrong input) and `Mentions`/`Includes` (the three-input
copy compares by token where the others compare by substring). For a LUT with
one or more than four inputs `inputNum` is left at the number on the last line that
mentions the LUT: `LutInputs` is then that many empty names, or no branch is taken
and nothing is written (`NothingWritten`).

**IterativeRetiming** – the driver. `Time` and `TimeFails` are VPR and
`RsltExtract`; `MoveBackward`, `MoveForwardInstead` (the fall-through when the
backward move is illegal), `MoveForward`, `NoMove` are the branches of an
iteration; `Finish` is `RsltPrint`. The report is a choice of VPR's: any path from
an input or flip-flop through LUTs to a flip-flop or output, any delay.
Two history variables no action reads: `lag`, what the moves so far add up to,
and `suited`, whether every move was a backward one inside what the line-by-line
rewriting covers. `SuitsBackward` spells those conditions out; they are a
result of this work, not part of the program: *a backward move is covered when
the LUT has two to four inputs, does not read the flip-flop, feeds nothing but it, neither it nor its
inputs are outputs of the netlist, each LUT that reads several of its inputs
has a branch, and no name contains another by accident.* Outside these conditions
the rewriting may or may not produce a retiming (see the findings).

No forward move is covered. On a line with a blank before its end the end of the line
is a token of its own, which SR.cpp:282 makes an empty one; it is the last, the
test for the LUT's output (SR.cpp:286) fails, no shared input is found and the move
is refused. (`BlifBackwardModify` deletes such tokens, SR.cpp:987.) On a glued line the
move goes on, but the output with the end of the line in it is not recognised where
it would be renamed (SR.cpp:381): the LUT goes on driving its old net, to the readers
of which the latch is not added. `ForwardIsNoRetiming` states the outcome.

### Abstractions in the netlist modules

Comments, truth tables and blank lines are dropped. Latches precede LUTs in a
file, as in `benchmark/diffeq.blif`. Lines are
never split by the 300 or 3000 byte buffers. Tokens that follow the output on a
LUT's line cannot occur before the rewriting, and those the rewriting pushes
onto a line of their own by ending the line early are dropped. The blank that a
rewritten glued line leaves at the start of the next line falls on a truth-table
row. A critical path passes through at least one LUT.

## Runs

| run | asks | instance |
|---|---|---|
| `yto` | does YTO compute the minimum ratio, and do its invariants hold, on graphs its start suits? | 3 nodes, graphs of 5 arcs: negative, zero and tied keys, two-cycles, self-loops, no cycle at all |
| `lbtb` | do Howard, YTO and the linear program agree, and is Howard defined, on the graphs `main.cpp` makes? | 9 vertices (the outside and a flip-flop), delay graphs of 1 to 3 edges, some with a dangling end point; 3-vertex graphs made by hand; each with its arcs in two opposite orders |
| `lbtb_agree` | … also where YTO's start does not suit the graph? | the same; **violated** |
| `timing_graph` | is the delay graph the merge of the rows, name by name, is the constraint graph sound, does the program state the same? | one to three rows in any order, both formats, with and without a last end of line |
| `conversion` | does every path of the reports reach the delay graph, with which delays? | all pairs of reports of up to two paths between three pairs of pins, and one path beside three; `arr` has two entries |
| `conversion_paths` | … every path of the setup report too? | the same; **violated** |
| `oracle` | does a cut ever lose a better feasible point, is the best point feasible? | 6 delay graphs, 14 points, two turns of the loop from every centre to every centre |
| `neg_cycle` | is the answer right in both directions, and does it always come? | 4 nodes, 6 arcs, all scan orders; one graph with an unreached part |
| `retiming` | do sequences of backward moves compose to a legal retiming, is a forward move ever one, does the program end, is its result a timed run? | 6 circuits × glued or not, five iterations, two delays, every path VPR might report |
| `backward_loop` | is every move that is announced legal a retiming? | one circuit; **violated** |
| `stale_forward` | does a path that starts at an input stop the forward move? | one circuit; **violated** |
| `first_move` | does the first iteration time a netlist? | the circuits of `retiming`; **violated** |

**Why the bounds suffice.** *YTO*: three nodes give trees of every shape up to
depth two, so a subtree with more than one node moves, arcs enter it, leave it
and stay inside; the mutants of the two update loops need exactly that. *LBTB*: the
constraint graph of two indices has nine nodes and already contains every pair of
arcs that the ten-arc pattern can produce between neighbours and a self-loop; the
graphs by hand give policies with one, two and three cycles, so that labels of an
older ratio survive a round. *TimingGraph*: three rows are enough to meet a
repeated edge in either order, a new name in either place and a double last row.
*ReportFlow*: with two paths per report the lists can agree, be permuted, overlap
in one path or in none, and repeat a pair; three hold paths exceed both the setup
table and `arr`. *CuttingPlane*: the second turn asks with weights of the first in
the graph. *NegCycleFinder*: four nodes let a
subtree of three nodes be cut up while one of its nodes is queued, and relabelled
through another path. *Retiming*: with five iterations a moved latch is moved
again, a forward move follows backward ones, a first move is followed by a
fall-through; the circuits have LUTs with one to five inputs and LUTs that
read one or several of them. The program's bound of 64 iterations is the constant
`Iterations`.

**Reading the properties.** `KeysFresh`, `NoArcIsForgotten` and `NetIsRetimed`
carry the weight: the first says that two update loops, one of which only
decreases, leave the cache as a full scan would; the second that nodes thrown off
the queue are found again; the third that text rewriting preserves the circuit.
`CyclesArePositive` is what Howard's division needs of graphs it has never been
checked against. `PeriodIsOptimum` ties the ratio Howard stops at, with labels of
several ages and a tolerance, to the optimum of a linear program written
elsewhere. `DanglingIsUndefined` says exactly which timing reports make Howard
dereference an unset policy. `TablesAreReports` is why counting to three works
although the third of these lines
is a rule and does not say what is looked for. `NothingBetterIsLost`
ties the signs of a hand-written gradient to the rows of `ellLP`. `ForwardIsNoRetiming`
is the other half of `NetIsRetimed`: its mutation, under which the end of a line is no
token, makes forward moves that are retimings. Its premises are that the latch is one of
the netlist and not a pair stored earlier whose latch is gone, that appending "new"
to a name makes a new one, and that some pin or output sees what the LUT computes;
without the last any lag of it is a retiming.
Some properties have a premise that marks where the code can be relied on: `suited`
(retiming), `StartSuits` (`SolversAgree`), `Aligned` (`AlignedIsExact`),
`Connected` (`BestIsFeasible`); each is met by a good part of its instance, and
what happens outside is a finding or a hazard.

**Fairness.** The programs are single threads of sequential code that take their
next step whenever they have one, so `WF_vars(Next)` is all that is assumed. The
choices inside a step (which of several equal keys, which report) are not fair.
In `IterativeRetiming`, `Howard` and `LBTB` the same fairness is written out, as
`<>[]Stopped \/ []<><<Next>>_vars`, since an action is enabled in every state
that is not a stopped one; TLC evaluates that far faster than ENABLED.
A run of VPR is assumed to come back.

**Deadlock** checking is off in all runs: every program modelled ends, and the
liveness properties (`Returns`, `MainReturns`, `Ends`) say that it ends where it
should. The loops of `TimingGraph`, `ReportFlow` and `CuttingPlane` are bounded by
the length of a file or by a counter, and no liveness is stated of them.

## Findings

Five places where the code does not do what it says, each a run that TLC
refutes.

1. **Two periods for one problem** (`lbtb_agree`). `main.cpp` prints a period
   for Howard and one for YTO, both called minimum cycle ratio solvers. YTO's
   method needs a start that is a tree of shortest paths for all small enough ratios;
   the zero tree is one only if no arc has a negative delay, and `getMcrGraph` makes
   arcs of delay −1 and −2. For the edges 0→1 with delays up to 2 and from 0, 1→0
   with [4, 2] and 1→1 with [2, 0], Howard returns the ratio 0, the period 4, and
   YTO the ratio 1/2, the period 3, which the constraints cannot be met at.
   What YTO returns is always the ratio of a real cycle (`YtoResultIsACycle`), hence
   never below the minimum, so that its period is never too large.
2. **Setup paths are lost** (`conversion_paths`). `flag` in `printrsltfile` is set
   when a setup path has a partner in the hold report and never reset; a later setup
   path without a partner is not written, and its delay, which may be the longest of
   all, does not reach LBTB. (The flag has no initial value either, so that it may be
   set before the first path; the run starts with it unset.) Also the delays of a matching pair are taken from row
   `j` of both tables where row `i` of the setup table matched row `j` of the hold
   table, so that an edge can get a maximum of another one unless the reports list
   the pairs in the same order (`AlignedIsExact` has that as its premise).
3. **Backward move over a LUT that reads its own flip-flop** (`backward_loop`).
   The new latch for that input has no driver.
4. **Stale pair** (`stale_forward`). "need to stop" is printed and ignored.
5. **First move** (`first_move`). The result of the first backward move is ignored
   and an empty file is timed; `RsltExtract` then reads for ever.

The property of the third, `AnnouncedIsLegal`, fails in two more ways; exchange
`Netlists` in `MCRetimingLoop.cfg` to see them. With `Forks`, a forward move is
announced ("legal retiming!", SR.cpp:337) and does not rename the output of the LUT
(SR.cpp:381), so that the new latch has no driver. This is so of *every* forward move
that goes through, which the run `retiming` checks and the proofs show
(`ForwardIsNoRetiming`); lines that would not be affected are refused. With `Singles`, a backward move over a LUT with
one input takes the branch for the number of inputs of another line, with empty names
(SR.cpp:989): the LUT is made to drive the name of the flip-flop, the new latches hang
loose, every pin still has a source, and VPR times a circuit with one latch less. The architecture the driver names is
one of six-input LUTs, while LUTs with five or six inputs are not moved over: if no
other line mentions them an empty netlist is announced as a legal retiming.

The reports are also read inside `assert` (`LP.cpp:14`, `timing_graph.cpp:226`):
with `-DNDEBUG` the solvers would be given empty graphs. `LBTB/CMakeLists.txt:183-185`
sets its release flags without it, so the models read the files.

## Proofs

`tlapm` on the eight modules whose name ends in `Proofs` checks everything; each
theorem holds for every value of the constants, given the assumptions named in the
modules, which TLC evaluates in the runs:

- `NodeAssumption`: finitely many vertices. `InstancesAssumption` adds that
  they are numbers, which is what `Min` over vertices needs.
- `GraphsAssumption` (one of its name in `YTO` and in `NegCycleFinder`):
  finitely many arcs. `FirstOfAssumption`: of some in-arcs one comes first.
- `CyclesAssumption` (of `Howard`): cycles have positive delays, which the code
  does not test and `ConstraintCyclesArePositive` proves of the graphs it builds.
- `MeasurementsAssumption`: what `main` gives the solvers is the graph of a
  report. `ReportsAssumption`, `DelayGraphsAssumption`: reports and delay graphs
  are finite and hold delays. `ReportsAssumption` of `BlifOutput`: VPR's reports are
  finite sequences of paths. `ArrSizeAssumption`: `arr` has a size. Nothing is
  assumed of the file that joins the stages: `FilesGiven` proves of what the one
  stage writes what the other assumes.
- `NetlistsAssumption`: the user's netlists are well formed, see *Moves* below.
- `GridAssumption`, `EpsAssumption`: numbers are numbers, and the value the search
  for the best point begins with is above that of every point.

**Cycles.** What is to be said of all cycles is said by potentials, values on the
vertices that rise along no arc by more than its cost. `CycleBounds` defines "no
negative cycle" by the least costs of walks, which no longer change after as many
arcs as there are vertices. `Potentials` proves that this is the case just where there
are whole potentials: the least costs are potentials, and with potentials any
walk that gets cheaper for ever falls below a bound. `NegativeCycleIsSimple` adds
that where there are none a cycle of no more arcs than vertices has a negative
cost: of a walk that fell, the shortest way between two visits of one vertex. These
are inductions over walks. The library's induction theorems cannot be used
with these provers, so induction is proved as it is needed: a set of naturals
that has 0 and the successor of each of its members has all (`AllNaturals`, from
the well-founded order of `<`), and finite sets are ordered by inclusion
(`LeastValue`).

**YTO.** `TypeCorrect`, `Forest`, `Tight` and `Progress` all follow from one
inductive invariant, `IInv` in `YTOProofs`. The type invariant alone is not
inductive: `Shift` dereferences `pivot`, which `FindMin` read from `_nodeKey`,
which is an arc only where the cached key is finite; so `IInv` adds that a node
with a finite key has an in-arc of the graph as its node key and that the queue
agrees with the keys where `FindMin` reads it. The forest argument: `Relink`
hangs `v` under `u` only if `u` is not in the subtree of `v` (that is the test
`inSubTree(v, u)`), and then a set of nodes closed under parents would have
been one before (`RelinkKeepsForest`, proved on sets of nodes without induction
over paths: `Acyclic` says that every non-empty set has a member whose parent is
outside it). Tightness: shifting a subtree by the pivot's differences keeps the
difference along every tree edge inside it (`SubtreeClosed`) and outside it, and
makes the pivot tight (`SubtreeNodes`: the source is not shifted). `Progress`
needs in addition that the pivot's transit difference is positive, which is
where the finite key comes in.

That the result is right is a second invariant on top of the first, `Minimal`: the
cached keys are what a fresh scan would give but for the nodes and arcs that
the loops of the round have still to follow (`KeysNearlyFresh`), the least of them is
the ratio and the pivot's (`RatioIsKey`), and at the ratio no arc is shorter than the
tree (`Shortest`). Its heart is `ShiftMinimal`: raising the ratio to the least key
keeps every arc from being shorter, because no key is smaller, and the keys
of arcs on one side of the shifted subtree do not change. `Fresh` and
`ShortestPaths` are parts of it. At the end `ResultCycle` says that the ratio is that
of the tree path closed by the pivot, and `MinimumRatio` that no cycle is below it:
at the ratio the distances are potentials (`FiniteResultIsMinimum`), and where the
result is infinite no arc gains transit, so that there are potentials for every
ratio (`InfiniteResultIsRight`).

**Constraint graph.** `RowsAreArcs` takes the ten rows of `mcrLP` to the ten
arcs of `getMcrGraph`, for every delay graph. `DelaysArePositive` gives `a`, `A`, `d`,
`D` and the reference the values 1, 4, 10, 11 and 0, under which four times
each arc's delay has a reduced cost of at least one: the multiple of four is the
least delay of a way to the vertex, and the remainder orders the vertices that
arcs of delay zero join. `StartIsFeasible` exhibits the arrival and departure times that
meet every constraint at `r = 0`: 0 for `a`, the initial period for `A`, `d`
and `D`. `ConstraintCyclesArePositive` and `ConstraintStartIsFeasible` say the same of
cycles. `WhenHowardIsDefined` is the general form of `DanglingIsUndefined`: every
vertex has an out-arc just when every index is the source of some edge and the
target of some edge. `a` and `A` have arcs only through edges that end at them, `d`
only through edges that start there; no other arc of the pattern helps.

**Reading reports.** `TypeCorrect`, `Indexing`, `Merges`, `Agreement` and
`AlwaysSolvable` follow from one inductive invariant, `IInv` in
`TimingGraphProofs`. `GraphIsMerge` only speaks of the finished graph, so the
invariant speaks of the rows read so far (`RowsRead`), and replaces the maximum
and the minimum by what an update can preserve: each row is `Covered` and the
delays of each edge are `Attained` by some row. It does not matter how often a row
is merged, which is why the second reading of a last line without an end of line
does no harm: `RowStep` is proved of any row, read before or not. That the initial
period is well defined needs a longest delay to exist; `HasLongest` carries one
along rather than appeal to finiteness. A row that fails an assertion aborts after
its names have been entered, so the invariant about rows is given up in that state
and the one about names is not. What the invariant says of the finished graph is what
the theorems on constraint graphs ask for: `RatiosAreDefined` and
`StartIsAlwaysFeasible` hold of whatever was read.

**Conversion.** The five properties of `ReportFlow` follow from one inductive
invariant, `FlowInv` in `ReportFlowProofs`, for reports of any length. It has a part for
each of the three programs.

*Reading.* A path has 13 lines (`LinesOfPaths` gives each line of a
report by path and place), and `Midway` says what has been collected after the first
`m` lines of path `k+1`: `k` rows, a count of arrivals of `3k` and as many more as
`Arrivals(m)`, the row begun, and the second word that lies in memory. It has to say
the last because one of the three lines that are counted is a rule of one word, of
which the test of `words[1]` sees what the line before left there. That the count is a multiple of
three where a path begins is what `TablesOfReports` rests on; the last line of
the report, `#End timing report`, must not disturb it.

*Joining.* `JoinInv` says of each hold row marked in `arr` or passed by the second
loop that a row of the file joins its pins and has its delay between the two it
gives (`HasRow`). `flag` need not be known for this: if it is set from an
earlier row nothing is written and nothing is marked, and the second loop
writes what is not marked. If the tables are aligned more can be said: every setup row
passed has a row in the file too, and no row has a delay that is not some path's of
these pins (`Explained`). `JoinIsDefined`: the index of a match is one of the hold
table, so that it can only be outside when that is longer than the setup table
or `arr`.

*Building.* When the file is written the invariant of `TimingGraphProofs` begins to
hold, and its own lemma keeps it: a step of the reader here is a step of
`TimingGraph` (`SameReading`). Its parts `Covered` and `Attained` take the rows of the
file to the edges of the delay graph. Together with `JoinInv` they say that the
delay of each hold path lies between the delays of its edge (`HoldPathsInGraph`), and
that the graph of aligned reports is exact (`GraphOfAligned`).

**Negative cycle finder.** `TypeCorrect`, `Forest`, `Justified`,
`NothingForgotten`, `FalseIsCertified` and `TrueIsCertified` follow from one
invariant, `IInv` in `NegCycleFinderProofs`. What has to be added to the checked
properties is how the parts hang together: the tree hangs below the source and so does
the node being scanned (`Rooted`); a flag means an entry (`QueueIsSound`); a
node that is cut off was cut off below one that is cut off or whose label has
dropped (`CutOffWaits`); an arc that improves waits (`ArcsWait`); and `_pre`, which
differs from the tree at the nodes cut off, closes no cycle either. The last is the
heart: relaxing an arc into `v` hangs `v` below the node scanned, which is in the
tree and outside the subtree of `v`, whereas what `_pre` leads back to `v` is in that
subtree or cut off. When the queue is empty, following `_pre` from a node cut off
would lead through nodes cut off for ever, so there is none, and the labels
satisfy every arc: `LabelsAreFeasible` is a potential, the certificate that what
node 0 reaches has no negative cycle. `CycleIsCertified` is the certificate of the
other answer: following `_pre` from the node reported stays in its subtree and can
only go round through that node, no arc on the way costs more than its label
allows, and one costs strictly less. `FalseIsRight` and `TrueIsRight` draw the
conclusions about cycles: the first from `Potentials`, the second by following
`_pre` back from the node reported until it comes round, and adding up.

**Howard.** The labels are fractions and the potentials of the theorem on cycles
are whole: rounded down, in units in which the arcs cost whole numbers, the
labels still rise by no more than the costs (`FloorsKeepOrder`).
A round that relaxes nothing thus leaves potentials for the costs with the
tolerance, whatever the labels were (`SettledIsMinimum`). That some cycle has
the ratio is an invariant (`Attained`): `Path` comes back to a vertex, by the
pigeonhole principle, and once round a policy cycle all potentials cancel, so
that there are none if the arcs are charged any more (`LapIsSomeCycle`).
`HowardTypes` needs that a vertex has a policy just when it has an out-arc
(`Served`) and that `findRatio` has seen a policy everywhere where the loops go on
(`Defined`).

`HowardNoWorse` is the action property `NoWorseCycle`. If all of the policy leads
to the handle, `Evaluate` gives each vertex exactly the label of the next plus the cost
of the arc: the way of the next vertex is the rest of its way (`OneArcOn`), and for the
handle itself the lap costs nothing at its own ratio (`LapCostsNothing`). `Improve`
lowers labels and hangs a vertex it relaxes on exactly the label of its new arc, so
`Downhill` holds after every arc of its pass, in whatever order, self-loops
included. Then no policy cycle has a positive cost at the ratio. Labels that
belong to an older ratio break this: the premise of the property is needed.

**One measurement.** `HowardIsDefined` and `HowardPeriodIsOptimum` take these
results to `main()`. The rows of the linear program are the arcs of the graph read with the
period in place of the ratio (`RowsOfArcs`), so that potentials for the ones are
times for the others. On a measurement three arcs around the reference have the
ratio Howard starts with, or a smaller one (`StartReaches`), so that
his result is that of a cycle even if he finds nothing below his start. `main`
runs Howard to the end before YTO starts, on the same graph; `MainIsYto` proves that
its behaviours, seen through YTO's variables, are behaviours of `YTO`, so that the
theorems of `YTOProofs` may be used through `INSTANCE` (`YtoInMain`).
`BothAgree` is `SolversAgree` with the two premises the run's instances meet: Howard
starts at or above the ratio of some cycle (`StartsAbove`; from below he
returns his start), and the tolerance, summed over the vertices, is smaller than the
unit of the ratio he found (`ToleranceIsFine`; otherwise he may stop at a
cycle that is not the least). Howard is not below YTO since YTO's labels are potentials
at YTO's ratio; he is not above since YTO's cycle, of at most as many arcs as there are
vertices, would be below his by less than one unit.

**Driver.** `ResultTimed` and `DelaysAreCurrent`: the invariant is that delays
are kept only for runs up to the loop counter, while a move writes the directory
after it, so that a failed last move or a later one never overwrites the netlist
a delay belongs to. It holds whatever the rewriting does.

`DriverTypes` is about what the rewriting does to any netlist, whether the move is
one it covers or not: every token it writes is made of the pieces of the user's
names, "new" and digits, no name is empty, and no latch or end of line is
malformed (`BackwardNetlist`, `ForwardNetlist`). This needs of each branch what it
writes, that the index of the first or last line looked for exists where the code
reads it, and that a report tells only names of the netlist (`ReportsAre`).

**Moves.** `BackwardIsRetiming`: on any well-formed
netlist, a backward move inside what the rewriting covers leaves a well-formed netlist
that is a retiming of the one before, by one latch over the LUT moved over.
`ForwardIsNone`: what a forward move writes never is. The argument has these stages.

1. *Sources.* In a netlist whose nets are driven once every net has at most one
   source (`UniqueSource`: of two levels of `Sources` that disagree, the least one would
   have disagreed before), and `Sources` is the least set that has what LUTs and
   inputs drive and is closed under passing a latch (`SourcesClosed`,
   `SourcesLeast`). The number of latches between is bounded by the number there are,
   because no net comes twice on the way.
2. *Nets.* `BackwardView` says what a netlist looks like after a backward move,
   names and text aside: which nets the LUTs read and drive, and which latches
   there are. `BackwardRetimes` follows each source of the old
   netlist into the new one.
3. *Text.* `BackwardMakes` takes the chain of comparisons, line
   by line, to such a view: the LUT itself, the LUTs that read it or its inputs, the
   other LUTs, and the latches. Here the conditions of `SuitsBackward` are used, each at
   the branch that fails without it: that a LUT reading several of the inputs has a
   branch, that no name has another in it.
4. *Forward.* A move goes on only over a LUT whose line is glued (`MovesOverOne`), and
   then no branch renames an output: every LUT goes on driving its net
   (`ForwardShape`), an input pin keeps its net or gets the input of the latch that
   drove it or the new latch (`ForwardTokens`), and the new latches follow nets that are
   no old ones (`ForwardLatches`). So no net gets a source it did not have
   (`NothingNewDriven`). A retiming would put one latch more between the LUT and a pin
   or output that sees it; such a source would have been one of the old netlist too,
   through another number of latches, against `UniqueSource`.
5. *Runs.* Retimings add up: `RetimingsCompose` says that a retiming of a retiming is
   one by the sum of the lags. `NetRetimed` is `NetIsRetimed`, and
   `NoForwardMoveIsLegal` is `ForwardIsNoRetiming`, from the inductive
   invariant `RetimedInv`: types, and while the moves have suited, the netlist in
   the current run directory is well-formed and a retiming of the first one by
   `lag`. `NetIsRetimed` alone is not inductive, since a move's own premise is a
   netlist whose nets are driven once, and that a LUT on which a report ends is the one
   before the flip-flop moved comes from the report (`ReportsEnd`).

The assumption on the constants is `NetlistsAssumption`: a user's netlist is a sequence
of lines with names, every net is driven once, by an input, a LUT or a latch
(`WellFormed`), every pin leads back to a LUT or an input (`SoundNet`), and a LUT reads
something, but not itself. VPR refuses nets driven twice, and a LUT that feeds
itself is a combinational loop. A LUT without inputs, a constant, is not covered. The
paths and the delays VPR reports and the number of iterations are arbitrary.

**Oracle.** `SlacksAreRows` takes the three arcs per edge of `getEllGraph`, with
the slacks of `update_w` at any point, to the three rows of `ellLP`.
`ReturnsAnAcceptedPoint` says that the best point is one whose own slacks have no
negative cycle for the finder to report; for that the weights written at one
point must be independent of those written before (`Reweighted`).
`ReturnsAFeasiblePoint` concludes that it is feasible: were there a negative cycle
among all arcs, a simple one would be reached from vertex 0 and the
finder would have reported one (`NoneFoundFits`); so there are potentials, which are
the arrival and departure times (`RowsOrPotentials`). `NothingIsLost` is about the cuts: around a
cycle the potentials cancel and the slacks add up to a linear function of the
point, so a cut along a negative cycle keeps each feasible point
(`CycleCut`); the other cuts are `T >= 0`, `W >= 0`, `2W <= T` and the objective.

**What stays with TLC.** Liveness (`Returns`, `MainReturns`, `Ends`), which
needs `ENABLED` or fairness, and the five runs that are expected to end in a
violation. Every other property of a run is stated by a theorem.

## What is not modelled

See `components` in `PROJECT.json` for all. The program's own code is about 4400
lines, in `src/` and `LBTB/src/`; nearly all other lines of C and C++ in
the repository (some 330000) are vendored headers under `LBTB/include` (LEDA twice, xcb, GLPK,
fmt, ellcpp), which no model of this program should cover. Of its own code these
parts are left out:

- `neg_cycle.hpp`, `nx2bgl.hpp` and `py2cpp.hpp`, included by nothing;
  `cutting_plane_feas`, `cutting_plane_q` and `bsearch`, instantiated by nothing;
  `generateSimpleGraph`, called by nothing.
- The simplex method (GLPK), the ellipsoid (`ell.hpp`, absent), VPR. They are
  used through what the code relies on.
- Lines longer than the buffers of `SR.cpp`, files without their last keyword,
  tokens after the output on a LUT's line.
- Rounding of doubles, formatting of numbers, timing of the solvers, the working
  directory and the copy at the end of `benchmark_vtr`.

The row for `W <= T/2` that `timing_oracle.hpp` cuts with has no counterpart in
`ellLP`; `Feasible` has it besides the rows, so the two are compared without it.

## Plan

Done, in this order: `ArcGraph`, `YTO` (the core of the second stage) with its
proofs; `ConstraintGraph`, `TimingGraph` with theirs; `NegCycleFinder`; `Netlist`,
`Retiming`, `IterativeRetiming` (the first stage); `Howard` and `LBTB`; `BlifOutput`
and `ReportFlow`; `TimingOracle` and `CuttingPlane`; LUTs of any size in `Retiming`;
the proofs about the finder, the driver and the oracle; the proofs about cycles, the
Howard solver, the two solvers' agreement and the cutting plane's results; the proofs
about the conversion of reports; the proofs which moves are retimings.

What could follow:

1. An abstract `Retimer` (a circuit as a graph with latch counts, one action per
   legal move) that `IterativeRetiming` implements under `suited`, with
   `Sources` as the refinement mapping. `NetIsRetimed` with its history `lag` states
   the safety part of it already, and `BackwardIsRetiming` is its step.
2. `NegCycleFinder` as a component of the oracle in place of what is assumed of it.
3. The first assumption of `SuitsBackward`, that no name contains another by accident, as a condition on the user's names alone.
