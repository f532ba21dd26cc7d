---------------------------- MODULE TimingGraph ----------------------------
(***************************************************************************)
(* Reading a timing report into a delay graph and turning that into the    *)
(* constraint graph, LBTB/src/timing_graph.cpp as called by main.cpp:28.   *)
(*                                                                         *)
(* A report is a sequence of lines.  A "row" names two end points and two  *)
(* delays; every other line (the header, a blank line) is "skip".  A ".out"*)
(* report (getDelayGraph) gives the maximum first and calls the outside    *)
(* INPUT or OUTPUT; a ".rslt" report (getRsltDelayGraph) gives the minimum *)
(* first and every name without "DFF" in it is the outside.  Several rows  *)
(* may join the same two nodes; they are merged.                           *)
(***************************************************************************)
EXTENDS ConstraintGraph, CycleBounds, Sequences, SequencesExt, FiniteSetsExt

CONSTANTS Reports,   \* [format, lines, newline]: does the last line end in \n?
          FlipFlops  \* the names with "DFF" in them

EvenInt == {d \in Int : d % 2 = 0}

ASSUME ReportsAssumption ==
  \A p \in Reports :
    /\ p.format \in {"out", "rslt"}
    /\ p.newline \in BOOLEAN
    /\ p.lines \in Seq(Range(p.lines))
    /\ \A i \in DOMAIN p.lines :
         p.lines[i].kind = "row" => {p.lines[i].first, p.lines[i].second} \subseteq EvenInt

VARIABLES report,      \* the file
          next,        \* the line getline reads next
          nodeIdxMap,  \* names seen so far to indices
          cntNodes,    \* vertices added so far
          dg,          \* the delay graph
          tInitial,
          g,           \* the constraint graph
          pc

vars == <<report, next, nodeIdxMap, cntNodes, dg, tInitial, g, pc>>

-----------------------------------------------------------------------------
\* The key of nodeIdxMap under which an end point is looked up.
Instance(name) ==
  IF report.format = "rslt" /\ name \notin FlipFlops THEN "IO" ELSE name

MaxDelay(l) == IF report.format = "out" THEN l.first ELSE l.second
MinDelay(l) == IF report.format = "out" THEN l.second ELSE l.first

\* At the start INPUT and OUTPUT, or IO, stand for vertex 0.
Outside(p) == IF p.format = "out" THEN {"INPUT", "OUTPUT"} ELSE {"IO"}

Init ==
  /\ report \in Reports
  /\ next = 1
  /\ nodeIdxMap = [n \in Outside(report) |-> 0]
  /\ cntNodes = 1
  /\ dg = <<>>
  /\ tInitial = 0
  /\ g = {}
  /\ pc = "read"

\* insert and operator[]= of an std::map.
Put(f, k, x) == [y \in DOMAIN f \cup {k} |-> IF y = k THEN x ELSE f[y]]

\* Slip: the index is the count after the increment.
InternAfterCount(map, cnt, name) ==
  IF name \in DOMAIN map
  THEN [map |-> map, cnt |-> cnt]
  ELSE [map |-> Put(map, name, cnt + 1), cnt |-> cnt + 1]

\* find, and insert with the next index when the name is new.
Intern(map, cnt, name) ==
  IF name \in DOMAIN map
  THEN [map |-> map, cnt |-> cnt]
  ELSE [map |-> Put(map, name, cnt), cnt |-> cnt + 1]

\* A second row between the same nodes widens the delays already stored.
Widen(old, delay) ==
  [max |-> IF delay.max > old.max THEN delay.max ELSE old.max,
   min |-> IF delay.min < old.min THEN delay.min ELSE old.min]

\* Slip: the last row of an edge wins.
MergeLast(graph, e, delay) == Put(graph, e, delay)

Merge(graph, e, delay) ==
  IF e \in DOMAIN graph
  THEN [graph EXCEPT ![e] = Widen(@, delay)]
  ELSE Put(graph, e, delay)

\* The asserts on the delays of a row; a failed one aborts the program.
Accepted(l) ==
  /\ MaxDelay(l) >= 0 /\ MinDelay(l) >= 0
  /\ report.format = "rslt" => MinDelay(l) <= MaxDelay(l)

ReadRow(l) ==
  LET s == Intern(nodeIdxMap, cntNodes, Instance(l.from))
      t == Intern(s.map, s.cnt, Instance(l.to))
      e == <<s.map[Instance(l.from)], t.map[Instance(l.to)]>>
  IN  /\ nodeIdxMap' = t.map
      /\ cntNodes' = t.cnt
      /\ IF Accepted(l)
         THEN /\ dg' = Merge(dg, e, [max |-> MaxDelay(l), min |-> MinDelay(l)])
              /\ UNCHANGED pc
         ELSE UNCHANGED dg /\ pc' = "aborted"

\* One turn of the reading loop.
ReadLine ==
  /\ pc = "read"
  /\ next <= Len(report.lines)
  /\ LET l == report.lines[next] IN
       IF l.kind = "row" THEN ReadRow(l)
       ELSE UNCHANGED <<nodeIdxMap, cntNodes, dg, pc>>
  /\ next' = next + 1
  /\ UNCHANGED <<report, tInitial, g>>

\* while (infile) is still true after the last line.  The getline that then
\* fails leaves an empty text, except that it leaves the old one when the end
\* of the file was already met: a last line without \n is read again.
ReadPastEnd ==
  /\ pc = "read"
  /\ next = Len(report.lines) + 1
  /\ IF ~report.newline /\ report.lines # <<>> /\ Last(report.lines).kind = "row"
     THEN ReadRow(Last(report.lines))
     ELSE UNCHANGED <<nodeIdxMap, cntNodes, dg, pc>>
  /\ next' = next + 1
  /\ UNCHANGED <<report, tInitial, g>>

\* Slip: the least delays are compared.
FindTInitialMin ==
  /\ pc = "read"
  /\ next = Len(report.lines) + 2
  /\ tInitial' = Max({0} \cup {dg[e].min : e \in DOMAIN dg})
  /\ pc' = "build"
  /\ UNCHANGED <<report, next, nodeIdxMap, cntNodes, dg, g>>

\* The longest delay of the merged graph is the initial period.
FindTInitial ==
  /\ pc = "read"
  /\ next = Len(report.lines) + 2
  /\ tInitial' = Max({0} \cup {dg[e].max : e \in DOMAIN dg})
  /\ pc' = "build"
  /\ UNCHANGED <<report, next, nodeIdxMap, cntNodes, dg, g>>

GetMcrGraph ==
  /\ pc = "build"
  /\ g' = McrArcs(dg, tInitial)
  /\ pc' = "built"
  /\ UNCHANGED <<report, next, nodeIdxMap, cntNodes, dg, tInitial>>

Next == ReadLine \/ ReadPastEnd \/ FindTInitial \/ GetMcrGraph

Spec == Init /\ [][Next]_vars

-----------------------------------------------------------------------------
(***************************************************************************)
(* Properties.                                                             *)
(***************************************************************************)
Rows == {i \in 1 .. Len(report.lines) : report.lines[i].kind = "row"}

Joins(i, e) ==
  LET l == report.lines[i] IN
  e = <<nodeIdxMap[Instance(l.from)], nodeIdxMap[Instance(l.to)]>>

\* The rows that join what row i joins, by the names and not by the indices.
SameEnd(x, y) ==
  Instance(x) = Instance(y) \/ {Instance(x), Instance(y)} \subseteq Outside(report)

Alike(i) ==
  LET l == report.lines[i] IN
  {m \in {report.lines[j] : j \in Rows} : SameEnd(m.from, l.from) /\ SameEnd(m.to, l.to)}

TypeOK ==
  /\ report \in Reports
  /\ next \in 1 .. Len(report.lines) + 2
  /\ cntNodes \in Nat \ {0}
  /\ \A n \in DOMAIN nodeIdxMap : nodeIdxMap[n] \in 0 .. cntNodes - 1
  /\ IsDelayGraph(dg)
  /\ DOMAIN dg \subseteq (0 .. cntNodes - 1) \X (0 .. cntNodes - 1)
  /\ g \subseteq [from : McrNodes(cntNodes), to : McrNodes(cntNodes),
                  weight : Int, delay : Int]
  /\ tInitial \in Nat
  /\ pc \in {"read", "build", "built", "aborted"}

\* However the rows are ordered, and whether or not the last one is read
\* twice, an edge ends up with the extremes of exactly the rows that join its
\* names: no two names but those of the outside are given one vertex.
GraphIsMerge ==
  pc \in {"build", "built"} =>
    /\ \A i \in Rows : \E e \in DOMAIN dg :
         /\ Joins(i, e)
         /\ dg[e].max = Max({MaxDelay(l) : l \in Alike(i)})
         /\ dg[e].min = Min({MinDelay(l) : l \in Alike(i)})
    /\ \A e \in DOMAIN dg : \E i \in Rows : Joins(i, e)

\* The ratio of every cycle of the constraint graph is defined: Howard divides
\* by the sum of the delays on a cycle (howard.cpp:40) and takes it positive.
CyclesArePositive == pc = "built" => EveryCyclePositive(McrNodes(cntNodes), g)

\* The initial period, r = 0, is always feasible: the reported period
\* tInitial - 2*r (main.cpp:42,49) can only be an improvement.
InitialPeriodIsFeasible ==
  pc = "built" => AtMostEveryCycle(McrNodes(cntNodes), g, <<0, 1>>)

\* The linear program and the graph state the same constraints: row by row
\* and arc by arc, the substitution T = T0 - 2*r turns one into the other.
ProgramAgreesWithGraph ==
  pc = "built" => g = {RowArc(q, tInitial) : q \in McrRows(dg)}
=============================================================================
