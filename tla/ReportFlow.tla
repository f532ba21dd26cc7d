----------------------------- MODULE ReportFlow -----------------------------
(***************************************************************************)
(* What becomes of the paths of the two reports: BlifOutput writes the     *)
(* .out file of the fastest run, and once it is written LBTB reads it into *)
(* the delay graph its solvers work on, TimingGraph.                       *)
(***************************************************************************)
EXTENDS BlifOutput

VARIABLES nextOut, nodeIdxMap, cntNodes, dg, tInitial, g, readPc

reading == <<nextOut, nodeIdxMap, cntNodes, dg, tInitial, g, readPc>>

Skip == [kind |-> "skip"]

\* The .out file: four lines of header, the rows, an empty line.
OutFile ==
  [format |-> "out", lines |-> <<Skip, Skip, Skip, Skip>> \o out \o <<Skip>>,
   newline |-> TRUE]

\* What a name is written as is an instance or one of the outside's names.
EndPoint == STRING \cup {"INPUT", "OUTPUT"}

\* All the files that could be written.
Files ==
  [format : {"out"}, newline : {TRUE},
   lines : Seq({Skip} \cup [kind : {"row"}, from : EndPoint, to : EndPoint,
                            first : Time, second : Time])]

lbtb == INSTANCE TimingGraph WITH Reports <- Files, FlipFlops <- {},
                                  report <- OutFile, next <- nextOut, pc <- readPc

FlowInit == Init /\ lbtb!Init

Convert == Next /\ UNCHANGED reading

Read == pc = "written" /\ UNCHANGED vars /\ lbtb!Next

FlowNext == Convert \/ Read

FlowSpec == FlowInit /\ [][FlowNext]_<<vars, reading>>

-----------------------------------------------------------------------------
(***************************************************************************)
(* Properties.                                                             *)
(***************************************************************************)
Paths(r) == ToSet(reports[r])

\* The edge of the delay graph a path of a report belongs to.
EdgeOf(p) == <<nodeIdxMap[Written(p.from)], nodeIdxMap[Written(p.to)]>>

\* The path is in the delay graph, and its delay within the edge's bounds.
Enters(p) ==
  /\ {Written(p.from), Written(p.to)} \subseteq DOMAIN nodeIdxMap
  /\ EdgeOf(p) \in DOMAIN dg
  /\ dg[EdgeOf(p)].min <= p.delay /\ p.delay <= dg[EdgeOf(p)].max

\* A line of a table has three fields, but for the "End" at its end, and no mark
\* is outside arr: printrsltfile finds the words it indexes.
TypeOK ==
  /\ file \in {"setup", "hold"}
  /\ next \in 1 .. Len(Lines(reports[file])) + 1
  /\ cunt \in Nat /\ flag \in BOOLEAN
  /\ \A t \in DOMAIN temp : \A k \in DOMAIN temp[t] :
       Len(temp[t][k]) = 3 \/ (Len(temp[t][k]) = 1 /\ k = Len(temp[t]))
  /\ arr \subseteq 1 .. ArrSize
  /\ pc \in {"convert", "match", "rest", "written", "undefined"}
  /\ readPc \in {"read", "build", "built", "aborted"}

\* The tables have a row for each path of their report, in its order and with
\* its delay, although a path is only told from the next by counting the lines
\* that do say "arrival" and the rules after them that seem to.
TablesAreReports ==
  pc # "convert" => \A t \in {"setup", "hold"} :
    temp[t] = [k \in 1 .. Len(reports[t]) |->
                 <<reports[t][k].from, reports[t][k].to, reports[t][k].delay>>]
              \o <<<<"End">>>>

\* Every path of the hold report enters the delay graph, whether or not the
\* setup report has one between the same pins.
HoldPathsEnter == readPc = "built" => \A p \in Paths("hold") : Enters(p)

\* The .out file carries "max_delay min_delay" (blifoutput.cpp:160) of the
\* paths of both reports, so that every setup path enters the delay graph.
SetupPathsEnter == readPc = "built" => \A p \in Paths("setup") : Enters(p)

\* The reports list the same pairs of pins in the same order.
Aligned ==
  /\ Len(reports.setup) = Len(reports.hold)
  /\ \A k \in DOMAIN reports.setup :
       /\ reports.setup[k].from = reports.hold[k].from
       /\ reports.setup[k].to = reports.hold[k].to

\* For aligned reports the delay graph is exact: it has every path, and the
\* bounds of an edge are the extremes of the paths that belong to it.
AlignedIsExact ==
  readPc = "built" /\ Aligned =>
    \A p \in Paths("setup") \cup Paths("hold") :
      LET same == {q \in Paths("setup") \cup Paths("hold") : EdgeOf(q) = EdgeOf(p)} IN
        /\ Enters(p)
        /\ dg[EdgeOf(p)].max = Max({q.delay : q \in same})
        /\ dg[EdgeOf(p)].min = Min({q.delay : q \in same})

\* The join reads and writes outside its arrays only for a hold report longer
\* than the setup report, or longer than arr.
FitsIsDefined ==
  pc = "undefined" =>
    Len(reports.hold) > Len(reports.setup) \/ Len(reports.hold) > ArrSize
=============================================================================
