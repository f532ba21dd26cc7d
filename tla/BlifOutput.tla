----------------------------- MODULE BlifOutput -----------------------------
(***************************************************************************)
(* From the two timing reports of the fastest run to the .out file LBTB    *)
(* reads, src/blifoutput.cpp as called by benchmark_vtr.                   *)
(*                                                                         *)
(* benchmarkConversion turns a report into a table with a row per path,    *)
(* its two end points and its delay, recognising lines by their words.  It *)
(* looks at words[1] even of lines that have one word only.  vector::clear *)
(* and the destructor of a short string leave the bytes where they are,    *)
(* and the first line of a report makes room for more than two words, so   *)
(* that it finds the second word of the last line that had one: memory.    *)
(* printrsltfile joins the two tables into one.                            *)
(*                                                                         *)
(* Delays are whole numbers, of which printing and reading loses nothing.  *)
(***************************************************************************)
EXTENDS Integers, Sequences, SequencesExt, FiniteSetsExt

CONSTANTS Reports,   \* [setup, hold]: the paths [from, to, delay] VPR reports
          ArrSize    \* the entries of arr

ASSUME ArrSizeAssumption == ArrSize \in Nat

Name == [inst : STRING, pin : STRING]

\* The unit of time is small enough for half of a delay to be a whole number,
\* see ConstraintGraph.
Time == {d \in Int : d % 2 = 0}

Path == [from : Name, to : Name, delay : Time]

ASSUME ReportsAssumption == Reports \subseteq [setup : Seq(Path), hold : Seq(Path)]

VARIABLES reports,   \* the two reports
          file,      \* the report benchmarkConversion works on
          next,      \* the line getline reads next
          memory,    \* the storage of words: what the slots were last given
          cunt,
          line,      \* the line of the table begun and not ended
          temp,      \* the tables "hold.out" and "setup.out" as written
          i,         \* the index of the outer loops of printrsltfile, from 1
          flag,      \* a local without initialisation
          arr,       \* the indices of arr set to 1
          out,       \* the rows of the .out file
          pc

conversion == <<file, next, memory, cunt, line, temp>>
joining == <<i, flag, arr, out>>
vars == <<reports, conversion, joining, pc>>

-----------------------------------------------------------------------------
(***************************************************************************)
(* A report of VPR, as the words of its lines.  What is not told apart by  *)
(* the code is left out: the lines of the points on a path, and the texts  *)
(* after the words used.                                                   *)
(***************************************************************************)
PathLines(p) ==
  << <<"Startpoint:", p.from>>,
     <<"Endpoint", ":", p.to>>,
     <<"Point", "Incr", "Path">>,
     <<"-----">>,
     <<"data", "arrival", "time", p.delay>>,
     <<>>,
     <<"data", "required", "time", 0>>,
     <<"-----">>,
     <<"data", "required", "time", 0>>,
     <<"data", "arrival", "time", -p.delay>>,
     <<"-----">>,
     <<"slack", "(MET)", 0>>,
     <<>> >>

Heading == <<"#Timing", "report", "of", "worst", "100", "path(s)">>

EndOfReport == <<"#End", "of", "timing", "report">>

Lines(paths) ==
  <<Heading>> \o FlattenSeq([k \in DOMAIN paths |-> PathLines(paths[k])])
    \o <<EndOfReport, <<>>>>

\* What a name is written as: the outside has one name per direction, of the
\* others the pin is cut off.
Written(name) ==
  CASE name.pin = "inpad" -> "INPUT"
    [] name.pin = "outpad" -> "OUTPUT"
    [] OTHER -> name.inst

Init ==
  /\ reports \in Reports
  /\ file = "hold"
  /\ next = 1
  /\ memory = <<>>
  /\ cunt = 0
  /\ line = <<>>
  /\ temp = [t \in {"hold", "setup"} |-> <<>>]
  /\ i = 1
  /\ flag \in BOOLEAN
  /\ arr = {}
  /\ out = <<>>
  /\ pc = "convert"

-----------------------------------------------------------------------------
(***************************************************************************)
(* benchmarkConversion.                                                    *)
(***************************************************************************)
\* Slip: what a shorter line leaves in the storage is not seen.
StoredFresh(words) == words

\* The storage of the vector once the words of a line are in it.
Stored(words) ==
  [k \in 1 .. Max({Len(words), Len(memory)}) |->
     IF k <= Len(words) THEN words[k] ELSE memory[k]]

\* temp << fields, without and with the end of the line.
Emit(fields) == line' = line \o fields /\ UNCHANGED temp

EndLine(fields) ==
  /\ temp' = [temp EXCEPT ![file] = Append(@, line \o fields)]
  /\ line' = <<>>

\* The lines the last if of the loop is reached and true for.
IsArrival(words, slots) ==
  /\ words # <<>> /\ words[1] \notin {"Startpoint:", "Endpoint"}
  /\ Len(slots) >= 2 /\ slots[2] = "arrival"

\* Slip: a report has two lines with the arrival of a path, and no third.
OpensPathPairs(c) == c % 2 = 0

\* Of the lines taken for arrivals, the first of each path.
OpensPath(c) == c % 3 = 0

\* One turn of the reading loop.
ConvertLine ==
  /\ pc = "convert"
  /\ next <= Len(Lines(reports[file]))
  /\ \E words \in {Lines(reports[file])[next]} : \E slots \in {Stored(words)} :
       /\ memory' = slots
       /\ CASE words = EndOfReport -> EndLine(<<"End">>) /\ UNCHANGED cunt
            [] words # <<>> /\ words[1] = "Startpoint:" ->
                 Emit(<<words[2]>>) /\ UNCHANGED cunt
            [] words # <<>> /\ words[1] = "Endpoint" ->
                 Emit(<<words[3]>>) /\ UNCHANGED cunt
            [] IsArrival(words, slots) ->
                 /\ IF OpensPath(cunt) THEN EndLine(<<slots[4]>>)
                    ELSE UNCHANGED <<line, temp>>
                 /\ cunt' = cunt + 1
            [] OTHER -> UNCHANGED <<line, temp, cunt>>
  /\ next' = next + 1
  /\ UNCHANGED <<reports, file, joining, pc>>

\* The report is at its end: the other one is next, or printrsltfile.
CloseReport ==
  /\ pc = "convert"
  /\ next = Len(Lines(reports[file])) + 1
  /\ IF file = "hold" THEN file' = "setup" /\ UNCHANGED pc
     ELSE pc' = "match" /\ UNCHANGED file
  /\ next' = 1 /\ memory' = <<>> /\ cunt' = 0 /\ line' = <<>>
  /\ UNCHANGED <<reports, temp, joining>>

-----------------------------------------------------------------------------
(***************************************************************************)
(* printrsltfile.  The loops run to size() - 2, which leaves out the "End" *)
(* and the empty line read after it.                                       *)
(***************************************************************************)
Setup == Front(temp["setup"])
Hold == Front(temp["hold"])

\* Slip: the two delays are exchanged.
RowSwapped(names, x, y) ==
  [kind |-> "row", from |-> Written(names[1]), to |-> Written(names[2]),
   first |-> Min({x, y}), second |-> Max({x, y})]

\* A row of the .out file: the longer delay first.
Row(names, x, y) ==
  [kind |-> "row", from |-> Written(names[1]), to |-> Written(names[2]),
   first |-> Max({x, y}), second |-> Min({x, y})]

\* The hold rows with the names of s.
SameEnds(s, t) == s[1] = t[1] /\ s[2] = t[2]

Matches(s) == {j \in DOMAIN Hold : SameEnds(s, Hold[j])}

\* What a turn of the outer loop writes: a row for every match, whose delay is
\* taken from row j of both tables, or the setup row itself as long as no turn
\* has found a match.
RowsFor(s, js) ==
  IF flag \/ js # {}
  THEN FlattenSeq([j \in DOMAIN Hold |->
         IF j \in js THEN <<Row(Hold[j], Setup[j][3], Hold[j][3])>> ELSE <<>>])
  ELSE <<Row(s, s[3], s[3])>>

\* Slip: the marks are those of the setup rows.
MatchSetupMarksI ==
  /\ pc = "match" /\ i <= Len(Setup)
  /\ \E js \in {Matches(Setup[i])} :
       IF \E j \in js : j > Len(Setup) \/ j > ArrSize
       THEN pc' = "undefined" /\ UNCHANGED joining
       ELSE /\ out' = out \o RowsFor(Setup[i], js)
            /\ flag' = (flag \/ js # {})
            /\ arr' = IF js = {} THEN arr ELSE arr \cup {i}
            /\ i' = i + 1
            /\ UNCHANGED pc
  /\ UNCHANGED <<reports, conversion>>

\* One turn of the outer loop.  Row j of the setup table, or of arr, may not
\* exist.  flag stays set once it is.
MatchSetup ==
  /\ pc = "match" /\ i <= Len(Setup)
  /\ \E js \in {Matches(Setup[i])} :
       IF \E j \in js : j > Len(Setup) \/ j > ArrSize
       THEN pc' = "undefined" /\ UNCHANGED joining
       ELSE /\ out' = out \o RowsFor(Setup[i], js)
            /\ flag' = (flag \/ js # {})
            /\ arr' = arr \cup js
            /\ i' = i + 1
            /\ UNCHANGED pc
  /\ UNCHANGED <<reports, conversion>>

StartRest ==
  /\ pc = "match" /\ i = Len(Setup) + 1
  /\ i' = 1 /\ pc' = "rest"
  /\ UNCHANGED <<reports, conversion, flag, arr, out>>

\* Slip: mark starts at one.
EmitHoldFromOne ==
  /\ pc = "rest" /\ i <= Len(Hold)
  /\ IF i + 1 > ArrSize
     THEN pc' = "undefined" /\ UNCHANGED <<i, out>>
     ELSE /\ out' = IF i + 1 \in arr THEN out
                    ELSE Append(out, Row(Hold[i], Hold[i][3], Hold[i][3]))
          /\ i' = i + 1
          /\ UNCHANGED pc
  /\ UNCHANGED <<reports, conversion, flag, arr>>

\* One turn of the second loop: the hold rows not matched.
EmitHold ==
  /\ pc = "rest" /\ i <= Len(Hold)
  /\ IF i > ArrSize
     THEN pc' = "undefined" /\ UNCHANGED <<i, out>>
     ELSE /\ out' = IF i \in arr THEN out
                    ELSE Append(out, Row(Hold[i], Hold[i][3], Hold[i][3]))
          /\ i' = i + 1
          /\ UNCHANGED pc
  /\ UNCHANGED <<reports, conversion, flag, arr>>

Close ==
  /\ pc = "rest" /\ i = Len(Hold) + 1
  /\ pc' = "written"
  /\ UNCHANGED <<reports, conversion, joining>>

Next ==
  ConvertLine \/ CloseReport \/ MatchSetup \/ StartRest \/ EmitHold \/ Close

Spec == Init /\ [][Next]_vars
=============================================================================
