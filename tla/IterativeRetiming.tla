-------------------------- MODULE IterativeRetiming --------------------------
(***************************************************************************)
(* The main loop of the program, src/main.cpp with the SR class: VPR times *)
(* the netlist and reports its critical path, the latch at the end of the  *)
(* path is moved backward over the last LUT or, failing that, the latch at *)
(* its start forward over the first LUT, and the new netlist is timed,     *)
(* until no move is left or the iterations are used up.  The run with the  *)
(* least delay is then handed to the latch-based timing analysis.          *)
(*                                                                         *)
(* VPR is external.  What it is taken to do: on a netlist in which every   *)
(* pin has one source it reports some path through at least one LUT and    *)
(* some delay; on any other it stops before the line with the delay.       *)
(***************************************************************************)
EXTENDS Retiming

CONSTANTS Netlists,    \* the netlists the program may be started on
          Iterations,  \* 64 in main.cpp:90
          PathDelays   \* the delays VPR may report

ASSUME IterationsAssumption == Iterations \in Nat \ {0, 1}

\* The user's netlists: no name is empty, every net is driven once and every
\* pin by an input or a LUT.
ASSUME NetlistsAssumption ==
  \A n \in Netlists :
    /\ n \in Seq(Line(Seq(STRING) \ {<<>>}))
    /\ WellFormed(n) /\ SoundNet(n)

VARIABLES i,            \* the loop counter
          files,        \* run (0: Baseline) to the netlist in its directory
          FP,           \* the run whose file is current
          report,       \* report_timing.setup.rpt: the critical path
          forwardFF, forwardLUT, backwardFF, backwardLUT,
          Rslt,         \* run to delay
          RsltFP,       \* the run RsltPrint returned, or -1
          pc,
          \* history, which no action reads:
          lag,          \* how far each LUT has been retimed so far
          suited        \* were all moves backward ones that the rewriting covers?

fields == <<forwardFF, forwardLUT, backwardFF, backwardLUT>>
vars == <<i, files, FP, report, forwardFF, forwardLUT, backwardFF, backwardLUT,
          Rslt, RsltFP, pc, lag, suited>>

net == files[FP]

\* An entry of a map, added or replaced.
With(f, k, x) == [j \in DOMAIN f \cup {k} |-> IF j = k THEN x ELSE f[j]]

-----------------------------------------------------------------------------
(***************************************************************************)
(* The critical paths VPR may report: from an input or a flip-flop through *)
(* LUTs to a flip-flop or an output.                                       *)
(***************************************************************************)
FlipFlops(n) == {t.toks[2] : t \in ToSet(OfKind(n, "latch"))}

Below(n, k) ==
  LET luts == LutsOf(n)
      Reads(j, S) == \E m \in S : OutputOf(luts[m]) \in ToSet(InputPins(luts[j]))
      Within[d \in 0 .. Len(luts)] ==
        IF d = 0 THEN {k}
        ELSE LET S == Within[d - 1] IN S \cup {j \in DOMAIN luts : Reads(j, S)}
  IN  Within[Len(luts)]

PathsFrom(n, k) ==
  LET luts == LutsOf(n)
      starts == ToSet(InputPins(luts[k])) \cap
                  (NamesOn(n, "inputs") \cup FlipFlops(n))
      Ends(x) == {t.toks[2] : t \in {u \in ToSet(OfKind(n, "latch")) : u.toks[1] = x}}
                   \cup ({x} \cap NamesOn(n, "outputs"))
      lasts == {OutputOf(luts[j]) : j \in Below(n, k)}
  IN  UNION {[start : starts, first : {OutputOf(luts[k])}, last : {x}, end : Ends(x)] :
               x \in lasts}

Reports(n) == UNION {PathsFrom(n, k) : k \in DOMAIN LutsOf(n)}

NoReport == [start |-> <<>>, first |-> <<>>, last |-> <<>>, end |-> <<>>]

Init ==
  /\ \E n \in Netlists :
       /\ files = [k \in {0} |-> n]
       /\ lag = [k \in DOMAIN LutsOf(n) |-> 0]
  /\ i = 0 /\ FP = 0
  /\ report = NoReport
  /\ forwardFF = <<>> /\ forwardLUT = <<>>
  /\ backwardFF = <<>> /\ backwardLUT = <<>>
  /\ Rslt = <<>>
  /\ RsltFP = -1
  /\ pc = "vpr"
  /\ suited = TRUE

-----------------------------------------------------------------------------
(***************************************************************************)
(* ExecuteCommand and RsltExtract.                                         *)
(***************************************************************************)
\* Slip: the loop counter is not compared with the last iteration's.
TimeOn ==
  /\ pc = "vpr" /\ net # <<>> /\ SoundNet(net)
  /\ report' \in Reports(net)
  /\ \E d \in PathDelays : Rslt' = With(Rslt, FP, d)
  /\ i' = FP
  /\ pc' = "retime"
  /\ UNCHANGED <<files, FP, fields, RsltFP, lag, suited>>

\* VPR has run in the directory of FP.  After Baseline the loop starts, after
\* a run its next iteration does or, after the last one, the program ends.
Time ==
  /\ pc = "vpr" /\ net # <<>> /\ SoundNet(net)
  /\ report' \in Reports(net)
  /\ \E d \in PathDelays : Rslt' = With(Rslt, FP, d)
  /\ i' = FP
  /\ pc' = IF FP = Iterations THEN "finish" ELSE "retime"
  /\ UNCHANGED <<files, FP, fields, RsltFP, lag, suited>>

\* The log has no "Final critical path:" and the fgets loop never ends.
TimeFails ==
  /\ pc = "vpr" /\ ~(net # <<>> /\ SoundNet(net))
  /\ pc' = "hung"
  /\ UNCHANGED <<i, files, FP, report, fields, Rslt, RsltFP, lag, suited>>

-----------------------------------------------------------------------------
(***************************************************************************)
(* The backward moves the line-by-line rewriting covers.  The conditions   *)
(* are no part of the program: they say for which moves it may be relied   *)
(* on.  No forward move is one, see ForwardIsNoRetiming.                   *)
(***************************************************************************)
Names(n) == UNION {ToSet(l.toks) : l \in ToSet(n)}

Others(n, L) == {l \in ToSet(LutsOf(n)) : OutputOf(l) # L}

\* No other LUT may mention several inputs of L unless there is a branch for
\* these, nor drive one of them at the same time, nor mention L.
CoversBackward(l, L, x) ==
  LET named == {k \in DOMAIN x : Includes(l, x[k])} IN
    /\ ~Includes(l, L)
    /\ \A k \in named : Mentions(l, x[k])
    /\ \/ Cardinality(named) <= 1
       \/ /\ named \in ToSet(Groups(Len(x)))
          /\ l.glued => OutputOf(l) \notin ToSet(x)

SuitsBackward(n, b, L) ==
  LET x == LutInputs(n, L)
      ports == NamesOn(n, "outputs")
  IN  /\ Len(x) \in 2 .. 4 /\ <<>> \notin ToSet(x)
      /\ b \notin ToSet(x) /\ Cardinality(ToSet(x)) = Len(x)
      /\ (ToSet(x) \cup {L}) \cap ports = {}
      /\ \A l \in Others(n, L) : CoversBackward(l, L, x)
      /\ \A t \in ToSet(OfKind(n, "latch")) :
           t.toks # <<L, b>> => ~Mentions(t, L) /\ ~(ToSet(t.toks) \subseteq ToSet(x))
      /\ \A k \in DOMAIN x : {NewK(L, k), NewK(b, k)} \cap Names(n) = {}

\* The lag of the LUT that drives x, changed by d.
Lagged(n, x, d) ==
  [k \in DOMAIN lag |-> IF OutputOf(LutsOf(n)[k]) = x THEN lag[k] + d ELSE lag[k]]

-----------------------------------------------------------------------------
(***************************************************************************)
(* One iteration.                                                          *)
(***************************************************************************)
EndsAtFlipFlop   == report.end \in FlipFlops(net)
StartsAtFlipFlop == report.start \in FlipFlops(net)

\* loadTimingRptBw, when it returns true.
LoadBw == backwardFF' = report.end /\ backwardLUT' = report.last

\* loadTimingRptFw: nothing is stored when the path starts at an input.
LoadFw ==
  IF StartsAtFlipFlop
  THEN forwardFF' = report.start /\ forwardLUT' = report.first
  ELSE UNCHANGED <<forwardFF, forwardLUT>>

\* Test(file, i) makes the directory of the next run; the rewriting reads the
\* file of the last one and writes there.  A failed move leaves an empty file.
Write(move) ==
  /\ FP' = i + 1
  /\ files' = With(files, i + 1, move.net)

MoveBackward ==
  /\ pc = "retime" /\ EndsAtFlipFlop
  /\ LoadBw
  /\ IF i = 0 THEN UNCHANGED <<forwardFF, forwardLUT>> ELSE LoadFw
  /\ \E move \in {Backward(net, report.end, report.last)} :
       /\ i = 0 \/ move.ok   \* the first result is ignored (main.cpp:99)
       /\ Write(move)
       /\ suited' = (suited /\ move.ok /\ SuitsBackward(net, report.end, report.last))
  /\ lag' = Lagged(net, report.last, 1)
  /\ pc' = "vpr"
  /\ UNCHANGED <<i, report, Rslt, RsltFP>>

\* BlifForwardModify with the pair that is stored, whether or not the current
\* report has set it.
WriteForward(f, L) ==
  \E move \in {Forward(net, f, L)} :
    /\ Write(move)
    /\ IF move.ok
       THEN /\ pc' = "vpr"
            /\ lag' = Lagged(net, L, -1)
            /\ suited' = FALSE
       ELSE pc' = "finish" /\ UNCHANGED <<lag, suited>>

MoveForwardInstead ==
  /\ pc = "retime" /\ EndsAtFlipFlop /\ i > 0
  /\ LoadBw
  /\ LoadFw
  /\ ~Backward(net, report.end, report.last).ok
  /\ WriteForward(forwardFF', forwardLUT')
  /\ UNCHANGED <<i, report, Rslt, RsltFP>>

MoveForward ==
  /\ pc = "retime" /\ ~EndsAtFlipFlop /\ StartsAtFlipFlop
  /\ LoadFw
  /\ WriteForward(forwardFF', forwardLUT')
  /\ UNCHANGED <<i, report, backwardFF, backwardLUT, Rslt, RsltFP>>

\* Slip: the first iteration falls through to another run of VPR.
NoMoveAgain ==
  /\ pc = "retime" /\ ~EndsAtFlipFlop /\ ~StartsAtFlipFlop
  /\ IF i = 0 THEN pc' = "vpr" /\ UNCHANGED i ELSE pc' = "finish" /\ UNCHANGED i
  /\ UNCHANGED <<files, FP, report, fields, Rslt, RsltFP, lag, suited>>

\* A path from an input to an output: the first iteration falls through to the
\* second, which ends the program.
NoMove ==
  /\ pc = "retime" /\ ~EndsAtFlipFlop /\ ~StartsAtFlipFlop
  /\ IF i = 0 THEN i' = 1 /\ UNCHANGED pc
     ELSE pc' = "finish" /\ UNCHANGED i
  /\ UNCHANGED <<files, FP, report, fields, Rslt, RsltFP, lag, suited>>

\* Slip: the last run is taken.
FinishLast ==
  /\ pc = "finish"
  /\ RsltFP' = FP
  /\ pc' = "done"
  /\ UNCHANGED <<i, files, FP, report, fields, Rslt, lag, suited>>

\* RsltPrint: sort by delay, the first is the result.
Finish ==
  /\ pc = "finish"
  /\ RsltFP' \in {k \in DOMAIN Rslt : \A j \in DOMAIN Rslt : Rslt[k] <= Rslt[j]}
  /\ pc' = "done"
  /\ UNCHANGED <<i, files, FP, report, fields, Rslt, lag, suited>>

Next ==
  \/ Time \/ TimeFails
  \/ MoveBackward \/ MoveForwardInstead \/ MoveForward \/ NoMove
  \/ Finish

Spec == Init /\ [][Next]_vars

\* The program is sequential: it goes on taking steps until it has stopped.
\* (This is WF_vars(Next), with ENABLED Next written out: one of the actions is
\* enabled in every state in which pc names a place in the program.)
Stopped == pc \in {"done", "hung"}

FairSpec == Spec /\ (<>[]Stopped \/ []<><<Next>>_vars)

-----------------------------------------------------------------------------
(***************************************************************************)
(* Properties.                                                             *)
(***************************************************************************)
\* Names are made of the pieces of the user's names, "new" and digits; what has
\* not been set is an empty string.
Text ==
  Seq({"new", "1", "2", "3", "4"} \cup UNION {ToSet(x) : x \in Names(files[0])})

TypeOK ==
  /\ i \in 0 .. Iterations
  /\ FP \in 0 .. Iterations /\ FP \in DOMAIN files
  /\ \A k \in DOMAIN files : files[k] \in Seq(Line(Text \ {<<>>}))
  /\ report \in [start : Text, first : Text, last : Text, end : Text]
  /\ {forwardFF, forwardLUT, backwardFF, backwardLUT} \subseteq Text
  /\ DOMAIN Rslt \subseteq DOMAIN files
  /\ \A k \in DOMAIN Rslt : Rslt[k] \in PathDelays
  /\ RsltFP \in DOMAIN Rslt \cup {-1}
  /\ pc \in {"vpr", "retime", "finish", "done", "hung"}
  /\ lag \in [DOMAIN LutsOf(files[0]) -> Int] /\ suited \in BOOLEAN

\* However many backward moves are made that the rewriting covers, on whatever
\* LUTs, the current netlist is a retiming of the user's: same ports, same LUTs, and
\* between any source and pin the latches the moves account for.  So it
\* computes what the user's does, up to the start.
NetIsRetimed ==
  suited /\ net # <<>> => IsRetiming(files[0], net, lag)

\* What is handed to the timing analysis is the fastest of the runs VPR could
\* time, never the empty file that a failed last move leaves behind.
ResultWasTimed ==
  pc = "done" => /\ RsltFP \in DOMAIN Rslt /\ SoundNet(files[RsltFP])
                 /\ \A k \in DOMAIN Rslt : Rslt[RsltFP] <= Rslt[k]

\* As long as the moves are backward ones that the rewriting covers, the program
\* comes to its end: no run is left without a delay for RsltExtract to find.
Ends == <>(pc = "done" \/ ~suited)

\* SR.cpp:337, 479, 673 ("legal retiming!") and 1040, 1190, 1428 ("All input
\* is ff, legal retiming") announce a move when the checks have passed: the
\* netlist they go on to write is a retiming of the one they read.
AnnouncedIsLegal ==
  [][files' # files /\ net' # <<>> =>
       \E d \in {[k \in DOMAIN lag |-> lag'[k] - lag[k]]} :
         IsRetiming(net, net', d)]_vars

\* What L computes reaches an output or a LUT.
Seen(n, L) ==
  LET pins == NamesOn(n, "outputs") \cup UNION {ToSet(InputPins(l)) : l \in ToSet(LutsOf(n))}
  IN  \E from \in {Sources(n)} : \E d \in from :
        d[1] \in pins /\ d[2] \in DOMAIN LutsOf(n) /\ OutputOf(LutsOf(n)[d[2]]) = L

FreshNames(n) == \A x \in Names(n) : New(x) \notin Names(n)

\* A forward move that goes through never is the retiming it is announced as.
\* The lines that BlifForwardModify accepts (SR.cpp:286) are those on which it
\* does not find the output again (SR.cpp:381), so that the latch is taken from
\* the inputs of L and not met by what L computes.
ForwardIsNoRetiming ==
  [][/\ suited /\ FreshNames(net) /\ (MoveForward \/ MoveForwardInstead) /\ pc' = "vpr"
     /\ forwardFF' \in FlipFlops(net) /\ Seen(net, forwardLUT')
     => ~IsRetiming(net, net', [k \in DOMAIN lag |-> lag'[k] - lag[k]])]_vars

\* SR.cpp:142 says of a critical path that starts at an input "SR forward to
\* input, need to stop": no latch is then moved forward.
InputStopsForward ==
  [][MoveForwardInstead /\ pc' = "vpr" => StartsAtFlipFlop]_vars

\* main.cpp:94 reports "Backward succeed": the first iteration then has a
\* netlist for VPR to time.
FirstMoveSucceeded == pc = "vpr" => net # <<>>
=============================================================================
