---------------------------- MODULE MCReportFlow ----------------------------
(***************************************************************************)
(* Reports of up to two paths each in every order, with paths into, around *)
(* and out of one flip-flop, and of one path beside three.  arr has two    *)
(* entries, so that a report of three is too long for it.                  *)
(***************************************************************************)
EXTENDS ReportFlow

Named(inst, pin) == [inst |-> inst, pin |-> pin]

Pins == { <<Named("x", "inpad"), Named("f", "D")>>,
          <<Named("f", "Q"), Named("f", "D")>>,
          <<Named("f", "Q"), Named("y", "outpad")>> }

PathsWith(delays) ==
  {[from |-> e[1], to |-> e[2], delay |-> d] : e \in Pins, d \in delays}

UpTo(n, S) == UNION {[1 .. k -> S] : k \in 0 .. n}

AllReports ==
  [setup : UpTo(2, PathsWith({2, 4})), hold : UpTo(2, PathsWith({0, 2}))] \cup
  [setup : UpTo(1, PathsWith({4})), hold : UpTo(3, PathsWith({0}))]

\* The reader's flag happens to start unset: what a path then loses it loses to
\* an earlier one.
UnsetSpec == FlowInit /\ ~flag /\ [][FlowNext]_<<vars, reading>>
=============================================================================
