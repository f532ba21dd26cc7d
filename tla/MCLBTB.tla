------------------------------- MODULE MCLBTB -------------------------------
(***************************************************************************)
(* Measurements of the outside (index 0) and one flip-flop (1), and graphs *)
(* on three vertices made by hand, on which a policy can have one, two or  *)
(* three cycles and half of which YTO's start suits.  Howard meets the     *)
(* edges of every graph in two opposite orders.                            *)
(***************************************************************************)
EXTENDS LBTB, TLC

Nodes == McrNodes(2)

\* A graph's edges in some order, and in the opposite one.
BothWays(arcs) ==
  LET s == FoldSet(LAMBDA e, t : Append(t, e), <<>>, arcs) IN {s, Reverse(s)}

-----------------------------------------------------------------------------
Spans == {[max |-> 2, min |-> 0], [max |-> 4, min |-> 2]}

\* A path in and a path out; a flip-flop that feeds itself besides; a
\* flip-flop no path leaves; paths that pass by all flip-flops.
Files ==
  [{<<0, 1>>, <<1, 0>>} -> Spans] \cup
  [{<<0, 1>>, <<1, 0>>, <<1, 1>>} -> Spans] \cup
  [{<<0, 0>>, <<0, 1>>} -> Spans] \cup
  [{<<0, 0>>} -> {[max |-> 4, min |-> 2], [max |-> 0, min |-> 0]}]

Measurements ==
  UNION {{Measurement(f, o) : o \in BothWays(McrArcs(f, TInitial(f)))} : f \in Files}

-----------------------------------------------------------------------------
ArcsOf(u, v, costs) ==
  {[from |-> u, to |-> v, weight |-> c[1], delay |-> c[2]] : c \in costs}

Costs == {<<0, 0>>, <<2, 1>>, <<-1, 1>>}

Graphs ==
  {g \in {{a, b, c, d, e} :
            a \in ArcsOf(0, 1, Costs),
            b \in ArcsOf(1, 2, {<<0, 0>>, <<2, 1>>}) \cup ArcsOf(1, 0, {<<1, 1>>}),
            c \in ArcsOf(2, 0, Costs),
            d \in ArcsOf(2, 1, {<<0, -1>>, <<-1, 1>>}) \cup ArcsOf(2, 2, {<<1, 1>>}),
            e \in ArcsOf(1, 1, {<<1, 2>>}) \cup ArcsOf(0, 0, {<<3, 1>>})} :
     EveryCyclePositive(0 .. 2, g)}

ByHand ==
  {[dg |-> <<>>, nodes |-> 0 .. 2, order |-> o, r0 |-> <<6, 1>>] :
     o \in UNION {BothWays(g) : g \in Graphs}}

AllInstances == Measurements \cup ByHand

\* Boost keeps in-arcs in a multiset ordered by the index of their source.
BySource(S) == CHOOSE e \in S : \A f \in S : e.from <= f.from

Tolerance == <<1, 100>>
=============================================================================
