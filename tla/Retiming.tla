------------------------------ MODULE Retiming ------------------------------
(***************************************************************************)
(* One retiming move as a rewriting of the BLIF file, src/SR.cpp.          *)
(*                                                                         *)
(* Backward (b, L): LUT L drives only flip-flop b; the latch goes to each  *)
(* input of L.  Net x_k, the k-th input, is renamed Lnew<k>, latches       *)
(* Lnew<k> -> bnew<k> are added, L reads bnew<k> and drives b.             *)
(* Forward (f, L): f and the other inputs s_k of L are outputs of latches; *)
(* one latch goes to the output of L.  L reads what the latches read and   *)
(* drives inew, where i is the input of f, and a latch inew -> fnew feeds  *)
(* the readers of L.                                                       *)
(* The code decides line by line, in one chain of conditions; the chain is *)
(* written out once for each number of inputs from two to four, and here   *)
(* once.  Latches stand before LUTs in a file.                             *)
(***************************************************************************)
EXTENDS Netlist

Failed == [ok |-> FALSE, net |-> <<>>]

\* No branch is taken and true is returned.
NothingWritten == [ok |-> TRUE, net |-> <<>>]

Rewritten(net, Rule(_)) ==
  [ok |-> TRUE, net |-> FlattenSeq([l \in DOMAIN net |-> Rule(net[l])])]

\* The output token, and with it the line, is ended early at position i.
CutAt(toks, i, out) == Append(SubSeq(toks, 1, i - 1), out)

-----------------------------------------------------------------------------
(***************************************************************************)
(* BlifBackwardModify.                                                     *)
(***************************************************************************)
\* LutInput_0 .. LutInput_<inputNum - 1>: the inputs of L from the first line
\* that ends in L with two to four of them.  Without such a line inputNum is
\* left at the number on the last line that mentions L, and the names at "".
LutInputs(net, L) ==
  LET luts == LutsOf(net)
      named == {k \in DOMAIN luts : Mentions(luts[k], L)}
      own == {k \in named : /\ OutputOf(luts[k]) = L
                            /\ Len(InputPins(luts[k])) \in 2 .. 4}
  IN  IF own # {} THEN InputPins(luts[Min(own)])
      ELSE [k \in DOMAIN InputPins(luts[Max(named)]) |-> <<>>]

\* The groups of inputs that have a branch of their own, in the order tried.
\* With four inputs the pairs that contain the fourth have none.
Groups(n) ==
  CASE n = 2 -> <<{1, 2}>>
    [] n = 3 -> <<{1, 2, 3}, {1, 2}, {1, 3}, {2, 3}>>
    [] n = 4 -> <<{1, 2, 3, 4}, {1, 2, 3}, {1, 2, 4}, {1, 3, 4}, {2, 3, 4},
                  {1, 2}, {1, 3}, {2, 3}>>

\* The input that b is compared with before input k of the group is renamed:
\* input k, except in one place with three inputs (SR.cpp:1299).
Guard(n, group, k) == IF n = 3 /\ group = {1, 2} THEN 2 ELSE k

NewLatches(b, L, n) == [k \in 1 .. n |-> Latch(NewK(L, k), NewK(b, k))]

BackwardLatch(l, b, L, x) ==
  LET named == {k \in DOMAIN x : Mentions(l, x[k])}
      k == Min(named)
  IN  IF Mentions(l, b) /\ Mentions(l, L) THEN NewLatches(b, L, Len(x))
      ELSE IF named = {} THEN <<l>>
      ELSE <<Substitute(l, [y \in {x[k]} |-> NewK(L, k)])>>

\* The line of L itself: it ends at the first token that L is a prefix of.
MovedLut(l, b, L, x) ==
  LET m == [y \in ToSet(x) |-> NewK(b, Min({k \in DOMAIN x : x[k] = y}))]
      s == Substitute(l, m)
      outs == {i \in DOMAIN l.toks : /\ IsPrefix(L, l.toks[i])
                                     /\ ~(i \in Plain(l) /\ l.toks[i] \in ToSet(x))}
  IN  IF outs = {} THEN s
      ELSE Lut(CutAt(s.toks, Min(outs), b), TRUE)

\* A LUT that reads several inputs of L.
RenamedGroup(l, b, L, x, group) ==
  LET free == {k \in group : b # x[Guard(Len(x), group, k)]}
  IN  Substitute(l, [y \in {x[k] : k \in free} |->
                       NewK(L, Min({k \in free : x[k] = y}))])

\* A LUT that reads or drives input k; here an output with the end of the line
\* in it is recognised, and a blank is written between.  The end of a line that
\* is not glued is such an output when the name of the input is empty.
RenamedOne(l, b, L, x, k) ==
  LET s == Substitute(l, [y \in {x[k]} \ {b} |-> NewK(L, k)])
      read == IF l.glued THEN Front(s.toks) ELSE s.toks
      drives == b # x[k] /\ x[k] = (IF l.glued THEN OutputOf(l) ELSE <<>>)
  IN  IF drives THEN Lut(Append(read, NewK(L, k)), FALSE) ELSE s

BackwardLut(l, b, L, x) ==
  LET groups == Groups(Len(x))
      read == {g \in DOMAIN groups : \A k \in groups[g] : Mentions(l, x[k])}
      ones == {k \in DOMAIN x : IF Len(x) = 3 THEN Mentions(l, x[k])
                                              ELSE Includes(l, x[k])}
  IN  IF (\A k \in DOMAIN x : Mentions(l, x[k])) /\ Includes(l, L)
      THEN MovedLut(l, b, L, x)
      ELSE IF read # {} THEN RenamedGroup(l, b, L, x, groups[Min(read)])
      ELSE IF ones # {} THEN RenamedOne(l, b, L, x, Min(ones))
      ELSE Substitute(l, [y \in {L} |-> b])

\* Slip: only the first input is looked for among the inputs of the netlist.
MayMoveBackwardFirst(net, x) == x[1] \notin NamesOn(net, "inputs")

MayMoveBackward(net, x) == ToSet(x) \cap NamesOn(net, "inputs") = {}

Backward(net, b, L) ==
  LET x == LutInputs(net, L)
      Rule(l) == CASE l.kind = "latch" -> BackwardLatch(l, b, L, x)
                   [] l.kind = "names" -> <<BackwardLut(l, b, L, x)>>
                   [] OTHER -> <<l>>
  IN  CASE Len(x) \notin 2 .. 4 -> NothingWritten
        [] Len(x) \in 2 .. 4 /\ MayMoveBackward(net, x) -> Rewritten(net, Rule)
        [] OTHER -> Failed

-----------------------------------------------------------------------------
(***************************************************************************)
(* BlifForwardModify.                                                      *)
(***************************************************************************)
\* Slip: as SR.cpp:987 has it, the end of the line is no token.
SharedInputsEitherEnd(net, f, L) ==
  LET luts == LutsOf(net)
      own == Chosen(luts, {l \in ToSet(luts) : Mentions(l, f) /\ OutputOf(l) = L})
      toks == FlattenSeq([k \in DOMAIN own |-> own[k].toks])
  IN  Chosen(toks, ToSet(toks) \ {f, L})

\* The inputs of L besides f, from every line that mentions f and ends in L.  The
\* end of a line that is not glued is a token too, and then the last.
SharedInputs(net, f, L) ==
  LET luts == LutsOf(net)
      own == Chosen(luts, {l \in ToSet(luts) :
                             Mentions(l, f) /\ l.glued /\ OutputOf(l) = L})
      toks == FlattenSeq([k \in DOMAIN own |-> own[k].toks])
  IN  Chosen(toks, ToSet(toks) \ {f, L})

\* The input of the last latch that mentions y and none of the names before it.
LatchInput(net, y, before) ==
  LET latches == OfKind(net, "latch")
      found == {k \in DOMAIN latches : /\ Mentions(latches[k], y)
                                       /\ \A z \in before : ~Mentions(latches[k], z)}
  IN  IF found = {} THEN <<>> ELSE latches[Max(found)].toks[1]

ForwardLatch(l, f, s) ==
  IF Mentions(l, f) THEN <<Latch(New(l.toks[1]), New(f))>>
  ELSE IF \E y \in ToSet(s) : Mentions(l, y) THEN <<>>
  ELSE <<l>>

\* L reads in[y] for y and, where its output is a token of its own, drives
\* inew; the line ends there.  Over a glued line L goes on driving its own net.
ForwardLut(l, f, L, in) ==
  LET t == Substitute(l, in)
      outs == {i \in Plain(l) : l.toks[i] = L /\ L \notin DOMAIN in}
  IN  IF outs = {} THEN t
      ELSE Lut(CutAt(t.toks, Min(outs), New(in[f])), TRUE)

\* Any other line: a line with all or one of the s_k, with f, or with L.
ForwardOther(l, f, L, s, in) ==
  LET shared == {k \in DOMAIN s : Mentions(l, s[k])}
      Only(S) == [y \in S |-> in[y]]
  IN  IF shared = DOMAIN s THEN Substitute(l, in)
      ELSE IF shared # {} THEN Substitute(l, Only({s[Min(shared)]}))
      ELSE IF Mentions(l, f) THEN Substitute(l, Only({f}))
      ELSE IF l.kind = "names" THEN Substitute(l, [y \in {L} |-> New(f)])
      ELSE l

\* The line as it is read again: an empty name is no token.
Written(l) == [l EXCEPT !.toks = Chosen(@, ToSet(@) \ {<<>>})]

MayMoveForward(net, s) ==
  /\ Len(s) \in 1 .. 3
  /\ ToSet(s) \cap NamesOn(net, "inputs") = {}
  /\ ToSet(s) \subseteq {t.toks[2] : t \in ToSet(OfKind(net, "latch"))}

\* The outputs stand before the latches: there the inputs of the shared
\* latches are not known yet and are still empty strings.
Forward(net, f, L) ==
  LET s == SharedInputs(net, f, L)
      first(y) == Min({k \in DOMAIN s : s[k] = y})
      in == [y \in {f} \cup ToSet(s) |->
               IF y = f THEN LatchInput(net, f, {})
               ELSE LatchInput(net, y, {f} \cup {s[j] : j \in 1 .. first(y) - 1})]
      early == [y \in DOMAIN in |-> IF y = f THEN in[f] ELSE <<>>]
      Rule(l) ==
        CASE l.kind = "latch" -> ForwardLatch(l, f, s)
          [] l.kind = "names" ->
               IF \A y \in DOMAIN in \cup {L} : Mentions(l, y)
               THEN <<Written(ForwardLut(l, f, L, in))>>
               ELSE <<Written(ForwardOther(l, f, L, s, in))>>
          [] OTHER -> <<Written(ForwardOther(l, f, L, s, early))>>
  IN  IF MayMoveForward(net, s) THEN Rewritten(net, Rule) ELSE Failed
=============================================================================
