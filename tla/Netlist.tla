------------------------------ MODULE Netlist ------------------------------
(***************************************************************************)
(* Netlists in BLIF, as the text that SR.cpp rewrites line by line.        *)
(*                                                                         *)
(* A line has a kind (its directive) and the names that follow it: a       *)
(* "latch" its input and its output, a "names" the inputs of a LUT and its *)
(* output.  The program splits lines at blanks only, so when nothing       *)
(* separates the last name from the end of the line the two are one token, *)
(* and comparing that token with a name fails: the line is "glued".        *)
(*                                                                         *)
(* The program makes names by appending to names and compares names by     *)
(* substring, so a name is the sequence of its pieces.  Truth tables,      *)
(* comments and blank lines are left out: no rewriting depends on them.    *)
(***************************************************************************)
EXTENDS Integers, Sequences, SequencesExt, FiniteSets

Inputs(names)    == [kind |-> "inputs", toks |-> names, glued |-> TRUE]
Outputs(names)   == [kind |-> "outputs", toks |-> names, glued |-> TRUE]
Latch(in, out)   == [kind |-> "latch", toks |-> <<in, out>>, glued |-> FALSE]
Lut(names, glue) == [kind |-> "names", toks |-> names, glued |-> glue]

\* What a line is, with names from a set: a latch has an input and an output,
\* with its type and its clock behind.
Line(Name) ==
  {l \in [kind : {"inputs", "outputs", "latch", "names"},
          toks : Seq(Name), glued : BOOLEAN] :
     l.kind = "latch" => Len(l.toks) = 2 /\ ~l.glued}

\* The members of s that are in S, in order.
Chosen(s, S) ==
  FlattenSeq([k \in DOMAIN s |-> IF s[k] \in S THEN <<s[k]>> ELSE <<>>])

OfKind(net, kind) == Chosen(net, {l \in ToSet(net) : l.kind = kind})

\* The names on the lines of a kind.
NamesOn(net, kind) == UNION {ToSet(l.toks) : l \in ToSet(OfKind(net, kind))}

\* x followed by "new", and by "new" and a digit.
New(x)     == Append(x, "new")
NewK(x, k) == x \o <<"new", <<"1", "2", "3", "4">>[k]>>

-----------------------------------------------------------------------------
\* in_exact(buffer, x): some token of the line is x, an end of line aside.
Mentions(l, x) == x \in ToSet(l.toks)

\* in(buffer, x): some token of the line has x in it.
Includes(l, x) == \E y \in ToSet(l.toks) : x \in SubSeqs(y)

\* The positions at which temps == x can hold.
Plain(l) == IF l.glued THEN 1 .. Len(l.toks) - 1 ELSE DOMAIN l.toks

\* A loop over the tokens of a line that writes m[x] for a token x that m maps
\* and the token itself otherwise.
Substitute(l, m) ==
  [l EXCEPT !.toks = [i \in DOMAIN @ |->
     IF i \in Plain(l) /\ @[i] \in DOMAIN m THEN m[@[i]] ELSE @[i]]]

-----------------------------------------------------------------------------
(***************************************************************************)
(* What a netlist means, whatever the names: every pin is traced back      *)
(* through latches to the LUT or the input that drives it.                 *)
(***************************************************************************)
LutsOf(net) == OfKind(net, "names")

OutputOf(lut)  == Last(lut.toks)
InputPins(lut) == Front(lut.toks)

\* The sources of the nets: <<x, k, n>> when net x is driven by LUT k, or by
\* input -k, through n latches.
Sources(net) ==
  LET ins == OfKind(net, "inputs")[1].toks
      luts == LutsOf(net)
      latches == OfKind(net, "latch")
      Direct == {<<OutputOf(luts[k]), k, 0>> : k \in DOMAIN luts}
           \cup {<<ins[k], -k, 0>> : k \in DOMAIN ins}
      Through[n \in 0 .. Len(latches)] ==
        IF n = 0 THEN Direct
        ELSE LET before == Through[n - 1] IN
             Direct \cup UNION {{<<latches[t].toks[2], d[2], d[3] + 1>> :
                                   d \in {d \in before : d[1] = latches[t].toks[1]}} :
                                  t \in DOMAIN latches}
  IN  Through[Len(latches)]

SourcesOf(x, sources) == {<<d[2], d[3]>> : d \in {d \in sources : d[1] = x}}

\* Every output and every input pin of a LUT has one source.
SoundNet(net) ==
  \E from \in {Sources(net)} : \A l \in ToSet(net) :
    LET pins == CASE l.kind = "outputs" -> l.toks
                  [] l.kind = "names" -> InputPins(l)
                  [] OTHER -> <<>>
    IN  \A x \in ToSet(pins) : Cardinality(SourcesOf(x, from)) = 1

\* Every net is driven once, by an input, a LUT or a latch; every LUT reads
\* something, and not itself.
WellFormed(net) ==
  LET ins == OfKind(net, "inputs")[1].toks
      luts == LutsOf(net)
      latches == ToSet(OfKind(net, "latch"))
      driven == {OutputOf(l) : l \in ToSet(luts)}
      latched == {t.toks[2] : t \in latches}
  IN  /\ Len(OfKind(net, "inputs")) = 1 /\ IsInjective(ins)
      /\ \A k \in DOMAIN luts : /\ InputPins(luts[k]) # <<>>
                               /\ OutputOf(luts[k]) \notin ToSet(InputPins(luts[k]))
      /\ \A j, k \in DOMAIN luts : OutputOf(luts[j]) = OutputOf(luts[k]) => j = k
      /\ \A t, u \in latches : t.toks[2] = u.toks[2] => t.toks[1] = u.toks[1]
      /\ ToSet(ins) \cap driven = {} /\ ToSet(ins) \cap latched = {}
      /\ driven \cap latched = {}

\* new is old with latches moved: lag[k] latches from the output of LUT k to
\* each of its inputs.  Ports and LUTs are the same; between a source and a
\* pin are as many latches as there were, plus the lag of the pin's LUT, minus
\* that of the source (Leiserson and Saxe's condition for a legal retiming).
IsRetiming(old, new, lag) ==
  \E was \in {Sources(old)}, now \in {Sources(new)} :
    LET a == LutsOf(old)
        b == LutsOf(new)
        LagOf(k) == IF k > 0 THEN lag[k] ELSE 0
        Moved(x, r) ==
          {<<d[1], d[2] + r - LagOf(d[1])>> : d \in SourcesOf(x, was)}
    IN  /\ OfKind(new, "inputs") = OfKind(old, "inputs")
        /\ OfKind(new, "outputs") = OfKind(old, "outputs")
        /\ \A x \in NamesOn(old, "outputs") : SourcesOf(x, now) = Moved(x, 0)
        /\ Len(a) = Len(b)
        /\ \A k \in DOMAIN a :
             /\ Len(a[k].toks) = Len(b[k].toks)
             /\ \A i \in DOMAIN InputPins(a[k]) :
                  SourcesOf(b[k].toks[i], now) = Moved(a[k].toks[i], lag[k])
=============================================================================
