---------------------- MODULE IterativeRetimingProofs ----------------------
(***************************************************************************)
(* What the driver hands to the timing analysis is a run VPR has timed,    *)
(* whatever netlist it started on, whatever paths and delays VPR reports   *)
(* and however many iterations it may make: that argument is about the run *)
(* directories, and has to exclude that the directory of a timed run is    *)
(* written again.  As long as the moves are backward ones that the         *)
(* rewriting covers, what a run directory holds is a retiming of the first *)
(* netlist; a forward move that goes through then never is one.  These two *)
(* go from the text a move writes, line by line, to the latches between    *)
(* any two LUTs, and from one move to the moves of a run.                  *)
(***************************************************************************)
EXTENDS IterativeRetiming, CommonProofs, SequenceTheorems

\* Delays are only for runs that exist, none beyond the loop counter, and each
\* of a file that has not changed since VPR timed it.
RunsWereTimed ==
  /\ DOMAIN Rslt \subseteq DOMAIN files
  /\ DOMAIN Rslt \subseteq 0 .. i
  /\ \A k \in DOMAIN Rslt : SoundNet(files[k])

\* The run about to be timed is the next one, or Baseline.
RunIsNext ==
  /\ i \in Nat
  /\ FP \in DOMAIN files /\ FP \in Nat
  /\ pc = "vpr" => FP >= i

IInv == RunsWereTimed /\ RunIsNext /\ ResultWasTimed

-----------------------------------------------------------------------------
\* Before the first analysis there are no delays.
LEMMA InitIInv == Init => IInv
<1> SUFFICES ASSUME Init PROVE IInv
  OBVIOUS
<1>1. DOMAIN files = {0} /\ DOMAIN Rslt = {}
  BY DEF Init
<1> QED
  BY <1>1 DEF Init, IInv, RunsWereTimed, RunIsNext, ResultWasTimed

\* VPR adds the delay of the file it has just read.
LEMMA TimeStep == ASSUME IInv, Time PROVE IInv'
<1>1. PICK d \in PathDelays : Rslt' = With(Rslt, FP, d)
  BY DEF Time
<1>2. /\ DOMAIN Rslt' = DOMAIN Rslt \cup {FP}
      /\ files' = files /\ FP' = FP /\ i' = FP /\ pc' \in {"finish", "retime"}
  BY <1>1 DEF Time, With
<1>3. SoundNet(files[FP])
  BY DEF Time, net
<1>4. FP >= i
  BY DEF Time, IInv, RunIsNext
<1>5. RunsWereTimed'
  <2>1. DOMAIN Rslt' \subseteq 0 .. FP
    BY <1>2, <1>4 DEF IInv, RunsWereTimed, RunIsNext
  <2>2. \A k \in DOMAIN Rslt' : SoundNet(files[k])
    BY <1>2, <1>3 DEF IInv, RunsWereTimed
  <2> QED
    BY <1>2, <2>1, <2>2 DEF IInv, RunsWereTimed, RunIsNext
<1> QED
  BY <1>2, <1>5 DEF IInv, RunIsNext, ResultWasTimed

\* A move writes the directory after the loop counter, which no timed run has.
LEMMA WriteStep ==
  ASSUME IInv, NEW move, Write(move), UNCHANGED <<i, Rslt>>,
         pc' \in {"vpr", "finish"}
  PROVE  IInv'
<1>1. /\ DOMAIN files' = DOMAIN files \cup {i + 1}
      /\ \A k \in DOMAIN files : k # i + 1 => files'[k] = files[k]
      /\ FP' = i + 1
  BY DEF Write, With
<1>2. i \in Nat /\ i + 1 \notin DOMAIN Rslt
  BY DEF IInv, RunsWereTimed, RunIsNext
<1>3. \A k \in DOMAIN Rslt : files'[k] = files[k]
  BY <1>1, <1>2 DEF IInv, RunsWereTimed
<1> QED
  BY <1>1, <1>2, <1>3 DEF IInv, RunsWereTimed, RunIsNext, ResultWasTimed

\* Every action of the driver keeps the invariant.
LEMMA NextIInv == IInv /\ [Next]_vars => IInv'
<1> SUFFICES ASSUME IInv, [Next]_vars PROVE IInv'
  OBVIOUS
<1>1. CASE Time
  BY <1>1, TimeStep
<1>2. CASE TimeFails
  BY <1>2 DEF TimeFails, fields, IInv, RunsWereTimed, RunIsNext, ResultWasTimed
<1>3. CASE MoveBackward
  BY <1>3, WriteStep DEF MoveBackward
<1>4. CASE MoveForwardInstead
  BY <1>4, WriteStep DEF MoveForwardInstead, WriteForward
<1>5. CASE MoveForward
  BY <1>5, WriteStep DEF MoveForward, WriteForward
<1>6. CASE NoMove
  BY <1>6 DEF NoMove, fields, IInv, RunsWereTimed, RunIsNext, ResultWasTimed
<1>7. CASE Finish
  BY <1>7 DEF Finish, fields, IInv, RunsWereTimed, RunIsNext, ResultWasTimed
<1>8. CASE UNCHANGED vars
  BY <1>8 DEF vars, IInv, RunsWereTimed, RunIsNext, ResultWasTimed
<1> QED
  BY <1>1, <1>2, <1>3, <1>4, <1>5, <1>6, <1>7, <1>8 DEF Next

\* And so it holds throughout.
LEMMA Invariance == Spec => []IInv
BY InitIInv, NextIInv, PTL DEF Spec

-----------------------------------------------------------------------------
\* RsltPrint (SR.cpp) returns the fastest of the runs RsltExtract has read, and
\* the netlist in that run's directory is still the one VPR timed: no later
\* move, and no failed last one, has been written over it.
THEOREM ResultTimed == Spec => []ResultWasTimed
<1>1. IInv => ResultWasTimed
  BY DEF IInv
<1> QED
  BY <1>1, Invariance, PTL

\* Each delay the program keeps is that of the netlist its run directory holds,
\* at every moment and not only at the end.
THEOREM DelaysAreCurrent == Spec => []RunsWereTimed
<1>1. IInv => RunsWereTimed
  BY DEF IInv
<1> QED
  BY <1>1, Invariance, PTL
-----------------------------------------------------------------------------
(***************************************************************************)
(* What the rewriting writes.  P are the pieces that names are made of.    *)
(***************************************************************************)
\* What the rewriting appends to names is among the pieces.
HasSuffixes(P) == {"new", "1", "2", "3", "4"} \subseteq P

\* The names of these pieces.
NamesOf(P) == Seq(P) \ {<<>>}

\* What the fields of a line are.
LEMMA LineFields ==
  ASSUME NEW M, NEW l \in Line(M)
  PROVE  /\ l.kind \in {"inputs", "outputs", "latch", "names"}
         /\ l.toks \in Seq(M) /\ l.glued \in BOOLEAN
         /\ Len(l.toks) \in Nat /\ DOMAIN l.toks = 1 .. Len(l.toks)
         /\ \A k \in 1 .. Len(l.toks) : l.toks[k] \in M
         /\ ToSet(l.toks) \subseteq M
         /\ l.kind = "latch" => Len(l.toks) = 2 /\ ~l.glued
<1>1. l.toks \in Seq(M) BY DEF Line
<1>2. DOMAIN l.toks = 1 .. Len(l.toks) /\ Len(l.toks) \in Nat
      /\ \A k \in 1 .. Len(l.toks) : l.toks[k] \in M
  BY <1>1
<1> QED BY <1>1, <1>2 DEF Line, ToSet

\* What has been chosen is a sequence of members that were to be.
LEMMA ChosenMembers ==
  ASSUME NEW T, NEW s \in Seq(T), NEW S
  PROVE  /\ Chosen(s, S) \in Seq(T \cap S)
         /\ ToSet(Chosen(s, S)) \subseteq ToSet(s) \cap S
<1> DEFINE n == Len(s)
           c == [k \in 1 .. n |-> IF s[k] \in S THEN <<s[k]>> ELSE <<>>]
           M == ToSet(s) \cap S
<1>1. n \in Nat /\ DOMAIN s = 1 .. n /\ \A k \in 1 .. n : s[k] \in T OBVIOUS
<1>2. M \subseteq T \cap S /\ \A k \in 1 .. n : s[k] \in S => s[k] \in M
  BY <1>1 DEF ToSet
<1> HIDE DEF M, n
<1>3. c \in [1 .. n -> Seq(M)] BY <1>2
<1>4. Chosen(s, S) = FlattenSeq(c) BY <1>1 DEF Chosen
<1> HIDE DEF c
<1> DEFINE f == FlattenSeq(c)
<1>5. f \in Seq(M) BY <1>1, <1>3, FlattenMembers DEF Gathers
<1> HIDE DEF f
<1>6. f \in Seq(T \cap S) BY <1>2, <1>5
<1>7. ToSet(f) \subseteq M BY <1>5 DEF ToSet
<1> QED BY <1>4, <1>6, <1>7 DEF f, M

\* What lines of several lines are one after the other.
LEMMA FlattenedLines ==
  ASSUME NEW S, NEW n \in Nat, NEW seqs \in [1 .. n -> Seq(S)]
  PROVE  FlattenSeq(seqs) \in Seq(S)
BY FlattenMembers DEF Gathers

\* The names the code makes by appending are names.
LEMMA NewNames ==
  ASSUME NEW P, HasSuffixes(P), NEW x \in Seq(P)
  PROVE  /\ New(x) \in NamesOf(P)
         /\ \A k \in 1 .. 4 : NewK(x, k) \in NamesOf(P)
<1>1. {"new", "1", "2", "3", "4"} \subseteq P BY DEF HasSuffixes
<1>2. New(x) \in Seq(P) /\ Len(New(x)) = Len(x) + 1 BY <1>1 DEF New
<1>3. ASSUME NEW k \in 1 .. 4 PROVE NewK(x, k) \in NamesOf(P)
  <2>1. <<"1", "2", "3", "4">>[k] \in P BY <1>1
  <2> DEFINE t == <<"new", <<"1", "2", "3", "4">>[k]>>
  <2>2. t \in Seq(P) /\ Len(t) = 2 BY <1>1, <2>1
  <2>3. NewK(x, k) = x \o t BY DEF NewK
  <2> HIDE DEF t
  <2>4. IsConcat(P, x, t, x \o t) BY <2>2, Concatenated
  <2> DEFINE y == x \o t
  <2>5. Len(x) \in Nat BY <1>2
  <2> HIDE DEF y
  <2>6. y \in Seq(P) /\ Len(y) = Len(x) + 2 BY <2>2, <2>4 DEF IsConcat, y
  <2>7. y # <<>> BY <2>5, <2>6
  <2> QED BY <2>3, <2>6, <2>7 DEF y, NamesOf
<1> QED BY <1>2, <1>3 DEF NamesOf

\* A loop over tokens that writes names leaves a line a line, of its kind and
\* length.
LEMMA Substituted ==
  ASSUME NEW M, NEW l \in Line(M), NEW m, \A y \in DOMAIN m : m[y] \in M
  PROVE  /\ Substitute(l, m) \in Line(M)
         /\ Substitute(l, m).kind = l.kind /\ Substitute(l, m).glued = l.glued
         /\ Len(Substitute(l, m).toks) = Len(l.toks)
<1> DEFINE y(j) == IF j \in Plain(l) /\ l.toks[j] \in DOMAIN m THEN m[l.toks[j]]
                   ELSE l.toks[j]
           t == [j \in 1 .. Len(l.toks) |-> y(j)]
<1>1. Substitute(l, m) = [l EXCEPT !.toks = t] BY LineFields DEF Substitute
<1>2. t \in Seq(M) /\ Len(t) = Len(l.toks)
  <2>1. Len(l.toks) \in Nat BY LineFields
  <2>2. \A j \in 1 .. Len(l.toks) : y(j) \in M BY LineFields
  <2> HIDE DEF y
  <2> QED BY <2>1, <2>2
<1> HIDE DEF t
<1> QED BY <1>1, <1>2 DEF Line

\* So is a line that is ended early.
LEMMA Cut ==
  ASSUME NEW M, NEW t \in Seq(M), NEW k \in 1 .. Len(t), NEW x \in M
  PROVE  CutAt(t, k, x) \in Seq(M)
<1>1. SubSeq(t, 1, k - 1) \in Seq(M)
  <2>1. Len(t) \in Nat /\ 1 \in Nat /\ k - 1 \in 0 .. Len(t) OBVIOUS
  <2>2. \A j \in 1 .. k - 1 : t[j] \in M OBVIOUS
  <2> QED BY <2>1, <2>2
<1> QED BY <1>1 DEF CutAt

\* A set of places has a first one.
LEMMA FirstOfPlaces ==
  ASSUME NEW S, S \subseteq Nat, S # {}
  PROVE  Min(S) \in S
<1>1. PICK m \in S : \A n \in S : m <= n BY LeastNatural
<1>2. Min(S) = m BY <1>1, Smallest
<1> QED BY <1>2

\* A bounded one also a last one.
LEMMA LastOfPlaces ==
  ASSUME NEW n \in Nat, NEW S, S \subseteq 1 .. n, S # {}
  PROVE  Max(S) \in S
<1> DEFINE f == [k \in S |-> -k]
<1>1. IsFiniteSet(S)
  <2>1. IsFiniteSet(1 .. n) BY FS_Interval
  <2> QED BY <2>1, FS_Subset
<1>2. f \in [S -> Int] OBVIOUS
<1>3. PICK m \in S : \A k \in S : f[m] <= f[k]
  <2> HIDE DEF f
  <2> QED BY <1>1, <1>2, LeastValue
<1>4. \A k \in S : k <= m BY <1>3
<1>5. Max(S) = m BY <1>4, Largest
<1> QED BY <1>5

\* A line that has been made of a line, or anew, is one.
LEMMA NewLines ==
  ASSUME NEW M, NEW x \in M, NEW y \in M
  PROVE  Latch(x, y) \in Line(M)
<1>1. <<x, y>> \in Seq(M) /\ Len(<<x, y>>) = 2 OBVIOUS
<1> QED BY <1>1 DEF Latch, Line

\* A line of LUT tokens is a line.
LEMMA NewLuts ==
  ASSUME NEW M, NEW t \in Seq(M), NEW g \in BOOLEAN
  PROVE  Lut(t, g) \in Line(M)
BY DEF Lut, Line

\* The tokens but the last.
LEMMA InFront ==
  ASSUME NEW M, NEW t \in Seq(M)
  PROVE  Front(t) \in Seq(M)
<1>1. CASE t = <<>>
  <2>1. Len(t) - 1 = -1 BY <1>1
  <2>2. SubSeq(t, 1, -1) = <<>> BY <1>1
  <2> QED BY <2>1, <2>2 DEF Front
<1>2. CASE t # <<>>
  <2>1. Len(t) \in Nat /\ Len(t) - 1 \in 0 .. Len(t) BY <1>2
  <2>2. \A j \in 1 .. Len(t) - 1 : t[j] \in M OBVIOUS
  <2> QED BY <2>1, <2>2 DEF Front
<1> QED BY <1>1, <1>2

\* The lines of a kind are lines of the netlist.
LEMMA LinesOfKind ==
  ASSUME NEW M, NEW n \in Seq(Line(M)), NEW kind
  PROVE  /\ OfKind(n, kind) \in Seq(Line(M))
         /\ DOMAIN OfKind(n, kind) = 1 .. Len(OfKind(n, kind))
         /\ Len(OfKind(n, kind)) \in Nat
         /\ \A k \in DOMAIN OfKind(n, kind) :
              /\ OfKind(n, kind)[k] \in Line(M) /\ OfKind(n, kind)[k].kind = kind
              /\ OfKind(n, kind)[k] \in ToSet(n)
<1> DEFINE S == {l \in ToSet(n) : l.kind = kind}
           o == OfKind(n, kind)
           R == Line(M)
<1>1. o = Chosen(n, S) BY DEF OfKind
<1> HIDE DEF o, R, S
<1>2. o \in Seq(R \cap S) BY <1>1, ChosenMembers DEF R
<1>3. o \in Seq(R) /\ DOMAIN o = 1 .. Len(o) /\ Len(o) \in Nat
      /\ \A k \in 1 .. Len(o) : o[k] \in R /\ o[k] \in S
  BY <1>2
<1> QED BY <1>3 DEF o, R, S

\* BlifBackwardModify takes the inputs of a LUT that some line mentions from
\* lines, or leaves them empty.
LEMMA LutInputsAre ==
  ASSUME NEW P, NEW n \in Seq(Line(NamesOf(P))), NEW L,
         \E k \in DOMAIN LutsOf(n) : Mentions(LutsOf(n)[k], L)
  PROVE  LutInputs(n, L) \in Seq(Seq(P))
<1> DEFINE luts == LutsOf(n)
           named == {k \in DOMAIN luts : Mentions(luts[k], L)}
           own == {k \in named : OutputOf(luts[k]) = L /\ Len(InputPins(luts[k])) \in 2 .. 4}
           N == NamesOf(P)
<1>1. /\ DOMAIN luts = 1 .. Len(luts) /\ Len(luts) \in Nat
      /\ \A k \in DOMAIN luts : luts[k] \in Line(N)
  BY LinesOfKind DEF LutsOf
<1>2. \A k \in DOMAIN luts : InputPins(luts[k]) \in Seq(N)
  BY <1>1, LineFields, InFront DEF InputPins
<1>3. LutInputs(n, L) = IF own # {} THEN InputPins(luts[Min(own)])
                        ELSE [k \in DOMAIN InputPins(luts[Max(named)]) |-> <<>>]
  BY DEF LutInputs
<1> HIDE DEF luts
<1>4. CASE own # {}
  <2>1. Min(own) \in own
    <3>1. own \subseteq Nat BY <1>1
    <3> HIDE DEF own
    <3> QED BY <1>4, <3>1, FirstOfPlaces
  <2>2. Min(own) \in DOMAIN luts BY <2>1
  <2> HIDE DEF own, N
  <2>3. LutInputs(n, L) \in Seq(N) BY <1>2, <1>3, <1>4, <2>2
  <2>4. N \subseteq Seq(P) BY DEF N, NamesOf
  <2> QED BY <2>3, <2>4
<1>5. CASE own = {}
  <2>1. named # {} BY DEF luts
  <2>2. Max(named) \in named
    <3>1. named \subseteq 1 .. Len(luts) BY <1>1
    <3> HIDE DEF named
    <3> QED BY <1>1, <2>1, <3>1, LastOfPlaces
  <2>3. Max(named) \in DOMAIN luts BY <2>2
  <2> HIDE DEF own, named, N
  <2> DEFINE t == InputPins(luts[Max(named)])
  <2>4. t \in Seq(N) BY <1>2, <2>3
  <2>5. LutInputs(n, L) = [k \in DOMAIN t |-> <<>>] BY <1>3, <1>5
  <2> HIDE DEF t
  <2>6. DOMAIN t = 1 .. Len(t) /\ Len(t) \in Nat BY <2>4
  <2>7. <<>> \in Seq(P) OBVIOUS
  <2>8. [k \in 1 .. Len(t) |-> <<>>] \in Seq(Seq(P)) BY <2>6, <2>7
  <2> QED BY <2>5, <2>6, <2>8
<1> QED BY <1>4, <1>5

\* What a backward move is made with: flip-flop b, LUT L and the inputs of L.
Moves(P, b, L, x) ==
  /\ b \in NamesOf(P) /\ L \in Seq(P)
  /\ x \in Seq(Seq(P)) /\ Len(x) \in 2 .. 4

\* The latch lines of the backward move, in each branch.
LEMMA BackwardLatchIs ==
  ASSUME NEW P, HasSuffixes(P), NEW b, NEW L, NEW x, Moves(P, b, L, x),
         NEW l \in Line(NamesOf(P))
  PROVE  BackwardLatch(l, b, L, x) \in Seq(Line(NamesOf(P)))
<1> DEFINE N == NamesOf(P)
           named == {k \in DOMAIN x : Mentions(l, x[k])}
           k1 == Min(named)
           s == Substitute(l, [y \in {x[k1]} |-> NewK(L, k1)])
           c == NewLatches(b, L, Len(x))
<1>1. /\ L \in Seq(P) /\ b \in Seq(P) /\ Len(x) \in 2 .. 4 /\ DOMAIN x = 1 .. Len(x)
  BY DEF Moves, NamesOf
<1>2. \A k \in 1 .. 4 : NewK(L, k) \in N /\ NewK(b, k) \in N BY <1>1, NewNames
<1> HIDE DEF N
<1>3. c \in Seq(Line(N))
  <2>1. \A k \in 1 .. Len(x) : Latch(NewK(L, k), NewK(b, k)) \in Line(N)
    <3>1. \A k \in 1 .. Len(x) : k \in 1 .. 4 BY <1>1
    <3> QED BY <1>2, <3>1, NewLines
  <2>2. c = [k \in 1 .. Len(x) |-> Latch(NewK(L, k), NewK(b, k))] BY DEF NewLatches
  <2> HIDE DEF c
  <2>3. Len(x) \in Nat BY <1>1
  <2> QED BY <2>1, <2>2, <2>3
<1>4. named # {} => s \in Line(N)
  <2>1. ASSUME named # {} PROVE NewK(L, k1) \in N
    <3>1. named \subseteq Nat /\ \A k \in named : k \in 1 .. 4 BY <1>1
    <3> HIDE DEF named
    <3>2. k1 \in named BY <2>1, <3>1, FirstOfPlaces
    <3> QED BY <1>2, <3>1, <3>2
  <2> HIDE DEF named, k1
  <2> QED BY <2>1, Substituted DEF N
<1>5. BackwardLatch(l, b, L, x) =
        IF Mentions(l, b) /\ Mentions(l, L) THEN c ELSE IF named = {} THEN <<l>> ELSE <<s>>
  BY DEF BackwardLatch
<1> HIDE DEF named, s, c
<1>6. l \in Line(N) BY DEF N
<1> QED BY <1>3, <1>4, <1>5, <1>6 DEF N

\* The LUT moved over: its line ends at the first token with L as a prefix.
LEMMA MovedLutIs ==
  ASSUME NEW P, HasSuffixes(P), NEW b, NEW L, NEW x, Moves(P, b, L, x),
         NEW l \in Line(NamesOf(P))
  PROVE  MovedLut(l, b, L, x) \in Line(NamesOf(P))
<1> DEFINE N == NamesOf(P)
           At(y) == {k \in DOMAIN x : x[k] = y}
           m == [y \in ToSet(x) |-> NewK(b, Min(At(y)))]
           s == Substitute(l, m)
           outs == {k \in DOMAIN l.toks : /\ IsPrefix(L, l.toks[k])
                                          /\ ~(k \in Plain(l) /\ l.toks[k] \in ToSet(x))}
           c == CutAt(s.toks, Min(outs), b)
<1>1. b \in N /\ b \in Seq(P) /\ Len(x) \in 2 .. 4 /\ DOMAIN x = 1 .. Len(x)
  BY DEF Moves, NamesOf
<1>2. \A k \in 1 .. 4 : NewK(b, k) \in N BY <1>1, NewNames
<1>3. \A y \in ToSet(x) : m[y] \in N
  <2>1. ASSUME NEW y \in ToSet(x) PROVE NewK(b, Min(At(y))) \in N
    <3>1. At(y) # {} /\ At(y) \subseteq Nat /\ \A k \in At(y) : k \in 1 .. 4
      BY <1>1 DEF ToSet
    <3> HIDE DEF At
    <3>2. Min(At(y)) \in At(y) BY <3>1, FirstOfPlaces
    <3> HIDE DEF N
    <3> QED BY <1>2, <3>1, <3>2
  <2> HIDE DEF N, At
  <2> QED BY <2>1
<1>4. s \in Line(N) /\ Len(s.toks) = Len(l.toks)
  <2>1. DOMAIN m = ToSet(x) OBVIOUS
  <2> HIDE DEF m
  <2> QED BY <1>3, <2>1, Substituted DEF N
<1>5. outs # {} => Lut(c, TRUE) \in Line(N)
  <2> SUFFICES ASSUME outs # {} PROVE Lut(c, TRUE) \in Line(N) OBVIOUS
  <2>1. outs \subseteq Nat /\ outs \subseteq 1 .. Len(l.toks) BY LineFields
  <2> HIDE DEF outs
  <2>2. Min(outs) \in outs BY <2>1, FirstOfPlaces
  <2> HIDE DEF s
  <2>3. s.toks \in Seq(N) /\ Min(outs) \in 1 .. Len(s.toks) BY <1>4, <2>1, <2>2, LineFields
  <2> HIDE DEF N
  <2>4. c \in Seq(N) BY <1>1, <2>3, Cut
  <2> QED BY <2>4, NewLuts
<1>6. MovedLut(l, b, L, x) = IF outs = {} THEN s ELSE Lut(c, TRUE) BY DEF MovedLut
<1> HIDE DEF outs, s, c
<1> QED BY <1>4, <1>5, <1>6 DEF N

\* The groups are groups of inputs.
LEMMA GroupsAre ==
  ASSUME NEW k \in 2 .. 4
  PROVE  /\ DOMAIN Groups(k) \subseteq Nat
         /\ \A g \in DOMAIN Groups(k) : Groups(k)[g] \subseteq 1 .. k
<1>1. CASE k = 2
  <2>1. Groups(k) = <<{1, 2}>> BY <1>1 DEF Groups
  <2> QED BY <1>1, <2>1
<1>2. CASE k = 3
  <2>1. Groups(k) = <<{1, 2, 3}, {1, 2}, {1, 3}, {2, 3}>> BY <1>2 DEF Groups
  <2> QED BY <1>2, <2>1
<1>3. CASE k = 4
  <2>1. Groups(k) = <<{1, 2, 3, 4}, {1, 2, 3}, {1, 2, 4}, {1, 3, 4}, {2, 3, 4},
                      {1, 2}, {1, 3}, {2, 3}>>
    BY <1>3 DEF Groups
  <2> QED BY <1>3, <2>1
<1> QED BY <1>1, <1>2, <1>3

\* A LUT that reads several of the inputs.
LEMMA RenamedGroupIs ==
  ASSUME NEW P, HasSuffixes(P), NEW b, NEW L, NEW x, Moves(P, b, L, x),
         NEW l \in Line(NamesOf(P)), NEW group \in SUBSET (1 .. Len(x))
  PROVE  RenamedGroup(l, b, L, x, group) \in Line(NamesOf(P))
<1> DEFINE N == NamesOf(P)
           free == {k \in group : b # x[Guard(Len(x), group, k)]}
           At(y) == {k \in free : x[k] = y}
           m == [y \in {x[k] : k \in free} |-> NewK(L, Min(At(y)))]
<1>1. L \in Seq(P) /\ Len(x) \in 2 .. 4 BY DEF Moves
<1>2. \A k \in 1 .. 4 : NewK(L, k) \in N BY <1>1, NewNames
<1>3. \A k \in free : k \in 1 .. 4 BY <1>1
<1>4. RenamedGroup(l, b, L, x, group) = Substitute(l, m) BY DEF RenamedGroup
<1> HIDE DEF free
<1>5. \A y \in DOMAIN m : m[y] \in N
  <2>1. ASSUME NEW k \in free PROVE NewK(L, Min(At(x[k]))) \in N
    <3>1. At(x[k]) # {} /\ At(x[k]) \subseteq Nat /\ At(x[k]) \subseteq free BY <1>3
    <3> DEFINE A == At(x[k])
    <3> HIDE DEF A
    <3>2. Min(A) \in A BY <3>1, FirstOfPlaces DEF A
    <3>3. Min(A) \in free BY <3>1, <3>2 DEF A
    <3> HIDE DEF N, At
    <3> QED BY <1>2, <1>3, <3>3 DEF A
  <2> HIDE DEF N, At
  <2> QED BY <2>1
<1> HIDE DEF m
<1> QED BY <1>4, <1>5, Substituted

\* A LUT that reads or drives one of them.
LEMMA RenamedOneIs ==
  ASSUME NEW P, HasSuffixes(P), NEW b, NEW L, NEW x, Moves(P, b, L, x),
         NEW l \in Line(NamesOf(P)), NEW k \in DOMAIN x
  PROVE  RenamedOne(l, b, L, x, k) \in Line(NamesOf(P))
<1> DEFINE N == NamesOf(P)
           m == [y \in {x[k]} \ {b} |-> NewK(L, k)]
           s == Substitute(l, m)
           read == IF l.glued THEN Front(s.toks) ELSE s.toks
           drives == b # x[k] /\ x[k] = (IF l.glued THEN OutputOf(l) ELSE <<>>)
           c == Append(read, NewK(L, k))
<1>1. L \in Seq(P) /\ k \in 1 .. 4 BY DEF Moves
<1>2. NewK(L, k) \in N BY <1>1, NewNames
<1>3. s \in Line(N)
  <2>1. \A y \in DOMAIN m : m[y] \in N BY <1>2
  <2> HIDE DEF m
  <2> QED BY <2>1, Substituted
<1>4. read \in Seq(N)
  <2> HIDE DEF s, N
  <2> QED BY <1>3, InFront, LineFields
<1>5. Lut(c, FALSE) \in Line(N)
  <2> HIDE DEF read, N
  <2>1. c \in Seq(N) BY <1>2, <1>4
  <2> QED BY <2>1, NewLuts
<1>6. RenamedOne(l, b, L, x, k) = IF drives THEN Lut(c, FALSE) ELSE s BY DEF RenamedOne
<1> HIDE DEF drives, c, s
<1> QED BY <1>3, <1>5, <1>6 DEF N

\* The chain of the branches for a LUT line.
LEMMA BackwardLutIs ==
  ASSUME NEW P, HasSuffixes(P), NEW b, NEW L, NEW x, Moves(P, b, L, x),
         NEW l \in Line(NamesOf(P))
  PROVE  BackwardLut(l, b, L, x) \in Line(NamesOf(P))
<1> DEFINE N == NamesOf(P)
           groups == Groups(Len(x))
           read == {g \in DOMAIN groups : \A k \in groups[g] : Mentions(l, x[k])}
           ones == {k \in DOMAIN x : IF Len(x) = 3 THEN Mentions(l, x[k])
                                                  ELSE Includes(l, x[k])}
           all == (\A k \in DOMAIN x : Mentions(l, x[k])) /\ Includes(l, L)
           m == [y \in {L} |-> b]
<1>1. BackwardLut(l, b, L, x) =
        IF all THEN MovedLut(l, b, L, x)
        ELSE IF read # {} THEN RenamedGroup(l, b, L, x, groups[Min(read)])
        ELSE IF ones # {} THEN RenamedOne(l, b, L, x, Min(ones))
        ELSE Substitute(l, m)
  BY DEF BackwardLut
<1>2. MovedLut(l, b, L, x) \in Line(N) BY MovedLutIs
<1>3. ASSUME read # {} PROVE RenamedGroup(l, b, L, x, groups[Min(read)]) \in Line(N)
  <2>1. /\ DOMAIN groups \subseteq Nat
        /\ \A g \in DOMAIN groups : groups[g] \subseteq 1 .. Len(x)
    BY GroupsAre DEF Moves
  <2>2. read \subseteq DOMAIN groups OBVIOUS
  <2> HIDE DEF groups, read
  <2>3. Min(read) \in read BY <1>3, <2>1, <2>2, FirstOfPlaces
  <2>4. groups[Min(read)] \in SUBSET (1 .. Len(x)) BY <2>1, <2>2, <2>3
  <2> QED BY <2>4, RenamedGroupIs
<1>4. ASSUME ones # {} PROVE RenamedOne(l, b, L, x, Min(ones)) \in Line(N)
  <2>1. ones \subseteq DOMAIN x /\ ones \subseteq Nat BY DEF Moves
  <2> HIDE DEF ones
  <2>2. Min(ones) \in ones BY <1>4, <2>1, FirstOfPlaces
  <2> QED BY <2>1, <2>2, RenamedOneIs
<1>5. Substitute(l, m) \in Line(N)
  <2>1. \A y \in DOMAIN m : m[y] \in N BY DEF Moves
  <2> HIDE DEF m
  <2> QED BY <2>1, Substituted
<1> HIDE DEF all, read, ones, groups, m
<1> QED BY <1>1, <1>2, <1>3, <1>4, <1>5 DEF N

\* made is what Backward makes of the lines of n.
BackwardMade(n, b, L, made) ==
  LET x == LutInputs(n, L) IN
  \A k \in 1 .. Len(n) : LET l == n[k] IN
    /\ l.kind = "latch" => made[k] = BackwardLatch(l, b, L, x)
    /\ l.kind = "names" => made[k] = <<BackwardLut(l, b, L, x)>>
    /\ l.kind \in {"inputs", "outputs"} => made[k] = <<l>>

\* What the backward move writes is what it makes of the lines, one after the
\* other.
LEMMA BackwardText ==
  ASSUME NEW P, HasSuffixes(P), NEW n \in Seq(Line(NamesOf(P))),
         NEW b \in NamesOf(P), NEW L \in Seq(P), LutInputs(n, L) \in Seq(Seq(P)),
         Len(LutInputs(n, L)) \in 2 .. 4
  PROVE  \E made \in [1 .. Len(n) -> Seq(Line(NamesOf(P)))] :
           /\ BackwardMade(n, b, L, made)
           /\ Backward(n, b, L).ok => /\ MayMoveBackward(n, LutInputs(n, L))
                                      /\ Backward(n, b, L).net = FlattenSeq(made)
           /\ ~Backward(n, b, L).ok => Backward(n, b, L).net = <<>>
<1> DEFINE N == NamesOf(P)
           x == LutInputs(n, L)
           Rule(l) == CASE l.kind = "latch" -> BackwardLatch(l, b, L, x)
                        [] l.kind = "names" -> <<BackwardLut(l, b, L, x)>>
                        [] OTHER -> <<l>>
           made == [k \in DOMAIN n |-> Rule(n[k])]
<1>1. /\ Backward(n, b, L).ok => /\ MayMoveBackward(n, x)
                                 /\ Backward(n, b, L).net = FlattenSeq(made)
      /\ ~Backward(n, b, L).ok => Backward(n, b, L).net = <<>>
  BY DEF Backward, Failed, Rewritten
<1> HIDE DEF x
<1>2. Moves(P, b, L, x) BY DEF Moves, x
<1>3. ASSUME NEW l \in Line(N) PROVE Rule(l) \in Seq(Line(N))
  <2>1. BackwardLatch(l, b, L, x) \in Seq(Line(N)) BY <1>2, BackwardLatchIs
  <2>2. BackwardLut(l, b, L, x) \in Line(N) BY <1>2, BackwardLutIs
  <2> HIDE DEF N
  <2> QED BY <2>1, <2>2
<1>4. made \in [1 .. Len(n) -> Seq(Line(N))]
  <2>1. DOMAIN n = 1 .. Len(n) /\ \A k \in 1 .. Len(n) : n[k] \in Line(N) OBVIOUS
  <2>2. made = [k \in 1 .. Len(n) |-> Rule(n[k])] BY <2>1
  <2> HIDE DEF Rule, N, made
  <2> QED BY <1>3, <2>1, <2>2
<1>5. BackwardMade(n, b, L, made)
  <2>1. DOMAIN n = 1 .. Len(n) OBVIOUS
  <2>2. \A k \in 1 .. Len(n) : made[k] = Rule(n[k]) BY <2>1
  <2> HIDE DEF made
  <2> QED BY <2>2 DEF BackwardMade, x
<1> HIDE DEF made
<1> QED BY <1>1, <1>4, <1>5 DEF N, x

\* The netlist that a backward move writes.
LEMMA BackwardNetlist ==
  ASSUME NEW P, HasSuffixes(P), NEW n \in Seq(Line(NamesOf(P))),
         NEW b \in NamesOf(P), NEW L \in Seq(P),
         \E k \in DOMAIN LutsOf(n) : Mentions(LutsOf(n)[k], L)
  PROVE  Backward(n, b, L).net \in Seq(Line(NamesOf(P)))
<1> DEFINE R == Line(NamesOf(P))
           x == LutInputs(n, L)
<1>1. x \in Seq(Seq(P)) BY LutInputsAre
<1>2. <<>> \in Seq(R) OBVIOUS
<1>3. CASE Len(x) \in 2 .. 4
  <2>1. PICK made \in [1 .. Len(n) -> Seq(R)] :
          /\ Backward(n, b, L).ok => Backward(n, b, L).net = FlattenSeq(made)
          /\ ~Backward(n, b, L).ok => Backward(n, b, L).net = <<>>
    BY <1>1, <1>3, BackwardText
  <2>2. Len(n) \in Nat OBVIOUS
  <2> HIDE DEF R
  <2>3. FlattenSeq(made) \in Seq(R) BY <2>2, FlattenedLines
  <2> QED BY <1>2, <2>1, <2>3 DEF R
<1>4. CASE Len(x) \notin 2 .. 4
  <2>1. Backward(n, b, L).net = <<>> BY <1>4 DEF Backward, NothingWritten
  <2> QED BY <1>2, <2>1
<1> QED BY <1>3, <1>4

-----------------------------------------------------------------------------
\* The shared inputs are names on the lines they are taken from.
LEMMA SharedInputsAre ==
  ASSUME NEW N, NEW n \in Seq(Line(N)), NEW f, NEW L
  PROVE  SharedInputs(n, f, L) \in Seq(N)
<1> DEFINE luts == LutsOf(n)
           S == {l \in ToSet(luts) : Mentions(l, f) /\ l.glued /\ OutputOf(l) = L}
           own == Chosen(luts, S)
           toks == FlattenSeq([k \in DOMAIN own |-> own[k].toks])
           R == Line(N)
<1>1. luts \in Seq(R) BY LinesOfKind DEF LutsOf
<1> HIDE DEF luts, S, R
<1>2. own \in Seq(R)
  <2>1. own \in Seq(R \cap S) BY <1>1, ChosenMembers
  <2> HIDE DEF own
  <2> QED BY <2>1
<1> HIDE DEF own
<1>3. DOMAIN own = 1 .. Len(own) /\ Len(own) \in Nat
      /\ \A k \in 1 .. Len(own) : own[k].toks \in Seq(N)
  <2>1. DOMAIN own = 1 .. Len(own) /\ Len(own) \in Nat
        /\ \A k \in 1 .. Len(own) : own[k] \in R
    BY <1>2
  <2> QED BY <2>1, LineFields DEF R
<1>4. toks \in Seq(N)
  <2>1. [k \in DOMAIN own |-> own[k].toks] \in [1 .. Len(own) -> Seq(N)] BY <1>3
  <2> QED BY <1>3, <2>1, FlattenedLines
<1>5. SharedInputs(n, f, L) = Chosen(toks, ToSet(toks) \ {f, L})
  BY DEF SharedInputs, own, S, luts
<1> HIDE DEF toks
<1>6. Chosen(toks, ToSet(toks) \ {f, L}) \in Seq(N \cap (ToSet(toks) \ {f, L}))
  BY <1>4, ChosenMembers
<1> QED BY <1>5, <1>6

\* The input of a latch is the first of two names; without one it is empty.
LEMMA LatchInputIs ==
  ASSUME NEW P, NEW n \in Seq(Line(NamesOf(P))), NEW y, NEW before
  PROVE  LatchInput(n, y, before) \in Seq(P)
<1> DEFINE latches == OfKind(n, "latch")
           found == {k \in DOMAIN latches : /\ Mentions(latches[k], y)
                                            /\ \A z \in before : ~Mentions(latches[k], z)}
           N == NamesOf(P)
<1>1. /\ DOMAIN latches = 1 .. Len(latches) /\ Len(latches) \in Nat
      /\ \A k \in DOMAIN latches : latches[k] \in Line(N) /\ latches[k].kind = "latch"
  BY LinesOfKind
<1>2. LatchInput(n, y, before) = IF found = {} THEN <<>> ELSE latches[Max(found)].toks[1]
  BY DEF LatchInput
<1> HIDE DEF latches
<1>3. ASSUME found # {} PROVE latches[Max(found)].toks[1] \in N
  <2>1. found \subseteq 1 .. Len(latches) BY <1>1
  <2> HIDE DEF found, N
  <2>2. Max(found) \in DOMAIN latches BY <1>1, <1>3, <2>1, LastOfPlaces
  <2> DEFINE l == latches[Max(found)]
  <2>3. l \in Line(N) /\ l.kind = "latch" BY <1>1, <2>2
  <2> HIDE DEF l
  <2>4. Len(l.toks) = 2 /\ \A k \in 1 .. Len(l.toks) : l.toks[k] \in N
    BY <2>3, LineFields
  <2> QED BY <2>4 DEF l
<1>4. <<>> \in Seq(P) OBVIOUS
<1> HIDE DEF found
<1> QED BY <1>2, <1>3, <1>4 DEF N, NamesOf

\* A line as it is read again has no empty names.
LEMMA WrittenIs ==
  ASSUME NEW P, NEW l \in Line(Seq(P)), l.kind # "latch"
  PROVE  Written(l) \in Line(NamesOf(P))
<1> DEFINE t == l.toks
           S == ToSet(t) \ {<<>>}
           c == Chosen(t, S)
<1>1. t \in Seq(Seq(P)) BY LineFields
<1>2. c \in Seq(NamesOf(P))
  <2> HIDE DEF t
  <2>1. c \in Seq(Seq(P) \cap S) BY <1>1, ChosenMembers
  <2>2. Seq(P) \cap S \subseteq NamesOf(P) BY DEF NamesOf
  <2> HIDE DEF c
  <2> QED BY <2>1, <2>2
<1>3. Written(l) = [l EXCEPT !.toks = c] BY DEF Written
<1> HIDE DEF c
<1> QED BY <1>2, <1>3 DEF Line

\* What a forward move substitutes: for f and the shared inputs some names.
Substitutes(P, f, s, in) ==
  /\ s \in Seq(Seq(P))
  /\ DOMAIN in = {f} \cup ToSet(s)
  /\ \A y \in DOMAIN in : in[y] \in Seq(P)

\* The latch lines of the forward move.
LEMMA ForwardLatchIs ==
  ASSUME NEW P, HasSuffixes(P), NEW f \in Seq(P), NEW s,
         NEW l \in Line(NamesOf(P)), l.kind = "latch"
  PROVE  ForwardLatch(l, f, s) \in Seq(Line(NamesOf(P)))
<1>1. l.toks[1] \in Seq(P)
  <2>1. Len(l.toks) = 2 /\ \A k \in 1 .. Len(l.toks) : l.toks[k] \in NamesOf(P)
    BY LineFields
  <2> QED BY <2>1 DEF NamesOf
<1>2. New(l.toks[1]) \in NamesOf(P) /\ New(f) \in NamesOf(P) BY <1>1, NewNames
<1>3. Latch(New(l.toks[1]), New(f)) \in Line(NamesOf(P)) BY <1>2, NewLines
<1> DEFINE R == Line(NamesOf(P))
           a == Latch(New(l.toks[1]), New(f))
<1>4. ForwardLatch(l, f, s) \in {<<a>>, <<>>, <<l>>} BY DEF ForwardLatch
<1>5. a \in R /\ l \in R BY <1>3
<1> HIDE DEF a, R
<1>6. <<a>> \in Seq(R) /\ <<>> \in Seq(R) /\ <<l>> \in Seq(R) BY <1>5
<1> QED BY <1>4, <1>6 DEF R

\* The LUT moved over.
LEMMA ForwardLutIs ==
  ASSUME NEW P, HasSuffixes(P), NEW f, NEW L, NEW s, NEW in, Substitutes(P, f, s, in),
         NEW l \in Line(Seq(P)), l.kind = "names"
  PROVE  /\ ForwardLut(l, f, L, in) \in Line(Seq(P))
         /\ ForwardLut(l, f, L, in).kind = "names"
<1> DEFINE M == Seq(P)
           t == Substitute(l, in)
           outs == {k \in Plain(l) : l.toks[k] = L /\ L \notin DOMAIN in}
           c == CutAt(t.toks, Min(outs), New(in[f]))
<1>1. t \in Line(M) /\ t.kind = l.kind /\ Len(t.toks) = Len(l.toks)
  <2> HIDE DEF M
  <2> QED BY Substituted DEF Substitutes, M
<1>2. New(in[f]) \in M
  <2>1. in[f] \in Seq(P) BY DEF Substitutes
  <2> QED BY <2>1, NewNames DEF NamesOf
<1>3. ASSUME outs # {} PROVE Lut(c, TRUE) \in Line(M)
  <2>1. outs \subseteq 1 .. Len(l.toks) /\ outs \subseteq Nat BY LineFields DEF Plain
  <2> HIDE DEF outs, t, M
  <2>2. Min(outs) \in 1 .. Len(t.toks) BY <1>1, <1>3, <2>1, FirstOfPlaces
  <2>3. t.toks \in Seq(M) BY <1>1, LineFields
  <2>4. c \in Seq(M) BY <1>2, <2>2, <2>3, Cut
  <2> QED BY <2>4, NewLuts
<1>4. ForwardLut(l, f, L, in) = IF outs = {} THEN t ELSE Lut(c, TRUE) BY DEF ForwardLut
<1>5. Lut(c, TRUE).kind = "names" BY DEF Lut
<1> HIDE DEF t, outs, c
<1> QED BY <1>1, <1>3, <1>4, <1>5 DEF M

\* All other lines.
LEMMA ForwardOtherIs ==
  ASSUME NEW P, HasSuffixes(P), NEW f \in Seq(P), NEW L, NEW s, NEW in,
         Substitutes(P, f, s, in), NEW l \in Line(Seq(P))
  PROVE  /\ ForwardOther(l, f, L, s, in) \in Line(Seq(P))
         /\ ForwardOther(l, f, L, s, in).kind = l.kind
<1> DEFINE M == Seq(P)
           shared == {k \in DOMAIN s : Mentions(l, s[k])}
           Only(S) == [y \in S |-> in[y]]
           a == [y \in {L} |-> New(f)]
           o == ForwardOther(l, f, L, s, in)
<1>1. \/ o = Substitute(l, in)
      \/ shared # {} /\ o = Substitute(l, Only({s[Min(shared)]}))
      \/ o = Substitute(l, Only({f}))
      \/ o = Substitute(l, a)
      \/ o = l
  BY DEF ForwardOther
<1>2. ASSUME NEW m, \A y \in DOMAIN m : m[y] \in M
      PROVE  Substitute(l, m) \in Line(M) /\ Substitute(l, m).kind = l.kind
  <2> HIDE DEF M
  <2> QED BY <1>2, Substituted DEF M
<1>3. \A y \in DOMAIN in : in[y] \in M BY DEF Substitutes
<1>4. ASSUME shared # {} PROVE s[Min(shared)] \in DOMAIN in
  <2>1. shared \subseteq DOMAIN s /\ shared \subseteq Nat BY DEF Substitutes
  <2> HIDE DEF shared
  <2>2. Min(shared) \in DOMAIN s BY <1>4, <2>1, FirstOfPlaces
  <2> QED BY <2>2 DEF Substitutes, ToSet
<1>5. f \in DOMAIN in BY DEF Substitutes
<1>6. New(f) \in M BY NewNames DEF NamesOf
<1>7. \A S \in SUBSET DOMAIN in :
        DOMAIN Only(S) = S /\ \A y \in S : Only(S)[y] \in M
  BY <1>3
<1>8. DOMAIN a = {L} /\ \A y \in DOMAIN a : a[y] \in M BY <1>6
<1> HIDE DEF shared, Only, a, o, M
<1>9. CASE o = Substitute(l, in) BY <1>2, <1>3, <1>9 DEF M, o
<1>10. CASE shared # {} /\ o = Substitute(l, Only({s[Min(shared)]}))
  <2>1. {s[Min(shared)]} \in SUBSET DOMAIN in BY <1>4, <1>10
  <2> QED BY <1>2, <1>7, <1>10, <2>1 DEF M, o
<1>11. CASE o = Substitute(l, Only({f}))
  <2>1. {f} \in SUBSET DOMAIN in BY <1>5
  <2> QED BY <1>2, <1>7, <1>11, <2>1 DEF M, o
<1>12. CASE o = Substitute(l, a) BY <1>2, <1>8, <1>12 DEF M, o
<1>13. CASE o = l BY <1>13 DEF o
<1> QED BY <1>1, <1>9, <1>10, <1>11, <1>12, <1>13

\* The netlist that a forward move writes.
\* The names that are carried back over the latches, as in Forward.
Carried(n, f, s) ==
  LET first(y) == Min({k \in DOMAIN s : s[k] = y}) IN
  [y \in {f} \cup ToSet(s) |->
     IF y = f THEN LatchInput(n, f, {})
     ELSE LatchInput(n, y, {f} \cup {s[j] : j \in 1 .. first(y) - 1})]

\* They are names or empty, and so are those carried before the latches are read.
LEMMA ForwardSubstitutes ==
  ASSUME NEW P, NEW n \in Seq(Line(NamesOf(P))), NEW f \in Seq(P), NEW L
  PROVE  LET s == SharedInputs(n, f, L)
             in == Carried(n, f, s)
         IN  /\ Substitutes(P, f, s, in)
             /\ Substitutes(P, f, s, [y \in DOMAIN in |-> IF y = f THEN in[f] ELSE <<>>])
<1> DEFINE N == NamesOf(P)
           s == SharedInputs(n, f, L)
           in == Carried(n, f, s)
           early == [y \in DOMAIN in |-> IF y = f THEN in[f] ELSE <<>>]
<1>1. s \in Seq(N) BY SharedInputsAre
<1>2. s \in Seq(Seq(P))
  <2>1. N \subseteq Seq(P) BY DEF NamesOf
  <2> HIDE DEF s, N
  <2> QED BY <1>1, <2>1
<1> HIDE DEF s
<1>3. Substitutes(P, f, s, in)
  <2>1. \A y \in {f} \cup ToSet(s) : in[y] \in Seq(P) BY LatchInputIs DEF Carried
  <2>2. DOMAIN in = {f} \cup ToSet(s) BY DEF Carried
  <2> HIDE DEF in
  <2> QED BY <1>2, <2>1, <2>2 DEF Substitutes
<1> HIDE DEF in
<1>4. Substitutes(P, f, s, early)
  <2>1. <<>> \in Seq(P) OBVIOUS
  <2> QED BY <1>3, <2>1 DEF Substitutes
<1> QED BY <1>3, <1>4 DEF s, in

\* made is what Forward makes of the lines of n.
ForwardMade(n, f, L, made) ==
  LET s == SharedInputs(n, f, L)
      in == Carried(n, f, s)
      early == [y \in DOMAIN in |-> IF y = f THEN in[f] ELSE <<>>]
  IN  \A k \in 1 .. Len(n) : LET l == n[k] IN
        /\ l.kind = "latch" => made[k] = ForwardLatch(l, f, s)
        /\ l.kind = "names" =>
             made[k] = IF \A y \in DOMAIN in \cup {L} : Mentions(l, y)
                       THEN <<Written(ForwardLut(l, f, L, in))>>
                       ELSE <<Written(ForwardOther(l, f, L, s, in))>>
        /\ l.kind \in {"inputs", "outputs"} =>
             made[k] = <<Written(ForwardOther(l, f, L, s, early))>>

\* What the forward move writes is what it makes of the lines, one after the
\* other.
LEMMA ForwardText ==
  ASSUME NEW P, HasSuffixes(P), NEW n \in Seq(Line(NamesOf(P))), NEW f \in Seq(P), NEW L
  PROVE  \E made \in [1 .. Len(n) -> Seq(Line(NamesOf(P)))] :
           /\ ForwardMade(n, f, L, made)
           /\ Forward(n, f, L).ok => /\ MayMoveForward(n, SharedInputs(n, f, L))
                                     /\ Forward(n, f, L).net = FlattenSeq(made)
           /\ ~Forward(n, f, L).ok => Forward(n, f, L).net = <<>>
<1> DEFINE N == NamesOf(P)
           s == SharedInputs(n, f, L)
           in == Carried(n, f, s)
           early == [y \in DOMAIN in |-> IF y = f THEN in[f] ELSE <<>>]
           Rule(l) ==
             CASE l.kind = "latch" -> ForwardLatch(l, f, s)
               [] l.kind = "names" ->
                    IF \A y \in DOMAIN in \cup {L} : Mentions(l, y)
                    THEN <<Written(ForwardLut(l, f, L, in))>>
                    ELSE <<Written(ForwardOther(l, f, L, s, in))>>
               [] OTHER -> <<Written(ForwardOther(l, f, L, s, early))>>
           made == [k \in DOMAIN n |-> Rule(n[k])]
<1>1. /\ Forward(n, f, L).ok => MayMoveForward(n, s) /\ Forward(n, f, L).net = FlattenSeq(made)
      /\ ~Forward(n, f, L).ok => Forward(n, f, L).net = <<>>
  BY DEF Forward, Failed, Rewritten, Carried
<1>2. Substitutes(P, f, s, in) /\ Substitutes(P, f, s, early)
  <2> HIDE DEF N
  <2> QED BY ForwardSubstitutes DEF N
<1> HIDE DEF s, in, early
<1>3. ASSUME NEW l \in Line(N) PROVE Rule(l) \in Seq(Line(N))
  <2>1. l \in Line(Seq(P))
    <3>1. l.toks \in Seq(N) BY LineFields
    <3>2. l.toks \in Seq(Seq(P)) BY <3>1 DEF NamesOf
    <3> QED BY <3>2 DEF Line
  <2>2. CASE l.kind = "latch"
    <3>1. Rule(l) = ForwardLatch(l, f, s) BY <2>2
    <3> QED BY <2>2, <3>1, ForwardLatchIs
  <2> DEFINE a == Written(ForwardLut(l, f, L, in))
             c == Written(ForwardOther(l, f, L, s, in))
             d == Written(ForwardOther(l, f, L, s, early))
  <2>3. l.kind = "names" => a \in Line(N) /\ c \in Line(N)
    BY <1>2, <2>1, ForwardLutIs, ForwardOtherIs, WrittenIs
  <2>4. l.kind # "latch" => d \in Line(N) BY <1>2, <2>1, ForwardOtherIs, WrittenIs
  <2>5. CASE l.kind # "latch"
    <3>1. \/ Rule(l) \in {<<a>>, <<c>>} /\ l.kind = "names"
          \/ Rule(l) = <<d>>
      BY <2>5
    <3> DEFINE R == Line(N)
               r == Rule(l)
    <3>2. l.kind = "names" => a \in R /\ c \in R BY <2>3
    <3>3. d \in R BY <2>4, <2>5
    <3>4. (r \in {<<a>>, <<c>>} /\ l.kind = "names") \/ r = <<d>> BY <3>1
    <3> HIDE DEF r, a, c, d, R
    <3>5. CASE l.kind = "names" /\ r \in {<<a>>, <<c>>}
      <4>1. <<a>> \in Seq(R) /\ <<c>> \in Seq(R) BY <3>2, <3>5
      <4> QED BY <3>5, <4>1 DEF r, R
    <3>6. CASE r = <<d>>
      <4>1. <<d>> \in Seq(R) BY <3>3
      <4> QED BY <3>6, <4>1 DEF r, R
    <3> QED BY <3>4, <3>5, <3>6
  <2> QED BY <2>2, <2>5
<1>4. made \in [1 .. Len(n) -> Seq(Line(N))]
  <2>1. DOMAIN n = 1 .. Len(n) /\ \A k \in 1 .. Len(n) : n[k] \in Line(N) OBVIOUS
  <2>2. made = [k \in 1 .. Len(n) |-> Rule(n[k])] BY <2>1
  <2> HIDE DEF Rule, N, made
  <2> QED BY <1>3, <2>1, <2>2
<1>5. ForwardMade(n, f, L, made)
  <2>1. DOMAIN n = 1 .. Len(n) OBVIOUS
  <2>2. \A k \in 1 .. Len(n) : made[k] = Rule(n[k]) BY <2>1
  <2> HIDE DEF made
  <2> QED BY <2>2 DEF ForwardMade, s, in, early
<1> HIDE DEF made
<1> QED BY <1>1, <1>4, <1>5 DEF N, s

\* It is a netlist again, whatever was moved.
LEMMA ForwardNetlist ==
  ASSUME NEW P, HasSuffixes(P), NEW n \in Seq(Line(NamesOf(P))), NEW f \in Seq(P), NEW L
  PROVE  Forward(n, f, L).net \in Seq(Line(NamesOf(P)))
<1> DEFINE R == Line(NamesOf(P))
<1>1. PICK made \in [1 .. Len(n) -> Seq(R)] :
        /\ Forward(n, f, L).ok => Forward(n, f, L).net = FlattenSeq(made)
        /\ ~Forward(n, f, L).ok => Forward(n, f, L).net = <<>>
  BY ForwardText
<1>2. Len(n) \in Nat OBVIOUS
<1> HIDE DEF R
<1>3. FlattenSeq(made) \in Seq(R) BY <1>2, FlattenedLines
<1>4. <<>> \in Seq(R) OBVIOUS
<1> QED BY <1>1, <1>3, <1>4 DEF R

-----------------------------------------------------------------------------
(***************************************************************************)
(* The paths VPR may report.                                               *)
(***************************************************************************)
\* A LUT with an input has an output, and it is a name the LUT mentions.
LEMMA OutputsAreMentioned ==
  ASSUME NEW M, NEW l \in Line(M), InputPins(l) # <<>>
  PROVE  OutputOf(l) \in M /\ Mentions(l, OutputOf(l))
<1> DEFINE t == l.toks
<1>1. t \in Seq(M) BY LineFields
<1>2. InputPins(l) = Front(t) BY DEF InputPins
<1>3. OutputOf(l) = Last(t) /\ (Mentions(l, OutputOf(l)) <=> Last(t) \in ToSet(t))
  BY DEF OutputOf, Mentions
<1> HIDE DEF t
<1>4. t # <<>>
  <2> SUFFICES ASSUME t = <<>> PROVE FALSE OBVIOUS
  <2>1. Len(t) - 1 = -1 BY <1>1
  <2>2. SubSeq(t, 1, -1) = <<>> BY <1>1
  <2> QED BY <1>2, <2>1, <2>2 DEF Front
<1>5. Len(t) \in 1 .. Len(t) /\ \A k \in 1 .. Len(t) : t[k] \in M /\ k \in DOMAIN t
  BY <1>1, <1>4
<1>6. Last(t) = t[Len(t)] BY DEF Last
<1> QED BY <1>3, <1>5, <1>6 DEF ToSet

\* What reads of LUTs with inputs has inputs.
LEMMA BelowHaveInputs ==
  ASSUME NEW M, NEW n \in Seq(Line(M)), NEW k \in DOMAIN LutsOf(n),
         InputPins(LutsOf(n)[k]) # <<>>
  PROVE  \A j \in Below(n, k) : j \in DOMAIN LutsOf(n) /\ InputPins(LutsOf(n)[j]) # <<>>
<1> DEFINE luts == LutsOf(n)
           m == Len(luts)
           Reads(j, S) == \E h \in S : OutputOf(luts[h]) \in ToSet(InputPins(luts[j]))
           E(S) == S \cup {j \in DOMAIN luts : Reads(j, S)}
           V == {S \in SUBSET DOMAIN luts : \A j \in S : InputPins(luts[j]) # <<>>}
           F == [x \in (1 .. m) \X V |-> E(x[2])]
           b == {k}
           Within == CHOOSE h : h = [d \in 0 .. m |-> IF d = 0 THEN b ELSE E(h[d - 1])]
<1>1. m \in Nat BY LinesOfKind DEF LutsOf
<1>2. Below(n, k) = Within[m] BY DEF Below
<1>3. b \in V OBVIOUS
<1>4. \A S \in V : E(S) \in V
  <2>1. ASSUME NEW j \in DOMAIN luts, NEW S, Reads(j, S) PROVE InputPins(luts[j]) # <<>>
    <3>1. ToSet(InputPins(luts[j])) # {} BY <2>1
    <3>2. ToSet(<<>>) = {} BY DEF ToSet
    <3> QED BY <3>1, <3>2
  <2> HIDE DEF Reads, luts
  <2> QED BY <2>1
<1>5. F \in [(1 .. m) \X V -> V]
  <2> HIDE DEF V, E, m
  <2> QED BY <1>4
<1>6. PICK f \in [0 .. m -> V] : Iterated(f, b, F, m)
  <2> HIDE DEF V, b, F, m, E, Within
  <2> QED BY <1>1, <1>3, <1>5, Iterates
<1>7. f = [d \in 0 .. m |-> IF d = 0 THEN b ELSE E(f[d - 1])]
  <2> HIDE DEF V, b, E, m
  <2>1. ASSUME NEW d \in 0 .. m, d # 0 PROVE f[d] = E(f[d - 1])
    <3>1. d \in 1 .. m /\ d - 1 \in 0 .. m BY <1>1, <2>1
    <3> QED BY <1>6, <3>1 DEF Iterated
  <2> QED BY <1>1, <1>6, <2>1 DEF Iterated
<1>8. Within = [d \in 0 .. m |-> IF d = 0 THEN b ELSE E(Within[d - 1])]
  <2> HIDE DEF b, E, m
  <2> QED BY <1>7
<1> HIDE DEF Within
<1>9. Within[0] = b /\ \A d \in 1 .. m : d - 1 \in 0 .. m /\ Within[d] = E(Within[d - 1])
  <2> HIDE DEF b, E, m
  <2> QED BY <1>1, <1>8
<1> DEFINE Good == {d \in Nat : d \in 0 .. m => Within[d] \in V}
<1>10. 0 \in Good BY <1>3, <1>9
<1>11. ASSUME NEW d \in Nat, d \in Good PROVE d + 1 \in Good
  <2>1. CASE d + 1 \in 0 .. m
    <3> HIDE DEF m, V, E
    <3>1. d \in 0 .. m /\ d + 1 \in 1 .. m /\ (d + 1) - 1 = d BY <1>1, <2>1
    <3>2. Within[d] \in V BY <1>11, <3>1
    <3>3. Within[d + 1] = E(Within[d]) BY <1>9, <3>1
    <3> QED BY <1>4, <3>2, <3>3
  <2> QED BY <2>1
<1>12. Nat \subseteq Good
  <2> HIDE DEF Good
  <2> QED BY <1>10, <1>11, AllNaturals
<1>13. Within[m] \in V
  <2> HIDE DEF V, m
  <2>1. m \in 0 .. m BY <1>1
  <2> QED BY <1>1, <1>12, <2>1
<1> QED BY <1>2, <1>13

\* A critical path is told by names on lines of the netlist, and its last LUT
\* is mentioned by one.
LEMMA ReportsAre ==
  ASSUME NEW P, NEW n \in Seq(Line(NamesOf(P))), NEW r \in Reports(n)
  PROVE  /\ r \in [start : NamesOf(P), first : NamesOf(P),
                   last : NamesOf(P), end : NamesOf(P)]
         /\ \E k \in DOMAIN LutsOf(n) : Mentions(LutsOf(n)[k], r.last)
<1> DEFINE N == NamesOf(P)
           luts == LutsOf(n)
           latches == OfKind(n, "latch")
<1>1. PICK k \in DOMAIN luts : r \in PathsFrom(n, k) BY DEF Reports
<1> DEFINE starts == ToSet(InputPins(luts[k])) \cap (NamesOn(n, "inputs") \cup FlipFlops(n))
           EndsOf(x) == {t.toks[2] : t \in {u \in ToSet(latches) : u.toks[1] = x}}
                        \cup ({x} \cap NamesOn(n, "outputs"))
           lasts == {OutputOf(luts[j]) : j \in Below(n, k)}
<1>2. PICK x \in lasts :
        r \in [start : starts, first : {OutputOf(luts[k])}, last : {x}, end : EndsOf(x)]
  BY <1>1 DEF PathsFrom
<1>3. \A j \in DOMAIN luts : luts[j] \in Line(N) BY LinesOfKind DEF LutsOf
<1>4. ToSet(InputPins(luts[k])) \subseteq N
  <2>1. luts[k].toks \in Seq(N) BY <1>3, LineFields
  <2> DEFINE t == InputPins(luts[k])
  <2>2. t \in Seq(N) BY <2>1, InFront DEF InputPins
  <2> HIDE DEF t, N
  <2> QED BY <2>2 DEF ToSet, t
<1>5. InputPins(luts[k]) # <<>>
  <2>1. ToSet(InputPins(luts[k])) # {} BY <1>2
  <2>2. ToSet(<<>>) = {} BY DEF ToSet
  <2> QED BY <2>1, <2>2
<1>6. \A j \in Below(n, k) : j \in DOMAIN luts /\ InputPins(luts[j]) # <<>>
  BY <1>5, BelowHaveInputs
<1>7. /\ OutputOf(luts[k]) \in N
      /\ \A j \in Below(n, k) : OutputOf(luts[j]) \in N /\ Mentions(luts[j], OutputOf(luts[j]))
  <2> HIDE DEF luts, N
  <2> QED BY <1>3, <1>5, <1>6, OutputsAreMentioned
<1>8. x \in N /\ \E j \in DOMAIN luts : Mentions(luts[j], x)
  <2> HIDE DEF luts, N
  <2> QED BY <1>6, <1>7
<1>9. EndsOf(x) \subseteq N
  <2>1. ASSUME NEW t \in ToSet(latches) PROVE t.toks[2] \in N
    <3>1. t \in Line(N) /\ t.kind = "latch" BY LinesOfKind DEF ToSet
    <3> HIDE DEF N
    <3>2. Len(t.toks) = 2 /\ \A j \in 1 .. Len(t.toks) : t.toks[j] \in N
      BY <3>1, LineFields
    <3> QED BY <3>2
  <2> HIDE DEF latches, N
  <2> QED BY <1>8, <2>1
<1> HIDE DEF N, luts, starts, EndsOf, lasts
<1>10. starts \subseteq N BY <1>4 DEF starts
<1>11. r \in [start : N, first : N, last : N, end : N] /\ r.last = x
  BY <1>2, <1>7, <1>8, <1>9, <1>10
<1> QED BY <1>8, <1>11 DEF N, luts

-----------------------------------------------------------------------------
(***************************************************************************)
(* The types of the driver's variables.                                    *)
(***************************************************************************)
\* The pieces names are made of on a run that starts with n.
Pieces(n) == {"new", "1", "2", "3", "4"} \cup UNION {ToSet(x) : x \in Names(n)}

\* The user's netlist stays, and a move is made in view of a path reported for
\* the current netlist, with an iteration left.
TypedInv ==
  /\ TypeOK
  /\ 0 \in DOMAIN files
  /\ pc = "retime" => i < Iterations /\ report \in Reports(net)

\* The names of a run are made of the pieces of its first netlist.
LEMMA TextIs ==
  /\ Text = Seq(Pieces(files[0])) /\ Text \ {<<>>} = NamesOf(Pieces(files[0]))
  /\ HasSuffixes(Pieces(files[0]))
BY DEF Text, Pieces, NamesOf, HasSuffixes

\* The names of a netlist are of their own pieces.
LEMMA OwnNames ==
  ASSUME NEW S, NEW n \in Seq(Line(Seq(S) \ {<<>>}))
  PROVE  n \in Seq(Line(NamesOf(Pieces(n))))
<1> DEFINE P == Pieces(n)
<1>1. ASSUME NEW x \in Names(n), x \in Seq(S) \ {<<>>} PROVE x \in NamesOf(P)
  <2>1. ToSet(x) \subseteq P BY DEF Pieces
  <2>2. x \in Seq(P)
    <3>1. Len(x) \in Nat /\ DOMAIN x = 1 .. Len(x) BY <1>1
    <3>2. \A k \in 1 .. Len(x) : x[k] \in P BY <2>1, <3>1 DEF ToSet
    <3>3. x = [k \in 1 .. Len(x) |-> x[k]] BY <1>1
    <3> HIDE DEF P
    <3>4. [k \in 1 .. Len(x) |-> x[k]] \in Seq(P) BY <3>1, <3>2
    <3> QED BY <3>3, <3>4
  <2> QED BY <1>1, <2>2 DEF NamesOf
<1>2. ASSUME NEW k \in 1 .. Len(n) PROVE n[k] \in Line(NamesOf(P))
  <2> DEFINE l == n[k]
             t == l.toks
  <2>1. l \in Line(Seq(S) \ {<<>>}) /\ l \in ToSet(n) BY DEF ToSet
  <2>2. /\ t \in Seq(Seq(S) \ {<<>>}) /\ Len(t) \in Nat /\ DOMAIN t = 1 .. Len(t)
        /\ \A j \in 1 .. Len(t) : t[j] \in Seq(S) \ {<<>>}
    <3> HIDE DEF l
    <3> QED BY <2>1, LineFields
  <2>3. \A j \in 1 .. Len(t) : t[j] \in Names(n)
    <3>1. ToSet(l.toks) \subseteq Names(n) BY <2>1 DEF Names
    <3> HIDE DEF l
    <3>2. \A j \in 1 .. Len(t) : t[j] \in ToSet(t) BY <2>2 DEF ToSet
    <3> QED BY <3>1, <3>2
  <2>4. \A j \in 1 .. Len(t) : t[j] \in NamesOf(P) BY <1>1, <2>2, <2>3
  <2>5. t \in Seq(NamesOf(P))
    <3> HIDE DEF t, P
    <3>1. t = [j \in 1 .. Len(t) |-> t[j]] BY <2>2
    <3>2. [j \in 1 .. Len(t) |-> t[j]] \in Seq(NamesOf(P)) BY <2>2, <2>4
    <3> QED BY <3>1, <3>2
  <2> HIDE DEF l, P
  <2> QED BY <2>1, <2>5 DEF Line, l
<1> DEFINE R == Line(NamesOf(P))
<1>3. \A k \in 1 .. Len(n) : n[k] \in R BY <1>2
<1> HIDE DEF R
<1>4. Len(n) \in Nat /\ n = [k \in 1 .. Len(n) |-> n[k]] OBVIOUS
<1>5. [k \in 1 .. Len(n) |-> n[k]] \in Seq(R) BY <1>3, <1>4
<1> QED BY <1>4, <1>5 DEF R

\* The driver starts on the user's netlist.
LEMMA InitTyped == Init => TypedInv
<1> SUFFICES ASSUME Init PROVE TypedInv OBVIOUS
<1>1. PICK n \in Netlists : /\ files = [k \in {0} |-> n]
                            /\ lag = [k \in DOMAIN LutsOf(n) |-> 0]
  BY DEF Init
<1>2. DOMAIN files = {0} /\ files[0] = n BY <1>1
<1>3. n \in Seq(Line(Seq(STRING) \ {<<>>})) BY NetlistsAssumption
<1>4. files[0] \in Seq(Line(Text \ {<<>>})) BY <1>2, <1>3, OwnNames, TextIs
<1>5. <<>> \in Text BY DEF Text
<1>6. lag \in [DOMAIN LutsOf(files[0]) -> Int] BY <1>1, <1>2
<1>7. /\ i = 0 /\ FP = 0 /\ pc = "vpr" /\ Rslt = <<>> /\ RsltFP = -1 /\ suited = TRUE
      /\ forwardFF = <<>> /\ forwardLUT = <<>> /\ backwardFF = <<>> /\ backwardLUT = <<>>
  BY DEF Init
<1>8. report \in [start : Text, first : Text, last : Text, end : Text]
  BY <1>5 DEF Init, NoReport
<1>9. DOMAIN Rslt = {} BY <1>7
<1>10. 0 \in 0 .. Iterations BY IterationsAssumption
<1> HIDE DEF Init
<1> QED BY <1>2, <1>4, <1>5, <1>6, <1>7, <1>8, <1>9, <1>10 DEF TypedInv, TypeOK

\* As long as the user's netlist stays, so do the pieces names are made of.
LEMMA TextStays ==
  ASSUME files'[0] = files[0]
  PROVE  Text' = Text /\ DOMAIN LutsOf(files[0])' = DOMAIN LutsOf(files[0])
BY DEF Text, Names, LutsOf

\* VPR reports names of the netlist it was given.
LEMMA TimeTyped == ASSUME TypedInv, Time PROVE TypedInv'
<1> DEFINE P == Pieces(files[0])
<1>1. PICK d \in PathDelays : Rslt' = With(Rslt, FP, d) BY DEF Time
<1>2. /\ DOMAIN Rslt' = DOMAIN Rslt \cup {FP}
      /\ \A k \in DOMAIN Rslt' : Rslt'[k] \in PathDelays
  BY <1>1 DEF With, TypedInv, TypeOK
<1>3. report' \in Reports(files[FP]) BY DEF Time, net
<1>4. files[FP] \in Seq(Line(NamesOf(P))) BY TextIs DEF TypedInv, TypeOK
<1>5. report' \in [start : NamesOf(P), first : NamesOf(P),
                   last : NamesOf(P), end : NamesOf(P)]
  BY <1>3, <1>4, ReportsAre
<1>6. NamesOf(P) \subseteq Text BY TextIs
<1>7. report' \in [start : Text, first : Text, last : Text, end : Text]
  <2> HIDE DEF P
  <2> QED BY <1>5, <1>6
<1>8. /\ files' = files /\ FP' = FP /\ i' = FP /\ UNCHANGED <<fields, RsltFP, lag, suited>>
      /\ pc' = IF FP = Iterations THEN "finish" ELSE "retime"
  BY DEF Time
<1>9. Text' = Text /\ DOMAIN LutsOf(files[0])' = DOMAIN LutsOf(files[0])
  BY <1>8, TextStays
<1>10. TypeOK'
  BY <1>2, <1>7, <1>8, <1>9 DEF TypedInv, TypeOK, fields
<1>11. pc' = "retime" => i' < Iterations /\ report' \in Reports(net)'
  <2>1. Reports(net)' = Reports(files[FP]) BY <1>8 DEF net, Reports, PathsFrom, Below, FlipFlops
  <2>2. FP \in 0 .. Iterations /\ Iterations \in Nat
    BY IterationsAssumption DEF TypedInv, TypeOK
  <2> QED BY <1>3, <1>8, <2>1, <2>2
<1> QED BY <1>8, <1>10, <1>11 DEF TypedInv

\* A move that writes a netlist.
LEMMA WriteTyped ==
  ASSUME TypedInv, i < Iterations, NEW move, Write(move),
         move.net \in Seq(Line(Text \ {<<>>})),
         UNCHANGED <<i, report, Rslt, RsltFP>>, pc' \in {"vpr", "finish"},
         {forwardFF', forwardLUT', backwardFF', backwardLUT'} \subseteq Text,
         lag' \in [DOMAIN LutsOf(files[0]) -> Int], suited' \in BOOLEAN
  PROVE  TypedInv'
<1>1. i \in Nat /\ i + 1 \in 0 .. Iterations /\ i + 1 # 0
  BY IterationsAssumption DEF TypedInv, TypeOK
<1>2. /\ FP' = i + 1
      /\ DOMAIN files' = DOMAIN files \cup {i + 1}
      /\ \A k \in DOMAIN files' : files'[k] = IF k = i + 1 THEN move.net ELSE files[k]
  BY DEF Write, With
<1>3. 0 \in DOMAIN files' /\ files'[0] = files[0] BY <1>1, <1>2 DEF TypedInv
<1>4. Text' = Text /\ DOMAIN LutsOf(files[0])' = DOMAIN LutsOf(files[0])
  BY <1>3, TextStays
<1>5. \A k \in DOMAIN files' : files'[k] \in Seq(Line(Text \ {<<>>}))
  BY <1>2 DEF TypedInv, TypeOK
<1> QED BY <1>1, <1>2, <1>3, <1>4, <1>5 DEF TypedInv, TypeOK

\* A move adds a whole number to the lags.
LEMMA LaggedIs ==
  ASSUME TypedInv, NEW n, NEW x, NEW d \in Int
  PROVE  Lagged(n, x, d) \in [DOMAIN LutsOf(files[0]) -> Int]
<1>1. \A k \in DOMAIN lag : lag[k] \in Int /\ lag[k] + d \in Int BY DEF TypedInv, TypeOK
<1>2. DOMAIN lag = DOMAIN LutsOf(files[0]) BY DEF TypedInv, TypeOK
<1> QED BY <1>1, <1>2 DEF Lagged

\* What the program stores of the report are names.
LEMMA LoadsNames ==
  ASSUME TypedInv
  PROVE  /\ LoadBw => {backwardFF', backwardLUT'} \subseteq Text
         /\ LoadFw => {forwardFF', forwardLUT'} \subseteq Text
BY DEF TypedInv, TypeOK, LoadBw, LoadFw

\* The backward move is made with names the report gave.
LEMMA MoveBackwardTyped == ASSUME TypedInv, MoveBackward PROVE TypedInv'
<1> DEFINE P == Pieces(files[0])
           move == Backward(net, report.end, report.last)
<1>1. i < Iterations /\ report \in Reports(net) BY DEF MoveBackward, TypedInv
<1>2. net \in Seq(Line(NamesOf(P))) BY TextIs DEF TypedInv, TypeOK, net
<1>3. /\ report.end \in NamesOf(P) /\ report.last \in Seq(P)
      /\ \E k \in DOMAIN LutsOf(net) : Mentions(LutsOf(net)[k], report.last)
  BY <1>1, <1>2, ReportsAre DEF NamesOf
<1>4. move.net \in Seq(Line(Text \ {<<>>})) BY <1>2, <1>3, TextIs, BackwardNetlist
<1>5. Write(move) /\ suited' \in BOOLEAN BY DEF MoveBackward
<1>6. lag' \in [DOMAIN LutsOf(files[0]) -> Int] BY LaggedIs DEF MoveBackward
<1>7. {forwardFF', forwardLUT', backwardFF', backwardLUT'} \subseteq Text
  BY LoadsNames DEF MoveBackward, TypedInv, TypeOK
<1>8. pc' \in {"vpr", "finish"} /\ UNCHANGED <<i, report, Rslt, RsltFP>>
  BY DEF MoveBackward
<1> HIDE DEF move
<1> QED BY <1>1, <1>4, <1>5, <1>6, <1>7, <1>8, WriteTyped

\* A forward move is made with what has been stored, whenever it was.
LEMMA WriteForwardTyped ==
  ASSUME TypedInv, pc = "retime", WriteForward(forwardFF', forwardLUT'),
         UNCHANGED <<i, report, Rslt, RsltFP>>,
         {forwardFF', forwardLUT', backwardFF', backwardLUT'} \subseteq Text
  PROVE  TypedInv'
<1> DEFINE P == Pieces(files[0])
           move == Forward(net, forwardFF', forwardLUT')
<1>1. i < Iterations BY DEF TypedInv
<1>2. net \in Seq(Line(NamesOf(P))) BY TextIs DEF TypedInv, TypeOK, net
<1>3. move.net \in Seq(Line(Text \ {<<>>})) BY <1>2, TextIs, ForwardNetlist
<1>4. Write(move) BY DEF WriteForward
<1>5. /\ lag' \in [DOMAIN LutsOf(files[0]) -> Int] /\ suited' \in BOOLEAN
      /\ pc' \in {"vpr", "finish"}
  <2> DEFINE D == DOMAIN LutsOf(files[0])
  <2>1. \/ /\ pc' = "vpr" /\ lag' = Lagged(net, forwardLUT', -1)
           /\ suited' = FALSE
        \/ pc' = "finish" /\ lag' = lag /\ suited' = suited
    BY DEF WriteForward
  <2>2. lag \in [D -> Int] /\ Lagged(net, forwardLUT', -1) \in [D -> Int]
    <3>1. -1 \in Int OBVIOUS
    <3>2. Lagged(net, forwardLUT', -1) \in [D -> Int] BY <3>1, LaggedIs
    <3> QED BY <3>2 DEF TypedInv, TypeOK
  <2>3. suited \in BOOLEAN BY DEF TypedInv, TypeOK
  <2> HIDE DEF D
  <2>4. lag' \in [D -> Int] /\ pc' \in {"vpr", "finish"} BY <2>1, <2>2
  <2>5. suited' \in BOOLEAN BY <2>1, <2>3
  <2> QED BY <2>4, <2>5 DEF D
<1> HIDE DEF move
<1> QED BY <1>1, <1>3, <1>4, <1>5, WriteTyped

\* No other step touches a netlist or a name.
LEMMA OthersTyped ==
  ASSUME TypedInv,
         UNCHANGED <<files, FP, report, fields, Rslt, lag, suited>>,
         i' \in 0 .. Iterations, RsltFP' \in DOMAIN Rslt \cup {-1},
         pc' \in {"vpr", "retime", "finish", "done", "hung"},
         pc' = "retime" => pc = "retime" /\ i' < Iterations
  PROVE  TypedInv'
<1>1. Text' = Text /\ DOMAIN LutsOf(files[0])' = DOMAIN LutsOf(files[0])
  BY TextStays
<1>2. Reports(net)' = Reports(net) BY DEF net, Reports, PathsFrom, Below, FlipFlops
<1> QED BY <1>1, <1>2 DEF TypedInv, TypeOK, fields

\* Every action of the driver keeps the types.
LEMMA NextTyped == TypedInv /\ [Next]_vars => TypedInv'
<1> SUFFICES ASSUME TypedInv, [Next]_vars PROVE TypedInv' OBVIOUS
<1>1. CASE Time BY <1>1, TimeTyped
<1>2. CASE TimeFails BY <1>2, OthersTyped DEF TimeFails, TypedInv, TypeOK
<1>3. CASE MoveBackward BY <1>3, MoveBackwardTyped
<1>4. CASE MoveForwardInstead
  BY <1>4, LoadsNames, WriteForwardTyped DEF MoveForwardInstead
<1>5. CASE MoveForward
  <2>1. {forwardFF', forwardLUT', backwardFF', backwardLUT'} \subseteq Text
    BY <1>5, LoadsNames DEF MoveForward, TypedInv, TypeOK
  <2> QED BY <1>5, <2>1, WriteForwardTyped DEF MoveForward
<1>6. CASE NoMove
  <2>1. 1 \in 0 .. Iterations /\ 1 < Iterations BY IterationsAssumption
  <2> QED BY <1>6, <2>1, OthersTyped DEF NoMove, TypedInv, TypeOK
<1>7. CASE Finish BY <1>7, OthersTyped DEF Finish, TypedInv, TypeOK
<1>8. CASE UNCHANGED vars BY <1>8, OthersTyped DEF vars, fields, TypedInv, TypeOK
<1> QED BY <1>1, <1>2, <1>3, <1>4, <1>5, <1>6, <1>7, <1>8 DEF Next

\* Whatever moves are made (SR.cpp), on whatever LUTs and with whatever is
\* stored from earlier reports, what they write are netlists again: every name
\* is one and made of the user's names, "new" and digits, every latch has an
\* input and an output; and no iteration is made beyond the last.
THEOREM DriverTypes == Spec => []TypeOK
<1>1. TypedInv => TypeOK BY DEF TypedInv
<1> QED BY <1>1, InitTyped, NextTyped, PTL DEF Spec

-----------------------------------------------------------------------------
(***************************************************************************)
(* The sources of nets.                                                    *)
(***************************************************************************)
\* The inputs of a netlist, as names and as sources.
InsOf(n) == OfKind(n, "inputs")[1].toks
InputSources(n) == {-k : k \in DOMAIN InsOf(n)}

\* Nets driven directly.
Direct(n) ==
  {<<OutputOf(LutsOf(n)[k]), k, 0>> : k \in DOMAIN LutsOf(n)}
    \cup {<<InsOf(n)[k], -k, 0>> : k \in DOMAIN InsOf(n)}

\* Those behind one latch more than the nets in S.
Behind(n, S) ==
  UNION {{<<OfKind(n, "latch")[t].toks[2], d[2], d[3] + 1>> :
            d \in {d \in S : d[1] = OfKind(n, "latch")[t].toks[1]}} :
           t \in DOMAIN OfKind(n, "latch")}

Driven(n) ==
  {OutputOf(LutsOf(n)[k]) : k \in DOMAIN LutsOf(n)}
    \cup {InsOf(n)[k] : k \in DOMAIN InsOf(n)}
    \cup {OfKind(n, "latch")[t].toks[2] : t \in DOMAIN OfKind(n, "latch")}

Triples(n) == Driven(n) \X (DOMAIN LutsOf(n) \cup InputSources(n)) \X Nat

\* f finds the sources, with up to k latches in step k.
Levels(n, f) ==
  /\ f[0] = Direct(n)
  /\ \A k \in 1 .. Len(OfKind(n, "latch")) : f[k] = Direct(n) \cup Behind(n, f[k - 1])
  /\ \A k \in 0 .. Len(OfKind(n, "latch")) : f[k] \subseteq Triples(n)
  /\ f[Len(OfKind(n, "latch"))] = Sources(n)

\* One more latch leads from triples to triples.
LEMMA BehindTriples ==
  ASSUME NEW n, NEW S \in SUBSET Triples(n)
  PROVE  Direct(n) \cup Behind(n, S) \subseteq Triples(n)
<1> DEFINE latches == OfKind(n, "latch")
           luts == LutsOf(n)
           ins == InsOf(n)
           K == DOMAIN luts \cup InputSources(n)
           X == Driven(n)
<1>1. ASSUME NEW k \in DOMAIN luts PROVE <<OutputOf(luts[k]), k, 0>> \in X \X K \X Nat
  <2>1. OutputOf(luts[k]) \in X /\ k \in K BY DEF Driven
  <2> HIDE DEF X, K
  <2> QED BY <2>1
<1>2. ASSUME NEW k \in DOMAIN ins PROVE <<ins[k], -k, 0>> \in X \X K \X Nat
  <2>1. ins[k] \in X /\ -k \in K BY DEF Driven, InputSources
  <2> HIDE DEF X, K
  <2> QED BY <2>1
<1>3. ASSUME NEW t \in DOMAIN latches, NEW d \in S
      PROVE  <<latches[t].toks[2], d[2], d[3] + 1>> \in X \X K \X Nat
  <2>1. latches[t].toks[2] \in X BY DEF Driven
  <2>2. d \in X \X K \X Nat BY DEF Triples
  <2> HIDE DEF X, K, latches
  <2> QED BY <2>1, <2>2
<1>4. Triples(n) = X \X K \X Nat BY DEF Triples
<1> HIDE DEF X, K
<1>5. Direct(n) \subseteq X \X K \X Nat BY <1>1, <1>2 DEF Direct
<1>6. Behind(n, S) \subseteq X \X K \X Nat BY <1>3 DEF Behind
<1> QED BY <1>4, <1>5, <1>6

\* Sources is reached level by level.
LEMMA SourcesByLevels ==
  ASSUME NEW M, NEW n \in Seq(Line(M))
  PROVE  \E f : Levels(n, f)
<1> DEFINE m == Len(OfKind(n, "latch"))
           b == Direct(n)
           E(S) == b \cup Behind(n, S)
           V == SUBSET Triples(n)
           F == [x \in (1 .. m) \X V |-> E(x[2])]
           Through == CHOOSE h : h = [k \in 0 .. m |-> IF k = 0 THEN b ELSE E(h[k - 1])]
<1>1. m \in Nat BY LinesOfKind
<1>2. Sources(n) = Through[m] BY DEF Sources, Direct, Behind, InsOf
<1>3. b \in V
  <2>1. {} \in V OBVIOUS
  <2> QED BY <2>1, BehindTriples
<1>4. \A S \in V : E(S) \in V BY BehindTriples
<1>5. F \in [(1 .. m) \X V -> V]
  <2> HIDE DEF V, E, m
  <2> QED BY <1>4
<1>6. PICK f \in [0 .. m -> V] : Iterated(f, b, F, m)
  <2> HIDE DEF V, b, F, m, E, Through
  <2> QED BY <1>1, <1>3, <1>5, Iterates
<1>7. f[0] = b /\ \A k \in 1 .. m : f[k] = E(f[k - 1])
  <2> HIDE DEF V, b, E, m
  <2>1. ASSUME NEW k \in 1 .. m PROVE f[k] = E(f[k - 1])
    <3>1. k - 1 \in 0 .. m BY <1>1
    <3> QED BY <1>6, <3>1 DEF Iterated
  <2> QED BY <1>6, <2>1 DEF Iterated
<1>8. f = [k \in 0 .. m |-> IF k = 0 THEN b ELSE E(f[k - 1])]
  <2> HIDE DEF V, b, E, m
  <2>1. ASSUME NEW k \in 0 .. m, k # 0 PROVE f[k] = E(f[k - 1])
    <3>1. k \in 1 .. m BY <1>1, <2>1
    <3> QED BY <1>7, <3>1
  <2> QED BY <1>1, <1>6, <1>7, <2>1
<1>9. Through = [k \in 0 .. m |-> IF k = 0 THEN b ELSE E(Through[k - 1])]
  <2> HIDE DEF b, E, m
  <2> QED BY <1>8
<1> HIDE DEF Through
<1>10. Through[0] = b /\ \A k \in 1 .. m : Through[k] = E(Through[k - 1])
  <2> HIDE DEF b, E, m
  <2> QED BY <1>1, <1>9
<1> DEFINE Alike == {k \in 0 .. m : Through[k] = f[k]}
<1>11. 0 .. m \subseteq Alike
  <2>1. 0 \in Alike BY <1>1, <1>7, <1>10
  <2>2. ASSUME NEW k \in 1 .. m, k - 1 \in Alike PROVE k \in Alike
    <3>1. k \in 0 .. m BY <1>1
    <3> QED BY <1>7, <1>10, <2>2, <3>1
  <2> HIDE DEF Alike, m
  <2> QED BY <1>1, <2>1, <2>2, AllUpTo
<1>12. f[m] = Sources(n)
  <2>1. m \in 0 .. m BY <1>1
  <2> QED BY <1>2, <1>11, <2>1
<1>13. \A k \in 0 .. m : f[k] \subseteq Triples(n) BY <1>6
<1> HIDE DEF Alike
<1> QED BY <1>7, <1>12, <1>13 DEF Levels

\* A source is a LUT or an input, and there are so many latches between.
LEMMA SourcesAre ==
  ASSUME NEW M, NEW n \in Seq(Line(M)), OfKind(n, "inputs") # <<>>
  PROVE  /\ Sources(n) \subseteq Triples(n)
         /\ \A d \in Sources(n) :
              /\ d[3] \in Nat /\ d[2] \in Int /\ (d[2] > 0 => d[2] \in DOMAIN LutsOf(n))
              /\ d = <<d[1], d[2], d[3]>>
<1> DEFINE K == DOMAIN LutsOf(n) \cup InputSources(n)
<1>1. Len(OfKind(n, "latch")) \in Nat BY LinesOfKind
<1>2. PICK f : Levels(n, f) BY SourcesByLevels
<1>3. Sources(n) \subseteq Triples(n) BY <1>1, <1>2 DEF Levels
<1>4. DOMAIN LutsOf(n) \subseteq Nat BY LinesOfKind DEF LutsOf
<1>5. DOMAIN InsOf(n) \subseteq Nat
  <2> DEFINE o == OfKind(n, "inputs")
  <2>1. o \in Seq(Line(M)) BY LinesOfKind
  <2> HIDE DEF o
  <2>2. o[1] \in Line(M) BY <2>1 DEF o
  <2>3. DOMAIN o[1].toks \subseteq Nat BY <2>2, LineFields
  <2> QED BY <2>3 DEF o, InsOf
<1>6. \A k \in K : k \in Int /\ (k > 0 => k \in DOMAIN LutsOf(n))
  <2> DEFINE D == DOMAIN LutsOf(n)
  <2>1. D \subseteq Nat BY <1>4
  <2> HIDE DEF D
  <2> QED BY <1>5, <2>1 DEF InputSources, D
<1> HIDE DEF K
<1>7. Triples(n) = Driven(n) \X K \X Nat BY DEF Triples, K
<1> QED BY <1>3, <1>6, <1>7

\* The lag of a source; inputs have none.
LagOf(lags, k) == IF k > 0 THEN lags[k] ELSE 0

\* IsRetiming with the sources spelled out.
Moved(n, x, r, lags) == {<<s[1], s[2] + r - LagOf(lags, s[1])>> : s \in SourcesOf(x, Sources(n))}

\* IsRetiming, in terms of what is moved.
LEMMA RetimingIs ==
  ASSUME NEW a, NEW c, NEW lags
  PROVE  IsRetiming(a, c, lags) <=>
           /\ OfKind(c, "inputs") = OfKind(a, "inputs")
           /\ OfKind(c, "outputs") = OfKind(a, "outputs")
           /\ \A x \in NamesOn(a, "outputs") :
                SourcesOf(x, Sources(c)) = Moved(a, x, 0, lags)
           /\ Len(LutsOf(a)) = Len(LutsOf(c))
           /\ \A k \in DOMAIN LutsOf(a) :
                /\ Len(LutsOf(a)[k].toks) = Len(LutsOf(c)[k].toks)
                /\ \A p \in DOMAIN InputPins(LutsOf(a)[k]) :
                     SourcesOf(LutsOf(c)[k].toks[p], Sources(c))
                       = Moved(a, LutsOf(a)[k].toks[p], lags[k], lags)
BY DEF IsRetiming, Moved, LagOf

\* Lags of LUTs, by index, up to m LUTs.
Lags(n) == [DOMAIN LutsOf(n) -> Int]

\* Moving by the one lags and then by the other is moving by their sum.
LEMMA MovedTwice ==
  ASSUME NEW M, NEW a \in Seq(Line(M)), OfKind(a, "inputs") # <<>>,
         NEW lags \in Lags(a), NEW more \in Lags(a),
         NEW c, NEW x, NEW y, NEW r \in Int, NEW s \in Int, NEW t \in Int, t = r + s,
         SourcesOf(y, Sources(c)) = Moved(a, x, r, lags)
  PROVE  Moved(c, y, s, more) = Moved(a, x, t, [k \in DOMAIN lags |-> lags[k] + more[k]])
<1> DEFINE both == [k \in DOMAIN lags |-> lags[k] + more[k]]
           A == SourcesOf(x, Sources(a))
           R(d) == d[2] + r - LagOf(lags, d[1])
           f(d) == <<d[1], R(d)>>
           g(d) == <<d[1], d[2] + t - LagOf(both, d[1])>>
           h(z) == <<z[1], z[2] + s - LagOf(more, z[1])>>
<1>1. \A d \in A : d[1] \in Int /\ d[2] \in Int /\ (d[1] > 0 => d[1] \in DOMAIN LutsOf(a))
  BY SourcesAre DEF SourcesOf
<1>2. Moved(a, x, r, lags) = {f(d) : d \in A} BY DEF Moved
<1>3. Moved(a, x, t, both) = {g(d) : d \in A} BY DEF Moved
<1>4. Moved(c, y, s, more) = {h(z) : z \in Moved(a, x, r, lags)} BY DEF Moved
<1>5. \A d \in A : h(f(d)) = g(d)
  <2> SUFFICES ASSUME NEW d \in A PROVE h(f(d)) = g(d) OBVIOUS
  <2>1. d[1] > 0 => /\ lags[d[1]] \in Int /\ more[d[1]] \in Int
                    /\ both[d[1]] = lags[d[1]] + more[d[1]]
    BY <1>1 DEF Lags
  <2>2. /\ LagOf(lags, d[1]) \in Int /\ LagOf(more, d[1]) \in Int
        /\ LagOf(both, d[1]) = LagOf(lags, d[1]) + LagOf(more, d[1])
    <3> HIDE DEF both
    <3> QED BY <2>1 DEF LagOf
  <2> HIDE DEF both
  <2>3. R(d) + s - LagOf(more, d[1]) = d[2] + t - LagOf(both, d[1]) BY <1>1, <2>2
  <2> HIDE DEF R
  <2> QED BY <2>3
<1> HIDE DEF f, g, h, A, both
<1>6. Moved(c, y, s, more) = Moved(a, x, t, both) BY <1>2, <1>3, <1>4, <1>5
<1> QED BY <1>6 DEF both

\* A retiming of a retiming is one: the lags add up (Leiserson and Saxe).
THEOREM RetimingsCompose ==
  ASSUME NEW M, NEW a \in Seq(Line(M)), OfKind(a, "inputs") # <<>>,
         NEW c, NEW e, NEW lags \in Lags(a), NEW more \in Lags(a),
         IsRetiming(a, c, lags), IsRetiming(c, e, more)
  PROVE  IsRetiming(a, e, [k \in DOMAIN lags |-> lags[k] + more[k]])
<1> DEFINE both == [k \in DOMAIN lags |-> lags[k] + more[k]]
           la == LutsOf(a)
           lc == LutsOf(c)
           le == LutsOf(e)
<1>1. /\ OfKind(c, "inputs") = OfKind(a, "inputs")
      /\ OfKind(c, "outputs") = OfKind(a, "outputs")
      /\ \A x \in NamesOn(a, "outputs") : SourcesOf(x, Sources(c)) = Moved(a, x, 0, lags)
      /\ Len(la) = Len(lc)
      /\ \A k \in DOMAIN la :
           /\ Len(la[k].toks) = Len(lc[k].toks)
           /\ \A p \in DOMAIN InputPins(la[k]) :
                SourcesOf(lc[k].toks[p], Sources(c)) = Moved(a, la[k].toks[p], lags[k], lags)
  BY RetimingIs
<1>2. /\ OfKind(e, "inputs") = OfKind(c, "inputs")
      /\ OfKind(e, "outputs") = OfKind(c, "outputs")
      /\ \A x \in NamesOn(c, "outputs") : SourcesOf(x, Sources(e)) = Moved(c, x, 0, more)
      /\ Len(lc) = Len(le)
      /\ \A k \in DOMAIN lc :
           /\ Len(lc[k].toks) = Len(le[k].toks)
           /\ \A p \in DOMAIN InputPins(lc[k]) :
                SourcesOf(le[k].toks[p], Sources(e)) = Moved(c, lc[k].toks[p], more[k], more)
  BY RetimingIs
<1>3. NamesOn(c, "outputs") = NamesOn(a, "outputs") BY <1>1 DEF NamesOn
<1>4. \A x \in NamesOn(a, "outputs") : SourcesOf(x, Sources(e)) = Moved(a, x, 0, both)
  <2> SUFFICES ASSUME NEW x \in NamesOn(a, "outputs")
               PROVE  SourcesOf(x, Sources(e)) = Moved(a, x, 0, both)
    OBVIOUS
  <2>1. SourcesOf(x, Sources(c)) = Moved(a, x, 0, lags) BY <1>1
  <2>2. 0 \in Int /\ 0 = 0 + 0 OBVIOUS
  <2>3. Moved(c, x, 0, more) = Moved(a, x, 0, both) BY <2>1, <2>2, MovedTwice
  <2> QED BY <1>2, <1>3, <2>3
<1>5. DOMAIN la = DOMAIN lc
  BY <1>1
<1>6. ASSUME NEW k \in DOMAIN la
      PROVE  /\ Len(la[k].toks) = Len(le[k].toks)
             /\ \A p \in DOMAIN InputPins(la[k]) :
                  SourcesOf(le[k].toks[p], Sources(e)) = Moved(a, la[k].toks[p], both[k], both)
  <2>1. Len(la[k].toks) = Len(le[k].toks) BY <1>1, <1>2, <1>5
  <2>2. DOMAIN InputPins(la[k]) = DOMAIN InputPins(lc[k])
    BY <1>1 DEF InputPins, Front
  <2>3. ASSUME NEW p \in DOMAIN InputPins(la[k])
        PROVE  SourcesOf(le[k].toks[p], Sources(e)) = Moved(a, la[k].toks[p], both[k], both)
    <3>1. SourcesOf(lc[k].toks[p], Sources(c)) = Moved(a, la[k].toks[p], lags[k], lags)
      BY <1>1
    <3>2. SourcesOf(le[k].toks[p], Sources(e)) = Moved(c, lc[k].toks[p], more[k], more)
      BY <1>2, <1>5, <2>2
    <3>3. lags[k] \in Int /\ more[k] \in Int /\ both[k] \in Int /\ both[k] = lags[k] + more[k]
      BY DEF Lags
    <3>4. Moved(c, lc[k].toks[p], more[k], more) = Moved(a, la[k].toks[p], both[k], both)
      BY <3>1, <3>3, MovedTwice
    <3> QED BY <3>2, <3>4
  <2> QED BY <2>1, <2>3
<1> HIDE DEF both
<1>7. IsRetiming(a, e, both) BY <1>1, <1>2, <1>4, <1>6, RetimingIs
<1> QED BY <1>7 DEF both

\* A netlist is a retiming of itself.
LEMMA NothingMoved ==
  ASSUME NEW M, NEW a \in Seq(Line(M)), OfKind(a, "inputs") # <<>>
  PROVE  IsRetiming(a, a, [k \in DOMAIN LutsOf(a) |-> 0])
<1> DEFINE none == [k \in DOMAIN LutsOf(a) |-> 0]
<1>1. ASSUME NEW x PROVE SourcesOf(x, Sources(a)) = Moved(a, x, 0, none)
  <2> DEFINE A == SourcesOf(x, Sources(a))
             g(d) == <<d[1], d[2] + 0 - LagOf(none, d[1])>>
  <2>1. \A d \in A : /\ d[1] \in Int /\ d[2] \in Int /\ (d[1] > 0 => d[1] \in DOMAIN LutsOf(a))
                     /\ d = <<d[1], d[2]>>
    BY SourcesAre DEF SourcesOf
  <2>2. \A d \in A : d = g(d)
    <3> HIDE DEF A
    <3>1. \A d \in A : LagOf(none, d[1]) = 0 BY <2>1 DEF LagOf
    <3> HIDE DEF none
    <3> QED BY <2>1, <3>1
  <2>3. Moved(a, x, 0, none) = {g(d) : d \in A} BY DEF Moved
  <2> HIDE DEF A, none, g
  <2>4. A = Moved(a, x, 0, none) BY <2>2, <2>3
  <2> QED BY <2>4 DEF A
<1>2. \A k \in DOMAIN LutsOf(a) : none[k] = 0 OBVIOUS
<1> HIDE DEF none
<1>3. IsRetiming(a, a, none) BY <1>1, <1>2, RetimingIs
<1> QED BY <1>3 DEF none

-----------------------------------------------------------------------------
(***************************************************************************)
(* In a netlist whose nets are driven once, every net has at most one      *)
(* source, and the latches from it are no more than there are: what        *)
(* Sources finds is closed under passing latches.                          *)
(***************************************************************************)
\* The latches, as pairs of nets.
Passes(n) == {<<t.toks[1], t.toks[2]>> : t \in ToSet(OfKind(n, "latch"))}

\* What lies one latch further is what a pair leads to.
LEMMA BehindIs ==
  ASSUME NEW n, NEW S
  PROVE  /\ \A d \in Behind(n, S) : \E p \in Passes(n), e \in S :
              e[1] = p[1] /\ d = <<p[2], e[2], e[3] + 1>>
         /\ \A p \in Passes(n), e \in S :
              e[1] = p[1] => <<p[2], e[2], e[3] + 1>> \in Behind(n, S)
<1> DEFINE latches == OfKind(n, "latch")
<1>1. \A t \in DOMAIN latches : <<latches[t].toks[1], latches[t].toks[2]>> \in Passes(n)
  BY DEF Passes, ToSet
<1>2. \A p \in Passes(n) : \E t \in DOMAIN latches :
        p[1] = latches[t].toks[1] /\ p[2] = latches[t].toks[2]
  BY DEF Passes, ToSet
<1>3. ASSUME NEW d \in Behind(n, S)
      PROVE  \E p \in Passes(n), e \in S : e[1] = p[1] /\ d = <<p[2], e[2], e[3] + 1>>
  <2>1. PICK t \in DOMAIN latches, e \in S : /\ e[1] = latches[t].toks[1]
                                             /\ d = <<latches[t].toks[2], e[2], e[3] + 1>>
    BY DEF Behind
  <2> DEFINE p == <<latches[t].toks[1], latches[t].toks[2]>>
  <2>2. p \in Passes(n) /\ p[1] = latches[t].toks[1] /\ p[2] = latches[t].toks[2]
    BY <1>1
  <2> HIDE DEF p, latches
  <2> QED BY <2>1, <2>2
<1>4. ASSUME NEW p \in Passes(n), NEW e \in S, e[1] = p[1]
      PROVE  <<p[2], e[2], e[3] + 1>> \in Behind(n, S)
  BY <1>2, <1>4 DEF Behind
<1> QED BY <1>3, <1>4

\* What it means for sources that every net is driven once.
LEMMA Once ==
  ASSUME NEW M, NEW n \in Seq(Line(M)), WellFormed(n)
  PROVE  /\ \A d, e \in Direct(n) : d[1] = e[1] => d = e
         /\ \A d \in Direct(n), p \in Passes(n) : d[1] # p[2]
         /\ \A p, q \in Passes(n) : p[2] = q[2] => p = q
         /\ IsFiniteSet(Passes(n)) /\ Cardinality(Passes(n)) <= Len(OfKind(n, "latch"))
         /\ OfKind(n, "inputs") # <<>>
<1> DEFINE latches == OfKind(n, "latch")
           luts == LutsOf(n)
           ins == InsOf(n)
           driven == {OutputOf(l) : l \in ToSet(luts)}
           latched == {t.toks[2] : t \in ToSet(latches)}
<1>1. /\ IsInjective(ins)
      /\ \A j, k \in DOMAIN luts : OutputOf(luts[j]) = OutputOf(luts[k]) => j = k
      /\ \A t, u \in ToSet(latches) : t.toks[2] = u.toks[2] => t.toks[1] = u.toks[1]
      /\ ToSet(ins) \cap driven = {} /\ ToSet(ins) \cap latched = {}
      /\ driven \cap latched = {}
      /\ Len(OfKind(n, "inputs")) = 1
  BY DEF WellFormed, InsOf
<1>2. \A k \in DOMAIN luts : OutputOf(luts[k]) \in driven BY DEF ToSet
<1>3. \A k \in DOMAIN ins : ins[k] \in ToSet(ins) BY DEF ToSet
<1>4. \A p \in Passes(n) : p[2] \in latched BY DEF Passes
<1>5. ASSUME NEW d \in Direct(n)
      PROVE  \/ \E k \in DOMAIN luts : d = <<OutputOf(luts[k]), k, 0>>
             \/ \E k \in DOMAIN ins : d = <<ins[k], -k, 0>>
  BY DEF Direct
<1>6. \A d, e \in Direct(n) : d[1] = e[1] => d = e
  <2> HIDE DEF luts, ins, driven, latched
  <2> QED BY <1>1, <1>2, <1>3, <1>5 DEF IsInjective
<1>7. \A d \in Direct(n), p \in Passes(n) : d[1] # p[2]
  <2> HIDE DEF luts, ins, driven, latched
  <2> QED BY <1>1, <1>2, <1>3, <1>4, <1>5
<1>8. \A p, q \in Passes(n) : p[2] = q[2] => p = q BY <1>1 DEF Passes
<1>9. IsFiniteSet(Passes(n)) /\ Cardinality(Passes(n)) <= Len(latches)
  <2>1. DOMAIN latches = 1 .. Len(latches) /\ Len(latches) \in Nat BY LinesOfKind
  <2> DEFINE c == Len(latches)
             I == 1 .. c
             g == [t \in I |-> <<latches[t].toks[1], latches[t].toks[2]>>]
  <2>2. IsFiniteSet(I) /\ Cardinality(I) = c
    <3>1. c \in Nat BY <2>1
    <3> HIDE DEF c
    <3>2. c = c - 1 + 1 /\ 1 \in Int /\ c \in Int BY <3>1
    <3> QED BY <3>1, <3>2, FS_Interval
  <2>3. g \in Surjection(I, Passes(n)) BY <2>1 DEF Surjection, Passes, ToSet
  <2> HIDE DEF I, g
  <2> QED BY <2>2, <2>3, FS_Surjection
<1> QED BY <1>1, <1>6, <1>7, <1>8, <1>9

\* Each step finds what the one before it has found; what is behind d[3]
\* latches is found in step d[3].
LEMMA LevelsRise ==
  ASSUME NEW M, NEW n \in Seq(Line(M)), NEW f, Levels(n, f),
         NEW k \in 0 .. Len(OfKind(n, "latch")), NEW d \in f[k]
  PROVE  d[3] \in 0 .. k /\ d \in f[d[3]] /\ d \in Sources(n)
<1> DEFINE m == Len(OfKind(n, "latch"))
<1>1. m \in Nat BY LinesOfKind
<1>2. /\ f[0] = Direct(n) /\ f[m] = Sources(n)
      /\ \A j \in 1 .. m : f[j] = Direct(n) \cup Behind(n, f[j - 1])
      /\ \A j \in 0 .. m : f[j] \subseteq Triples(n)
  BY DEF Levels
<1>3. \A j \in 0 .. m : \A e \in f[j] : e[3] \in Nat BY <1>2 DEF Triples
<1>4. \A e \in Direct(n) : e[3] = 0 BY DEF Direct
<1> HIDE DEF m
<1> DEFINE Low == {j \in 0 .. m : \A e \in f[j] : e[3] <= j /\ e \in f[e[3]]}
           Up == {j \in 0 .. m : j # 0 => f[j - 1] \subseteq f[j]}
<1>5. 0 .. m \subseteq Low
  <2>1. 0 \in Low BY <1>1, <1>2, <1>4
  <2>2. ASSUME NEW j \in 1 .. m, j - 1 \in Low PROVE j \in Low
    <3>1. ASSUME NEW e \in f[j] PROVE e[3] <= j /\ e \in f[e[3]]
      <4>1. CASE e \in Direct(n) BY <1>2, <1>4, <4>1
      <4>2. CASE e \in Behind(n, f[j - 1])
        <5>1. PICK p \in Passes(n), g \in f[j - 1] :
                g[1] = p[1] /\ e = <<p[2], g[2], g[3] + 1>>
          BY <4>2, BehindIs
        <5>2. g[3] <= j - 1 /\ g \in f[g[3]] /\ g[3] \in Nat BY <1>3, <2>2
        <5>3. g[3] + 1 \in 1 .. m /\ (g[3] + 1) - 1 = g[3] BY <1>1, <5>2
        <5>4. e \in Behind(n, f[g[3]]) BY <5>1, <5>2, BehindIs
        <5>5. e \in f[g[3] + 1] BY <1>2, <5>3, <5>4
        <5>6. e[3] = g[3] + 1 BY <5>1
        <5> QED BY <5>2, <5>5, <5>6
      <4> QED BY <1>2, <4>1, <4>2
    <3> QED BY <1>1, <3>1
  <2> HIDE DEF Low
  <2> QED BY <1>1, <2>1, <2>2, AllUpTo
<1>6. 0 .. m \subseteq Up
  <2>1. 0 \in Up BY <1>1
  <2>2. ASSUME NEW j \in 1 .. m, j - 1 \in Up PROVE j \in Up
    <3>1. CASE j = 1 BY <1>1, <1>2, <3>1
    <3>2. CASE j # 1
      <4>1. j - 1 \in 1 .. m /\ f[(j - 1) - 1] \subseteq f[j - 1] BY <1>1, <2>2, <3>2
      <4>2. Behind(n, f[(j - 1) - 1]) \subseteq Behind(n, f[j - 1])
        <5>1. ASSUME NEW e \in Behind(n, f[(j - 1) - 1]) PROVE e \in Behind(n, f[j - 1])
          <6>1. PICK p \in Passes(n), g \in f[(j - 1) - 1] :
                  g[1] = p[1] /\ e = <<p[2], g[2], g[3] + 1>>
            BY BehindIs
          <6>2. g \in f[j - 1] BY <4>1
          <6> QED BY <6>1, <6>2, BehindIs
        <5> QED BY <5>1
      <4>3. /\ f[j - 1] = Direct(n) \cup Behind(n, f[(j - 1) - 1])
            /\ f[j] = Direct(n) \cup Behind(n, f[j - 1])
        BY <1>2, <4>1
      <4>4. f[j - 1] \subseteq f[j] BY <4>2, <4>3
      <4>5. j \in 0 .. m BY <1>1
      <4> QED BY <4>4, <4>5
    <3> QED BY <3>1, <3>2
  <2> HIDE DEF Up
  <2> QED BY <1>1, <2>1, <2>2, AllUpTo
<1> DEFINE Kept == {j \in 0 .. m : \A e \in f[m - j] : e \in f[m]}
<1>7. 0 .. m \subseteq Kept
  <2>1. 0 \in Kept
    <3>1. m - 0 = m /\ 0 \in 0 .. m BY <1>1
    <3> QED BY <3>1
  <2>2. ASSUME NEW j \in 1 .. m, j - 1 \in Kept PROVE j \in Kept
    <3>1. m - (j - 1) \in 0 .. m /\ m - (j - 1) # 0 /\ (m - (j - 1)) - 1 = m - j /\ j \in 0 .. m
      BY <1>1
    <3>2. f[m - j] \subseteq f[m - (j - 1)] BY <1>6, <3>1
    <3> QED BY <2>2, <3>1, <3>2
  <2> HIDE DEF Kept
  <2> QED BY <1>1, <2>1, <2>2, AllUpTo
<1>8. d[3] <= k /\ d \in f[d[3]] BY <1>5 DEF m
<1>9. d \in f[m]
  <2>1. m - k \in 0 .. m /\ m - (m - k) = k BY <1>1 DEF m
  <2> QED BY <1>7, <2>1
<1>10. d[3] \in Nat /\ k \in Nat BY <1>1, <1>3 DEF m
<1> QED BY <1>2, <1>8, <1>9, <1>10

\* Every net has at most one source: levels cannot disagree for the first time.
LEMMA UniqueSource ==
  ASSUME NEW M, NEW n \in Seq(Line(M)), WellFormed(n),
         NEW d \in Sources(n), NEW e \in Sources(n), d[1] = e[1]
  PROVE  d = e
<1> DEFINE m == Len(OfKind(n, "latch"))
<1>1. m \in Nat BY LinesOfKind
<1>2. PICK f : Levels(n, f) BY SourcesByLevels
<1>3. /\ f[0] = Direct(n) /\ f[m] = Sources(n)
      /\ \A j \in 1 .. m : f[j] = Direct(n) \cup Behind(n, f[j - 1])
  BY <1>2 DEF Levels
<1>4. \A j \in 0 .. m : f[j] \subseteq f[m] BY <1>2, <1>3, LevelsRise
<1> HIDE DEF m
<1>5. ASSUME NEW j \in 0 .. m, NEW g \in f[j]
      PROVE  \/ g \in Direct(n)
             \/ j # 0 /\ \E p \in Passes(n), h \in f[j - 1] :
                            h[1] = p[1] /\ g = <<p[2], h[2], h[3] + 1>>
  <2>1. CASE j = 0 BY <1>3, <2>1
  <2>2. CASE j # 0
    <3>1. j \in 1 .. m BY <1>1, <2>2
    <3>2. g \in Direct(n) \/ g \in Behind(n, f[j - 1]) BY <1>3, <3>1
    <3> QED BY <2>2, <3>2, BehindIs
  <2> QED BY <2>1, <2>2
<1> DEFINE X == {j \in 0 .. m : \A g \in f[j], h \in f[m] : g[1] = h[1] => g = h}
<1>6. /\ \A g, h \in Direct(n) : g[1] = h[1] => g = h
      /\ \A g \in Direct(n), p \in Passes(n) : g[1] # p[2]
      /\ \A p, q \in Passes(n) : p[2] = q[2] => p = q
  BY Once
<1>7. 0 .. m \subseteq X
  <2>1. 0 \in X
    <3>1. ASSUME NEW g \in f[0], NEW h \in f[m], g[1] = h[1] PROVE g = h
      <4>1. g \in Direct(n) /\ m \in 0 .. m BY <1>1, <1>3
      <4>2. h \in Direct(n) BY <1>5, <1>6, <3>1, <4>1
      <4> QED BY <1>6, <3>1, <4>1, <4>2
    <3> QED BY <1>1, <3>1
  <2>2. ASSUME NEW j \in 1 .. m, j - 1 \in X PROVE j \in X
    <3>1. ASSUME NEW g \in f[j], NEW h \in f[m], g[1] = h[1] PROVE g = h
      <4>1. j \in 0 .. m /\ m \in 0 .. m /\ m - 1 \in 0 .. m BY <1>1
      <4>2. CASE g \in Direct(n)
        <5>1. h \in Direct(n) BY <1>5, <1>6, <3>1, <4>1, <4>2
        <5> QED BY <1>6, <3>1, <4>2, <5>1
      <4>3. CASE g \notin Direct(n)
        <5>1. PICK p \in Passes(n), gg \in f[j - 1] :
                gg[1] = p[1] /\ g = <<p[2], gg[2], gg[3] + 1>>
          BY <1>5, <4>1, <4>3
        <5>2. g[1] = p[2] BY <5>1
        <5>3. h \notin Direct(n) BY <1>6, <3>1, <5>2
        <5>4. PICK q \in Passes(n), hh \in f[m - 1] :
                hh[1] = q[1] /\ h = <<q[2], hh[2], hh[3] + 1>>
          BY <1>5, <4>1, <5>3
        <5>5. h[1] = q[2] BY <5>4
        <5>6. p = q BY <1>6, <3>1, <5>2, <5>5
        <5>7. gg[1] = hh[1] /\ hh \in f[m] BY <1>4, <4>1, <5>1, <5>4, <5>6
        <5>8. gg = hh BY <2>2, <5>7
        <5> QED BY <5>1, <5>4, <5>6, <5>8
      <4> QED BY <4>2, <4>3
    <3> QED BY <1>1, <3>1
  <2> HIDE DEF X
  <2> QED BY <1>1, <2>1, <2>2, AllUpTo
<1>8. m \in X BY <1>1, <1>7
<1> QED BY <1>3, <1>8

\* The latches a source is behind are different ones, and each drives a net
\* that is behind no more latches.
LEMMA LatchesBetween ==
  ASSUME NEW M, NEW n \in Seq(Line(M)), WellFormed(n), NEW d \in Sources(n)
  PROVE  \E C \in SUBSET Passes(n) :
           /\ IsFiniteSet(C) /\ Cardinality(C) = d[3]
           /\ \A p \in C : \E e \in Sources(n) : e[1] = p[2] /\ e[3] <= d[3]
<1> DEFINE m == Len(OfKind(n, "latch"))
           Between(g, C) == /\ IsFiniteSet(C) /\ Cardinality(C) = g[3]
                            /\ \A p \in C : \E e \in Sources(n) : e[1] = p[2] /\ e[3] <= g[3]
<1>1. m \in Nat BY LinesOfKind
<1>2. PICK f : Levels(n, f) BY SourcesByLevels
<1>3. /\ f[0] = Direct(n) /\ f[m] = Sources(n)
      /\ \A j \in 1 .. m : f[j] = Direct(n) \cup Behind(n, f[j - 1])
  BY <1>2 DEF Levels
<1>4. \A j \in 0 .. m : \A g \in f[j] : g \in Sources(n) /\ g[3] \in Nat
  BY <1>2, LevelsRise
<1>5. \A g \in Direct(n) : Between(g, {})
  <2>1. IsFiniteSet({}) /\ Cardinality({}) = 0 BY FS_EmptySet
  <2>2. \A g \in Direct(n) : g[3] = 0 BY DEF Direct
  <2> QED BY <2>1, <2>2
<1> DEFINE X == {j \in 0 .. m : \A g \in f[j] : \E C \in SUBSET Passes(n) : Between(g, C)}
<1>6. 0 \in X
  <2> HIDE DEF Between
  <2> QED BY <1>1, <1>3, <1>5
<1>7. ASSUME NEW j \in 1 .. m, j - 1 \in X PROVE j \in X
  <2>1. ASSUME NEW g \in f[j] PROVE \E C \in SUBSET Passes(n) : Between(g, C)
    <3>1. CASE g \in Direct(n)
      <4> HIDE DEF Between
      <4> QED BY <1>5, <3>1
    <3>2. CASE g \in Behind(n, f[j - 1])
      <4>1. PICK p \in Passes(n), h \in f[j - 1] :
              h[1] = p[1] /\ g = <<p[2], h[2], h[3] + 1>>
        BY <3>2, BehindIs
      <4>2. PICK C \in SUBSET Passes(n) : Between(h, C)
        <5> HIDE DEF Between
        <5> QED BY <1>7
      <4>3. j \in 0 .. m /\ j - 1 \in 0 .. m BY <1>1
      <4>4. /\ g \in Sources(n) /\ g[1] = p[2] /\ g[3] = h[3] + 1 /\ h[3] \in Nat
        <5> HIDE DEF m
        <5> QED BY <1>4, <4>1, <4>3
      <4>5. p \notin C
        <5> SUFFICES ASSUME p \in C PROVE FALSE OBVIOUS
        <5>1. PICK e \in Sources(n) : e[1] = p[2] /\ e[3] <= h[3] BY <4>2
        <5>2. e = g BY <4>4, <5>1, UniqueSource
        <5> QED BY <4>4, <5>1, <5>2
      <4>6. IsFiniteSet(C \cup {p}) /\ Cardinality(C \cup {p}) = g[3]
        <5>1. IsFiniteSet(C) /\ Cardinality(C) = h[3] BY <4>2
        <5> QED BY <4>4, <4>5, <5>1, FS_AddElement
      <4>7. ASSUME NEW q \in C \cup {p}
            PROVE  \E e \in Sources(n) : e[1] = q[2] /\ e[3] <= g[3]
        <5>1. CASE q = p
          <6>1. g[3] <= g[3] BY <4>4
          <6> QED BY <4>4, <5>1, <6>1
        <5>2. CASE q \in C
          <6>1. PICK e \in Sources(n) : e[1] = q[2] /\ e[3] <= h[3] BY <4>2, <5>2
          <6>2. e[3] \in Nat BY <1>1, <1>3, <1>4
          <6>3. e[3] <= g[3] BY <4>4, <6>1, <6>2
          <6> QED BY <6>1, <6>3
        <5> QED BY <5>1, <5>2
      <4>8. Between(g, C \cup {p}) BY <4>6, <4>7
      <4> HIDE DEF Between
      <4> QED BY <4>8
    <3> QED BY <1>3, <3>1, <3>2
  <2>2. j \in 0 .. m BY <1>1
  <2> HIDE DEF Between, m
  <2> QED BY <2>1, <2>2
<1>8. 0 .. m \subseteq X
  <2> HIDE DEF X, m
  <2> QED BY <1>1, <1>6, <1>7, AllUpTo
<1>9. m \in X BY <1>1, <1>8
<1>10. \E C \in SUBSET Passes(n) : Between(d, C)
  <2> HIDE DEF Between, m
  <2> QED BY <1>3, <1>9
<1> QED BY <1>10

\* Sources has what drives nets and is closed under passing a latch.
LEMMA SourcesClosed ==
  ASSUME NEW M, NEW n \in Seq(Line(M)), WellFormed(n)
  PROVE  /\ Direct(n) \subseteq Sources(n)
         /\ \A p \in Passes(n), d \in Sources(n) :
              d[1] = p[1] => <<p[2], d[2], d[3] + 1>> \in Sources(n)
<1> DEFINE m == Len(OfKind(n, "latch"))
<1>1. m \in Nat BY LinesOfKind
<1>2. PICK f : Levels(n, f) BY SourcesByLevels
<1>3. /\ f[0] = Direct(n) /\ f[m] = Sources(n)
      /\ \A j \in 1 .. m : f[j] = Direct(n) \cup Behind(n, f[j - 1])
  BY <1>2 DEF Levels
<1>4. \A j \in 0 .. m : \A g \in f[j] : g \in Sources(n) /\ g[3] \in 0 .. j /\ g \in f[g[3]]
  BY <1>2, LevelsRise
<1>5. \A p, q \in Passes(n) : p[2] = q[2] => p = q BY Once
<1>6. IsFiniteSet(Passes(n)) /\ Cardinality(Passes(n)) <= m BY Once
<1>7. \A g \in Direct(n), p \in Passes(n) : g[1] # p[2] BY Once
<1>8. \A d \in Sources(n) :
        \E C \in SUBSET Passes(n) :
           /\ IsFiniteSet(C) /\ Cardinality(C) = d[3]
           /\ \A p \in C : \E e \in Sources(n) : e[1] = p[2] /\ e[3] <= d[3]
  BY LatchesBetween
<1> HIDE DEF m
<1>9. Direct(n) \subseteq Sources(n)
  <2>1. 0 \in 0 .. m BY <1>1
  <2> QED BY <1>3, <1>4, <2>1
<1>10. ASSUME NEW p \in Passes(n), NEW d \in Sources(n), d[1] = p[1]
       PROVE  <<p[2], d[2], d[3] + 1>> \in Sources(n)
  <2>1. d[3] \in 0 .. m /\ d \in f[d[3]] BY <1>1, <1>3, <1>4
  <2>2. CASE d[3] # m
    <3>1. d[3] + 1 \in 1 .. m /\ d[3] + 1 \in 0 .. m /\ (d[3] + 1) - 1 = d[3]
      BY <1>1, <2>1, <2>2
    <3>2. <<p[2], d[2], d[3] + 1>> \in Behind(n, f[d[3]]) BY <1>10, <2>1, BehindIs
    <3>3. <<p[2], d[2], d[3] + 1>> \in f[d[3] + 1] BY <1>3, <3>1, <3>2
    <3> QED BY <1>4, <3>1, <3>3
  <2>3. CASE d[3] = m
    <3>1. PICK C \in SUBSET Passes(n) :
             /\ IsFiniteSet(C) /\ Cardinality(C) = d[3]
             /\ \A q \in C : \E e \in Sources(n) : e[1] = q[2] /\ e[3] <= d[3]
      BY <1>8
    <3>2. CASE p \notin C
      <4>1. IsFiniteSet(C \cup {p}) /\ Cardinality(C \cup {p}) = m + 1
        BY <2>3, <3>1, <3>2, FS_AddElement
      <4>2. C \cup {p} \subseteq Passes(n) BY <3>1
      <4>3. Cardinality(C \cup {p}) <= Cardinality(Passes(n)) BY <1>6, <4>2, FS_Subset
      <4>4. Cardinality(Passes(n)) \in Nat BY <1>6, FS_CardinalityType
      <4> QED BY <1>1, <1>6, <4>1, <4>3, <4>4
    <3>3. CASE p \in C
      <4>1. PICK e \in Sources(n) : e[1] = p[2] /\ e[3] <= m BY <2>3, <3>1, <3>3
      <4>2. e \in f[m] /\ e \notin Direct(n) BY <1>3, <1>7, <4>1
      <4>3. m # 0 BY <1>3, <4>2
      <4>4. e \in Behind(n, f[m - 1]) /\ m - 1 \in 0 .. m
        <5>1. m \in 1 .. m /\ m - 1 \in 0 .. m BY <1>1, <4>3
        <5> QED BY <1>3, <4>2, <5>1
      <4>5. PICK q \in Passes(n), h \in f[m - 1] :
              h[1] = q[1] /\ e = <<q[2], h[2], h[3] + 1>>
        BY <4>4, BehindIs
      <4>6. q = p /\ h \in Sources(n) /\ h[3] \in 0 .. m - 1
        BY <1>4, <1>5, <4>1, <4>4, <4>5
      <4>7. h = d BY <1>10, <4>5, <4>6, UniqueSource
      <4> QED BY <1>1, <2>3, <4>6, <4>7
    <3> QED BY <3>2, <3>3
  <2> QED BY <2>2, <2>3
<1> QED BY <1>9, <1>10

\* What is driven and behind latches is all there is.
LEMMA SourcesLeast ==
  ASSUME NEW M, NEW n \in Seq(Line(M)), NEW T, Direct(n) \subseteq T,
         \A p \in Passes(n), d \in T : d[1] = p[1] => <<p[2], d[2], d[3] + 1>> \in T
  PROVE  Sources(n) \subseteq T
<1> DEFINE m == Len(OfKind(n, "latch"))
<1>1. m \in Nat BY LinesOfKind
<1>2. PICK f : Levels(n, f) BY SourcesByLevels
<1>3. /\ f[0] = Direct(n) /\ f[m] = Sources(n)
      /\ \A j \in 1 .. m : f[j] = Direct(n) \cup Behind(n, f[j - 1])
  BY <1>2 DEF Levels
<1> HIDE DEF m
<1> DEFINE X == {j \in 0 .. m : f[j] \subseteq T}
<1>4. 0 \in X BY <1>1, <1>3
<1>5. ASSUME NEW j \in 1 .. m, j - 1 \in X PROVE j \in X
  <2>1. ASSUME NEW d \in Behind(n, f[j - 1]) PROVE d \in T
    <3>1. PICK p \in Passes(n), e \in f[j - 1] : e[1] = p[1] /\ d = <<p[2], e[2], e[3] + 1>>
      BY BehindIs
    <3> QED BY <1>5, <3>1
  <2>2. j \in 0 .. m BY <1>1
  <2> QED BY <1>3, <2>1, <2>2
<1>6. 0 .. m \subseteq X
  <2> HIDE DEF X
  <2> QED BY <1>1, <1>4, <1>5, AllUpTo
<1>7. m \in X BY <1>1, <1>6
<1> QED BY <1>3, <1>7

-----------------------------------------------------------------------------
(***************************************************************************)
(* Well-formed netlists, and when one is a retiming of another.            *)
(***************************************************************************)
\* The pins of a LUT line.
LEMMA PinsAre ==
  ASSUME NEW M, NEW l \in Line(M)
  PROVE  /\ InputPins(l) # <<>> <=> Len(l.toks) >= 2
         /\ Len(l.toks) >= 1 =>
              /\ DOMAIN InputPins(l) = 1 .. Len(l.toks) - 1
              /\ \A p \in 1 .. Len(l.toks) - 1 : InputPins(l)[p] = l.toks[p]
              /\ Len(InputPins(l)) = Len(l.toks) - 1
         /\ OutputOf(l) = l.toks[Len(l.toks)]
<1> DEFINE t == l.toks
           s == SubSeq(t, 1, Len(t) - 1)
<1>1. t \in Seq(M) /\ Len(t) \in Nat BY LineFields
<1>2. InputPins(l) = s BY DEF InputPins, Front
<1>3. OutputOf(l) = t[Len(t)] BY DEF OutputOf, Last
<1> HIDE DEF t
<1>4. CASE Len(t) = 0
  <2>1. Len(t) - 1 = -1 /\ t = <<>> BY <1>1, <1>4
  <2>2. s = <<>> BY <2>1
  <2> QED BY <1>2, <1>3, <1>4, <2>2 DEF t
<1>5. CASE Len(t) # 0
  <2>1. Len(t) - 1 \in 0 .. Len(t) /\ Len(t) - 1 \in Nat BY <1>1, <1>5
  <2>6. \A p \in 1 .. Len(t) - 1 : t[p] \in M
    <3>1. \A p \in 1 .. Len(t) : t[p] \in M BY <1>1
    <3>2. \A p \in 1 .. Len(t) - 1 : p \in 1 .. Len(t) BY <1>1
    <3> QED BY <3>1, <3>2
  <2>7. s = [p \in 1 .. Len(t) - 1 |-> t[p]] BY <2>1
  <2>8. s \in [1 .. Len(t) - 1 -> M] BY <2>6, <2>7
  <2> DEFINE m == Len(t) - 1
  <2>9. s \in Seq(M) /\ Len(s) = Len(t) - 1
    <3>1. m \in Nat /\ s \in [1 .. m -> M] BY <2>1, <2>8
    <3> HIDE DEF s, m
    <3>2. s \in Seq(M) /\ Len(s) = m BY <3>1
    <3> QED BY <3>2 DEF m
  <2>2. /\ s \in Seq(M) /\ Len(s) = Len(t) - 1
        /\ \A p \in 1 .. Len(t) - 1 : s[p] = t[p]
    BY <2>7, <2>9
  <2>3. s # <<>> <=> Len(s) # 0
    <3> HIDE DEF s
    <3> QED BY <2>2
  <2>4. DOMAIN s = 1 .. Len(s) BY <2>2
  <2> HIDE DEF s
  <2>5. s # <<>> <=> Len(t) >= 2 BY <1>1, <1>5, <2>2, <2>3
  <2> QED BY <1>2, <1>3, <2>2, <2>4, <2>5 DEF t
<1> QED BY <1>4, <1>5

\* WellFormed, of the pairs of nets that latches connect.
LEMMA WellFormedIs ==
  ASSUME NEW n
  PROVE  WellFormed(n) <=>
           /\ Len(OfKind(n, "inputs")) = 1 /\ IsInjective(InsOf(n))
           /\ \A k \in DOMAIN LutsOf(n) :
                /\ InputPins(LutsOf(n)[k]) # <<>>
                /\ OutputOf(LutsOf(n)[k]) \notin ToSet(InputPins(LutsOf(n)[k]))
           /\ \A j, k \in DOMAIN LutsOf(n) :
                OutputOf(LutsOf(n)[j]) = OutputOf(LutsOf(n)[k]) => j = k
           /\ \A p, q \in Passes(n) : p[2] = q[2] => p[1] = q[1]
           /\ \A k \in DOMAIN InsOf(n) :
                /\ \A j \in DOMAIN LutsOf(n) : InsOf(n)[k] # OutputOf(LutsOf(n)[j])
                /\ \A p \in Passes(n) : InsOf(n)[k] # p[2]
           /\ \A k \in DOMAIN LutsOf(n), p \in Passes(n) : OutputOf(LutsOf(n)[k]) # p[2]
<1> DEFINE luts == LutsOf(n)
           latches == ToSet(OfKind(n, "latch"))
           driven == {OutputOf(l) : l \in ToSet(luts)}
           latched == {t.toks[2] : t \in latches}
<1>1. driven = {OutputOf(luts[k]) : k \in DOMAIN luts} BY DEF ToSet
<1>2. latched = {p[2] : p \in Passes(n)}
  <2>1. ASSUME NEW t \in latches PROVE \E p \in Passes(n) : p[2] = t.toks[2]
    <3>1. <<t.toks[1], t.toks[2]>> \in Passes(n) BY DEF Passes
    <3> QED BY <3>1
  <2>2. ASSUME NEW p \in Passes(n) PROVE \E t \in latches : p[2] = t.toks[2]
    BY DEF Passes
  <2> QED BY <2>1, <2>2
<1>3. (\A t, u \in latches : t.toks[2] = u.toks[2] => t.toks[1] = u.toks[1])
        <=> \A p, q \in Passes(n) : p[2] = q[2] => p[1] = q[1]
  <2>1. ASSUME NEW t \in latches
        PROVE  \E p \in Passes(n) : p[1] = t.toks[1] /\ p[2] = t.toks[2]
    <3>1. <<t.toks[1], t.toks[2]>> \in Passes(n) BY DEF Passes
    <3> QED BY <3>1
  <2>2. ASSUME NEW p \in Passes(n)
        PROVE  \E t \in latches : p[1] = t.toks[1] /\ p[2] = t.toks[2]
    BY DEF Passes
  <2> HIDE DEF latches
  <2> QED BY <2>1, <2>2
<1>4. ToSet(InsOf(n)) = {InsOf(n)[k] : k \in DOMAIN InsOf(n)} BY DEF ToSet
<1>5. WellFormed(n) <=>
        /\ Len(OfKind(n, "inputs")) = 1 /\ IsInjective(InsOf(n))
        /\ \A k \in DOMAIN luts : /\ InputPins(luts[k]) # <<>>
                                  /\ OutputOf(luts[k]) \notin ToSet(InputPins(luts[k]))
        /\ \A j, k \in DOMAIN luts : OutputOf(luts[j]) = OutputOf(luts[k]) => j = k
        /\ \A t, u \in latches : t.toks[2] = u.toks[2] => t.toks[1] = u.toks[1]
        /\ ToSet(InsOf(n)) \cap driven = {} /\ ToSet(InsOf(n)) \cap latched = {}
        /\ driven \cap latched = {}
  BY DEF WellFormed, InsOf
<1>6. /\ ToSet(InsOf(n)) \cap driven = {} <=>
           \A k \in DOMAIN InsOf(n), j \in DOMAIN luts : InsOf(n)[k] # OutputOf(luts[j])
      /\ ToSet(InsOf(n)) \cap latched = {} <=>
           \A k \in DOMAIN InsOf(n), p \in Passes(n) : InsOf(n)[k] # p[2]
      /\ driven \cap latched = {} <=>
           \A k \in DOMAIN luts, p \in Passes(n) : OutputOf(luts[k]) # p[2]
  <2> HIDE DEF driven, latched, luts
  <2> QED BY <1>1, <1>2, <1>4
<1> HIDE DEF driven, latched, latches
<1> QED BY <1>3, <1>5, <1>6

\* y after each x[k] is called u[k].
Ren(x, u, y) == IF y \in ToSet(x) THEN u[CHOOSE k \in DOMAIN x : x[k] = y] ELSE y

\* The names are on lines.
LEMMA NamesAre ==
  ASSUME NEW M, NEW n \in Seq(Line(M))
  PROVE  /\ \A k \in DOMAIN LutsOf(n) : ToSet(LutsOf(n)[k].toks) \subseteq Names(n)
         /\ \A p \in Passes(n) : p[1] \in Names(n) /\ p[2] \in Names(n)
         /\ OfKind(n, "inputs") # <<>> => ToSet(InsOf(n)) \subseteq Names(n)
         /\ NamesOn(n, "outputs") \subseteq Names(n)
         /\ \A k \in DOMAIN LutsOf(n) :
              InputPins(LutsOf(n)[k]) # <<>> =>
                /\ OutputOf(LutsOf(n)[k]) \in Names(n)
                /\ ToSet(InputPins(LutsOf(n)[k])) \subseteq Names(n)
<1>1. \A kind : ToSet(OfKind(n, kind)) \subseteq ToSet(n)
  BY LinesOfKind DEF ToSet
<1>2. \A l \in ToSet(n) : ToSet(l.toks) \subseteq Names(n) BY DEF Names
<1>3. \A k \in DOMAIN LutsOf(n) : ToSet(LutsOf(n)[k].toks) \subseteq Names(n)
  BY <1>1, <1>2 DEF LutsOf, ToSet
<1>4. \A p \in Passes(n) : p[1] \in Names(n) /\ p[2] \in Names(n)
  <2>1. ASSUME NEW t \in ToSet(OfKind(n, "latch"))
        PROVE  t.toks[1] \in Names(n) /\ t.toks[2] \in Names(n)
    <3>1. t \in Line(M) /\ t.kind = "latch" /\ t \in ToSet(n) BY <1>1, LinesOfKind DEF ToSet
    <3>2. Len(t.toks) = 2 /\ DOMAIN t.toks = 1 .. Len(t.toks) BY <3>1, LineFields
    <3>3. t.toks[1] \in ToSet(t.toks) /\ t.toks[2] \in ToSet(t.toks)
      BY <3>2 DEF ToSet
    <3> QED BY <1>2, <3>1, <3>3
  <2> QED BY <2>1 DEF Passes
<1>5. OfKind(n, "inputs") # <<>> => ToSet(InsOf(n)) \subseteq Names(n)
  <2> DEFINE o == OfKind(n, "inputs")
  <2>1. ASSUME o # <<>> PROVE o[1] \in ToSet(o)
    <3>1. o \in Seq(Line(M)) BY LinesOfKind
    <3> HIDE DEF o
    <3>2. 1 \in DOMAIN o BY <2>1, <3>1
    <3> QED BY <3>2 DEF ToSet
  <2> QED BY <1>1, <1>2, <2>1 DEF InsOf
<1>6. NamesOn(n, "outputs") \subseteq Names(n) BY <1>1, <1>2 DEF NamesOn
<1>7. ASSUME NEW k \in DOMAIN LutsOf(n), InputPins(LutsOf(n)[k]) # <<>>
      PROVE  /\ OutputOf(LutsOf(n)[k]) \in Names(n)
             /\ ToSet(InputPins(LutsOf(n)[k])) \subseteq Names(n)
  <2> DEFINE l == LutsOf(n)[k]
  <2>1. l \in Line(M) BY LinesOfKind DEF LutsOf
  <2>2. ToSet(l.toks) \subseteq Names(n) BY <1>3
  <2> HIDE DEF l
  <2>3. Len(l.toks) \in Nat /\ DOMAIN l.toks = 1 .. Len(l.toks) BY <2>1, LineFields
  <2>4. InputPins(l) # <<>> BY <1>7 DEF l
  <2>5. /\ Len(l.toks) >= 2 /\ DOMAIN InputPins(l) = 1 .. Len(l.toks) - 1
        /\ \A p \in 1 .. Len(l.toks) - 1 : InputPins(l)[p] = l.toks[p]
        /\ OutputOf(l) = l.toks[Len(l.toks)]
    BY <2>1, <2>3, <2>4, PinsAre
  <2>6. OutputOf(l) \in ToSet(l.toks) BY <2>3, <2>5 DEF ToSet
  <2>7. \A p \in 1 .. Len(l.toks) - 1 : l.toks[p] \in ToSet(l.toks) BY <2>3 DEF ToSet
  <2>8. ToSet(InputPins(l)) \subseteq ToSet(l.toks)
    BY <2>5, <2>7 DEF ToSet
  <2> QED BY <2>2, <2>6, <2>8 DEF l
<1> QED BY <1>3, <1>4, <1>5, <1>6, <1>7

\* With an input for each of its pins, a net with one source has just that.
LEMMA OneSource ==
  ASSUME NEW M, NEW n \in Seq(Line(M)), WellFormed(n), NEW x,
         Cardinality(SourcesOf(x, Sources(n))) = 1
  PROVE  \E d \in Sources(n) : d[1] = x /\ SourcesOf(x, Sources(n)) = {<<d[2], d[3]>>}
<1> DEFINE A == SourcesOf(x, Sources(n))
<1>1. A # {}
  <2> HIDE DEF A
  <2>1. Cardinality({}) # 1 BY FS_EmptySet
  <2>2. Cardinality(A) = 1 BY DEF A
  <2> QED BY <2>1, <2>2
<1>2. PICK d \in Sources(n) : d[1] = x BY <1>1 DEF SourcesOf
<1>3. \A e \in Sources(n) : e[1] = x => e = d BY <1>2, UniqueSource
<1>4. A = {<<d[2], d[3]>>} BY <1>2, <1>3 DEF SourcesOf
<1> QED BY <1>2, <1>4

\* A source that is found is the source.
LEMMA OnlySource ==
  ASSUME NEW M, NEW c \in Seq(Line(M)), WellFormed(c), NEW x, NEW k, NEW a,
         <<x, k, a>> \in Sources(c)
  PROVE  SourcesOf(x, Sources(c)) = {<<k, a>>}
<1> DEFINE d == <<x, k, a>>
<1>1. d[1] = x /\ d[2] = k /\ d[3] = a OBVIOUS
<1>2. d \in Sources(c) OBVIOUS
<1> HIDE DEF d
<1>3. \A e \in Sources(c) : e[1] = x => e = d BY <1>1, <1>2, UniqueSource
<1> QED BY <1>1, <1>2, <1>3 DEF SourcesOf

\* Wherever x is driven from, y is too, through a more latches.
Leads(c, x, y, a) == \A e \in Sources(c) : e[1] = x => <<y, e[2], e[3] + a>> \in Sources(c)

\* No latch, and one latch.
LEMMA LeadsOn ==
  ASSUME NEW M, NEW c \in Seq(Line(M)), WellFormed(c)
  PROVE  /\ \A x : Leads(c, x, x, 0)
         /\ \A p \in Passes(c) : Leads(c, p[1], p[2], 1)
<1>1. OfKind(c, "inputs") # <<>> BY Once
<1>2. \A e \in Sources(c) : e = <<e[1], e[2], e[3]>> /\ e[3] \in Nat BY <1>1, SourcesAre
<1>3. ASSUME NEW x PROVE Leads(c, x, x, 0)
  <2>1. ASSUME NEW e \in Sources(c), e[1] = x PROVE <<x, e[2], e[3] + 0>> \in Sources(c)
    <3>1. e[3] + 0 = e[3] BY <1>2
    <3> QED BY <1>2, <2>1, <3>1
  <2> QED BY <2>1 DEF Leads
<1> QED BY <1>3, SourcesClosed DEF Leads

\* Net x of n is net m[x] of c, behind r[x] latches more than lags say.
Follows(n, c, m, r, lags) ==
  /\ r \in [Names(n) -> Int]
  /\ \A k \in DOMAIN LutsOf(n) :
       <<m[OutputOf(LutsOf(n)[k])], k, r[OutputOf(LutsOf(n)[k])] - lags[k]>> \in Sources(c)
  /\ \A k \in DOMAIN InsOf(n) : <<m[InsOf(n)[k]], -k, r[InsOf(n)[k]]>> \in Sources(c)
  /\ \A p \in Passes(n) : Leads(c, m[p[1]], m[p[2]], 1 + r[p[2]] - r[p[1]])

\* Then all sources are found again.
LEMMA Followed ==
  ASSUME NEW M, NEW n \in Seq(Line(M)), WellFormed(n), NEW c, NEW m, NEW r,
         NEW lags \in Lags(n), Follows(n, c, m, r, lags), NEW d \in Sources(n)
  PROVE  <<m[d[1]], d[2], d[3] + r[d[1]] - LagOf(lags, d[2])>> \in Sources(c)
<1> DEFINE image(e) == <<m[e[1]], e[2], e[3] + r[e[1]] - LagOf(lags, e[2])>>
           T == {e \in Sources(n) : image(e) \in Sources(c)}
<1>1. OfKind(n, "inputs") # <<>> BY Once
<1>2. \A k \in DOMAIN LutsOf(n) : InputPins(LutsOf(n)[k]) # <<>> BY WellFormedIs
<1>3. /\ \A k \in DOMAIN LutsOf(n) : OutputOf(LutsOf(n)[k]) \in Names(n)
      /\ \A p \in Passes(n) : p[1] \in Names(n) /\ p[2] \in Names(n)
      /\ \A k \in DOMAIN InsOf(n) : InsOf(n)[k] \in Names(n)
  BY <1>1, <1>2, NamesAre DEF ToSet
<1>4. \A x \in Names(n) : r[x] \in Int BY DEF Follows
<1>5. \A e \in Sources(n) : /\ e[3] \in Nat /\ e[2] \in Int
                            /\ e[2] > 0 => e[2] \in DOMAIN LutsOf(n)
  BY <1>1, SourcesAre
<1>6. \A e \in Sources(n) : LagOf(lags, e[2]) \in Int BY <1>5 DEF LagOf, Lags
<1>7. ASSUME NEW e \in Direct(n) PROVE e \in T
  <2>1. e \in Sources(n) BY SourcesClosed
  <2>2. CASE \E k \in DOMAIN LutsOf(n) : e = <<OutputOf(LutsOf(n)[k]), k, 0>>
    <3>1. PICK k \in DOMAIN LutsOf(n) : e = <<OutputOf(LutsOf(n)[k]), k, 0>> BY <2>2
    <3>2. k \in Nat /\ k > 0 BY LinesOfKind DEF LutsOf
    <3>3. LagOf(lags, k) = lags[k] /\ lags[k] \in Int BY <3>2 DEF LagOf, Lags
    <3>4. /\ e[1] = OutputOf(LutsOf(n)[k]) /\ e[2] = k /\ e[3] = 0
          /\ r[e[1]] \in Int
      BY <1>3, <1>4, <3>1
    <3>5. e[3] + r[e[1]] - LagOf(lags, e[2]) = r[e[1]] - lags[k] BY <3>3, <3>4
    <3>6. <<m[e[1]], k, r[e[1]] - lags[k]>> \in Sources(c) BY <3>4 DEF Follows
    <3>7. image(e) \in Sources(c) BY <3>4, <3>5, <3>6
    <3> QED BY <2>1, <3>7
  <2>3. CASE \E k \in DOMAIN InsOf(n) : e = <<InsOf(n)[k], -k, 0>>
    <3>1. PICK k \in DOMAIN InsOf(n) : e = <<InsOf(n)[k], -k, 0>> BY <2>3
    <3>2. k \in Nat /\ k > 0
      <4>1. OfKind(n, "inputs")[1] \in Line(M) BY <1>1, LinesOfKind
      <4> QED BY <4>1, LineFields DEF InsOf
    <3>3. LagOf(lags, -k) = 0 BY <3>2 DEF LagOf
    <3>4. /\ e[1] = InsOf(n)[k] /\ e[2] = -k /\ e[3] = 0
          /\ r[e[1]] \in Int
      BY <1>3, <1>4, <3>1
    <3>5. e[3] + r[e[1]] - LagOf(lags, e[2]) = r[e[1]] BY <3>3, <3>4
    <3>6. <<m[e[1]], -k, r[e[1]]>> \in Sources(c) BY <3>4 DEF Follows
    <3>7. image(e) \in Sources(c) BY <3>4, <3>5, <3>6
    <3> QED BY <2>1, <3>7
  <2> QED BY <2>2, <2>3 DEF Direct
<1>8. ASSUME NEW p \in Passes(n), NEW e \in T, e[1] = p[1]
      PROVE  <<p[2], e[2], e[3] + 1>> \in T
  <2> DEFINE g == <<p[2], e[2], e[3] + 1>>
             h == image(e)
  <2>1. g \in Sources(n) BY <1>8, SourcesClosed
  <2>2. /\ g[1] = p[2] /\ g[2] = e[2] /\ g[3] = e[3] + 1
        /\ h[1] = m[p[1]] /\ h[2] = e[2] /\ h[3] = e[3] + r[p[1]] - LagOf(lags, e[2])
    BY <1>8
  <2>3. h \in Sources(c) OBVIOUS
  <2>4. e \in Sources(n) OBVIOUS
  <2> HIDE DEF g, h, T
  <2>5. <<m[p[2]], h[2], h[3] + (1 + r[p[2]] - r[p[1]])>> \in Sources(c)
    BY <2>2, <2>3 DEF Follows, Leads
  <2>6. h[3] + (1 + r[p[2]] - r[p[1]]) = g[3] + r[g[1]] - LagOf(lags, g[2])
    <3>1. r[p[2]] \in Int /\ r[p[1]] \in Int /\ LagOf(lags, e[2]) \in Int /\ e[3] \in Nat
      BY <1>3, <1>4, <1>5, <1>6, <2>4
    <3> QED BY <2>2, <3>1
  <2>7. image(g) \in Sources(c) BY <2>2, <2>5, <2>6
  <2> QED BY <2>1, <2>7 DEF g, T
<1>9. Direct(n) \subseteq T BY <1>7
<1> HIDE DEF T
<1>10. Sources(n) \subseteq T BY <1>8, <1>9, SourcesLeast
<1> QED BY <1>10 DEF T

\* When every pin and output is led to, c is n with latches moved.
LEMMA RetimedByNets ==
  ASSUME NEW M, NEW n \in Seq(Line(M)), WellFormed(n), SoundNet(n),
         NEW N, NEW c \in Seq(Line(N)), WellFormed(c), NEW m, NEW r,
         NEW lags \in Lags(n), Follows(n, c, m, r, lags),
         OfKind(c, "inputs") = OfKind(n, "inputs"),
         OfKind(c, "outputs") = OfKind(n, "outputs"),
         \A x \in NamesOn(n, "outputs") : Leads(c, m[x], x, 0 - r[x]),
         Len(LutsOf(n)) = Len(LutsOf(c)),
         \A k \in DOMAIN LutsOf(n) :
           /\ Len(LutsOf(n)[k].toks) = Len(LutsOf(c)[k].toks)
           /\ \A p \in 1 .. Len(LutsOf(n)[k].toks) - 1 :
                Leads(c, m[LutsOf(n)[k].toks[p]], LutsOf(c)[k].toks[p],
                      lags[k] - r[LutsOf(n)[k].toks[p]])
  PROVE  IsRetiming(n, c, lags)
<1>1. \A x \in Names(n) : r[x] \in Int BY DEF Follows
<1>2. OfKind(n, "inputs") # <<>> BY Once
<1>3. \A e \in Sources(n) : /\ e[3] \in Nat /\ e[2] \in Int
                            /\ e[2] > 0 => e[2] \in DOMAIN LutsOf(n)
  BY <1>2, SourcesAre
<1>4. \A e \in Sources(n) : LagOf(lags, e[2]) \in Int BY <1>3 DEF LagOf, Lags
<1>5. ASSUME NEW x \in Names(n), NEW y, NEW a \in Int, Leads(c, m[x], y, a - r[x]),
             Cardinality(SourcesOf(x, Sources(n))) = 1
      PROVE  SourcesOf(y, Sources(c)) = Moved(n, x, a, lags)
  <2>1. PICK d \in Sources(n) : d[1] = x /\ SourcesOf(x, Sources(n)) = {<<d[2], d[3]>>}
    BY <1>5, OneSource
  <2> DEFINE z == <<m[x], d[2], d[3] + r[x] - LagOf(lags, d[2])>>
  <2>2. z \in Sources(c) BY <2>1, Followed
  <2>3. z[1] = m[x] /\ z[2] = d[2] /\ z[3] = d[3] + r[x] - LagOf(lags, d[2]) OBVIOUS
  <2> HIDE DEF z
  <2>4. <<y, z[2], z[3] + (a - r[x])>> \in Sources(c) BY <1>5, <2>2, <2>3 DEF Leads
  <2>5. z[3] + (a - r[x]) = d[3] + a - LagOf(lags, d[2])
    <3>1. d[3] \in Nat /\ r[x] \in Int /\ LagOf(lags, d[2]) \in Int BY <1>1, <1>3, <1>4
    <3> QED BY <2>3, <3>1
  <2>6. SourcesOf(y, Sources(c)) = {<<d[2], d[3] + a - LagOf(lags, d[2])>>}
    BY <2>3, <2>4, <2>5, OnlySource
  <2> DEFINE A == SourcesOf(x, Sources(n))
             s == <<d[2], d[3]>>
  <2>7. A = {s} /\ s[1] = d[2] /\ s[2] = d[3] BY <2>1
  <2>8. Moved(n, x, a, lags) = {<<s[1], s[2] + a - LagOf(lags, s[1])>>}
    <3> HIDE DEF s
    <3> QED BY <2>7 DEF Moved
  <2> QED BY <2>6, <2>7, <2>8
<1>6. \A l \in ToSet(n) : \A x \in ToSet(IF l.kind = "outputs" THEN l.toks
                                         ELSE IF l.kind = "names" THEN InputPins(l) ELSE <<>>) :
        Cardinality(SourcesOf(x, Sources(n))) = 1
  BY DEF SoundNet
<1>7. ASSUME NEW x \in NamesOn(n, "outputs")
      PROVE  SourcesOf(x, Sources(c)) = Moved(n, x, 0, lags)
  <2>1. x \in Names(n) BY NamesAre
  <2>2. PICK l \in ToSet(OfKind(n, "outputs")) : x \in ToSet(l.toks) BY DEF NamesOn
  <2>3. l \in ToSet(n) /\ l.kind = "outputs" BY <2>2, LinesOfKind DEF ToSet
  <2>4. Cardinality(SourcesOf(x, Sources(n))) = 1 BY <1>6, <2>2, <2>3
  <2> QED BY <1>5, <2>1, <2>4
<1>8. ASSUME NEW k \in DOMAIN LutsOf(n), NEW p \in DOMAIN InputPins(LutsOf(n)[k])
      PROVE  SourcesOf(LutsOf(c)[k].toks[p], Sources(c))
               = Moved(n, LutsOf(n)[k].toks[p], lags[k], lags)
  <2> DEFINE l == LutsOf(n)[k]
  <2>1. l \in Line(M) /\ l \in ToSet(n) /\ l.kind = "names" BY LinesOfKind DEF LutsOf
  <2>2. InputPins(l) # <<>> BY WellFormedIs
  <2>3. /\ lags[k] \in Int
        /\ ToSet(l.toks) \subseteq Names(n)
        /\ \A q \in 1 .. Len(l.toks) - 1 :
                Leads(c, m[l.toks[q]], LutsOf(c)[k].toks[q], lags[k] - r[l.toks[q]])
    BY NamesAre DEF Lags
  <2>4. p \in DOMAIN InputPins(l) OBVIOUS
  <2> HIDE DEF l
  <2>5. Len(l.toks) \in Nat /\ DOMAIN l.toks = 1 .. Len(l.toks) BY <2>1, LineFields
  <2>6. p \in 1 .. Len(l.toks) - 1 /\ InputPins(l)[p] = l.toks[p]
    <3>1. Len(l.toks) >= 2 BY <2>1, <2>2, PinsAre
    <3>2. /\ DOMAIN InputPins(l) = 1 .. Len(l.toks) - 1
          /\ \A q \in 1 .. Len(l.toks) - 1 : InputPins(l)[q] = l.toks[q]
      BY <2>1, <2>5, <3>1, PinsAre
    <3> QED BY <2>4, <3>2
  <2>7. l.toks[p] \in Names(n) BY <2>3, <2>5, <2>6 DEF ToSet
  <2>8. l.toks[p] \in ToSet(InputPins(l)) BY <2>4, <2>6 DEF ToSet
  <2>9. Cardinality(SourcesOf(l.toks[p], Sources(n))) = 1 BY <1>6, <2>1, <2>8
  <2>10. Leads(c, m[l.toks[p]], LutsOf(c)[k].toks[p], lags[k] - r[l.toks[p]]) BY <2>3, <2>6
  <2>11. SourcesOf(LutsOf(c)[k].toks[p], Sources(c)) = Moved(n, l.toks[p], lags[k], lags)
    BY <1>5, <2>3, <2>7, <2>9, <2>10
  <2> QED BY <2>11 DEF l
<1> QED BY <1>7, <1>8, RetimingIs

-----------------------------------------------------------------------------
(***************************************************************************)
(* Lines rewritten one by one.                                             *)
(***************************************************************************)
\* The sequences in w are those in u, of m, and then those in v, of k.
Parts(S, m, k, u, v, w) ==
  /\ u \in [1 .. m -> Seq(S)] /\ v \in [1 .. k -> Seq(S)]
  /\ w \in [1 .. m + k -> Seq(S)]
  /\ \A j \in 1 .. m : w[j] = u[j]
  /\ \A j \in 1 .. k : w[m + j] = v[j]

\* Flattening a concatenation.
LEMMA FlattenSplits ==
  ASSUME NEW S, NEW m \in Nat, NEW k \in Nat, NEW u, NEW v, NEW w, Parts(S, m, k, u, v, w)
  PROVE  FlattenSeq(w) = FlattenSeq(u) \o FlattenSeq(v)
<1>0. /\ u \in [1 .. m -> Seq(S)] /\ v \in [1 .. k -> Seq(S)]
      /\ w \in [1 .. m + k -> Seq(S)]
      /\ \A j \in 1 .. m : w[j] = u[j]
      /\ \A j \in 1 .. k : w[m + j] = v[j]
  BY DEF Parts
<1>1. PICK f : Joined(S, m, u, f, FlattenSeq(u)) BY <1>0, Flattened
<1>2. PICK g : Joined(S, k, v, g, FlattenSeq(v)) BY <1>0, Flattened
<1>3. PICK h : Joined(S, m + k, w, h, FlattenSeq(w))
  <2>1. m + k \in Nat OBVIOUS
  <2> QED BY <1>0, <2>1, Flattened
<1>4. /\ f \in [0 .. m -> Seq(S)] /\ f[0] = <<>> /\ f[m] = FlattenSeq(u)
      /\ \A j \in 1 .. m : f[j] = f[j - 1] \o u[j]
  BY <1>1 DEF Joined
<1>5. /\ g \in [0 .. k -> Seq(S)] /\ g[0] = <<>> /\ g[k] = FlattenSeq(v)
      /\ \A j \in 1 .. k : g[j] = g[j - 1] \o v[j]
  BY <1>2 DEF Joined
<1>6. /\ h \in [0 .. m + k -> Seq(S)] /\ h[0] = <<>> /\ h[m + k] = FlattenSeq(w)
      /\ \A j \in 1 .. m + k : h[j] = h[j - 1] \o w[j]
  BY <1>3 DEF Joined
<1> DEFINE X == {j \in 0 .. m : h[j] = f[j]}
           Y == {j \in 0 .. k : h[m + j] = f[m] \o g[j]}
<1>7. 0 .. m \subseteq X
  <2>1. 0 \in X BY <1>4, <1>6
  <2>2. ASSUME NEW j \in 1 .. m, j - 1 \in X PROVE j \in X
    <3>1. j \in 0 .. m /\ j \in 1 .. m + k OBVIOUS
    <3>2. h[j] = h[j - 1] \o w[j] /\ f[j] = f[j - 1] \o u[j] BY <1>4, <1>6, <3>1
    <3> QED BY <1>0, <2>2, <3>1, <3>2
  <2> HIDE DEF X
  <2> QED BY <2>1, <2>2, AllUpTo
<1>8. h[m] = f[m] /\ f[m] \in Seq(S)
  <2>1. m \in 0 .. m OBVIOUS
  <2> QED BY <1>4, <1>7, <2>1
<1>9. 0 .. k \subseteq Y
  <2>1. 0 \in Y
    <3>1. f[m] \o <<>> = f[m] BY <1>8, ConcatEmptySeq
    <3>2. m + 0 = m /\ 0 \in 0 .. k OBVIOUS
    <3> QED BY <1>5, <1>8, <3>1, <3>2
  <2>2. ASSUME NEW j \in 1 .. k, j - 1 \in Y PROVE j \in Y
    <3>1. j \in 0 .. k /\ m + j \in 1 .. m + k /\ (m + j) - 1 = m + (j - 1) /\ j - 1 \in 0 .. k
      OBVIOUS
    <3>2. h[m + j] = (f[m] \o g[j - 1]) \o v[j]
      <4>1. h[m + j] = h[(m + j) - 1] \o w[m + j] BY <1>6, <3>1
      <4> QED BY <1>0, <2>2, <3>1, <4>1
    <3>3. g[j] = g[j - 1] \o v[j] /\ g[j - 1] \in Seq(S) /\ v[j] \in Seq(S)
      BY <1>0, <1>5, <3>1
    <3> DEFINE a == f[m]
               b == g[j - 1]
               e == v[j]
    <3>4. h[m + j] = f[m] \o g[j]
      <4>1. a \in Seq(S) /\ b \in Seq(S) /\ e \in Seq(S) BY <1>8, <3>3
      <4>2. h[m + j] = (a \o b) \o e /\ g[j] = b \o e BY <3>2, <3>3
      <4> HIDE DEF a, b, e
      <4>3. (a \o b) \o e = a \o (b \o e) BY <4>1, ConcatAssociative
      <4>4. h[m + j] = a \o g[j] BY <4>2, <4>3
      <4> QED BY <4>4 DEF a
    <3> QED BY <3>1, <3>4
  <2> HIDE DEF Y
  <2> QED BY <2>1, <2>2, AllUpTo
<1>10. k \in 0 .. k OBVIOUS
<1> QED BY <1>4, <1>5, <1>6, <1>9, <1>10

\* What is chosen of a sequence is chosen of its parts.
LEMMA ChosenSplits ==
  ASSUME NEW T, NEW s \in Seq(T), NEW e \in Seq(T), NEW S
  PROVE  Chosen(s \o e, S) = Chosen(s, S) \o Chosen(e, S)
<1> DEFINE m == Len(s)
           k == Len(e)
           U(x) == IF x \in S THEN <<x>> ELSE <<>>
           z == s \o e
           u == [j \in 1 .. m |-> U(s[j])]
           v == [j \in 1 .. k |-> U(e[j])]
           w == [j \in 1 .. m + k |-> U(z[j])]
<1>1. /\ m \in Nat /\ k \in Nat /\ DOMAIN s = 1 .. m /\ DOMAIN e = 1 .. k
      /\ \A j \in 1 .. m : s[j] \in T
      /\ \A j \in 1 .. k : e[j] \in T
  OBVIOUS
<1>2. /\ Len(z) = m + k /\ z \in Seq(T)
      /\ \A j \in 1 .. m : z[j] = s[j]
      /\ \A j \in 1 .. k : z[m + j] = e[j]
  <2>1. IsConcat(T, s, e, z) BY Concatenated
  <2> QED BY <2>1 DEF IsConcat
<1>3. /\ DOMAIN z = 1 .. m + k
      /\ \A j \in 1 .. m + k : z[j] \in T
  <2> HIDE DEF m, k, z
  <2> QED BY <1>1, <1>2
<1>4. /\ Chosen(s, S) = FlattenSeq(u) /\ Chosen(e, S) = FlattenSeq(v)
      /\ Chosen(z, S) = FlattenSeq(w)
  <2> HIDE DEF z, m, k
  <2> QED BY <1>1, <1>3 DEF Chosen
<1>5. \A x \in T : U(x) \in Seq(T) OBVIOUS
<1> HIDE DEF m, k, z, U
<1>6. /\ u \in [1 .. m -> Seq(T)] /\ v \in [1 .. k -> Seq(T)] /\ w \in [1 .. m + k -> Seq(T)]
  BY <1>1, <1>3, <1>5
<1>7. /\ \A j \in 1 .. m : w[j] = u[j]
      /\ \A j \in 1 .. k : w[m + j] = v[j]
  <2>1. \A j \in 1 .. m : j \in 1 .. m + k BY <1>1
  <2>2. \A j \in 1 .. k : m + j \in 1 .. m + k BY <1>1
  <2> QED BY <1>2, <2>1, <2>2
<1> HIDE DEF u, v, w
<1>8. FlattenSeq(w) = FlattenSeq(u) \o FlattenSeq(v) 
  <2>1. m \in Nat /\ k \in Nat BY <1>1
  <2>2. Parts(T, m, k, u, v, w) BY <1>6, <1>7 DEF Parts
  <2>3. \A p \in Nat, q \in Nat : \A a, b, c : Parts(T, p, q, a, b, c) => FlattenSeq(c) = FlattenSeq(a) \o FlattenSeq(b)
    BY FlattenSplits
  <2> QED BY <2>1, <2>2, <2>3
<1> QED BY <1>4, <1>8 DEF z

\* Choosing from a sequence of one.
LEMMA ChosenOfOne ==
  ASSUME NEW x, NEW S
  PROVE  Chosen(<<x>>, S) = IF x \in S THEN <<x>> ELSE <<>>
<1> DEFINE y == IF x \in S THEN <<x>> ELSE <<>>
           s == <<x>>
           c == [k \in DOMAIN s |-> IF s[k] \in S THEN <<s[k]>> ELSE <<>>]
           T == {x}
<1>1. DOMAIN s = 1 .. 1 /\ s[1] = x OBVIOUS
<1>2. c = [k \in 1 .. 1 |-> y] BY <1>1
<1>3. y \in Seq(T)
  <2>1. <<x>> \in Seq(T) /\ <<>> \in Seq(T) OBVIOUS
  <2> QED BY <2>1
<1>4. Chosen(s, S) = FlattenSeq(c) BY DEF Chosen
<1> HIDE DEF c, y, s
<1>5. c \in [1 .. 1 -> Seq(T)] BY <1>2, <1>3
<1>6. PICK f : Joined(T, 1, c, f, FlattenSeq(c)) BY <1>5, Flattened
<1>7. f[0] = <<>> /\ f[1] = FlattenSeq(c) /\ f[1] = f[1 - 1] \o c[1] BY <1>6 DEF Joined
<1>8. FlattenSeq(c) = <<>> \o y
  <2>1. c[1] = y /\ 1 - 1 = 0 BY <1>2
  <2> QED BY <1>7, <2>1
<1>9. FlattenSeq(c) = y BY <1>3, <1>8, ConcatEmptySeq
<1> QED BY <1>4, <1>9 DEF y, s

\* The members that are chosen are those that were to be.
LEMMA ChosenSet ==
  ASSUME NEW T, NEW s \in Seq(T), NEW S
  PROVE  ToSet(Chosen(s, S)) = ToSet(s) \cap S
<1> DEFINE n == Len(s)
           c == [k \in 1 .. n |-> IF s[k] \in S THEN <<s[k]>> ELSE <<>>]
           f == FlattenSeq(c)
<1>1. n \in Nat /\ DOMAIN s = 1 .. n /\ \A k \in 1 .. n : s[k] \in T OBVIOUS
<1>2. Chosen(s, S) = f BY <1>1 DEF Chosen
<1>3. c \in [1 .. n -> Seq(T)] BY <1>1
<1>4. \A k \in 1 .. n : s[k] \in S => Len(c[k]) = 1 /\ c[k][1] = s[k] OBVIOUS
<1> HIDE DEF c, n
<1>5. Gathers(T, n, c, f) BY <1>1, <1>3, FlattenMembers
<1> HIDE DEF f
<1>6. f \in Seq(T) BY <1>5 DEF Gathers
<1>7. ASSUME NEW x \in ToSet(s) \cap S PROVE x \in ToSet(f)
  <2>1. PICK k \in 1 .. n : s[k] = x BY <1>1 DEF ToSet
  <2>2. 1 \in 1 .. Len(c[k]) /\ c[k][1] = x BY <1>4, <1>7, <2>1
  <2>3. \E z \in 1 .. Len(f) : f[z] = x BY <1>5, <2>2 DEF Gathers
  <2> QED BY <1>6, <2>3 DEF ToSet
<1>8. ToSet(f) \subseteq ToSet(s) \cap S BY <1>2, ChosenMembers
<1> QED BY <1>2, <1>7, <1>8

\* The lines of a kind, as a set.
LEMMA LinesOf ==
  ASSUME NEW M, NEW n \in Seq(Line(M)), NEW kind
  PROVE  ToSet(OfKind(n, kind)) = {l \in ToSet(n) : l.kind = kind}
<1> DEFINE S == {l \in ToSet(n) : l.kind = kind}
<1>1. ToSet(OfKind(n, kind)) = ToSet(n) \cap S BY ChosenSet DEF OfKind
<1> QED BY <1>1

\* The lines of a kind of a netlist that is rewritten line by line, where one
\* line of that kind is made of each, and none of others.
Keeps(n, made, kind) ==
  \A k \in 1 .. Len(n) :
    /\ n[k].kind = kind => Len(made[k]) = 1 /\ made[k][1].kind = kind
    /\ n[k].kind # kind => \A j \in 1 .. Len(made[k]) : made[k][j].kind # kind

\* Then the lines of that kind are the old ones, each rewritten.
LEMMA KindRewritten ==
  ASSUME NEW M, NEW n \in Seq(Line(M)), NEW N,
         NEW made \in [1 .. Len(n) -> Seq(Line(N))], NEW kind, Keeps(n, made, kind)
  PROVE  /\ Len(OfKind(FlattenSeq(made), kind)) = Len(OfKind(n, kind))
         /\ \A j \in 1 .. Len(OfKind(n, kind)) : \E k \in 1 .. Len(n) :
              /\ OfKind(n, kind)[j] = n[k]
              /\ OfKind(FlattenSeq(made), kind)[j] = made[k][1]
<1> DEFINE c == FlattenSeq(made)
           m == Len(n)
           S == {l \in ToSet(n) : l.kind = kind}
           R == {l \in ToSet(c) : l.kind = kind}
           u == [k \in 1 .. m |-> IF n[k] \in S THEN <<n[k]>> ELSE <<>>]
           a == OfKind(n, kind)
           b == OfKind(c, kind)
<1>1. m \in Nat /\ DOMAIN n = 1 .. m /\ \A k \in 1 .. m : n[k] \in Line(M) OBVIOUS
<1>2. PICK f : Joined(Line(N), m, made, f, c)
  <2> HIDE DEF m
  <2> QED BY <1>1, Flattened DEF m
<1>3. \A k \in 1 .. m : n[k] \in S <=> n[k].kind = kind BY <1>1 DEF ToSet
<1>4. u \in [1 .. m -> Seq(Line(M))]
  <2>1. \A k \in 1 .. m : <<n[k]>> \in Seq(Line(M)) /\ <<>> \in Seq(Line(M)) BY <1>1
  <2> QED BY <2>1
<1>5. a = FlattenSeq(u) BY <1>1 DEF OfKind, Chosen
<1>6. PICK h : Joined(Line(M), m, u, h, a)
  <2> HIDE DEF m, u, a
  <2> QED BY <1>1, <1>4, <1>5, Flattened
<1>7. /\ f \in [0 .. m -> Seq(Line(N))] /\ f[0] = <<>> /\ f[m] = c
      /\ \A k \in 1 .. m : f[k] = f[k - 1] \o made[k]
  <2> HIDE DEF m, c
  <2> QED BY <1>2 DEF Joined
<1>8. /\ h \in [0 .. m -> Seq(Line(M))] /\ h[0] = <<>> /\ h[m] = a
      /\ \A k \in 1 .. m : h[k] = h[k - 1] \o u[k]
  <2> HIDE DEF m, u, a
  <2> QED BY <1>6 DEF Joined
<1>9. \A k \in 1 .. m : \A j \in 1 .. Len(made[k]) : made[k][j] \in ToSet(c)
  <2>1. Gathers(Line(N), m, made, c)
    <3>1. m \in Nat /\ made \in [1 .. m -> Seq(Line(N))] BY <1>1
    <3> HIDE DEF m
    <3> QED BY <3>1, FlattenMembers
  <2>2. c \in Seq(Line(N)) BY <2>1 DEF Gathers
  <2>3. \A k \in 1 .. m : \A j \in 1 .. Len(made[k]) : \E z \in 1 .. Len(c) : c[z] = made[k][j]
    BY <2>1 DEF Gathers
  <2> HIDE DEF c, m
  <2> QED BY <2>2, <2>3 DEF ToSet
<1>10. \A k \in 1 .. m : made[k] \in Seq(Line(N)) OBVIOUS
<1>11. \A k \in 1 .. m : /\ n[k].kind = kind => Len(made[k]) = 1 /\ made[k][1].kind = kind
                         /\ n[k].kind # kind => \A j \in 1 .. Len(made[k]) : made[k][j].kind # kind
  BY DEF Keeps
<1>12. ASSUME NEW k \in 1 .. m, n[k].kind = kind
       PROVE  Chosen(made[k], R) = <<made[k][1]>>
  <2> DEFINE e == made[k]
  <2>1. e \in Seq(Line(N)) /\ Len(e) = 1 /\ e[1].kind = kind BY <1>10, <1>11, <1>12
  <2>2. e[1] \in R
    <3>1. 1 \in 1 .. Len(made[k]) BY <2>1
    <3>2. e[1] \in ToSet(c) BY <1>9, <3>1
    <3> HIDE DEF e, c
    <3> QED BY <2>1, <3>2
  <2> HIDE DEF e, R
  <2>3. e = <<e[1]>>
    <3> DEFINE x == e[1]
    <3>1. x \in Line(N)
      <4>1. 1 \in 1 .. Len(e) BY <2>1
      <4> QED BY <2>1, <4>1, ElementOfSeq
    <3>2. <<x>> \in Seq(Line(N)) /\ Len(<<x>>) = 1 /\ <<x>>[1] = x BY <3>1
    <3>3. \A z \in 1 .. Len(e) : e[z] = <<x>>[z]
      <4>1. \A z \in 1 .. 1 : z = 1 OBVIOUS
      <4> QED BY <2>1, <3>2, <4>1
    <3> HIDE DEF x
    <3> QED BY <2>1, <3>2, <3>3, SeqEqual DEF x
  <2>4. Chosen(<<e[1]>>, R) = <<e[1]>> BY <2>2, ChosenOfOne
  <2> QED BY <2>3, <2>4 DEF e
<1>13. ASSUME NEW k \in 1 .. m, n[k].kind # kind PROVE Chosen(made[k], R) = <<>>
  <2> DEFINE e == made[k]
             q == Chosen(e, R)
  <2>1. e \in Seq(Line(N)) BY <1>10
  <2>2. ToSet(e) \cap R = {}
    <3>1. \A j \in 1 .. Len(e) : e[j].kind # kind BY <1>11, <1>13
    <3>2. \A x \in R : x.kind = kind OBVIOUS
    <3> HIDE DEF e, R
    <3> QED BY <2>1, <3>1, <3>2 DEF ToSet
  <2> HIDE DEF e, R
  <2>3. q \in Seq(Line(N) \cap R) /\ ToSet(q) \subseteq {} BY <2>1, <2>2, ChosenMembers
  <2> HIDE DEF q
  <2>4. q = <<>>
    <3>1. DOMAIN q = {} BY <2>3 DEF ToSet
    <3> QED BY <2>3, <3>1
  <2> QED BY <2>4 DEF q, e
<1> DEFINE g == [k \in 0 .. m |-> Chosen(f[k], R)]
<1>14. \A k \in 0 .. m : g[k] \in Seq(Line(N))
  <2> SUFFICES ASSUME NEW k \in 0 .. m PROVE Chosen(f[k], R) \in Seq(Line(N)) OBVIOUS
  <2>1. f[k] \in Seq(Line(N)) BY <1>7
  <2> HIDE DEF R
  <2>2. Chosen(f[k], R) \in Seq(Line(N) \cap R) BY <2>1, ChosenMembers
  <2> DEFINE q == Chosen(f[k], R)
  <2>3. q \in Seq(Line(N) \cap R) BY <2>2
  <2> HIDE DEF q
  <2>4. q \in Seq(Line(N)) BY <2>3
  <2> QED BY <2>4 DEF q
<1>15. ASSUME NEW k \in 1 .. m PROVE g[k] = g[k - 1] \o Chosen(made[k], R)
  <2>1. k - 1 \in 0 .. m /\ k \in 0 .. m BY <1>1
  <2>2. f[k] = f[k - 1] \o made[k] /\ f[k - 1] \in Seq(Line(N)) /\ made[k] \in Seq(Line(N))
    BY <1>7, <1>10, <2>1
  <2> DEFINE p == f[k - 1]
             q == made[k]
  <2>3. f[k] = p \o q /\ p \in Seq(Line(N)) /\ q \in Seq(Line(N)) BY <2>2
  <2> HIDE DEF R, m, c, p, q
  <2>4. Chosen(p \o q, R) = Chosen(p, R) \o Chosen(q, R) BY <2>3, ChosenSplits
  <2>5. Chosen(f[k], R) = Chosen(p, R) \o Chosen(q, R) BY <2>3, <2>4
  <2> QED BY <2>1, <2>5 DEF p, q
<1>16. g[m] = b
  <2>1. m \in 0 .. m BY <1>1
  <2> QED BY <1>7, <2>1 DEF OfKind
<1>17. g[0] = <<>>
  <2>1. 0 \in 0 .. m BY <1>1
  <2>2. Chosen(<<>>, R) = <<>>
    <3> HIDE DEF R
    <3> DEFINE q == Chosen(<<>>, R)
    <3>1. <<>> \in Seq({}) OBVIOUS
    <3>2. q \in Seq({} \cap R) BY <3>1, ChosenMembers
    <3> HIDE DEF q
    <3>3. q = <<>> BY <3>2
    <3> QED BY <3>3 DEF q
  <2> QED BY <1>7, <2>1, <2>2
<1> HIDE DEF R, S, g, u
<1> DEFINE Agrees(k) ==
             /\ Len(g[k]) = Len(h[k])
             /\ \A j \in 1 .. Len(h[k]) : \E z \in 1 .. m : h[k][j] = n[z] /\ g[k][j] = made[z][1]
           X == {k \in 0 .. m : Agrees(k)}
<1>18. 0 \in X
  <2>1. 0 \in 0 .. m BY <1>1
  <2>2. Len(h[0]) = 0 /\ Len(g[0]) = 0 BY <1>8, <1>17
  <2> QED BY <2>1, <2>2
<1>19. ASSUME NEW k \in 1 .. m, k - 1 \in X PROVE k \in X
  <2>1. k - 1 \in 0 .. m /\ k \in 0 .. m BY <1>1
  <2>2. g[k] = g[k - 1] \o Chosen(made[k], R) /\ h[k] = h[k - 1] \o u[k] BY <1>8, <1>15
  <2>3. g[k - 1] \in Seq(Line(N)) /\ h[k - 1] \in Seq(Line(M)) BY <1>8, <1>14, <2>1
  <2>4. CASE n[k].kind # kind
    <3>1. u[k] = <<>> BY <1>3, <2>4 DEF u
    <3>2. g[k] = g[k - 1] /\ h[k] = h[k - 1]
      <4>1. Chosen(made[k], R) = <<>> BY <1>13, <2>4
      <4> QED BY <2>2, <2>3, <3>1, <4>1, ConcatEmptySeq
    <3>3. Agrees(k - 1) BY <1>19
    <3>4. Agrees(k) BY <3>2, <3>3
    <3> HIDE DEF Agrees, m
    <3> QED BY <2>1, <3>4
  <2>5. CASE n[k].kind = kind
    <3>1. u[k] = <<n[k]>> BY <1>3, <2>5 DEF u
    <3>2. Chosen(made[k], R) = <<made[k][1]>> BY <1>12, <2>5
    <3> DEFINE x == n[k]
               y == made[k][1]
               p == g[k - 1]
               q == h[k - 1]
    <3>3. /\ x \in Line(M) /\ y \in Line(N)
          /\ g[k] = p \o <<y>> /\ h[k] = q \o <<x>>
          /\ p \in Seq(Line(N)) /\ q \in Seq(Line(M))
      <4>1. made[k] \in Seq(Line(N)) /\ Len(made[k]) = 1 BY <1>10, <1>11, <2>5
      <4>2. y \in Line(N)
        <5> DEFINE e == made[k]
        <5>1. e \in Seq(Line(N)) /\ Len(e) = 1 BY <4>1
        <5> HIDE DEF e
        <5>2. 1 \in 1 .. Len(e) BY <5>1
        <5>3. e[1] \in Line(N) BY <5>1, <5>2, ElementOfSeq
        <5> QED BY <5>3 DEF e
      <4> QED BY <1>1, <2>2, <2>3, <3>1, <3>2, <4>2
    <3>4. /\ Len(p) = Len(q)
          /\ \A j \in 1 .. Len(q) : \E z \in 1 .. m : q[j] = n[z] /\ p[j] = made[z][1]
      BY <1>19
    <3>5. k \in 1 .. m /\ x = n[k] /\ y = made[k][1] OBVIOUS
    <3>6. /\ <<y>> \in Seq(Line(N)) /\ <<x>> \in Seq(Line(M))
          /\ Len(<<y>>) = 1 /\ Len(<<x>>) = 1 /\ <<x>>[1] = x /\ <<y>>[1] = y
      BY <3>3
    <3> DEFINE t == <<y>>
               v == <<x>>
    <3>7. /\ t \in Seq(Line(N)) /\ v \in Seq(Line(M)) /\ Len(t) = 1 /\ Len(v) = 1
          /\ v[1] = x /\ t[1] = y
          /\ g[k] = p \o t /\ h[k] = q \o v
      BY <3>3, <3>6
    <3> HIDE DEF p, q, t, v, x, y, m
    <3>8. IsConcat(Line(N), p, t, g[k]) /\ IsConcat(Line(M), q, v, h[k])
      BY <3>3, <3>7, Concatenated
    <3>9. /\ Len(p) \in Nat
          /\ Len(g[k]) = Len(p) + 1 /\ Len(h[k]) = Len(q) + 1
          /\ \A j \in 1 .. Len(p) : g[k][j] = p[j]
          /\ \A j \in 1 .. Len(q) : h[k][j] = q[j]
          /\ g[k][Len(p) + 1] = y /\ h[k][Len(q) + 1] = x
      <4>1. 1 \in 1 .. 1 OBVIOUS
      <4> QED BY <3>7, <3>8, <4>1 DEF IsConcat
    <3>10. ASSUME NEW j \in 1 .. Len(h[k])
           PROVE  \E z \in 1 .. m : h[k][j] = n[z] /\ g[k][j] = made[z][1]
      <4>1. CASE j \in 1 .. Len(q) BY <3>4, <3>9, <4>1
      <4>2. CASE j = Len(q) + 1 BY <3>4, <3>5, <3>9, <4>2
      <4>3. Len(q) \in Nat BY <3>4, <3>9
      <4> QED BY <3>9, <4>1, <4>2, <4>3
    <3>11. Agrees(k) BY <3>4, <3>9, <3>10
    <3> HIDE DEF Agrees
    <3> QED BY <2>1, <3>11
  <2> QED BY <2>4, <2>5
<1>20. 0 .. m \subseteq X
  <2> HIDE DEF X, m
  <2> QED BY <1>1, <1>18, <1>19, AllUpTo
<1>21. Agrees(m)
  <2>1. m \in 0 .. m BY <1>1
  <2> HIDE DEF Agrees
  <2> QED BY <1>20, <2>1
<1> HIDE DEF b, a, m
<1>22. /\ Len(b) = Len(a)
       /\ \A j \in 1 .. Len(a) : \E z \in 1 .. m : a[j] = n[z] /\ b[j] = made[z][1]
  BY <1>8, <1>16, <1>21
<1> QED BY <1>22 DEF a, b, m

-----------------------------------------------------------------------------
(***************************************************************************)
(* What a netlist looks like after a move, whatever its text, and that it  *)
(* is then a retiming.                                                     *)
(***************************************************************************)
\* In a well-formed netlist every LUT has an output and every line its names.
LEMMA LutsAre ==
  ASSUME NEW M, NEW n \in Seq(Line(M)), WellFormed(n), NEW k \in DOMAIN LutsOf(n)
  PROVE  LET l == LutsOf(n)[k] IN
         /\ l \in Line(M) /\ l \in ToSet(n) /\ l.kind = "names"
         /\ Len(l.toks) \in Nat /\ Len(l.toks) >= 2 /\ DOMAIN l.toks = 1 .. Len(l.toks)
         /\ InputPins(l) # <<>>
         /\ DOMAIN InputPins(l) = 1 .. Len(l.toks) - 1
         /\ Len(InputPins(l)) = Len(l.toks) - 1
         /\ \A p \in 1 .. Len(l.toks) - 1 : InputPins(l)[p] = l.toks[p]
         /\ OutputOf(l) = l.toks[Len(l.toks)]
         /\ ToSet(l.toks) \subseteq Names(n) /\ OutputOf(l) \in Names(n)
         /\ ToSet(InputPins(l)) \subseteq Names(n)
         /\ ToSet(l.toks) = ToSet(InputPins(l)) \cup {OutputOf(l)}
         /\ OutputOf(l) \notin ToSet(InputPins(l))
<1> DEFINE l == LutsOf(n)[k]
<1>1. l \in Line(M) /\ l \in ToSet(n) /\ l.kind = "names" BY LinesOfKind DEF LutsOf
<1>2. InputPins(l) # <<>> /\ OutputOf(l) \notin ToSet(InputPins(l)) BY WellFormedIs
<1>3. /\ ToSet(l.toks) \subseteq Names(n) /\ OutputOf(l) \in Names(n)
      /\ ToSet(InputPins(l)) \subseteq Names(n)
  BY <1>2, NamesAre
<1> HIDE DEF l
<1>4. Len(l.toks) \in Nat /\ DOMAIN l.toks = 1 .. Len(l.toks) BY <1>1, LineFields
<1>5. Len(l.toks) >= 2 /\ Len(l.toks) >= 1
  <2>1. Len(l.toks) >= 2 BY <1>1, <1>2, PinsAre
  <2> QED BY <1>4, <2>1
<1>6. /\ DOMAIN InputPins(l) = 1 .. Len(l.toks) - 1
      /\ Len(InputPins(l)) = Len(l.toks) - 1
      /\ \A p \in 1 .. Len(l.toks) - 1 : InputPins(l)[p] = l.toks[p]
      /\ OutputOf(l) = l.toks[Len(l.toks)]
  BY <1>1, <1>5, PinsAre
<1>7. ToSet(l.toks) = ToSet(InputPins(l)) \cup {OutputOf(l)}
  <2> DEFINE m == Len(l.toks)
  <2>1. \A p \in 1 .. m : p = m \/ p \in 1 .. m - 1 BY <1>4
  <2>2. m \in 1 .. m /\ \A p \in 1 .. m - 1 : p \in 1 .. m BY <1>4, <1>5
  <2> HIDE DEF m
  <2>3. /\ ToSet(l.toks) = {l.toks[p] : p \in 1 .. m}
        /\ ToSet(InputPins(l)) = {InputPins(l)[p] : p \in 1 .. m - 1}
    BY <1>4, <1>6 DEF m, ToSet
  <2>4. OutputOf(l) = l.toks[m] /\ \A p \in 1 .. m - 1 : InputPins(l)[p] = l.toks[p]
    BY <1>6 DEF m
  <2> QED BY <2>1, <2>2, <2>3, <2>4
<1> QED BY <1>1, <1>2, <1>3, <1>4, <1>5, <1>6, <1>7 DEF l

\* u and v are new names for the nets in x.
Fresh(n, x, u, v) ==
  /\ IsInjective(x)
  /\ \A k \in DOMAIN x : u[k] \notin Names(n) /\ v[k] \notin Names(n)
  /\ \A j, k \in DOMAIN x : /\ u[j] = u[k] => j = k
                            /\ v[j] = v[k] => j = k
                            /\ u[j] # v[k]

\* Fresh names are given to the inputs and to nothing else.
LEMMA RenIs ==
  ASSUME NEW n, NEW x, NEW u, NEW v, Fresh(n, x, u, v)
  PROVE  /\ \A k \in DOMAIN x : Ren(x, u, x[k]) = u[k]
         /\ \A y : y \notin ToSet(x) => Ren(x, u, y) = y
         /\ \A y : Ren(x, u, y) = y \/ \E k \in DOMAIN x : y = x[k] /\ Ren(x, u, y) = u[k]
         /\ \A y, z \in Names(n) : Ren(x, u, y) = Ren(x, u, z) => y = z
         /\ \A y, z \in Names(n) : Ren(x, u, y) = z => y = z /\ y \notin ToSet(x)
         /\ \A y \in Names(n), k \in DOMAIN x : Ren(x, u, y) # v[k]
<1>1. \A j, k \in DOMAIN x : x[j] = x[k] => j = k BY DEF Fresh, IsInjective
<1>2. ASSUME NEW k \in DOMAIN x PROVE Ren(x, u, x[k]) = u[k]
  <2>1. x[k] \in ToSet(x) BY DEF ToSet
  <2>2. (CHOOSE j \in DOMAIN x : x[j] = x[k]) = k BY <1>1
  <2> QED BY <2>1, <2>2 DEF Ren
<1>3. \A y : y \notin ToSet(x) => Ren(x, u, y) = y BY DEF Ren
<1>4. \A y : y \in ToSet(x) => \E k \in DOMAIN x : y = x[k] BY DEF ToSet
<1>5. \A y : \/ Ren(x, u, y) = y /\ y \notin ToSet(x)
           \/ \E k \in DOMAIN x : y = x[k] /\ Ren(x, u, y) = u[k]
  BY <1>2, <1>3, <1>4
<1>6. /\ \A k \in DOMAIN x : u[k] \notin Names(n) /\ v[k] \notin Names(n)
      /\ \A j, k \in DOMAIN x : (u[j] = u[k] => j = k) /\ u[j] # v[k]
  BY DEF Fresh
<1>7. \A y, z \in Names(n) : Ren(x, u, y) = Ren(x, u, z) => y = z BY <1>5, <1>6
<1>8. \A y, z \in Names(n) : Ren(x, u, y) = z => y = z /\ y \notin ToSet(x) BY <1>5, <1>6
<1>9. \A y \in Names(n), k \in DOMAIN x : Ren(x, u, y) # v[k] BY <1>5, <1>6
<1> QED BY <1>2, <1>3, <1>5, <1>7, <1>8, <1>9

\* After a backward move of LUT h, which drives only the latch of b: it drives b
\* and reads v[k] for input k, which is u[k] through a latch; for all other
\* readers input k is called u[k].
MovedBackward(n, c, h, b, u, v) ==
  LET l == LutsOf(n)[h]
      L == OutputOf(l)
      x == InputPins(l)
  IN  /\ h \in DOMAIN LutsOf(n) /\ Fresh(n, x, u, v)
      /\ b \notin ToSet(x) /\ <<L, b>> \in Passes(n)
      /\ \A p \in Passes(n) : p[1] = L => p[2] = b
      /\ ToSet(x) \cap ToSet(InsOf(n)) = {}
      /\ (ToSet(x) \cup {L}) \cap NamesOn(n, "outputs") = {}
      /\ OfKind(c, "inputs") = OfKind(n, "inputs")
      /\ OfKind(c, "outputs") = OfKind(n, "outputs")
      /\ Len(LutsOf(c)) = Len(LutsOf(n))
      /\ \A k \in DOMAIN LutsOf(n) \ {h} :
           /\ L \notin ToSet(LutsOf(n)[k].toks)
           /\ LutsOf(c)[k].toks = [p \in DOMAIN LutsOf(n)[k].toks |->
                                     Ren(x, u, LutsOf(n)[k].toks[p])]
      /\ LutsOf(c)[h].toks = [p \in DOMAIN l.toks |-> IF p = Len(l.toks) THEN b ELSE v[p]]
      /\ Passes(c) = {<<Ren(x, u, p[1]), Ren(x, u, p[2])>> : p \in Passes(n) \ {<<L, b>>}}
                       \cup {<<u[k], v[k]>> : k \in DOMAIN x}

BackwardLooks(n, c, h, b, u, v) ==
  LET L == OutputOf(LutsOf(n)[h])
      x == InputPins(LutsOf(n)[h])
  IN  /\ DOMAIN LutsOf(c) = DOMAIN LutsOf(n) /\ InsOf(c) = InsOf(n)
      /\ \A k \in DOMAIN LutsOf(n) :
           /\ Len(LutsOf(c)[k].toks) = Len(LutsOf(n)[k].toks)
           /\ InputPins(LutsOf(c)[k]) # <<>>
           /\ OutputOf(LutsOf(c)[k]) = IF k = h THEN b ELSE Ren(x, u, OutputOf(LutsOf(n)[k]))
           /\ ToSet(InputPins(LutsOf(c)[k])) =
                IF k = h THEN {v[p] : p \in DOMAIN x}
                ELSE {Ren(x, u, y) : y \in ToSet(InputPins(LutsOf(n)[k]))}
           /\ \A p \in 1 .. Len(LutsOf(n)[k].toks) - 1 :
                LutsOf(c)[k].toks[p] = IF k = h THEN v[p] ELSE Ren(x, u, LutsOf(n)[k].toks[p])

\* What is in such a netlist.
LEMMA BackwardView ==
  ASSUME NEW M, NEW n \in Seq(Line(M)), WellFormed(n), NEW N, NEW c \in Seq(Line(N)),
         NEW h, NEW b, NEW u, NEW v, MovedBackward(n, c, h, b, u, v)
  PROVE  BackwardLooks(n, c, h, b, u, v)
<1> DEFINE L == OutputOf(LutsOf(n)[h])
           x == InputPins(LutsOf(n)[h])
<1>1. DOMAIN LutsOf(c) = DOMAIN LutsOf(n) /\ InsOf(c) = InsOf(n) /\ h \in DOMAIN LutsOf(n)
  <2>1. Len(LutsOf(c)) = Len(LutsOf(n)) /\ OfKind(c, "inputs") = OfKind(n, "inputs")
    BY DEF MovedBackward
  <2>2. DOMAIN LutsOf(c) = 1 .. Len(LutsOf(c)) /\ DOMAIN LutsOf(n) = 1 .. Len(LutsOf(n))
    BY LinesOfKind DEF LutsOf
  <2> QED BY <2>1, <2>2 DEF InsOf, MovedBackward
<1>2. ASSUME NEW k \in DOMAIN LutsOf(n)
      PROVE  /\ Len(LutsOf(c)[k].toks) = Len(LutsOf(n)[k].toks)
             /\ InputPins(LutsOf(c)[k]) # <<>>
             /\ OutputOf(LutsOf(c)[k]) = IF k = h THEN b ELSE Ren(x, u, OutputOf(LutsOf(n)[k]))
             /\ ToSet(InputPins(LutsOf(c)[k])) =
                  IF k = h THEN {v[p] : p \in DOMAIN x}
                  ELSE {Ren(x, u, y) : y \in ToSet(InputPins(LutsOf(n)[k]))}
             /\ \A p \in 1 .. Len(LutsOf(n)[k].toks) - 1 :
                  LutsOf(c)[k].toks[p] = IF k = h THEN v[p] ELSE Ren(x, u, LutsOf(n)[k].toks[p])
  <2> DEFINE l == LutsOf(n)[k]
             d == LutsOf(c)[k]
             m == Len(l.toks)
             g(p) == IF k = h THEN v[p] ELSE Ren(x, u, l.toks[p])
  <2>1. /\ m \in Nat /\ m >= 2 /\ DOMAIN l.toks = 1 .. m
        /\ DOMAIN InputPins(l) = 1 .. m - 1
        /\ \A p \in 1 .. m - 1 : InputPins(l)[p] = l.toks[p]
        /\ OutputOf(l) = l.toks[m]
    BY LutsAre
  <2>2. d \in Line(N) BY <1>1, LinesOfKind DEF LutsOf
  <2>3. /\ DOMAIN d.toks = 1 .. m
        /\ \A p \in 1 .. m - 1 : d.toks[p] = g(p)
        /\ d.toks[m] = IF k = h THEN b ELSE Ren(x, u, OutputOf(l))
    <3>1. CASE k = h
      <4>1. d.toks = [p \in DOMAIN l.toks |-> IF p = m THEN b ELSE v[p]]
        BY <3>1 DEF MovedBackward
      <4>2. m \in 1 .. m /\ \A p \in 1 .. m - 1 : p \in 1 .. m /\ p # m BY <2>1
      <4> HIDE DEF m, l, d
      <4> QED BY <2>1, <3>1, <4>1, <4>2
    <3>2. CASE k # h
      <4>1. d.toks = [p \in DOMAIN l.toks |-> Ren(x, u, l.toks[p])]
        BY <3>2 DEF MovedBackward
      <4>2. m \in 1 .. m /\ \A p \in 1 .. m - 1 : p \in 1 .. m BY <2>1
      <4> HIDE DEF m, l, d, x
      <4> QED BY <2>1, <3>2, <4>1, <4>2
    <3> QED BY <3>1, <3>2
  <2>4. Len(d.toks) = m
    <3>1. DOMAIN d.toks = 1 .. Len(d.toks) /\ Len(d.toks) \in Nat BY <2>2, LineFields
    <3> HIDE DEF d, m
    <3>2. 1 .. Len(d.toks) = 1 .. m BY <2>3, <3>1
    <3> QED BY <2>1, <3>1, <3>2
  <2>6. /\ InputPins(d) # <<>> /\ OutputOf(d) = d.toks[m]
        /\ DOMAIN InputPins(d) = 1 .. m - 1
        /\ \A p \in 1 .. m - 1 : InputPins(d)[p] = d.toks[p]
    <3>1. m >= 1 BY <2>1
    <3> HIDE DEF d, m, l, L
    <3> QED BY <2>1, <2>2, <2>4, <3>1, PinsAre
  <2>7. OutputOf(d) = IF k = h THEN b ELSE Ren(x, u, OutputOf(l)) BY <2>3, <2>6
  <2>8. ToSet(InputPins(d)) = {g(p) : p \in 1 .. m - 1}
    <3>1. \A p \in 1 .. m - 1 : InputPins(d)[p] = g(p) BY <2>3, <2>6
    <3> HIDE DEF g, d, m
    <3> QED BY <2>6, <3>1 DEF ToSet
  <2>9. ToSet(InputPins(l)) = {l.toks[p] : p \in 1 .. m - 1} BY <2>1 DEF ToSet
  <2>10. ToSet(InputPins(d)) =
           IF k = h THEN {v[p] : p \in DOMAIN x}
           ELSE {Ren(x, u, y) : y \in ToSet(InputPins(l))}
    <3>1. CASE k = h
      <4>1. DOMAIN x = 1 .. m - 1 BY <2>1, <3>1
      <4> HIDE DEF x, l, m, d
      <4> QED BY <2>8, <3>1, <4>1
    <3>2. CASE k # h
      <4> HIDE DEF x, l, m, d, L
      <4> QED BY <2>8, <2>9, <3>2
    <3> QED BY <3>1, <3>2
  <2> QED BY <2>3, <2>4, <2>6, <2>7, <2>10
<1> QED BY <1>1, <1>2 DEF BackwardLooks

\* It is well formed.
LEMMA BackwardFormed ==
  ASSUME NEW M, NEW n \in Seq(Line(M)), WellFormed(n), NEW N, NEW c \in Seq(Line(N)),
         NEW h, NEW b, NEW u, NEW v, MovedBackward(n, c, h, b, u, v)
  PROVE  WellFormed(c)
<1> DEFINE L == OutputOf(LutsOf(n)[h])
           x == InputPins(LutsOf(n)[h])
           R(y) == Ren(x, u, y)
           D == DOMAIN LutsOf(n)
           out(k) == OutputOf(LutsOf(n)[k])
           pins(k) == ToSet(InputPins(LutsOf(n)[k]))
           out2(k) == OutputOf(LutsOf(c)[k])
           pins2(k) == ToSet(InputPins(LutsOf(c)[k]))
<1>1. /\ DOMAIN LutsOf(c) = D /\ InsOf(c) = InsOf(n)
      /\ \A k \in D :
           /\ InputPins(LutsOf(c)[k]) # <<>>
           /\ out2(k) = IF k = h THEN b ELSE R(out(k))
           /\ pins2(k) = IF k = h THEN {v[p] : p \in DOMAIN x}
                         ELSE {R(y) : y \in pins(k)}
  <2>1. BackwardLooks(n, c, h, b, u, v) BY BackwardView
  <2> QED BY <2>1 DEF BackwardLooks
<1>2. /\ h \in D /\ Fresh(n, x, u, v)
      /\ <<L, b>> \in Passes(n)
      /\ OfKind(c, "inputs") = OfKind(n, "inputs")
      /\ Passes(c) = {<<R(p[1]), R(p[2])>> : p \in Passes(n) \ {<<L, b>>}}
                       \cup {<<u[k], v[k]>> : k \in DOMAIN x}
  BY DEF MovedBackward
<1>3. /\ Len(OfKind(n, "inputs")) = 1 /\ IsInjective(InsOf(n))
      /\ \A k \in D : out(k) \notin pins(k)
      /\ \A j, k \in D : out(j) = out(k) => j = k
      /\ \A k \in DOMAIN InsOf(n) :
           /\ \A j \in D : InsOf(n)[k] # out(j)
           /\ \A p \in Passes(n) : InsOf(n)[k] # p[2]
      /\ \A k \in D, p \in Passes(n) : out(k) # p[2]
  BY WellFormedIs
<1>4. /\ \A k \in D : out(k) \in Names(n) /\ pins(k) \subseteq Names(n)
      /\ \A p \in Passes(n) : p[1] \in Names(n) /\ p[2] \in Names(n)
      /\ \A k \in DOMAIN InsOf(n) : InsOf(n)[k] \in Names(n)
  <2>1. OfKind(n, "inputs") # <<>> BY Once
  <2>2. \A k \in DOMAIN InsOf(n) : InsOf(n)[k] \in Names(n) BY <2>1, NamesAre DEF ToSet
  <2> QED BY <2>2, LutsAre, NamesAre
<1>5. /\ \A k \in DOMAIN x : v[k] \notin Names(n) /\ u[k] \notin Names(n)
      /\ \A j, k \in DOMAIN x : (v[j] = v[k] => j = k) /\ u[j] # v[k]
      /\ \A y, z \in Names(n) : R(y) = R(z) => y = z
      /\ \A y, z \in Names(n) : R(y) = z => y = z
      /\ \A y \in Names(n), k \in DOMAIN x : R(y) # v[k]
  BY <1>2, RenIs DEF Fresh
<1>6. \A p, q \in Passes(n) : p[2] = q[2] => p = q BY Once
<1> DEFINE e == <<L, b>>
<1>7. e \in Passes(n) /\ e[2] = b BY <1>2
<1>8. \A p \in Passes(c) :
        \/ \E q \in Passes(n) : q # e /\ p[1] = R(q[1]) /\ p[2] = R(q[2])
        \/ \E k \in DOMAIN x : p[1] = u[k] /\ p[2] = v[k]
  <2> HIDE DEF R, e
  <2> QED BY <1>2 DEF e
<1> HIDE DEF out, pins, out2, pins2, D, x, L, e, R
<1>9. b \in Names(n) BY <1>4, <1>7
<1>10. \A k \in D : out2(k) \notin pins2(k)
  <2>1. ASSUME NEW k \in D, k = h PROVE out2(k) \notin pins2(k) BY <1>1, <1>5, <1>9, <2>1
  <2>2. ASSUME NEW k \in D, k # h PROVE out2(k) \notin pins2(k)
    BY <1>1, <1>3, <1>4, <1>5, <2>2
  <2> QED BY <2>1, <2>2
<1>11. \A j, k \in D : out2(j) = out2(k) => j = k
  BY <1>1, <1>3, <1>4, <1>5, <1>7, <1>9
<1>12. \A p, q \in Passes(c) : p[2] = q[2] => p[1] = q[1]
  BY <1>4, <1>5, <1>6, <1>8
<1>13. \A k \in DOMAIN InsOf(n) : /\ \A j \in D : InsOf(n)[k] # out2(j)
                                  /\ \A p \in Passes(c) : InsOf(n)[k] # p[2]
  BY <1>1, <1>3, <1>4, <1>5, <1>7, <1>8
<1>14. \A k \in D, p \in Passes(c) : out2(k) # p[2]
  <2>1. ASSUME NEW k \in D, NEW p \in Passes(c), k = h PROVE out2(k) # p[2]
    BY <1>1, <1>4, <1>5, <1>6, <1>7, <1>8, <1>9, <2>1
  <2>2. ASSUME NEW k \in D, NEW p \in Passes(c), k # h PROVE out2(k) # p[2]
    BY <1>1, <1>3, <1>4, <1>5, <1>8, <2>2
  <2> QED BY <2>1, <2>2
<1>15. /\ DOMAIN LutsOf(c) = D /\ InsOf(c) = InsOf(n)
       /\ Len(OfKind(c, "inputs")) = 1 /\ IsInjective(InsOf(c))
       /\ \A k \in D : InputPins(LutsOf(c)[k]) # <<>>
  BY <1>1, <1>2, <1>3
<1>16. /\ \A k \in D : OutputOf(LutsOf(c)[k]) \notin ToSet(InputPins(LutsOf(c)[k]))
       /\ \A j, k \in D : OutputOf(LutsOf(c)[j]) = OutputOf(LutsOf(c)[k]) => j = k
       /\ \A k \in D, p \in Passes(c) : OutputOf(LutsOf(c)[k]) # p[2]
  BY <1>10, <1>11, <1>14 DEF out2, pins2
<1>17. \A k \in DOMAIN InsOf(n) : \A j \in D : InsOf(n)[k] # OutputOf(LutsOf(c)[j])
  BY <1>13 DEF out2
<1> QED BY <1>12, <1>13, <1>15, <1>16, <1>17, WellFormedIs

\* One latch has been moved from the output of LUT h to its inputs.
LEMMA BackwardRetimes ==
  ASSUME NEW M, NEW n \in Seq(Line(M)), WellFormed(n), SoundNet(n),
         NEW N, NEW c \in Seq(Line(N)),
         NEW h, NEW b, NEW u, NEW v, MovedBackward(n, c, h, b, u, v)
  PROVE  IsRetiming(n, c, [k \in DOMAIN LutsOf(n) |-> IF k = h THEN 1 ELSE 0])
<1> DEFINE L == OutputOf(LutsOf(n)[h])
           x == InputPins(LutsOf(n)[h])
           R(y) == Ren(x, u, y)
           D == DOMAIN LutsOf(n)
           out(k) == OutputOf(LutsOf(n)[k])
           m == [y \in Names(n) |-> IF y = L THEN b ELSE R(y)]
           r == [y \in Names(n) |-> IF y = L THEN 1 ELSE 0]
           lags == [k \in D |-> IF k = h THEN 1 ELSE 0]
<1>1. WellFormed(c) BY BackwardFormed
<1>2. /\ DOMAIN LutsOf(c) = D /\ InsOf(c) = InsOf(n)
      /\ \A k \in D :
           /\ Len(LutsOf(c)[k].toks) = Len(LutsOf(n)[k].toks)
           /\ OutputOf(LutsOf(c)[k]) = IF k = h THEN b ELSE R(out(k))
           /\ \A p \in 1 .. Len(LutsOf(n)[k].toks) - 1 :
                LutsOf(c)[k].toks[p] = IF k = h THEN v[p] ELSE R(LutsOf(n)[k].toks[p])
  <2>1. BackwardLooks(n, c, h, b, u, v) BY BackwardView
  <2> QED BY <2>1 DEF BackwardLooks
<1>3. /\ h \in D /\ Fresh(n, x, u, v)
      /\ b \notin ToSet(x) /\ <<L, b>> \in Passes(n)
      /\ \A p \in Passes(n) : p[1] = L => p[2] = b
      /\ ToSet(x) \cap ToSet(InsOf(n)) = {}
      /\ (ToSet(x) \cup {L}) \cap NamesOn(n, "outputs") = {}
      /\ OfKind(c, "inputs") = OfKind(n, "inputs")
      /\ OfKind(c, "outputs") = OfKind(n, "outputs")
      /\ Len(LutsOf(c)) = Len(LutsOf(n))
      /\ \A k \in D \ {h} : L \notin ToSet(LutsOf(n)[k].toks)
      /\ Passes(c) = {<<R(p[1]), R(p[2])>> : p \in Passes(n) \ {<<L, b>>}}
                       \cup {<<u[k], v[k]>> : k \in DOMAIN x}
  BY DEF MovedBackward
<1>4. /\ \A j, k \in D : out(j) = out(k) => j = k
      /\ \A k \in DOMAIN InsOf(n) :
           /\ \A j \in D : InsOf(n)[k] # out(j)
           /\ \A p \in Passes(n) : InsOf(n)[k] # p[2]
      /\ \A k \in D, p \in Passes(n) : out(k) # p[2]
  BY WellFormedIs
<1>5. /\ \A k \in D : out(k) \in Names(n) /\ ToSet(LutsOf(n)[k].toks) \subseteq Names(n)
      /\ \A p \in Passes(n) : p[1] \in Names(n) /\ p[2] \in Names(n)
      /\ \A k \in DOMAIN InsOf(n) : InsOf(n)[k] \in Names(n)
      /\ NamesOn(n, "outputs") \subseteq Names(n)
  <2>1. OfKind(n, "inputs") # <<>> BY Once
  <2>2. \A k \in DOMAIN InsOf(n) : InsOf(n)[k] \in Names(n) BY <2>1, NamesAre DEF ToSet
  <2> QED BY <2>2, LutsAre, NamesAre
<1>6. /\ \A k \in DOMAIN x : R(x[k]) = u[k]
      /\ \A y : y \notin ToSet(x) => R(y) = y
  BY <1>3, RenIs
<1>7. /\ \A y : Leads(c, y, y, 0)
      /\ \A p \in Passes(c) : Leads(c, p[1], p[2], 1)
  BY <1>1, LeadsOn
<1>8. /\ \A k \in D : <<OutputOf(LutsOf(c)[k]), k, 0>> \in Sources(c)
      /\ \A k \in DOMAIN InsOf(n) : <<InsOf(n)[k], -k, 0>> \in Sources(c)
  <2>1. Direct(c) \subseteq Sources(c) BY <1>1, SourcesClosed
  <2> QED BY <1>2, <2>1 DEF Direct
<1>9. L = out(h) /\ L \in Names(n) BY <1>3, <1>5
<1>10. \A k \in DOMAIN InsOf(n) : InsOf(n)[k] \notin ToSet(x) BY <1>3 DEF ToSet
<1> DEFINE e == <<L, b>>
<1>11. e \in Passes(n) /\ e[1] = L /\ e[2] = b /\ b \in Names(n) /\ b # L
  <2>1. e \in Passes(n) /\ e[1] = L /\ e[2] = b BY <1>3
  <2> HIDE DEF e, L, out
  <2> QED BY <1>3, <1>4, <1>5, <1>9, <2>1
<1>12. \A p \in Passes(n) : p = <<p[1], p[2]>> BY DEF Passes
<1>13. \A p \in Passes(n) : p # e => Leads(c, R(p[1]), R(p[2]), 1)
  <2> SUFFICES ASSUME NEW p \in Passes(n), p # e PROVE Leads(c, R(p[1]), R(p[2]), 1)
    OBVIOUS
  <2> DEFINE q == <<R(p[1]), R(p[2])>>
  <2>1. q \in Passes(c) /\ q[1] = R(p[1]) /\ q[2] = R(p[2]) BY <1>3
  <2> HIDE DEF q, R
  <2> QED BY <1>7, <2>1
<1>14. \A k \in DOMAIN x : Leads(c, u[k], v[k], 1)
  <2> SUFFICES ASSUME NEW k \in DOMAIN x PROVE Leads(c, u[k], v[k], 1) OBVIOUS
  <2> DEFINE q == <<u[k], v[k]>>
  <2>1. q \in Passes(c) /\ q[1] = u[k] /\ q[2] = v[k] BY <1>3
  <2> HIDE DEF q
  <2> QED BY <1>7, <2>1
<1>15. /\ DOMAIN x = 1 .. Len(LutsOf(n)[h].toks) - 1
       /\ \A p \in DOMAIN x : x[p] = LutsOf(n)[h].toks[p] /\ x[p] \in Names(n) /\ x[p] # L
  <2> DEFINE l == LutsOf(n)[h]
  <2>1. /\ DOMAIN InputPins(l) = 1 .. Len(l.toks) - 1
        /\ \A p \in 1 .. Len(l.toks) - 1 : InputPins(l)[p] = l.toks[p]
        /\ ToSet(InputPins(l)) \subseteq Names(n)
        /\ OutputOf(l) \notin ToSet(InputPins(l))
    BY <1>3, LutsAre
  <2> HIDE DEF l
  <2>2. \A p \in DOMAIN InputPins(l) : InputPins(l)[p] \in ToSet(InputPins(l)) BY DEF ToSet
  <2> QED BY <2>1, <2>2 DEF l
<1> HIDE DEF out, x, L, R, e
<1>16. \A y \in Names(n) : /\ m[y] = IF y = L THEN b ELSE R(y)
                           /\ r[y] = IF y = L THEN 1 ELSE 0
  OBVIOUS
<1>17. \A k \in D : lags[k] = IF k = h THEN 1 ELSE 0 OBVIOUS
<1>18. r \in [Names(n) -> Int] /\ lags \in Lags(n) BY DEF Lags
<1> HIDE DEF m, r, lags
<1>19. ASSUME NEW k \in D PROVE <<m[out(k)], k, r[out(k)] - lags[k]>> \in Sources(c)
  <2>1. CASE k = h
    <3>1. m[out(k)] = b /\ r[out(k)] = 1 /\ lags[k] = 1 BY <1>9, <1>16, <1>17, <2>1
    <3>2. r[out(k)] - lags[k] = 0 BY <3>1
    <3> QED BY <1>2, <1>8, <2>1, <3>1, <3>2
  <2>2. CASE k # h
    <3>1. out(k) # L /\ out(k) \in Names(n) BY <1>3, <1>4, <1>5, <1>9, <2>2
    <3>2. m[out(k)] = R(out(k)) /\ r[out(k)] = 0 /\ lags[k] = 0 BY <1>16, <1>17, <2>2, <3>1
    <3>3. r[out(k)] - lags[k] = 0 BY <3>2
    <3>4. <<R(out(k)), k, 0>> \in Sources(c) BY <1>2, <1>8, <2>2
    <3> QED BY <3>2, <3>3, <3>4
  <2> QED BY <2>1, <2>2
<1>20. ASSUME NEW k \in DOMAIN InsOf(n)
       PROVE  <<m[InsOf(n)[k]], -k, r[InsOf(n)[k]]>> \in Sources(c)
  <2>1. InsOf(n)[k] # L /\ InsOf(n)[k] \in Names(n) /\ InsOf(n)[k] \notin ToSet(x)
    BY <1>3, <1>4, <1>5, <1>9, <1>10
  <2>2. m[InsOf(n)[k]] = InsOf(n)[k] /\ r[InsOf(n)[k]] = 0 BY <1>6, <1>16, <2>1
  <2> QED BY <1>8, <2>2
<1>21. ASSUME NEW p \in Passes(n)
       PROVE  Leads(c, m[p[1]], m[p[2]], 1 + r[p[2]] - r[p[1]])
  <2>1. p[1] \in Names(n) /\ p[2] \in Names(n) BY <1>5
  <2>2. p[2] # L BY <1>3, <1>4, <1>9
  <2>3. m[p[2]] = R(p[2]) /\ r[p[2]] = 0 BY <1>16, <2>1, <2>2
  <2>4. CASE p = e
    <3>1. p[1] = L /\ p[2] = b BY <1>11, <2>4
    <3>2. m[p[1]] = b /\ r[p[1]] = 1 BY <1>16, <2>1, <3>1
    <3>3. m[p[2]] = b BY <1>3, <1>6, <2>3, <3>1
    <3>4. 1 + r[p[2]] - r[p[1]] = 0 BY <2>3, <3>2
    <3> QED BY <1>7, <3>2, <3>3, <3>4
  <2>5. CASE p # e
    <3>1. p[1] # L BY <1>3, <1>12, <2>5 DEF e
    <3>2. m[p[1]] = R(p[1]) /\ r[p[1]] = 0 BY <1>16, <2>1, <3>1
    <3>3. 1 + r[p[2]] - r[p[1]] = 1 BY <2>3, <3>2
    <3>4. Leads(c, R(p[1]), R(p[2]), 1) BY <1>13, <2>5
    <3> QED BY <2>3, <3>2, <3>3, <3>4
  <2> QED BY <2>4, <2>5
<1>22. Follows(n, c, m, r, lags) BY <1>18, <1>19, <1>20, <1>21 DEF Follows, D, out
<1>23. ASSUME NEW y \in NamesOn(n, "outputs") PROVE Leads(c, m[y], y, 0 - r[y])
  <2>1. y \in Names(n) /\ y \notin ToSet(x) /\ y # L BY <1>3, <1>5
  <2>2. m[y] = y /\ r[y] = 0 BY <1>6, <1>16, <2>1
  <2>3. 0 - r[y] = 0 BY <2>2
  <2> QED BY <1>7, <2>2, <2>3
<1>24. ASSUME NEW k \in D, NEW p \in 1 .. Len(LutsOf(n)[k].toks) - 1
       PROVE  Leads(c, m[LutsOf(n)[k].toks[p]], LutsOf(c)[k].toks[p],
                    lags[k] - r[LutsOf(n)[k].toks[p]])
  <2> DEFINE y == LutsOf(n)[k].toks[p]
             t == LutsOf(c)[k].toks[p]
  <2>1. t = IF k = h THEN v[p] ELSE R(y) BY <1>2
  <2>2. y \in ToSet(LutsOf(n)[k].toks)
    <3> DEFINE l == LutsOf(n)[k]
    <3>1. Len(l.toks) \in Nat /\ DOMAIN l.toks = 1 .. Len(l.toks) BY LutsAre
    <3>2. p \in 1 .. Len(l.toks) - 1 /\ y = l.toks[p] OBVIOUS
    <3> HIDE DEF l, y
    <3>3. p \in 1 .. Len(l.toks) BY <3>1, <3>2
    <3>4. y \in ToSet(l.toks) BY <3>1, <3>2, <3>3 DEF ToSet
    <3> QED BY <3>4 DEF l
  <2>3. y \in Names(n) BY <1>5, <2>2
  <2>4. k = h => p \in DOMAIN x /\ y = x[p] BY <1>15
  <2> HIDE DEF y, t
  <2>5. CASE k = h
    <3>1. p \in DOMAIN x /\ y = x[p] /\ y # L BY <1>15, <2>4, <2>5
    <3>2. m[y] = u[p] /\ r[y] = 0 /\ lags[k] = 1 /\ t = v[p]
      BY <1>6, <1>16, <1>17, <2>1, <2>3, <2>5, <3>1
    <3>3. lags[k] - r[y] = 1 BY <3>2
    <3>4. Leads(c, m[y], t, lags[k] - r[y]) BY <1>14, <3>1, <3>2, <3>3
    <3> QED BY <3>4 DEF y, t
  <2>6. CASE k # h
    <3>1. y # L BY <1>3, <2>2, <2>6
    <3>2. m[y] = t /\ r[y] = 0 /\ lags[k] = 0 BY <1>16, <1>17, <2>1, <2>3, <2>6, <3>1
    <3>3. lags[k] - r[y] = 0 BY <3>2
    <3>4. Leads(c, m[y], t, lags[k] - r[y]) BY <1>7, <3>2, <3>3
    <3> QED BY <3>4 DEF y, t
  <2> QED BY <2>5, <2>6
<1>25. \A k \in D :
         /\ Len(LutsOf(n)[k].toks) = Len(LutsOf(c)[k].toks)
         /\ \A p \in 1 .. Len(LutsOf(n)[k].toks) - 1 :
              Leads(c, m[LutsOf(n)[k].toks[p]], LutsOf(c)[k].toks[p],
                    lags[k] - r[LutsOf(n)[k].toks[p]])
  BY <1>2, <1>24
<1>26. Len(LutsOf(n)) = Len(LutsOf(c)) BY <1>3
<1>27. IsRetiming(n, c, lags)
  <2>1. \A y \in NamesOn(n, "outputs") : Leads(c, m[y], y, 0 - r[y]) BY <1>23
  <2> HIDE DEF D
  <2> QED BY <1>1, <1>3, <1>18, <1>22, <1>25, <1>26, <2>1, RetimedByNets DEF D
<1> QED BY <1>27 DEF lags

-----------------------------------------------------------------------------
(***************************************************************************)
(* From the text of a move to what the netlist looks like after it.        *)
(***************************************************************************)
\* made is what a rewriting makes of the lines of n: ports stay, a LUT remains
\* one, and of a latch come latches.
Preserves(n, made) ==
  \A k \in 1 .. Len(n) :
    /\ n[k].kind \in {"inputs", "outputs"} => made[k] = <<n[k]>>
    /\ n[k].kind = "names" => Len(made[k]) = 1 /\ made[k][1].kind = "names"
    /\ n[k].kind = "latch" => \A j \in 1 .. Len(made[k]) : made[k][j].kind = "latch"

LatchesMade(n, made) ==
  UNION {{<<t.toks[1], t.toks[2]>> : t \in ToSet(made[k])} :
           k \in {k \in 1 .. Len(n) : n[k].kind = "latch"}}

\* c is n with these lines.
IsRewritten(n, made, c) ==
  /\ OfKind(c, "inputs") = OfKind(n, "inputs")
  /\ OfKind(c, "outputs") = OfKind(n, "outputs")
  /\ Len(LutsOf(c)) = Len(LutsOf(n))
  /\ \A j \in DOMAIN LutsOf(n) : \E k \in 1 .. Len(n) :
       LutsOf(n)[j] = n[k] /\ LutsOf(c)[j] = made[k][1]
  /\ Passes(c) = LatchesMade(n, made)

\* A line of the kind is made of each line but the latches.
KeepsKinds(n, made) ==
  \A k \in 1 .. Len(n) :
    /\ n[k].kind # "latch" => Len(made[k]) = 1 /\ made[k][1].kind = n[k].kind
    /\ n[k].kind = "latch" => \A j \in 1 .. Len(made[k]) : made[k][j].kind = "latch"

\* Lines rewritten so give a netlist with as many lines of each kind, and these
\* latches.
LEMMA KindsRewritten ==
  ASSUME NEW M, NEW n \in Seq(Line(M)), NEW N,
         NEW made \in [1 .. Len(n) -> Seq(Line(N))], KeepsKinds(n, made)
  PROVE  /\ FlattenSeq(made) \in Seq(Line(N))
         /\ \A kind \in {"inputs", "outputs", "names"} :
              /\ Len(OfKind(FlattenSeq(made), kind)) = Len(OfKind(n, kind))
              /\ \A j \in 1 .. Len(OfKind(n, kind)) : \E k \in 1 .. Len(n) :
                   /\ OfKind(n, kind)[j] = n[k]
                   /\ OfKind(FlattenSeq(made), kind)[j] = made[k][1]
         /\ Passes(FlattenSeq(made)) = LatchesMade(n, made)
<1> DEFINE c == FlattenSeq(made)
<1>1. \A k \in 1 .. Len(n) :
        /\ n[k].kind # "latch" => Len(made[k]) = 1 /\ made[k][1].kind = n[k].kind
        /\ n[k].kind = "latch" => \A j \in 1 .. Len(made[k]) : made[k][j].kind = "latch"
        /\ n[k] \in Line(M) /\ made[k] \in Seq(Line(N))
  BY DEF KeepsKinds
<1>2. /\ Keeps(n, made, "inputs") /\ Keeps(n, made, "outputs") /\ Keeps(n, made, "names")
  <2> SUFFICES ASSUME NEW kind \in {"inputs", "outputs", "names"} PROVE Keeps(n, made, kind)
    OBVIOUS
  <2>1. ASSUME NEW k \in 1 .. Len(n), n[k].kind = kind
        PROVE  Len(made[k]) = 1 /\ made[k][1].kind = kind
    BY <1>1, <2>1
  <2>2. ASSUME NEW k \in 1 .. Len(n), n[k].kind # kind, NEW j \in 1 .. Len(made[k])
        PROVE  made[k][j].kind # kind
    <3>1. CASE n[k].kind = "latch" BY <1>1, <3>1
    <3>2. CASE n[k].kind # "latch"
      <4>1. Len(made[k]) = 1 /\ made[k][1].kind = n[k].kind BY <1>1, <3>2
      <4>2. j = 1 BY <4>1
      <4> QED BY <2>2, <4>1, <4>2
    <3> QED BY <3>1, <3>2
  <2> QED BY <2>1, <2>2 DEF Keeps
<1>3. ASSUME NEW kind \in {"inputs", "outputs", "names"}
      PROVE  /\ Len(OfKind(c, kind)) = Len(OfKind(n, kind))
             /\ \A j \in 1 .. Len(OfKind(n, kind)) : \E k \in 1 .. Len(n) :
                  OfKind(n, kind)[j] = n[k] /\ OfKind(c, kind)[j] = made[k][1]
  BY <1>2, KindRewritten
<1>4. /\ c \in Seq(Line(N)) /\ Len(n) \in Nat
      /\ \A k \in 1 .. Len(n) : \A j \in 1 .. Len(made[k]) : made[k][j] \in ToSet(c)
      /\ \A l \in ToSet(c) : \E k \in 1 .. Len(n) : \E j \in 1 .. Len(made[k]) : l = made[k][j]
  <2> DEFINE m == Len(n)
  <2>1. m \in Nat OBVIOUS
  <2>2. made \in [1 .. m -> Seq(Line(N))] OBVIOUS
  <2> HIDE DEF m
  <2>3. Gathers(Line(N), m, made, c) BY <2>1, <2>2, FlattenMembers
  <2> HIDE DEF c
  <2>4. /\ c \in Seq(Line(N))
        /\ \A k \in 1 .. m : \A j \in 1 .. Len(made[k]) : \E t \in 1 .. Len(c) : c[t] = made[k][j]
        /\ \A t \in 1 .. Len(c) : \E k \in 1 .. m : \E j \in 1 .. Len(made[k]) : c[t] = made[k][j]
    BY <2>3 DEF Gathers
  <2>5. DOMAIN c = 1 .. Len(c) BY <2>4
  <2>6. ToSet(c) = {c[t] : t \in 1 .. Len(c)} BY <2>5 DEF ToSet
  <2>7. ASSUME NEW k \in 1 .. m, NEW j \in 1 .. Len(made[k])
        PROVE  made[k][j] \in ToSet(c)
    <3>1. PICK t \in 1 .. Len(c) : c[t] = made[k][j] BY <2>4
    <3> QED BY <2>6, <3>1
  <2>8. ASSUME NEW l \in ToSet(c)
        PROVE  \E k \in 1 .. m : \E j \in 1 .. Len(made[k]) : l = made[k][j]
    <3>1. PICK t \in 1 .. Len(c) : l = c[t] BY <2>6
    <3> QED BY <2>4, <3>1
  <2> QED BY <2>1, <2>4, <2>7, <2>8 DEF m
<1> HIDE DEF c
<1>5. Passes(c) = LatchesMade(n, made)
  <2>1. ToSet(OfKind(c, "latch")) = {l \in ToSet(c) : l.kind = "latch"} BY <1>4, LinesOf
  <2>2. Passes(c) = {<<t.toks[1], t.toks[2]>> : t \in {l \in ToSet(c) : l.kind = "latch"}}
    BY <2>1 DEF Passes
  <2>3. ASSUME NEW k \in 1 .. Len(n), n[k].kind = "latch", NEW t \in ToSet(made[k])
        PROVE  t \in ToSet(c) /\ t.kind = "latch"
    <3>1. PICK j \in 1 .. Len(made[k]) : t = made[k][j]
      <4>1. DOMAIN made[k] = 1 .. Len(made[k]) BY <1>1
      <4> QED BY <4>1 DEF ToSet
    <3> QED BY <1>1, <1>4, <2>3, <3>1
  <2>4. ASSUME NEW t \in ToSet(c), t.kind = "latch"
        PROVE  \E k \in 1 .. Len(n) : n[k].kind = "latch" /\ t \in ToSet(made[k])
    <3>0. PICK k \in 1 .. Len(n) : \E j \in 1 .. Len(made[k]) : t = made[k][j] BY <1>4
    <3>1. PICK j \in 1 .. Len(made[k]) : t = made[k][j] BY <3>0
    <3>2. t \in ToSet(made[k])
      <4>1. DOMAIN made[k] = 1 .. Len(made[k]) BY <1>1
      <4> QED BY <3>1, <4>1 DEF ToSet
    <3>3. n[k].kind = "latch"
      <4>1. CASE n[k].kind # "latch"
        <5>1. Len(made[k]) = 1 /\ made[k][1].kind = n[k].kind BY <1>1, <4>1
        <5>2. j = 1 BY <5>1
        <5> QED BY <2>4, <3>1, <5>1, <5>2
      <4> QED BY <4>1
    <3> QED BY <3>2, <3>3
  <2>5. ASSUME NEW p \in Passes(c) PROVE p \in LatchesMade(n, made)
    <3>1. PICK t \in ToSet(c) : t.kind = "latch" /\ p = <<t.toks[1], t.toks[2]>> BY <2>2
    <3>2. PICK k \in 1 .. Len(n) : n[k].kind = "latch" /\ t \in ToSet(made[k]) BY <2>4, <3>1
    <3> DEFINE pairs(j) == {<<w.toks[1], w.toks[2]>> : w \in ToSet(made[j])}
               K == {j \in 1 .. Len(n) : n[j].kind = "latch"}
    <3>3. k \in K BY <3>2
    <3>4. p \in pairs(k) BY <3>1, <3>2
    <3>5. LatchesMade(n, made) = UNION {pairs(j) : j \in K} BY DEF LatchesMade
    <3> HIDE DEF pairs, K
    <3> QED BY <3>3, <3>4, <3>5
  <2>6. ASSUME NEW p \in LatchesMade(n, made) PROVE p \in Passes(c)
    <3>1. PICK k \in 1 .. Len(n) : n[k].kind = "latch"
                 /\ p \in {<<t.toks[1], t.toks[2]>> : t \in ToSet(made[k])}
      BY DEF LatchesMade
    <3>2. PICK t \in ToSet(made[k]) : p = <<t.toks[1], t.toks[2]>> BY <3>1
    <3> QED BY <2>2, <2>3, <3>1, <3>2
  <2> QED BY <2>5, <2>6
<1> QED BY <1>3, <1>4, <1>5 DEF c

\* The ports are the same when their lines are.
LEMMA RewrittenIs ==
  ASSUME NEW M, NEW n \in Seq(Line(M)), NEW N,
         NEW made \in [1 .. Len(n) -> Seq(Line(N))], Preserves(n, made)
  PROVE  IsRewritten(n, made, FlattenSeq(made))
<1> DEFINE c == FlattenSeq(made)
<1>1. \A k \in 1 .. Len(n) :
        /\ n[k].kind \in {"inputs", "outputs"} => made[k] = <<n[k]>>
        /\ n[k].kind = "names" => Len(made[k]) = 1 /\ made[k][1].kind = "names"
        /\ n[k].kind = "latch" => \A j \in 1 .. Len(made[k]) : made[k][j].kind = "latch"
        /\ n[k] \in Line(M) /\ made[k] \in Seq(Line(N))
  BY DEF Preserves
<1>2. \A k \in 1 .. Len(n) : n[k].kind \in {"inputs", "outputs", "latch", "names"}
  BY <1>1, LineFields
<1>3. ASSUME NEW k \in 1 .. Len(n), n[k].kind \in {"inputs", "outputs"}
      PROVE  Len(made[k]) = 1 /\ made[k][1] = n[k]
  <2> DEFINE l == n[k]
  <2>1. made[k] = <<l>> BY <1>1, <1>3
  <2> HIDE DEF l
  <2>2. Len(made[k]) = 1 /\ made[k][1] = l BY <2>1
  <2> QED BY <2>2 DEF l
<1>4. KeepsKinds(n, made) BY <1>1, <1>2, <1>3 DEF KeepsKinds
<1>5. ASSUME NEW kind \in {"inputs", "outputs", "names"}
      PROVE  /\ Len(OfKind(c, kind)) = Len(OfKind(n, kind))
             /\ \A j \in 1 .. Len(OfKind(n, kind)) : \E k \in 1 .. Len(n) :
                  OfKind(n, kind)[j] = n[k] /\ OfKind(c, kind)[j] = made[k][1]
  BY <1>4, KindsRewritten
<1>6. c \in Seq(Line(N)) /\ Passes(c) = LatchesMade(n, made) BY <1>4, KindsRewritten
<1> HIDE DEF c
<1>7. ASSUME NEW kind \in {"inputs", "outputs"} PROVE OfKind(c, kind) = OfKind(n, kind)
  <2> DEFINE a == OfKind(n, kind)
             e == OfKind(c, kind)
  <2>1. a \in Seq(Line(M)) /\ e \in Seq(Line(N)) /\ DOMAIN a = 1 .. Len(a)
        /\ \A j \in DOMAIN a : a[j].kind = kind
    BY <1>6, LinesOfKind
  <2>2. Len(e) = Len(a)
        /\ \A j \in 1 .. Len(a) : \E k \in 1 .. Len(n) : a[j] = n[k] /\ e[j] = made[k][1]
    <3>1. kind \in {"inputs", "outputs", "names"} OBVIOUS
    <3> QED BY <1>5, <3>1
  <2> HIDE DEF a, e
  <2>3. ASSUME NEW j \in 1 .. Len(a) PROVE e[j] = a[j]
    <3>1. PICK k \in 1 .. Len(n) : a[j] = n[k] /\ e[j] = made[k][1] BY <2>2
    <3>2. n[k].kind = kind BY <2>1, <3>1
    <3> QED BY <1>3, <3>1, <3>2
  <2>4. e = a BY <2>1, <2>2, <2>3, SeqEqual
  <2> QED BY <2>4 DEF a, e
<1>8. /\ Len(LutsOf(c)) = Len(LutsOf(n)) /\ DOMAIN LutsOf(n) = 1 .. Len(LutsOf(n))
      /\ \A j \in 1 .. Len(LutsOf(n)) : \E k \in 1 .. Len(n) :
           LutsOf(n)[j] = n[k] /\ LutsOf(c)[j] = made[k][1]
  BY <1>5, LinesOfKind DEF LutsOf
<1>9. IsRewritten(n, made, c) BY <1>6, <1>7, <1>8 DEF IsRewritten
<1> QED BY <1>9 DEF c

\* The passes of n, line by line.
LEMMA PassIs ==
  ASSUME NEW n, NEW p \in Passes(n)
  PROVE  /\ p = <<p[1], p[2]>>
         /\ \E t \in ToSet(OfKind(n, "latch")) : p[1] = t.toks[1] /\ p[2] = t.toks[2]
<1> DEFINE S == ToSet(OfKind(n, "latch"))
<1>1. p \in {<<t.toks[1], t.toks[2]>> : t \in S} BY DEF Passes
<1> HIDE DEF S
<1>2. PICK t \in S : p = <<t.toks[1], t.toks[2]>> BY <1>1
<1> QED BY <1>2 DEF S

\* The pairs are those of the latch lines.
PassesArePairs(n) ==
  /\ \A k \in 1 .. Len(n) :
       n[k].kind = "latch" => <<n[k].toks[1], n[k].toks[2]>> \in Passes(n)
  /\ \A p \in Passes(n) : \E k \in 1 .. Len(n) :
       n[k].kind = "latch" /\ p[1] = n[k].toks[1] /\ p[2] = n[k].toks[2]

\* The latches by the lines they are on.
LEMMA PassesOf ==
  ASSUME NEW M, NEW n \in Seq(Line(M))
  PROVE  PassesArePairs(n)
<1>1. ToSet(OfKind(n, "latch")) = {l \in ToSet(n) : l.kind = "latch"} BY LinesOf
<1>2. ToSet(n) = {n[k] : k \in 1 .. Len(n)} BY DEF ToSet
<1>3. \A k \in 1 .. Len(n) :
        n[k].kind = "latch" => <<n[k].toks[1], n[k].toks[2]>> \in Passes(n)
  BY <1>1, <1>2 DEF Passes
<1>4. ASSUME NEW p \in Passes(n)
      PROVE  \E k \in 1 .. Len(n) :
               n[k].kind = "latch" /\ p[1] = n[k].toks[1] /\ p[2] = n[k].toks[2]
  <2>1. PICK t \in ToSet(OfKind(n, "latch")) : p[1] = t.toks[1] /\ p[2] = t.toks[2]
    BY PassIs
  <2>2. t \in ToSet(n) /\ t.kind = "latch" BY <1>1
  <2>3. PICK k \in 1 .. Len(n) : t = n[k] BY <1>2, <2>2
  <2> QED BY <2>1, <2>2, <2>3
<1> QED BY <1>3, <1>4 DEF PassesArePairs

\* A LUT line is one of the LUTs.
LEMMA LutLines ==
  ASSUME NEW M, NEW n \in Seq(Line(M)), NEW k \in 1 .. Len(n), n[k].kind = "names"
  PROVE  \E j \in DOMAIN LutsOf(n) : LutsOf(n)[j] = n[k]
<1>1. ToSet(LutsOf(n)) = {l \in ToSet(n) : l.kind = "names"} BY LinesOf DEF LutsOf
<1>2. n[k] \in ToSet(n)
  <2>1. DOMAIN n = 1 .. Len(n) OBVIOUS
  <2> QED BY <2>1 DEF ToSet
<1> QED BY <1>1, <1>2 DEF ToSet

\* The names of the inputs.
LEMMA InputNames ==
  ASSUME NEW M, NEW n \in Seq(Line(M)), WellFormed(n)
  PROVE  NamesOn(n, "inputs") = ToSet(InsOf(n))
<1> DEFINE a == OfKind(n, "inputs")
<1>1. Len(a) = 1 /\ DOMAIN a = 1 .. Len(a) BY WellFormedIs, LinesOfKind
<1> HIDE DEF a
<1>2. ToSet(a) = {a[1]} BY <1>1 DEF ToSet
<1> QED BY <1>2 DEF a, NamesOn, InsOf

\* Unless all of a sequence is chosen, less is.
LEMMA ChosenAllOrFewer ==
  ASSUME NEW T, NEW s \in Seq(T), NEW S
  PROVE  Len(Chosen(s, S)) <= Len(s) /\ (Len(Chosen(s, S)) = Len(s) => Chosen(s, S) = s)
<1> DEFINE n == Len(s)
           U(x) == IF x \in S THEN <<x>> ELSE <<>>
           u == [k \in 1 .. n |-> U(s[k])]
           g == FlattenSeq(u)
<1>1. n \in Nat /\ DOMAIN s = 1 .. n /\ \A k \in 1 .. n : s[k] \in T OBVIOUS
<1>2. Chosen(s, S) = g BY <1>1 DEF Chosen
<1>3. \A x \in T : U(x) \in Seq(T) /\ (U(x) = <<x>> \/ U(x) = <<>>) OBVIOUS
<1> HIDE DEF U
<1>4. u \in [1 .. n -> Seq(T)] BY <1>1, <1>3
<1>5. PICK f : Joined(T, n, u, f, g)
  <2> HIDE DEF n, u
  <2> QED BY <1>1, <1>4, Flattened
<1>6. /\ f \in [0 .. n -> Seq(T)] /\ f[0] = <<>> /\ f[n] = g
      /\ \A k \in 1 .. n : f[k] = f[k - 1] \o U(s[k])
  <2> HIDE DEF n, g
  <2> QED BY <1>5 DEF Joined
<1> HIDE DEF n, u, g
<1> DEFINE AllOf(k) == Len(f[k]) = k => \A j \in 1 .. k : f[k][j] = s[j]
           X == {k \in 0 .. n : Len(f[k]) <= k /\ AllOf(k)}
<1>7. 0 \in X BY <1>1, <1>6
<1>8. ASSUME NEW k \in 1 .. n, k - 1 \in X PROVE k \in X
  <2> DEFINE e == f[k - 1]
  <2>1. /\ e \in Seq(T) /\ Len(e) <= k - 1 /\ f[k] = e \o U(s[k])
        /\ Len(e) = k - 1 => \A j \in 1 .. k - 1 : e[j] = s[j]
    BY <1>1, <1>6, <1>8
  <2> HIDE DEF e
  <2>2. CASE U(s[k]) = <<s[k]>>
    <3>1. Len(f[k]) = Len(e) + 1 BY <1>1, <2>1, <2>2
    <3>2. Len(e) = k - 1 => \A j \in 1 .. k : f[k][j] = s[j] BY <1>1, <2>1, <2>2
    <3> QED BY <2>1, <3>1, <3>2
  <2>3. CASE U(s[k]) = <<>>
    <3>1. f[k] = e BY <2>1, <2>3, ConcatEmptySeq
    <3> QED BY <2>1, <3>1
  <2> QED BY <1>1, <1>3, <2>2, <2>3
<1>9. 0 .. n \subseteq X
  <2> HIDE DEF X
  <2> QED BY <1>1, <1>7, <1>8, AllUpTo
<1>10. n \in X BY <1>1, <1>9
<1>11. g \in Seq(T) /\ Len(g) <= n BY <1>1, <1>6, <1>10
<1>12. ASSUME Len(g) = n PROVE g = s
  <2>1. \A j \in 1 .. n : g[j] = s[j] BY <1>6, <1>10, <1>12
  <2> QED BY <1>11, <1>12, <2>1, SeqEqual DEF n
<1> QED BY <1>2, <1>11, <1>12 DEF n

\* The tokens of a latch line.
LEMMA LatchLines ==
  ASSUME NEW M, NEW l \in Line(M), l.kind = "latch"
  PROVE  ToSet(l.toks) = {l.toks[1], l.toks[2]}
<1>1. DOMAIN l.toks = {1, 2}
  <2>1. Len(l.toks) = 2 /\ DOMAIN l.toks = 1 .. Len(l.toks) BY LineFields
  <2> QED BY <2>1
<1> QED BY <1>1 DEF ToSet

\* The shared inputs are those of the one LUT that drives L.
LEMMA SharedAre ==
  ASSUME NEW M, NEW n \in Seq(Line(M)), WellFormed(n), NEW f, NEW L,
         DOMAIN SharedInputs(n, f, L) # {}
  PROVE  \E h \in DOMAIN LutsOf(n) :
           /\ L = OutputOf(LutsOf(n)[h]) /\ LutsOf(n)[h].glued
           /\ f # L => ToSet(InputPins(LutsOf(n)[h])) = {f} \cup ToSet(SharedInputs(n, f, L))
<1> DEFINE luts == LutsOf(n)
           S == {l \in ToSet(luts) : Mentions(l, f) /\ l.glued /\ OutputOf(l) = L}
           own == Chosen(luts, S)
           seqs == [k \in DOMAIN own |-> own[k].toks]
           toks == FlattenSeq(seqs)
           s == SharedInputs(n, f, L)
<1>1. s = Chosen(toks, ToSet(toks) \ {f, L}) BY DEF SharedInputs
<1>2. luts \in Seq(Line(M)) /\ DOMAIN luts = 1 .. Len(luts) BY LinesOfKind DEF LutsOf
<1>3. own \in Seq(Line(M)) /\ ToSet(own) = ToSet(luts) \cap S
  <2>1. own \in Seq(Line(M) \cap S) /\ ToSet(own) = ToSet(luts) \cap S
    <3> HIDE DEF luts, S
    <3> QED BY <1>2, ChosenMembers, ChosenSet
  <2> HIDE DEF own, S
  <2> QED BY <2>1
<1>4. ToSet(own) = S BY <1>3
<1> HIDE DEF own
<1>5. /\ Len(own) \in Nat /\ DOMAIN own = 1 .. Len(own)
      /\ \A k \in 1 .. Len(own) : own[k] \in Line(M) /\ own[k] \in S
  <2> HIDE DEF S
  <2> QED BY <1>3, <1>4 DEF ToSet
<1>6. seqs \in [1 .. Len(own) -> Seq(M)]
  <2>1. \A k \in 1 .. Len(own) : own[k].toks \in Seq(M) BY <1>5, LineFields
  <2> QED BY <1>5, <2>1
<1>7. Gathers(M, Len(own), seqs, toks)
  <2> HIDE DEF seqs
  <2> QED BY <1>5, <1>6, FlattenMembers
<1>8. /\ toks \in Seq(M)
      /\ \A k \in 1 .. Len(own) : \A j \in 1 .. Len(own[k].toks) : \E t \in 1 .. Len(toks) : toks[t] = own[k].toks[j]
      /\ \A t \in 1 .. Len(toks) : \E k \in 1 .. Len(own) : \E j \in 1 .. Len(own[k].toks) : toks[t] = own[k].toks[j]
  <2>1. \A k \in 1 .. Len(own) : seqs[k] = own[k].toks BY <1>5
  <2> HIDE DEF seqs, toks
  <2>2. /\ toks \in Seq(M)
        /\ \A k \in 1 .. Len(own) : \A j \in 1 .. Len(seqs[k]) : \E t \in 1 .. Len(toks) : toks[t] = seqs[k][j]
        /\ \A t \in 1 .. Len(toks) : \E k \in 1 .. Len(own) : \E j \in 1 .. Len(seqs[k]) : toks[t] = seqs[k][j]
    BY <1>7 DEF Gathers
  <2>3. ASSUME NEW k \in 1 .. Len(own), NEW j \in 1 .. Len(own[k].toks)
        PROVE  \E t \in 1 .. Len(toks) : toks[t] = own[k].toks[j]
    BY <2>1, <2>2
  <2>4. ASSUME NEW t \in 1 .. Len(toks)
        PROVE  \E k \in 1 .. Len(own) : \E j \in 1 .. Len(own[k].toks) : toks[t] = own[k].toks[j]
    <3>1. PICK k \in 1 .. Len(own) : \E j \in 1 .. Len(seqs[k]) : toks[t] = seqs[k][j] BY <2>2
    <3> QED BY <2>1, <3>1
  <2> QED BY <2>2, <2>3, <2>4
<1>9. ToSet(s) = ToSet(toks) \ {f, L}
  <2> HIDE DEF toks, s
  <2> DEFINE R == ToSet(toks) \ {f, L}
  <2>1. ToSet(Chosen(toks, R)) = ToSet(toks) \cap R BY <1>8, ChosenSet
  <2> QED BY <1>1, <2>1
<1>10. PICK k \in 1 .. Len(own) : TRUE
  <2>1. toks # <<>>
    <3>0. DOMAIN s # {} OBVIOUS
    <3> HIDE DEF toks, s
    <3>1. PICK j \in DOMAIN s : TRUE BY <3>0
    <3>2. s[j] \in ToSet(toks) BY <1>9 DEF ToSet
    <3> QED BY <3>2 DEF ToSet
  <2> HIDE DEF toks
  <2>2. 1 \in 1 .. Len(toks) BY <1>8, <2>1
  <2> QED BY <1>8, <2>2
<1> DEFINE l == own[k]
<1>11. /\ l \in ToSet(luts) /\ l \in Line(M)
       /\ Mentions(l, f) /\ OutputOf(l) = L /\ l.glued
  BY <1>5
<1>12. PICK h \in DOMAIN luts : luts[h] = l BY <1>11 DEF ToSet
<1>13. \A j \in 1 .. Len(own) : own[j] = l
  <2>1. \A a \in ToSet(luts) : OutputOf(a) = L => a = l
    <3>1. \A a, b \in DOMAIN luts : OutputOf(luts[a]) = OutputOf(luts[b]) => a = b
      BY WellFormedIs
    <3> HIDE DEF luts, l
    <3> QED BY <1>11, <1>12, <3>1 DEF ToSet
  <2> QED BY <1>5, <2>1
<1>14. ToSet(toks) = ToSet(l.toks)
  <2>1. DOMAIN toks = 1 .. Len(toks) /\ DOMAIN l.toks = 1 .. Len(l.toks)
    <3> HIDE DEF toks, l
    <3> QED BY <1>8, <1>11, LineFields
  <2>2. \A j \in 1 .. Len(l.toks) : \E t \in 1 .. Len(toks) : toks[t] = l.toks[j] BY <1>8
  <2>3. \A t \in 1 .. Len(toks) : \E j \in 1 .. Len(l.toks) : toks[t] = l.toks[j]
    <3> HIDE DEF toks, l
    <3> QED BY <1>8, <1>13
  <2> DEFINE a == l.toks
  <2>4. /\ DOMAIN a = 1 .. Len(a)
        /\ \A j \in 1 .. Len(a) : \E t \in 1 .. Len(toks) : toks[t] = a[j]
        /\ \A t \in 1 .. Len(toks) : \E j \in 1 .. Len(a) : toks[t] = a[j]
    BY <2>1, <2>2, <2>3
  <2> HIDE DEF toks, l, a
  <2>5. ToSet(toks) = ToSet(a) BY <2>1, <2>4 DEF ToSet
  <2> QED BY <2>5 DEF a
<1>15. ToSet(l.toks) = ToSet(InputPins(l)) \cup {L} /\ L \notin ToSet(InputPins(l))
  <2>1. LET t == LutsOf(n)[h] IN /\ ToSet(t.toks) = ToSet(InputPins(t)) \cup {OutputOf(t)}
                                 /\ OutputOf(t) \notin ToSet(InputPins(t))
    BY <1>12, LutsAre
  <2> QED BY <1>11, <1>12, <2>1
<1>16. f \in ToSet(l.toks) BY <1>11 DEF Mentions
<1>17. f # L => ToSet(InputPins(l)) = {f} \cup ToSet(s)
  <2> HIDE DEF s, toks, l
  <2> QED BY <1>9, <1>14, <1>15, <1>16
<1> QED BY <1>11, <1>12, <1>17

\* The lags of a move over the LUT that drives L.
Over(n, L, d) == [k \in DOMAIN LutsOf(n) |-> IF OutputOf(LutsOf(n)[k]) = L THEN d ELSE 0]

\* The lag over the output of a LUT is over that LUT.
LEMMA OverOne ==
  ASSUME NEW n, WellFormed(n), NEW h \in DOMAIN LutsOf(n), NEW d
  PROVE  Over(n, OutputOf(LutsOf(n)[h]), d) = [k \in DOMAIN LutsOf(n) |-> IF k = h THEN d ELSE 0]
<1>1. \A k \in DOMAIN LutsOf(n) : OutputOf(LutsOf(n)[k]) = OutputOf(LutsOf(n)[h]) <=> k = h
  BY WellFormedIs
<1> QED BY <1>1 DEF Over

\* What a substitution leaves and what it changes.
LEMMA SubstituteIs ==
  ASSUME NEW M, NEW l \in Line(M), NEW m
  PROVE  /\ Substitute(l, m).kind = l.kind /\ Substitute(l, m).glued = l.glued
         /\ Substitute(l, m).toks = [p \in DOMAIN l.toks |->
              IF p \in Plain(l) /\ l.toks[p] \in DOMAIN m THEN m[l.toks[p]] ELSE l.toks[p]]
BY DEF Substitute, Line

\* The latch of y reads what LatchInput finds for it, unless it finds nothing or
\* only a latch that y is the input of.
LEMMA LatchInputReads ==
  ASSUME NEW M, NEW n \in Seq(Line(M)), NEW y, NEW before
  PROVE  \/ LatchInput(n, y, before) \in {<<>>, y}
         \/ <<LatchInput(n, y, before), y>> \in Passes(n)
<1> DEFINE latches == OfKind(n, "latch")
           found == {k \in DOMAIN latches : /\ Mentions(latches[k], y)
                                            /\ \A z \in before : ~Mentions(latches[k], z)}
<1>1. DOMAIN latches = 1 .. Len(latches) /\ Len(latches) \in Nat
      /\ \A k \in DOMAIN latches : latches[k] \in Line(M) /\ latches[k].kind = "latch"
  BY LinesOfKind
<1>2. \A k \in DOMAIN latches : <<latches[k].toks[1], latches[k].toks[2]>> \in Passes(n)
  BY DEF Passes, ToSet
<1>3. LatchInput(n, y, before) = IF found = {} THEN <<>> ELSE latches[Max(found)].toks[1]
  BY DEF LatchInput
<1> HIDE DEF latches
<1>4. CASE found # {}
  <2> DEFINE g == Max(found)
  <2>1. g \in found
    <3>1. found \subseteq 1 .. Len(latches) BY <1>1
    <3> HIDE DEF found
    <3> QED BY <1>1, <1>4, <3>1, LastOfPlaces
  <2>2. g \in DOMAIN latches /\ Mentions(latches[g], y) BY <2>1
  <2>3. LatchInput(n, y, before) = latches[g].toks[1] BY <1>3, <1>4
  <2> HIDE DEF g, found
  <2>4. y \in {latches[g].toks[1], latches[g].toks[2]}
    BY <1>1, <2>2, LatchLines DEF Mentions
  <2> QED BY <1>2, <2>2, <2>3, <2>4
<1> QED BY <1>3, <1>4

\* What may stand for a token x after a forward move: x, the input of the latch
\* of x, or for L the output of the new latch.
StandsFor(n, f, L, x, t) == t = x \/ <<t, x>> \in Passes(n) \/ (x = L /\ t = New(f))

\* What a forward move makes of a LUT line, before empty names are left out.
ForwardForms(n, f, L, l) ==
  LET s == SharedInputs(n, f, L)
      in == Carried(n, f, s)
  IN  {ForwardLut(l, f, L, in), ForwardOther(l, f, L, s, in)}

\* A LUT line that keeps its number of names keeps them all, but for those that
\* are carried over latches and for L; the end of a glued line stays.
LEMMA ForwardTokens ==
  ASSUME NEW P, HasSuffixes(P), NEW n \in Seq(Line(NamesOf(P))), NEW f \in Seq(P), NEW L,
         NEW l \in Line(NamesOf(P)), l.kind = "names", OutputOf(l) = L => l.glued,
         NEW d \in ForwardForms(n, f, L, l),
         Len(Written(d).toks) = Len(l.toks)
  PROVE  \A p \in 1 .. Len(l.toks) :
           /\ StandsFor(n, f, L, l.toks[p], Written(d).toks[p])
           /\ \/ Written(d).toks[p] = l.toks[p]
              \/ p \in Plain(l) /\ l.toks[p] \in {f, L} \cup ToSet(SharedInputs(n, f, L))
<1> DEFINE N == NamesOf(P)
           s == SharedInputs(n, f, L)
           in == Carried(n, f, s)
           w == Written(d)
           Maps(m) == \A y \in DOMAIN m : \/ y \in DOMAIN in /\ m[y] = in[y]
                                          \/ y = L /\ m[y] = New(f)
<1>1. d \in {ForwardLut(l, f, L, in), ForwardOther(l, f, L, s, in)} BY DEF ForwardForms
<1>2. Substitutes(P, f, s, in) BY ForwardSubstitutes
<1>3. \A y \in DOMAIN in : in[y] \in {<<>>, y} \/ <<in[y], y>> \in Passes(n)
  <2>1. \A y \in DOMAIN in : \E before : in[y] = LatchInput(n, y, before) BY DEF Carried
  <2> HIDE DEF in
  <2> QED BY <2>1, LatchInputReads
<1>4. l \in Line(Seq(P)) /\ l.toks \in Seq(N)
  <2>1. l.toks \in Seq(N) BY LineFields
  <2>2. l.toks \in Seq(Seq(P)) BY <2>1 DEF NamesOf
  <2> QED BY <2>1, <2>2 DEF Line
<1>5. Len(l.toks) \in Nat /\ DOMAIN l.toks = 1 .. Len(l.toks) BY LineFields
<1>6. d \in Line(Seq(P)) /\ d.kind = "names"
  <2>1. /\ ForwardLut(l, f, L, in) \in Line(Seq(P))
        /\ ForwardLut(l, f, L, in).kind = "names"
    BY <1>2, <1>4, ForwardLutIs
  <2>2. /\ ForwardOther(l, f, L, s, in) \in Line(Seq(P))
        /\ ForwardOther(l, f, L, s, in).kind = "names"
    BY <1>2, <1>4, ForwardOtherIs
  <2> QED BY <1>1, <2>1, <2>2
<1>7. w \in Line(N) /\ w.toks = Chosen(d.toks, ToSet(d.toks) \ {<<>>})
  <2>1. w \in Line(N) BY <1>6, WrittenIs
  <2> QED BY <1>6, <2>1 DEF Written, Line
<1>8. d.toks \in Seq(Seq(P)) /\ Len(d.toks) \in Nat BY <1>6, LineFields
<1>9. Len(l.toks) <= Len(d.toks) /\ (Len(d.toks) = Len(l.toks) => w.toks = d.toks)
  <2> DEFINE S == ToSet(d.toks) \ {<<>>}
  <2>1. /\ Len(Chosen(d.toks, S)) <= Len(d.toks)
        /\ Len(Chosen(d.toks, S)) = Len(d.toks) => Chosen(d.toks, S) = d.toks
    BY <1>8, ChosenAllOrFewer
  <2> HIDE DEF S, w
  <2> QED BY <1>7, <2>1 DEF S, w
<1> HIDE DEF s
<1>10. DOMAIN in = {f} \cup ToSet(s) BY DEF Carried
<1> HIDE DEF in
<1>11. d = l \/ \E m : Maps(m) /\ d = Substitute(l, m)
  <2>1. CASE d = ForwardLut(l, f, L, in)
    <3> DEFINE outs == {k \in Plain(l) : l.toks[k] = L /\ L \notin DOMAIN in}
               t == Substitute(l, in)
               k == Min(outs)
               c == CutAt(t.toks, k, New(in[f]))
    <3>1. CASE outs = {}
      <4>1. d = Substitute(l, in) BY <2>1, <3>1 DEF ForwardLut
      <4> QED BY <4>1
    <3>2. CASE outs # {}
      <4>1. outs \subseteq 1 .. Len(l.toks) BY <1>5 DEF Plain
      <4>2. k \in outs
        <5>1. outs \subseteq Nat BY <4>1
        <5> HIDE DEF outs
        <5> QED BY <3>2, <5>1, FirstOfPlaces
      <4>3. k \in 1 .. Len(l.toks) /\ k \in Plain(l) /\ l.toks[k] = L BY <4>1, <4>2
      <4>4. d.toks = c
        <5>1. d = Lut(c, TRUE) BY <2>1, <3>2 DEF ForwardLut
        <5> HIDE DEF c
        <5> QED BY <5>1 DEF Lut
      <4>5. t \in Line(Seq(P)) /\ Len(t.toks) = Len(l.toks)
        <5> DEFINE M == Seq(P)
        <5>1. l \in Line(M) /\ \A y \in DOMAIN in : in[y] \in M BY <1>2, <1>4 DEF Substitutes
        <5> HIDE DEF M
        <5> QED BY <5>1, Substituted DEF M
      <4>6. Len(c) = k
        <5> HIDE DEF k, t, outs
        <5>1. t.toks \in Seq(Seq(P)) BY <4>5, LineFields
        <5> QED BY <4>3, <4>5, <5>1 DEF CutAt
      <4>7. k # Len(l.toks)
        <5>1. OutputOf(l) = l.toks[Len(l.toks)] BY PinsAre
        <5> HIDE DEF k
        <5> QED BY <1>5, <4>3, <5>1 DEF Plain
      <4> HIDE DEF k, c
      <4> QED BY <1>5, <1>9, <4>3, <4>4, <4>6, <4>7
    <3> QED BY <3>1, <3>2
  <2>2. CASE d = ForwardOther(l, f, L, s, in)
    <3> DEFINE shared == {k \in DOMAIN s : Mentions(l, s[k])}
               Only(S) == [y \in S |-> in[y]]
               a == [y \in {L} |-> New(f)]
    <3>1. \/ d = Substitute(l, in)
          \/ shared # {} /\ d = Substitute(l, Only({s[Min(shared)]}))
          \/ d = Substitute(l, Only({f}))
          \/ d = Substitute(l, a)
          \/ d = l
      BY <2>2 DEF ForwardOther
    <3>2. shared # {} => s[Min(shared)] \in DOMAIN in
      <4>1. shared \subseteq DOMAIN s /\ shared \subseteq Nat BY <1>2 DEF Substitutes
      <4> HIDE DEF shared
      <4>2. shared # {} => Min(shared) \in DOMAIN s BY <4>1, FirstOfPlaces
      <4> QED BY <1>10, <4>2 DEF ToSet
    <3>3. \A S \in SUBSET DOMAIN in : Maps(Only(S)) OBVIOUS
    <3>4. Maps(in) /\ Maps(a) OBVIOUS
    <3>5. f \in DOMAIN in BY <1>10
    <3> HIDE DEF shared, Only, a, Maps
    <3> QED BY <3>1, <3>2, <3>3, <3>4, <3>5
  <2> QED BY <1>1, <2>1, <2>2 DEF s, in
<1>12. ASSUME NEW p \in 1 .. Len(l.toks)
       PROVE  /\ StandsFor(n, f, L, l.toks[p], w.toks[p])
              /\ \/ w.toks[p] = l.toks[p]
                 \/ p \in Plain(l) /\ l.toks[p] \in {f, L} \cup ToSet(s)
  <2>1. w.toks[p] # <<>>
    <3>1. w.toks[p] \in N BY <1>7, LineFields
    <3> QED BY <3>1 DEF NamesOf
  <2>2. CASE d = l BY <1>9, <2>2 DEF StandsFor
  <2>3. CASE d # l
    <3>1. PICK m : Maps(m) /\ d = Substitute(l, m) BY <1>11, <2>3
    <3>2. d.toks = [q \in DOMAIN l.toks |->
             IF q \in Plain(l) /\ l.toks[q] \in DOMAIN m THEN m[l.toks[q]] ELSE l.toks[q]]
      BY <3>1, SubstituteIs
    <3>3. Len(d.toks) = Len(l.toks)
      <4>1. DOMAIN d.toks = 1 .. Len(l.toks) /\ DOMAIN d.toks = 1 .. Len(d.toks)
        BY <1>5, <1>8, <3>2
      <4> QED BY <1>5, <1>8, <4>1
    <3>4. w.toks = d.toks BY <1>9, <3>3
    <3>5. CASE w.toks[p] = l.toks[p] BY <3>5 DEF StandsFor
    <3>6. CASE w.toks[p] # l.toks[p]
      <4> DEFINE y == l.toks[p]
      <4>1. p \in Plain(l) /\ y \in DOMAIN m /\ w.toks[p] = m[y]
        BY <1>5, <3>2, <3>4, <3>6
      <4> HIDE DEF y
      <4>2. (y \in DOMAIN in /\ w.toks[p] = in[y]) \/ (y = L /\ w.toks[p] = New(f))
        BY <3>1, <4>1
      <4>3. StandsFor(n, f, L, y, w.toks[p])
        <5> HIDE DEF w
        <5> QED BY <1>3, <2>1, <3>6, <4>2 DEF StandsFor, y
      <4>4. y \in {f, L} \cup ToSet(s) BY <1>10, <4>2
      <4> QED BY <4>1, <4>3, <4>4 DEF y
    <3> QED BY <3>5, <3>6
  <2> QED BY <2>2, <2>3
<1> QED BY <1>12 DEF s

\* A forward move makes a line of each line but the latches.
LEMMA ForwardKinds ==
  ASSUME NEW P, HasSuffixes(P), NEW n \in Seq(Line(NamesOf(P))), NEW f \in Seq(P), NEW L,
         NEW made \in [1 .. Len(n) -> Seq(Line(NamesOf(P)))], ForwardMade(n, f, L, made)
  PROVE  /\ KeepsKinds(n, made)
         /\ \A k \in 1 .. Len(n) : n[k].kind = "names" =>
              \E d \in ForwardForms(n, f, L, n[k]) : made[k][1] = Written(d)
<1> DEFINE N == NamesOf(P)
           s == SharedInputs(n, f, L)
           in == Carried(n, f, s)
           early == [y \in DOMAIN in |-> IF y = f THEN in[f] ELSE <<>>]
<1>1. Substitutes(P, f, s, in) /\ Substitutes(P, f, s, early) BY ForwardSubstitutes
<1>2. \A k \in 1 .. Len(n) :
        /\ n[k].kind = "latch" => made[k] = ForwardLatch(n[k], f, s)
        /\ n[k].kind = "names" => \E d \in {ForwardLut(n[k], f, L, in), ForwardOther(n[k], f, L, s, in)} :
                                    made[k] = <<Written(d)>>
        /\ n[k].kind \in {"inputs", "outputs"} =>
             made[k] = <<Written(ForwardOther(n[k], f, L, s, early))>>
  BY DEF ForwardMade
<1>3. \A x : Written(x) = [x EXCEPT !.toks = Chosen(@, ToSet(@) \ {<<>>})] BY DEF Written
<1> HIDE DEF s, in, early
<1>4. ASSUME NEW k \in 1 .. Len(n)
      PROVE  /\ n[k].kind \in {"inputs", "outputs", "latch", "names"}
             /\ n[k] \in Line(Seq(P))
  <2> DEFINE l == n[k]
  <2>1. l \in Line(N) OBVIOUS
  <2> HIDE DEF l
  <2>2. l.toks \in Seq(N) /\ l.kind \in {"inputs", "outputs", "latch", "names"}
    BY <2>1, LineFields
  <2>3. l.toks \in Seq(Seq(P)) BY <2>2 DEF NamesOf
  <2> QED BY <2>1, <2>2, <2>3 DEF Line, l
<1>5. ASSUME NEW l \in Line(Seq(P)) PROVE Written(l).kind = l.kind BY <1>3 DEF Line
<1>6. ASSUME NEW k \in 1 .. Len(n), n[k].kind = "latch", NEW j \in 1 .. Len(made[k])
      PROVE  made[k][j].kind = "latch"
  <2> DEFINE l == n[k]
             a == Latch(New(l.toks[1]), New(f))
  <2>1. made[k] \in {<<a>>, <<>>, <<l>>} BY <1>2, <1>6 DEF ForwardLatch
  <2>2. a.kind = "latch" /\ l.kind = "latch" BY <1>6 DEF Latch
  <2> HIDE DEF a, l
  <2> QED BY <1>6, <2>1, <2>2
<1>7. ASSUME NEW k \in 1 .. Len(n), n[k].kind = "names"
      PROVE  /\ Len(made[k]) = 1 /\ made[k][1].kind = "names"
             /\ \E d \in {ForwardLut(n[k], f, L, in), ForwardOther(n[k], f, L, s, in)} :
                  made[k][1] = Written(d)
  <2>1. PICK d \in {ForwardLut(n[k], f, L, in), ForwardOther(n[k], f, L, s, in)} :
          made[k] = <<Written(d)>>
    BY <1>2, <1>7
  <2>2. d \in Line(Seq(P)) /\ d.kind = "names"
    BY <1>1, <1>4, <1>7, <2>1, ForwardLutIs, ForwardOtherIs
  <2>3. Written(d).kind = "names" BY <1>5, <2>2
  <2>4. Len(made[k]) = 1 /\ made[k][1] = Written(d) BY <2>1
  <2> QED BY <2>1, <2>3, <2>4
<1>8. ASSUME NEW k \in 1 .. Len(n), n[k].kind \in {"inputs", "outputs"}
      PROVE  Len(made[k]) = 1 /\ made[k][1].kind = n[k].kind
  <2> DEFINE d == ForwardOther(n[k], f, L, s, early)
  <2>1. made[k] = <<Written(d)>> BY <1>2, <1>8
  <2>2. d \in Line(Seq(P)) /\ d.kind = n[k].kind BY <1>1, <1>4, ForwardOtherIs
  <2> HIDE DEF d
  <2>3. Written(d).kind = n[k].kind BY <1>5, <2>2
  <2> QED BY <2>1, <2>3
<1>9. KeepsKinds(n, made) BY <1>4, <1>6, <1>7, <1>8 DEF KeepsKinds
<1> QED BY <1>7, <1>9 DEF ForwardForms, s, in

\* Latches of f and the shared inputs are gone, and the new ones have new names.
LEMMA ForwardLatches ==
  ASSUME NEW P, HasSuffixes(P), NEW n \in Seq(Line(NamesOf(P))), NEW f \in Seq(P), NEW L,
         NEW made, ForwardMade(n, f, L, made)
  PROVE  \A p \in LatchesMade(n, made) :
           LET moved == {f} \cup ToSet(SharedInputs(n, f, L)) IN
           \/ p \in Passes(n) /\ p[1] \notin moved /\ p[2] \notin moved
           \/ \E x \in Names(n) : p[1] = New(x)
<1> DEFINE N == NamesOf(P)
           s == SharedInputs(n, f, L)
           moved == {f} \cup ToSet(s)
<1> SUFFICES ASSUME NEW p \in LatchesMade(n, made)
             PROVE  \/ p \in Passes(n) /\ p[1] \notin moved /\ p[2] \notin moved
                    \/ \E x \in Names(n) : p[1] = New(x)
  OBVIOUS
<1>1. PICK k \in 1 .. Len(n) : n[k].kind = "latch"
             /\ p \in {<<t.toks[1], t.toks[2]>> : t \in ToSet(made[k])}
  BY DEF LatchesMade
<1>2. PICK t \in ToSet(made[k]) : p = <<t.toks[1], t.toks[2]>> BY <1>1
<1>3. made[k] = ForwardLatch(n[k], f, s) BY <1>1 DEF ForwardMade
<1> DEFINE l == n[k]
           a == Latch(New(l.toks[1]), New(f))
<1>4. l \in Line(N) /\ l.kind = "latch" BY <1>1
<1>5. ToSet(l.toks) = {l.toks[1], l.toks[2]} /\ <<l.toks[1], l.toks[2]>> \in Passes(n)
  <2>1. PassesArePairs(n) BY PassesOf
  <2> HIDE DEF N
  <2> QED BY <1>1, <1>4, <2>1, LatchLines DEF PassesArePairs
<1>6. l.toks[1] \in Names(n)
  <2> DEFINE q == <<l.toks[1], l.toks[2]>>
  <2>1. q \in Passes(n) /\ q[1] = l.toks[1] BY <1>5
  <2> HIDE DEF q, l
  <2> QED BY <2>1, NamesAre
<1> HIDE DEF s
<1>7. CASE Mentions(l, f)
  <2>1. made[k] = <<a>> BY <1>3, <1>7 DEF ForwardLatch
  <2> HIDE DEF a
  <2>2. t = a BY <2>1 DEF ToSet
  <2>3. p[1] = New(l.toks[1]) BY <1>2, <2>2 DEF a, Latch
  <2> QED BY <1>6, <2>3
<1>8. CASE ~Mentions(l, f)
  <2> HIDE DEF l
  <2>1. made[k] = IF \E y \in ToSet(s) : Mentions(l, y) THEN <<>> ELSE <<l>>
    BY <1>3, <1>8 DEF ForwardLatch, l
  <2>2. t = l /\ ~\E y \in ToSet(s) : Mentions(l, y) BY <2>1 DEF ToSet
  <2>3. p[1] \notin moved /\ p[2] \notin moved BY <1>2, <1>5, <1>8, <2>2 DEF Mentions
  <2> QED BY <1>2, <1>5, <2>2, <2>3
<1> QED BY <1>7, <1>8

\* What the sources of c are when no net is driven anew, and new latches only
\* follow nets that no old net is.
LEMMA NothingNewDriven ==
  ASSUME NEW M, NEW n \in Seq(Line(M)), WellFormed(n), FreshNames(n),
         NEW N, NEW c \in Seq(Line(N)), NEW moved,
         Direct(c) \subseteq Direct(n), \A d \in Direct(n) : d[1] \notin moved,
         \A p \in Passes(c) : \/ p \in Passes(n) /\ p[2] \notin moved
                              \/ \E x \in Names(n) : p[1] = New(x)
  PROVE  \A d \in Sources(c) : d \in Sources(n) /\ d[1] \notin moved /\ d[1] \in Names(n)
<1> DEFINE T == {d \in Sources(n) : d[1] \notin moved /\ d[1] \in Names(n)}
<1>1. OfKind(n, "inputs") # <<>> BY Once
<1>2. \A d \in Sources(n) : d[1] \in Names(n)
  <2>1. \A k \in DOMAIN LutsOf(n) : OutputOf(LutsOf(n)[k]) \in Names(n) BY LutsAre
  <2>2. \A k \in DOMAIN InsOf(n) : InsOf(n)[k] \in Names(n) BY <1>1, NamesAre DEF ToSet
  <2>3. \A t \in DOMAIN OfKind(n, "latch") : OfKind(n, "latch")[t].toks[2] \in Names(n)
    <3> DEFINE q(t) == <<OfKind(n, "latch")[t].toks[1], OfKind(n, "latch")[t].toks[2]>>
    <3>1. \A t \in DOMAIN OfKind(n, "latch") : q(t) \in Passes(n) BY DEF Passes, ToSet
    <3>2. \A t : q(t)[2] = OfKind(n, "latch")[t].toks[2] OBVIOUS
    <3> HIDE DEF q
    <3> QED BY <3>1, <3>2, NamesAre
  <2>4. Driven(n) \subseteq Names(n) BY <2>1, <2>2, <2>3 DEF Driven
  <2> QED BY <1>1, <2>4, SourcesAre DEF Triples
<1>3. Direct(c) \subseteq T
  <2>1. Direct(n) \subseteq Sources(n) BY SourcesClosed
  <2> QED BY <1>2, <2>1
<1>4. ASSUME NEW p \in Passes(c), NEW d \in T, d[1] = p[1]
      PROVE  <<p[2], d[2], d[3] + 1>> \in T
  <2>1. p \in Passes(n) /\ p[2] \notin moved
    <3>1. \A x \in Names(n) : New(x) \notin Names(n) BY DEF FreshNames
    <3> QED BY <1>4, <3>1
  <2> DEFINE e == <<p[2], d[2], d[3] + 1>>
  <2>2. e \in Sources(n) /\ e[1] = p[2] BY <1>4, <2>1, SourcesClosed
  <2> HIDE DEF e
  <2>3. e \in T BY <1>2, <2>1, <2>2
  <2> QED BY <2>3 DEF e
<1> HIDE DEF T
<1>5. Sources(c) \subseteq T BY <1>3, <1>4, SourcesLeast
<1> QED BY <1>5 DEF T

\* The one LUT that a forward move is over, whose inputs latches drive.
MovedOver(n, h, f, L) ==
  LET moved == {f} \cup ToSet(SharedInputs(n, f, L)) IN
  /\ h \in DOMAIN LutsOf(n) /\ L = OutputOf(LutsOf(n)[h]) /\ LutsOf(n)[h].glued
  /\ moved = ToSet(InputPins(LutsOf(n)[h]))
  /\ \A k \in DOMAIN LutsOf(n) : /\ OutputOf(LutsOf(n)[k]) = L => k = h
                                 /\ OutputOf(LutsOf(n)[k]) \notin moved
  /\ \A k \in DOMAIN InsOf(n) : InsOf(n)[k] \notin moved

\* BlifForwardModify goes on only when there is such a LUT.
LEMMA MovesOverOne ==
  ASSUME NEW P, NEW n \in Seq(Line(NamesOf(P))), WellFormed(n), NEW f \in FlipFlops(n), NEW L,
         MayMoveForward(n, SharedInputs(n, f, L))
  PROVE  \E h : MovedOver(n, h, f, L)
<1> DEFINE s == SharedInputs(n, f, L)
           moved == {f} \cup ToSet(s)
<1>1. s \in Seq(NamesOf(P)) BY SharedInputsAre
<1>2. Len(s) \in 1 .. 3 /\ ToSet(s) \subseteq FlipFlops(n) BY DEF MayMoveForward, FlipFlops
<1> HIDE DEF s
<1>3. DOMAIN s # {}
  <2>1. DOMAIN s = 1 .. Len(s) BY <1>1
  <2>2. 1 \in 1 .. Len(s)
    <3> DEFINE m == Len(s)
    <3>1. m \in 1 .. 3 BY <1>2
    <3> HIDE DEF m
    <3>2. 1 \in 1 .. m BY <3>1
    <3> QED BY <3>2 DEF m
  <2> QED BY <2>1, <2>2
<1>4. \A y \in FlipFlops(n) : \E p \in Passes(n) : p[2] = y
  <2> SUFFICES ASSUME NEW y \in FlipFlops(n) PROVE \E p \in Passes(n) : p[2] = y OBVIOUS
  <2>1. PICK t \in ToSet(OfKind(n, "latch")) : y = t.toks[2] BY DEF FlipFlops
  <2> DEFINE q == <<t.toks[1], t.toks[2]>>
  <2>2. q \in Passes(n) /\ q[2] = y BY <2>1 DEF Passes
  <2> HIDE DEF q
  <2> QED BY <2>2
<1>5. moved \subseteq FlipFlops(n) BY <1>2
<1>6. /\ \A k \in DOMAIN LutsOf(n) : OutputOf(LutsOf(n)[k]) \notin FlipFlops(n)
      /\ \A k \in DOMAIN InsOf(n) : InsOf(n)[k] \notin FlipFlops(n)
  <2>1. /\ \A k \in DOMAIN LutsOf(n), p \in Passes(n) : OutputOf(LutsOf(n)[k]) # p[2]
        /\ \A k \in DOMAIN InsOf(n), p \in Passes(n) : InsOf(n)[k] # p[2]
    BY WellFormedIs
  <2> QED BY <1>4, <2>1
<1>7. \A j, k \in DOMAIN LutsOf(n) :
        OutputOf(LutsOf(n)[j]) = OutputOf(LutsOf(n)[k]) => j = k
  BY WellFormedIs
<1>8. PICK h \in DOMAIN LutsOf(n) : /\ L = OutputOf(LutsOf(n)[h]) /\ LutsOf(n)[h].glued
                                    /\ f # L => ToSet(InputPins(LutsOf(n)[h])) = moved
  BY <1>3, SharedAre DEF s
<1>9. f # L BY <1>6, <1>8
<1>10. MovedOver(n, h, f, L) BY <1>5, <1>6, <1>7, <1>8, <1>9 DEF MovedOver, s
<1> QED BY <1>10

\* c has the LUTs of n, each with as many names and the same output, and for each
\* of the others one that may stand for it.
SameShape(n, c, f, L) ==
  \A j \in DOMAIN LutsOf(n) :
    /\ OutputOf(LutsOf(c)[j]) = OutputOf(LutsOf(n)[j])
    /\ \A p \in DOMAIN InputPins(LutsOf(n)[j]) :
         StandsFor(n, f, L, LutsOf(n)[j].toks[p], LutsOf(c)[j].toks[p])

\* A forward move after which the LUTs still have as many inputs leaves them so.
LEMMA ForwardShape ==
  ASSUME NEW P, HasSuffixes(P), NEW n \in Seq(Line(NamesOf(P))), WellFormed(n),
         NEW f \in Seq(P), NEW L, NEW h, MovedOver(n, h, f, L),
         NEW made \in [1 .. Len(n) -> Seq(Line(NamesOf(P)))], ForwardMade(n, f, L, made),
         \A j \in DOMAIN LutsOf(n) :
           Len(LutsOf(n)[j].toks) = Len(LutsOf(FlattenSeq(made))[j].toks)
  PROVE  SameShape(n, FlattenSeq(made), f, L)
<1> DEFINE N == NamesOf(P)
           s == SharedInputs(n, f, L)
           c == FlattenSeq(made)
           moved == {f} \cup ToSet(s)
<1> SUFFICES ASSUME NEW j \in DOMAIN LutsOf(n)
             PROVE  /\ OutputOf(LutsOf(c)[j]) = OutputOf(LutsOf(n)[j])
                    /\ \A p \in DOMAIN InputPins(LutsOf(n)[j]) :
                         StandsFor(n, f, L, LutsOf(n)[j].toks[p], LutsOf(c)[j].toks[p])
  BY DEF SameShape
<1> DEFINE l == LutsOf(n)[j]
           m == LutsOf(c)[j]
<1>1. KeepsKinds(n, made) BY ForwardKinds
<1>2. /\ c \in Seq(Line(N)) /\ Len(LutsOf(c)) = Len(LutsOf(n))
      /\ \A q \in 1 .. Len(LutsOf(n)) : \E k \in 1 .. Len(n) :
           LutsOf(n)[q] = n[k] /\ LutsOf(c)[q] = made[k][1]
  BY <1>1, KindsRewritten DEF LutsOf
<1>3. DOMAIN LutsOf(n) = 1 .. Len(LutsOf(n)) BY LinesOfKind DEF LutsOf
<1>4. PICK k \in 1 .. Len(n) : l = n[k] /\ m = made[k][1] BY <1>2, <1>3
<1>5. /\ l \in Line(N) /\ l.kind = "names" /\ Len(l.toks) \in Nat /\ Len(l.toks) >= 2
      /\ DOMAIN InputPins(l) = 1 .. Len(l.toks) - 1
      /\ OutputOf(l) = l.toks[Len(l.toks)]
  BY LutsAre
<1>6. m \in Line(N)
  <2>1. DOMAIN LutsOf(c) = 1 .. Len(LutsOf(c)) /\ \A q \in DOMAIN LutsOf(c) : LutsOf(c)[q] \in Line(N)
    <3> HIDE DEF c, N
    <3> QED BY <1>2, LinesOfKind DEF LutsOf
  <2> QED BY <1>2, <1>3, <2>1
<1>7. Len(m.toks) = Len(l.toks) /\ OutputOf(m) = m.toks[Len(l.toks)]
  <2>1. Len(m.toks) = Len(l.toks) OBVIOUS
  <2> HIDE DEF m, l
  <2> QED BY <1>6, <2>1, PinsAre
<1>8. PICK d \in ForwardForms(n, f, L, l) : m = Written(d)
  <2>1. \A q \in 1 .. Len(n) : n[q].kind = "names" =>
          \E d \in ForwardForms(n, f, L, n[q]) : made[q][1] = Written(d)
    BY ForwardKinds
  <2> QED BY <1>4, <1>5, <2>1
<1>9. OutputOf(l) = L => l.glued BY DEF MovedOver
<1>10. \A p \in 1 .. Len(l.toks) :
         /\ StandsFor(n, f, L, l.toks[p], m.toks[p])
         /\ \/ m.toks[p] = l.toks[p]
            \/ p \in Plain(l) /\ l.toks[p] \in {f, L} \cup ToSet(s)
  <2>1. Len(Written(d).toks) = Len(l.toks) BY <1>7, <1>8
  <2> HIDE DEF l, m
  <2> QED BY <1>5, <1>8, <1>9, <2>1, ForwardTokens
<1>11. OutputOf(m) = OutputOf(l)
  <2>1. OutputOf(l) \notin moved BY DEF MovedOver
  <2>2. OutputOf(l) = L => Len(l.toks) \notin Plain(l)
    <3> HIDE DEF l
    <3> QED BY <1>5, <1>9 DEF Plain
  <2>3. Len(l.toks) \in 1 .. Len(l.toks) BY <1>5
  <2> HIDE DEF l, m, s
  <2> QED BY <1>5, <1>7, <1>10, <2>1, <2>2, <2>3
<1> HIDE DEF l, m
<1>12. \A p \in DOMAIN InputPins(l) : StandsFor(n, f, L, l.toks[p], m.toks[p])
  BY <1>5, <1>10
<1> QED BY <1>11, <1>12 DEF l, m

\* When BlifForwardModify (SR.cpp) writes a netlist, that is no retiming of the one
\* it read, whatever LUT the move was over, as long as what the LUT computes is
\* seen anywhere: its lines go on naming the output as before, so that nothing
\* after it is behind a latch more than it was.
THEOREM ForwardIsNone ==
  ASSUME NEW P, HasSuffixes(P), NEW n \in Seq(Line(NamesOf(P))), WellFormed(n), FreshNames(n),
         NEW f \in Seq(P), f \in FlipFlops(n), NEW L, Forward(n, f, L).ok, Seen(n, L)
  PROVE  ~IsRetiming(n, Forward(n, f, L).net, Over(n, L, -1))
<1> DEFINE N == NamesOf(P)
           moved == {f} \cup ToSet(SharedInputs(n, f, L))
           c == Forward(n, f, L).net
           lags == Over(n, L, -1)
<1> SUFFICES ASSUME IsRetiming(n, c, lags) PROVE FALSE OBVIOUS
<1>1. PICK made \in [1 .. Len(n) -> Seq(Line(N))] :
        /\ ForwardMade(n, f, L, made) /\ c = FlattenSeq(made)
        /\ MayMoveForward(n, SharedInputs(n, f, L))
  BY ForwardText
<1>2. PICK h : MovedOver(n, h, f, L) BY <1>1, MovesOverOne
<1>3. /\ OfKind(c, "inputs") = OfKind(n, "inputs")
      /\ \A x \in NamesOn(n, "outputs") : SourcesOf(x, Sources(c)) = Moved(n, x, 0, lags)
      /\ Len(LutsOf(n)) = Len(LutsOf(c))
      /\ \A k \in DOMAIN LutsOf(n) :
           /\ Len(LutsOf(n)[k].toks) = Len(LutsOf(c)[k].toks)
           /\ \A p \in DOMAIN InputPins(LutsOf(n)[k]) :
                SourcesOf(LutsOf(c)[k].toks[p], Sources(c))
                  = Moved(n, LutsOf(n)[k].toks[p], lags[k], lags)
  BY RetimingIs
<1>4. SameShape(n, c, f, L) BY <1>1, <1>2, <1>3, ForwardShape
<1>5. c \in Seq(Line(N)) /\ Passes(c) = LatchesMade(n, made)
  <2>1. KeepsKinds(n, made) BY <1>1, ForwardKinds
  <2> HIDE DEF c
  <2> QED BY <1>1, <2>1, KindsRewritten
<1> HIDE DEF c, N
<1>6. \A d \in Sources(c) : d \in Sources(n) /\ d[1] \notin moved /\ d[1] \in Names(n)
  <2>1. DOMAIN LutsOf(c) = DOMAIN LutsOf(n)
    <3>1. /\ DOMAIN LutsOf(n) = 1 .. Len(LutsOf(n))
          /\ DOMAIN LutsOf(c) = 1 .. Len(LutsOf(c))
      BY <1>5, LinesOfKind DEF LutsOf
    <3> QED BY <1>3, <3>1
  <2>2. \A k \in DOMAIN LutsOf(n) : OutputOf(LutsOf(c)[k]) = OutputOf(LutsOf(n)[k])
    BY <1>4 DEF SameShape
  <2>3. InsOf(c) = InsOf(n) BY <1>3 DEF InsOf
  <2>4. Direct(c) \subseteq Direct(n) BY <2>1, <2>2, <2>3 DEF Direct
  <2>5. \A d \in Direct(n) : d[1] \notin moved
    <3>1. /\ \A k \in DOMAIN LutsOf(n) : OutputOf(LutsOf(n)[k]) \notin moved
          /\ \A k \in DOMAIN InsOf(n) : InsOf(n)[k] \notin moved
      BY <1>2 DEF MovedOver
    <3> HIDE DEF moved
    <3> QED BY <3>1 DEF Direct
  <2>6. \A p \in Passes(c) : \/ p \in Passes(n) /\ p[2] \notin moved
                             \/ \E x \in Names(n) : p[1] = New(x)
    BY <1>1, <1>5, ForwardLatches
  <2>7. n \in Seq(Line(N)) BY DEF N
  <2> HIDE DEF moved
  <2> QED BY <1>5, <2>4, <2>5, <2>6, <2>7, NothingNewDriven
<1>7. PICK d \in Sources(n) :
        /\ d[2] \in DOMAIN LutsOf(n) /\ OutputOf(LutsOf(n)[d[2]]) = L
        /\ \/ d[1] \in NamesOn(n, "outputs")
           \/ \E l \in ToSet(LutsOf(n)) : d[1] \in ToSet(InputPins(l))
  BY DEF Seen
<1> DEFINE x == d[1]
           a == d[3]
<1>8. d[2] = h /\ <<h, a>> \in SourcesOf(x, Sources(n)) /\ a \in Nat /\ h \in Nat /\ h > 0
  <2>1. d[2] = h BY <1>2, <1>7 DEF MovedOver
  <2>2. OfKind(n, "inputs") # <<>> BY Once
  <2>3. a \in Nat BY <2>2, SourcesAre
  <2>4. DOMAIN LutsOf(n) = 1 .. Len(LutsOf(n)) BY LinesOfKind DEF LutsOf
  <2> QED BY <1>7, <2>1, <2>3, <2>4 DEF SourcesOf
<1>9. \A y, b, e : <<y, h, b>> \in Sources(n) /\ <<y, h, e>> \in Sources(n) => b = e
  <2> SUFFICES ASSUME NEW y, NEW b, NEW e, <<y, h, b>> \in Sources(n), <<y, h, e>> \in Sources(n)
               PROVE  b = e
    OBVIOUS
  <2>1. <<y, h, b>> = <<y, h, e>>
    <3> DEFINE u == <<y, h, b>>
               v == <<y, h, e>>
    <3>1. u \in Sources(n) /\ v \in Sources(n) /\ u[1] = v[1] OBVIOUS
    <3> HIDE DEF u, v
    <3>2. u = v BY <3>1, UniqueSource
    <3> QED BY <3>2 DEF u, v
  <2> QED BY <2>1
<1>10. <<x, h, a>> \in Sources(n)
  <2>1. OfKind(n, "inputs") # <<>> BY Once
  <2>2. d = <<d[1], d[2], d[3]>> BY <2>1, SourcesAre
  <2> QED BY <1>8, <2>2
<1>11. /\ h \in DOMAIN LutsOf(n) /\ L = OutputOf(LutsOf(n)[h])
       /\ \A k \in DOMAIN LutsOf(n) : OutputOf(LutsOf(n)[k]) = L => k = h
  BY <1>2 DEF MovedOver
<1>12. LagOf(lags, h) = -1 /\ \A k \in DOMAIN LutsOf(n) : lags[k] = IF k = h THEN -1 ELSE 0
  <2>1. \A k \in DOMAIN LutsOf(n) : lags[k] = IF k = h THEN -1 ELSE 0 BY <1>11 DEF Over
  <2> HIDE DEF lags
  <2> QED BY <1>8, <1>11, <2>1 DEF LagOf
<1>13. \A r : <<h, a + r - (-1)>> \in Moved(n, x, r, lags)
  <2> DEFINE z == <<h, a>>
  <2>1. z \in SourcesOf(x, Sources(n)) /\ z[1] = h /\ z[2] = a BY <1>8
  <2> HIDE DEF z, lags
  <2> QED BY <1>12, <2>1 DEF Moved
<1>14. \A y, b : <<h, b>> \in SourcesOf(y, Sources(c)) =>
          /\ <<y, h, b>> \in Sources(n) /\ y \notin moved /\ y \in Names(n)
  <2> SUFFICES ASSUME NEW y, NEW b, <<h, b>> \in SourcesOf(y, Sources(c))
               PROVE  <<y, h, b>> \in Sources(n) /\ y \notin moved /\ y \in Names(n)
    OBVIOUS
  <2>1. PICK e \in Sources(c) : e[1] = y /\ <<h, b>> = <<e[2], e[3]>> BY DEF SourcesOf
  <2>2. e \in Sources(n) /\ e[1] \notin moved /\ e[1] \in Names(n) BY <1>6
  <2>3. e = <<e[1], e[2], e[3]>>
    <3>1. OfKind(n, "inputs") # <<>> BY Once
    <3> QED BY <2>2, <3>1, SourcesAre
  <2>4. e[2] = h /\ e[3] = b BY <2>1
  <2> QED BY <2>1, <2>2, <2>3, <2>4
<1>15. CASE x \in NamesOn(n, "outputs")
  <2>1. <<h, a + 0 - (-1)>> \in SourcesOf(x, Sources(c)) BY <1>3, <1>13, <1>15
  <2>2. <<x, h, a + 0 - (-1)>> \in Sources(n) BY <1>14, <2>1
  <2>3. a + 0 - (-1) = a BY <1>9, <1>10, <2>2
  <2> QED BY <1>8, <2>3
<1>16. CASE \E l \in ToSet(LutsOf(n)) : x \in ToSet(InputPins(l))
  <2>1. PICK k \in DOMAIN LutsOf(n) : x \in ToSet(InputPins(LutsOf(n)[k])) BY <1>16 DEF ToSet
  <2>2. PICK p \in DOMAIN InputPins(LutsOf(n)[k]) : x = LutsOf(n)[k].toks[p]
    <3> DEFINE l == LutsOf(n)[k]
    <3>1. /\ DOMAIN InputPins(l) = 1 .. Len(l.toks) - 1
          /\ \A p \in 1 .. Len(l.toks) - 1 : InputPins(l)[p] = l.toks[p]
      BY LutsAre
    <3>2. x \in ToSet(InputPins(l)) BY <2>1
    <3> HIDE DEF l, x
    <3>3. \E p \in DOMAIN InputPins(l) : x = l.toks[p] BY <3>1, <3>2 DEF ToSet
    <3> QED BY <3>3 DEF l
  <2> DEFINE t == LutsOf(c)[k].toks[p]
             b == a + lags[k] - (-1)
  <2>3. StandsFor(n, f, L, x, t) BY <1>4, <2>2 DEF SameShape
  <2>4. <<h, b>> \in SourcesOf(t, Sources(c)) BY <1>3, <1>13, <2>2
  <2>5. <<t, h, b>> \in Sources(n) /\ t \notin moved /\ t \in Names(n) BY <1>14, <2>4
  <2>6. b = IF k = h THEN a ELSE a + 1 BY <1>8, <1>12
  <2> HIDE DEF t, b
  <2>7. CASE t = x
    <3>1. b = a BY <1>9, <1>10, <2>5, <2>7
    <3>2. k = h BY <1>8, <2>6, <3>1
    <3>3. x \in moved BY <1>2, <2>1, <3>2 DEF MovedOver
    <3> QED BY <2>5, <2>7, <3>3
  <2>8. CASE <<t, x>> \in Passes(n)
    <3> DEFINE q == <<t, x>>
               e == <<t, h, b>>
    <3>1. q \in Passes(n) /\ e \in Sources(n) /\ e[1] = q[1] BY <2>5, <2>8
    <3>2. q[2] = x /\ e[2] = h /\ e[3] = b OBVIOUS
    <3> HIDE DEF q, e
    <3>3. <<q[2], e[2], e[3] + 1>> \in Sources(n) BY <3>1, SourcesClosed
    <3>4. <<x, h, b + 1>> \in Sources(n) BY <3>2, <3>3
    <3>5. b + 1 = a BY <1>9, <1>10, <3>4
    <3> QED BY <1>8, <2>6, <3>5
  <2>9. CASE t = New(f)
    <3>1. f \in Names(n)
      <4>1. f \in moved OBVIOUS
      <4>2. moved \subseteq Names(n)
        <5>1. moved = ToSet(InputPins(LutsOf(n)[h])) BY <1>2 DEF MovedOver
        <5>2. ToSet(InputPins(LutsOf(n)[h])) \subseteq Names(n) BY <1>11, LutsAre
        <5> QED BY <5>1, <5>2
      <4> QED BY <4>1, <4>2
    <3> QED BY <2>5, <2>9, <3>1 DEF FreshNames
  <2> QED BY <2>3, <2>7, <2>8, <2>9 DEF StandsFor
<1> QED BY <1>7, <1>15, <1>16

\* Numbered names differ where the names or the numbers do.
LEMMA NewKIsOne ==
  ASSUME NEW P, NEW x \in Seq(P), NEW y \in Seq(P), NEW j \in 1 .. 4, NEW k \in 1 .. 4,
         NewK(x, j) = NewK(y, k)
  PROVE  x = y /\ j = k
<1> DEFINE Q == P \cup {"new", "1", "2", "3", "4"}
           s == <<"new", <<"1", "2", "3", "4">>[j]>>
           t == <<"new", <<"1", "2", "3", "4">>[k]>>
<1>1. s \in Seq(Q) /\ Len(s) = 2 /\ s[2] = <<"1", "2", "3", "4">>[j]
  <2>1. <<"1", "2", "3", "4">>[j] \in Q OBVIOUS
  <2> QED BY <2>1
<1>2. t \in Seq(Q) /\ Len(t) = 2 /\ t[2] = <<"1", "2", "3", "4">>[k]
  <2>1. <<"1", "2", "3", "4">>[k] \in Q OBVIOUS
  <2> QED BY <2>1
<1>3. x \in Seq(Q) /\ y \in Seq(Q) OBVIOUS
<1>4. s[2] = t[2] => j = k BY <1>1, <1>2
<1> HIDE DEF s, t, Q
<1>5. IsConcat(Q, x, s, x \o s) /\ IsConcat(Q, y, t, y \o t) BY <1>1, <1>2, <1>3, Concatenated
<1> DEFINE a == x \o s
           c == y \o t
<1>6. a = c BY DEF NewK, s, t
<1> HIDE DEF a, c
<1>7. IsConcat(Q, x, s, a) /\ IsConcat(Q, y, t, c) BY <1>5 DEF a, c
<1>8. /\ Len(a) = Len(x) + 2 /\ Len(c) = Len(y) + 2
      /\ \A p \in 1 .. Len(x) : a[p] = x[p]
      /\ \A p \in 1 .. Len(y) : c[p] = y[p]
      /\ a[Len(x) + 2] = s[2] /\ c[Len(y) + 2] = t[2]
  BY <1>1, <1>2, <1>7 DEF IsConcat
<1>9. Len(x) = Len(y)
  <2>1. Len(x) \in Nat /\ Len(y) \in Nat OBVIOUS
  <2> QED BY <1>6, <1>8, <2>1
<1>10. x = y BY <1>6, <1>8, <1>9, SeqEqual
<1>11. s[2] = t[2] BY <1>6, <1>8, <1>9
<1> QED BY <1>4, <1>10, <1>11

\* What is a token is in a token.
LEMMA MentionsIncludes ==
  ASSUME NEW P, NEW l, NEW y \in Seq(P), Mentions(l, y)
  PROVE  Includes(l, y)
<1>1. SubSeq(y, 1, Len(y)) \in SubSeqs(y)
  <2> DEFINE k == 0
             m == Len(y)
  <2>1. k \in 0 .. Len(y) /\ m \in 0 .. Len(y) OBVIOUS
  <2>2. SubSeq(y, k + 1, m) \in SubSeqs(y)
    <3> HIDE DEF k, m
    <3> QED BY <2>1 DEF SubSeqs
  <2> QED BY <2>2
<1>2. SubSeq(y, 1, Len(y)) = y
  <2>1. SubSeq(y, 1, Len(y)) \in Seq(P) /\ Len(SubSeq(y, 1, Len(y))) = Len(y) OBVIOUS
  <2>2. \A p \in 1 .. Len(y) : SubSeq(y, 1, Len(y))[p] = y[p] OBVIOUS
  <2> QED BY <2>1, <2>2, SeqEqual
<1> QED BY <1>1, <1>2 DEF Mentions, Includes

\* In the order they are tried a group comes after those it is part of.
LEMMA GroupsInOrder ==
  ASSUME NEW k \in 2 .. 4
  PROVE  /\ \A g \in DOMAIN Groups(k) : \E e, j \in Groups(k)[g] : e # j
         /\ \A g, d \in DOMAIN Groups(k) : g < d => ~(Groups(k)[g] \subseteq Groups(k)[d])
<1>1. CASE k = 2
  <2>1. Groups(k) = <<{1, 2}>> BY <1>1 DEF Groups
  <2> QED BY <1>1, <2>1
<1>2. CASE k = 3
  <2>1. Groups(k) = <<{1, 2, 3}, {1, 2}, {1, 3}, {2, 3}>> BY <1>2 DEF Groups
  <2> QED BY <1>2, <2>1
<1>3. CASE k = 4
  <2>1. Groups(k) = <<{1, 2, 3, 4}, {1, 2, 3}, {1, 2, 4}, {1, 3, 4}, {2, 3, 4},
                      {1, 2}, {1, 3}, {2, 3}>>
    BY <1>3 DEF Groups
  <2> QED BY <1>3, <2>1
<1> QED BY <1>1, <1>2, <1>3

\* What a backward move that suits reads: x are the inputs of the LUT h that
\* drives L, u and v the new names.
BackwardReads(n, h, b, L, x, u, v) ==
  /\ h \in DOMAIN LutsOf(n) /\ L = OutputOf(LutsOf(n)[h]) /\ x = InputPins(LutsOf(n)[h])
  /\ Len(x) \in 2 .. 4 /\ <<>> \notin ToSet(x) /\ Fresh(n, x, u, v)
  /\ b \notin ToSet(x) /\ <<L, b>> \in Passes(n) /\ L # b
  /\ \A t \in ToSet(OfKind(n, "latch")) :
       t.toks # <<L, b>> => ~Mentions(t, L) /\ ~(ToSet(t.toks) \subseteq ToSet(x))
  /\ ToSet(x) \cap ToSet(InsOf(n)) = {}
  /\ (ToSet(x) \cup {L}) \cap NamesOn(n, "outputs") = {}
  /\ \A k \in DOMAIN LutsOf(n) \ {h} : CoversBackward(LutsOf(n)[k], L, x)

NewNamesFor(x, L) == [k \in DOMAIN x |-> NewK(L, k)]

\* What the conditions on a backward move say of the netlist.
LEMMA BackwardIsRead ==
  ASSUME NEW P, NEW n \in Seq(Line(NamesOf(P))), WellFormed(n), NEW b, NEW L,
         SuitsBackward(n, b, L), MayMoveBackward(n, LutInputs(n, L)),
         <<L, b>> \in Passes(n), \E k \in DOMAIN LutsOf(n) : L = OutputOf(LutsOf(n)[k])
  PROVE  \E h : BackwardReads(n, h, b, L, LutInputs(n, L),
                              NewNamesFor(LutInputs(n, L), L), NewNamesFor(LutInputs(n, L), b))
<1> DEFINE N == NamesOf(P)
           luts == LutsOf(n)
           x == LutInputs(n, L)
           u == NewNamesFor(x, L)
           v == NewNamesFor(x, b)
           ports == NamesOn(n, "outputs")
           named == {k \in DOMAIN luts : Mentions(luts[k], L)}
           own == {k \in named : OutputOf(luts[k]) = L /\ Len(InputPins(luts[k])) \in 2 .. 4}
<1>1. /\ Len(x) \in 2 .. 4 /\ <<>> \notin ToSet(x)
      /\ b \notin ToSet(x) /\ Cardinality(ToSet(x)) = Len(x)
      /\ (ToSet(x) \cup {L}) \cap ports = {}
      /\ \A l \in Others(n, L) : CoversBackward(l, L, x)
      /\ \A t \in ToSet(OfKind(n, "latch")) :
           t.toks # <<L, b>> => ~Mentions(t, L) /\ ~(ToSet(t.toks) \subseteq ToSet(x))
      /\ \A k \in DOMAIN x : {NewK(L, k), NewK(b, k)} \cap Names(n) = {}
  BY DEF SuitsBackward
<1>2. PICK h \in DOMAIN luts : L = OutputOf(luts[h]) OBVIOUS
<1>3. /\ \A j, k \in DOMAIN luts : OutputOf(luts[j]) = OutputOf(luts[k]) => j = k
      /\ \A k \in DOMAIN luts, p \in Passes(n) : OutputOf(luts[k]) # p[2]
  BY WellFormedIs
<1>4. LutInputs(n, L) = IF own # {} THEN InputPins(luts[Min(own)])
                        ELSE [k \in DOMAIN InputPins(luts[Max(named)]) |-> <<>>]
  BY DEF LutInputs
<1>5. DOMAIN luts = 1 .. Len(luts) /\ Len(luts) \in Nat BY LinesOfKind DEF LutsOf
<1>6. InputPins(luts[h]) \in Seq(N)
  <2>1. luts[h] \in Line(N) BY LinesOfKind DEF LutsOf
  <2>2. luts[h].toks \in Seq(N) BY <2>1, LineFields
  <2> HIDE DEF N, luts
  <2> QED BY <2>2, InFront DEF InputPins
<1>7. own # {}
  <2> SUFFICES ASSUME own = {} PROVE FALSE OBVIOUS
  <2>1. x = [k \in DOMAIN InputPins(luts[Max(named)]) |-> <<>>] BY <1>4
  <2>2. 1 \in DOMAIN x
    <3> DEFINE D == DOMAIN InputPins(luts[Max(named)])
    <3>1. x = [k \in D |-> <<>>] /\ Len(x) \in 2 .. 4 BY <1>1, <2>1
    <3>2. D = 1 .. Len(InputPins(luts[Max(named)]))
      <4>1. named # {}
        <5>1. Mentions(luts[h], L) BY <1>2, LutsAre DEF Mentions
        <5> QED BY <5>1
      <4>2. Max(named) \in named
        <5>1. named \subseteq 1 .. Len(luts) BY <1>5
        <5> HIDE DEF named
        <5> QED BY <1>5, <4>1, <5>1, LastOfPlaces
      <4>3. Max(named) \in DOMAIN luts BY <4>2
      <4> HIDE DEF named
      <4> QED BY <4>3, LutsAre
    <3> DEFINE m == Len(InputPins(luts[Max(named)]))
    <3>3. x = [k \in 1 .. m |-> <<>>] BY <3>1, <3>2
    <3> HIDE DEF m, D, x
    <3>4. CASE m \in Nat
      <4>1. Len(x) = m BY <3>3, <3>4
      <4> QED BY <3>1, <3>3, <4>1
    <3>5. m \in Nat
      <4>1. named # {}
        <5>1. Mentions(luts[h], L) BY <1>2, LutsAre DEF Mentions
        <5> QED BY <5>1
      <4>2. Max(named) \in named
        <5>1. named \subseteq 1 .. Len(luts) BY <1>5
        <5> HIDE DEF named
        <5> QED BY <1>5, <4>1, <5>1, LastOfPlaces
      <4>3. Max(named) \in DOMAIN luts BY <4>2
      <4>4. luts[Max(named)] \in Line(N) BY <4>3, LinesOfKind DEF LutsOf
      <4> DEFINE t == InputPins(luts[Max(named)])
      <4>5. t \in Seq(N)
        <5>1. luts[Max(named)].toks \in Seq(N) BY <4>4, LineFields
        <5> HIDE DEF N, luts, named
        <5> QED BY <5>1, InFront DEF InputPins
      <4> HIDE DEF t
      <4>6. Len(t) \in Nat BY <4>5
      <4> QED BY <4>6 DEF t, m
    <3> QED BY <3>4, <3>5
  <2>3. x[1] = <<>>
    <3> HIDE DEF own, named
    <3>1. 1 \in DOMAIN [k \in DOMAIN InputPins(luts[Max(named)]) |-> <<>>] BY <2>1, <2>2
    <3> QED BY <2>1, <3>1
  <2> QED BY <1>1, <2>2, <2>3 DEF ToSet
<1>8. x = InputPins(luts[h])
  <2>1. Min(own) \in own
    <3>1. own \subseteq Nat BY <1>5
    <3> HIDE DEF own
    <3> QED BY <1>7, <3>1, FirstOfPlaces
  <2>2. Min(own) = h BY <1>2, <1>3, <2>1
  <2> HIDE DEF own
  <2> QED BY <1>4, <1>7, <2>2
<1>9. \A p \in Passes(n) : p[1] \in Seq(P) /\ p[2] \in Seq(P)
  <2>1. \A t \in ToSet(OfKind(n, "latch")) : t \in Line(N) /\ t.kind = "latch"
    BY LinesOfKind DEF ToSet
  <2>2. \A t \in ToSet(OfKind(n, "latch")) : t.toks[1] \in N /\ t.toks[2] \in N
    <3> HIDE DEF N
    <3>1. \A t \in ToSet(OfKind(n, "latch")) : ToSet(t.toks) \subseteq N BY <2>1, LineFields
    <3>2. \A t \in ToSet(OfKind(n, "latch")) : ToSet(t.toks) = {t.toks[1], t.toks[2]}
      BY <2>1, LatchLines
    <3> QED BY <3>1, <3>2
  <2> QED BY <2>2 DEF Passes, NamesOf
<1>10. L \in Seq(P) /\ b \in Seq(P) /\ L # b
  <2> DEFINE p == <<L, b>>
  <2>1. p \in Passes(n) /\ p[1] = L /\ p[2] = b OBVIOUS
  <2> HIDE DEF p
  <2> QED BY <1>2, <1>3, <1>9, <2>1
<1>11. x \in Seq(N) /\ DOMAIN x = 1 .. Len(x)
  <2>1. x \in Seq(N) BY <1>6, <1>8
  <2> HIDE DEF x, N
  <2> QED BY <2>1
<1>12. Fresh(n, x, u, v)
  <2>1. IsInjective(x)
    <3> DEFINE m == Len(x)
               T == ToSet(x)
    <3>1. m \in Nat BY <1>1
    <3>2. IsFiniteSet(1 .. m) /\ Cardinality(1 .. m) = m
      <4> HIDE DEF m
      <4>1. 1 \in Int /\ m \in Int BY <3>1
      <4>2. IsFiniteSet(1 .. m) BY <4>1, FS_Interval
      <4>3. Cardinality(1 .. m) = IF 1 > m THEN 0 ELSE m - 1 + 1 BY <4>1, FS_Interval
      <4> QED BY <3>1, <4>2, <4>3
    <3>3. x \in Surjection(1 .. m, T)
      <4> HIDE DEF N, x
      <4>1. x \in [1 .. m -> T] BY <1>11 DEF ToSet
      <4>2. \A t \in T : \E k \in 1 .. m : x[k] = t BY <1>11 DEF ToSet
      <4> QED BY <4>1, <4>2 DEF Surjection
    <3>4. Cardinality(T) = Cardinality(1 .. m) BY <1>1, <3>2
    <3> DEFINE S == 1 .. m
    <3> HIDE DEF x, m, S, T
    <3>5. x \in Injection(S, T)
      <4>1. IsFiniteSet(S) /\ x \in Surjection(S, T) /\ Cardinality(T) = Cardinality(S)
        BY <3>2, <3>3, <3>4 DEF S
      <4> QED BY <4>1, FS_Surjection
    <3>6. \A j, k \in S : x[j] = x[k] => j = k BY <3>5 DEF Injection, IsInjective
    <3> QED BY <1>11, <3>6 DEF IsInjective, S, m
  <2>2. \A k \in DOMAIN x : k \in 1 .. 4 /\ u[k] = NewK(L, k) /\ v[k] = NewK(b, k)
    <3>1. \A k \in DOMAIN x : k \in 1 .. 4
      <4> HIDE DEF x
      <4> QED BY <1>1, <1>11
    <3> HIDE DEF x
    <3> QED BY <3>1 DEF NewNamesFor
  <2>3. \A k \in DOMAIN x : u[k] \notin Names(n) /\ v[k] \notin Names(n)
    <3> HIDE DEF x, u, v
    <3> QED BY <1>1, <2>2
  <2>4. \A j, k \in DOMAIN x : /\ u[j] = u[k] => j = k
                               /\ v[j] = v[k] => j = k
                               /\ u[j] # v[k]
    <3> HIDE DEF x, u, v
    <3> QED BY <1>10, <2>2, NewKIsOne
  <2> HIDE DEF x, u, v
  <2> QED BY <2>1, <2>3, <2>4 DEF Fresh
<1>13. ToSet(x) \cap ToSet(InsOf(n)) = {}
  <2>1. NamesOn(n, "inputs") = ToSet(InsOf(n)) BY InputNames
  <2> QED BY <2>1 DEF MayMoveBackward
<1>14. \A k \in DOMAIN luts \ {h} : CoversBackward(luts[k], L, x)
  <2> SUFFICES ASSUME NEW k \in DOMAIN luts \ {h} PROVE CoversBackward(luts[k], L, x)
    OBVIOUS
  <2>1. luts[k] \in ToSet(luts) BY DEF ToSet
  <2>2. OutputOf(luts[k]) # L BY <1>2, <1>3
  <2>3. luts[k] \in Others(n, L) BY <2>1, <2>2 DEF Others
  <2> HIDE DEF x
  <2> QED BY <1>1, <2>3
<1> HIDE DEF x, u, v, luts
<1>15. BackwardReads(n, h, b, L, x, u, v)
  BY <1>1, <1>2, <1>8, <1>10, <1>12, <1>13, <1>14 DEF BackwardReads, luts
<1> QED BY <1>15 DEF x, u, v

\* d is l with the names of x replaced by those of u.
Renamed(l, d, x, u) ==
  d.kind = l.kind /\ d.toks = [p \in DOMAIN l.toks |-> Ren(x, u, l.toks[p])]

\* A substitution that reaches every name of x that is in the line.
LEMMA SubstituteRenames ==
  ASSUME NEW M, NEW l \in Line(M), NEW m, NEW x, NEW u,
         \A p \in DOMAIN l.toks :
           \/ /\ p \in Plain(l) /\ l.toks[p] \in DOMAIN m
              /\ m[l.toks[p]] = Ren(x, u, l.toks[p])
           \/ l.toks[p] \notin DOMAIN m /\ l.toks[p] \notin ToSet(x)
  PROVE  Renamed(l, Substitute(l, m), x, u)
<1> DEFINE d == Substitute(l, m)
<1>1. d.kind = l.kind /\ d.toks = [p \in DOMAIN l.toks |->
        IF p \in Plain(l) /\ l.toks[p] \in DOMAIN m THEN m[l.toks[p]] ELSE l.toks[p]]
  BY SubstituteIs
<1>2. \A y : y \notin ToSet(x) => Ren(x, u, y) = y BY DEF Ren
<1> HIDE DEF d
<1> QED BY <1>1, <1>2 DEF Renamed, d

\* The latch that is moved is replaced; no other has two inputs of L on it.
LEMMA BackwardLatchLine ==
  ASSUME NEW N, NEW n \in Seq(Line(N)), NEW h, NEW b, NEW L, NEW x, NEW v,
         BackwardReads(n, h, b, L, x, NewNamesFor(x, L), v),
         NEW k \in 1 .. Len(n), n[k].kind = "latch"
  PROVE  IF n[k].toks = <<L, b>> THEN BackwardLatch(n[k], b, L, x) = NewLatches(b, L, Len(x))
         ELSE \E d : /\ BackwardLatch(n[k], b, L, x) = <<d>>
                     /\ Renamed(n[k], d, x, NewNamesFor(x, L))
<1> DEFINE l == n[k]
           u == NewNamesFor(x, L)
           named == {j \in DOMAIN x : Mentions(l, x[j])}
<1>1. l \in Line(N) /\ l.kind = "latch" /\ l \in ToSet(OfKind(n, "latch"))
  <2>1. l \in ToSet(n) /\ l \in Line(N)
    <3>1. DOMAIN n = 1 .. Len(n) /\ l \in Line(N) OBVIOUS
    <3> QED BY <3>1 DEF ToSet
  <2>2. ToSet(OfKind(n, "latch")) = {t \in ToSet(n) : t.kind = "latch"} BY LinesOf
  <2> QED BY <2>1, <2>2
<1>2. l.toks # <<L, b>> => ~Mentions(l, L) /\ ~(ToSet(l.toks) \subseteq ToSet(x))
  BY <1>1 DEF BackwardReads
<1>3. Fresh(n, x, u, v) /\ DOMAIN x = 1 .. Len(x) /\ Len(x) \in Nat
      /\ DOMAIN u = DOMAIN x /\ \A j \in DOMAIN x : u[j] = NewK(L, j)
  <2>1. x = InputPins(LutsOf(n)[h]) /\ h \in DOMAIN LutsOf(n) BY DEF BackwardReads
  <2>2. LutsOf(n)[h] \in Line(N) BY <2>1, LinesOfKind DEF LutsOf
  <2>3. x \in Seq(N)
    <3>1. LutsOf(n)[h].toks \in Seq(N) BY <2>2, LineFields
    <3> QED BY <2>1, <3>1, InFront DEF InputPins
  <2>4. DOMAIN x = 1 .. Len(x) /\ Len(x) \in Nat BY <2>3
  <2> QED BY <2>4 DEF BackwardReads, NewNamesFor
<1>4. ToSet(l.toks) = {l.toks[1], l.toks[2]} BY <1>1, LatchLines
<1>5. DOMAIN l.toks = {1, 2} /\ ~l.glued
  <2>1. Len(l.toks) = 2 /\ ~l.glued /\ DOMAIN l.toks = 1 .. Len(l.toks) BY <1>1, LineFields
  <2> QED BY <2>1
<1> HIDE DEF l, u
<1>6. CASE l.toks = <<L, b>>
  <2>1. Mentions(l, L) /\ Mentions(l, b) BY <1>4, <1>6 DEF Mentions
  <2> QED BY <1>6, <2>1 DEF BackwardLatch, l
<1>7. CASE l.toks # <<L, b>>
  <2>1. CASE named = {}
    <3>1. BackwardLatch(l, b, L, x) = <<l>> BY <1>2, <1>7, <2>1 DEF BackwardLatch
    <3>2. \A p \in DOMAIN l.toks : l.toks[p] \notin ToSet(x)
      BY <2>1 DEF Mentions, ToSet
    <3>3. \A y : y \notin ToSet(x) => Ren(x, u, y) = y BY DEF Ren
    <3>4. l.toks = [p \in DOMAIN l.toks |-> Ren(x, u, l.toks[p])]
      <4>1. l.toks \in Seq(N) BY <1>1, LineFields
      <4>2. l.toks = [p \in DOMAIN l.toks |-> l.toks[p]] BY <4>1
      <4> QED BY <3>2, <3>3, <4>2
    <3>5. Renamed(l, l, x, u) BY <3>4 DEF Renamed
    <3> QED BY <1>7, <3>1, <3>5 DEF l, u
  <2>2. CASE named # {}
    <3> DEFINE j == Min(named)
               m == [y \in {x[j]} |-> NewK(L, j)]
               d == Substitute(l, m)
    <3>1. j \in named
      <4>1. named \subseteq Nat BY <1>3
      <4> HIDE DEF named
      <4> QED BY <2>2, <4>1, FirstOfPlaces
    <3>2. BackwardLatch(l, b, L, x) = <<d>> BY <1>2, <1>7, <2>2 DEF BackwardLatch
    <3>3. j \in DOMAIN x /\ x[j] \in ToSet(l.toks) /\ x[j] \in ToSet(x)
      BY <3>1 DEF Mentions, ToSet
    <3> HIDE DEF j
    <3>4. Ren(x, u, x[j]) = m[x[j]] BY <1>3, <3>3, RenIs
    <3>5. \A p \in DOMAIN l.toks :
           \/ /\ p \in Plain(l) /\ l.toks[p] \in DOMAIN m
              /\ m[l.toks[p]] = Ren(x, u, l.toks[p])
           \/ l.toks[p] \notin DOMAIN m /\ l.toks[p] \notin ToSet(x)
      <4>1. DOMAIN m = {x[j]} OBVIOUS
      <4> HIDE DEF m
      <4>2. Plain(l) = DOMAIN l.toks BY <1>5 DEF Plain
      <4>3. \A p \in DOMAIN l.toks : l.toks[p] # x[j] => l.toks[p] \notin ToSet(x)
        BY <1>2, <1>4, <1>5, <1>7, <3>3
      <4> QED BY <3>4, <4>1, <4>2, <4>3
    <3> HIDE DEF m
    <3>6. Renamed(l, d, x, u) BY <1>1, <3>5, SubstituteRenames
    <3> QED BY <1>7, <3>2, <3>6 DEF l, u
  <2> QED BY <2>1, <2>2
<1> QED BY <1>6, <1>7

\* d is the LUT of l, which now drives b and reads v.
NowReads(l, d, b, v) ==
  /\ d.kind = "names"
  /\ d.toks = [p \in DOMAIN l.toks |-> IF p = Len(l.toks) THEN b ELSE v[p]]

\* LUT h itself: it ends where its output begins, and drives b.
LEMMA BackwardOwn ==
  ASSUME NEW P, HasSuffixes(P), NEW n \in Seq(Line(NamesOf(P))), WellFormed(n),
         NEW h, NEW b \in NamesOf(P), NEW L \in Seq(P), NEW x \in Seq(Seq(P)), NEW u,
         BackwardReads(n, h, b, L, x, u, NewNamesFor(x, b))
  PROVE  NowReads(LutsOf(n)[h], BackwardLut(LutsOf(n)[h], b, L, x), b, NewNamesFor(x, b))
<1> DEFINE N == NamesOf(P)
           l == LutsOf(n)[h]
           m == Len(l.toks)
           v == NewNamesFor(x, b)
           e == [y \in ToSet(x) |-> NewK(b, Min({k \in DOMAIN x : x[k] = y}))]
           t == Substitute(l, e)
           a == [p \in 1 .. m |-> IF p = m THEN b ELSE v[p]]
<1>1. /\ h \in DOMAIN LutsOf(n) /\ L = OutputOf(l) /\ x = InputPins(l)
      /\ Len(x) \in 2 .. 4 /\ Fresh(n, x, u, v)
  BY DEF BackwardReads
<1>2. /\ l \in Line(N) /\ l.kind = "names"
      /\ m \in Nat /\ m >= 2 /\ DOMAIN l.toks = 1 .. m
      /\ DOMAIN x = 1 .. m - 1 /\ Len(x) = m - 1
      /\ \A p \in 1 .. m - 1 : x[p] = l.toks[p]
      /\ L = l.toks[m]
      /\ ToSet(l.toks) = ToSet(x) \cup {L}
  BY <1>1, LutsAre
<1>3. L \notin ToSet(x) BY <1>1, WellFormedIs
<1>4. (\A k \in DOMAIN x : Mentions(l, x[k])) /\ Includes(l, L)
  <2>1. \A k \in DOMAIN x : Mentions(l, x[k]) BY <1>2 DEF Mentions, ToSet
  <2>2. Mentions(l, L) BY <1>2 DEF Mentions
  <2> HIDE DEF l
  <2> QED BY <2>1, <2>2, MentionsIncludes
<1>5. 1 .. m - 1 \subseteq Plain(l) /\ Plain(l) \subseteq 1 .. m BY <1>2 DEF Plain
<1>6. \A p \in 1 .. m - 1 : l.toks[p] \in ToSet(x) /\ e[l.toks[p]] = v[p]
  <2> SUFFICES ASSUME NEW p \in 1 .. m - 1
               PROVE  l.toks[p] \in ToSet(x) /\ e[l.toks[p]] = v[p]
    OBVIOUS
  <2>1. l.toks[p] = x[p] /\ p \in DOMAIN x BY <1>2
  <2>2. x[p] \in ToSet(x) BY <2>1 DEF ToSet
  <2>3. {k \in DOMAIN x : x[k] = x[p]} = {p} BY <1>1, <2>1 DEF Fresh, IsInjective
  <2>4. Min({p}) = p
    <3>1. {p} \in SUBSET Int /\ p \in {p} /\ \A k \in {p} : p <= k BY <1>2
    <3> QED BY <3>1, Smallest
  <2>5. v[p] = NewK(b, p) BY <2>1 DEF NewNamesFor
  <2> HIDE DEF l, v, m
  <2> QED BY <2>1, <2>2, <2>3, <2>4, <2>5
<1> DEFINE outs == {p \in DOMAIN l.toks : /\ IsPrefix(L, l.toks[p])
                                          /\ ~(p \in Plain(l) /\ l.toks[p] \in ToSet(x))}
<1>7. outs = {m}
  <2>1. \A p \in 1 .. m : p # m => p \in 1 .. m - 1 BY <1>2
  <2>2. m \in 1 .. m BY <1>2
  <2>3. IsPrefix(L, L)
    <3>1. Len(L) <= Len(L) /\ \A k \in 1 .. Len(L) : L[k] = L[k] OBVIOUS
    <3>2. SubSeq(L, 1, Len(L)) = SubSeq(L, 1, Len(L)) OBVIOUS
    <3> QED BY <3>1 DEF IsPrefix
  <2> HIDE DEF m, l
  <2>4. \A p \in 1 .. m : p # m => p \in Plain(l) /\ l.toks[p] \in ToSet(x)
    BY <1>5, <1>6, <2>1
  <2>5. l.toks[m] = L BY <1>2
  <2> QED BY <1>2, <1>3, <2>2, <2>3, <2>4, <2>5
<1>8. Min({m}) = m
  <2>1. {m} \in SUBSET Int /\ m \in {m} /\ \A k \in {m} : m <= k BY <1>2
  <2> HIDE DEF m
  <2> QED BY <2>1, Smallest
<1>9. BackwardLut(l, b, L, x) = Lut(CutAt(t.toks, m, b), TRUE)
  <2>1. BackwardLut(l, b, L, x) = MovedLut(l, b, L, x)
    <3> HIDE DEF l
    <3> QED BY <1>4 DEF BackwardLut
  <2>2. MovedLut(l, b, L, x) = IF outs = {} THEN t ELSE Lut(CutAt(t.toks, Min(outs), b), TRUE)
    <3> HIDE DEF l
    <3> QED BY DEF MovedLut
  <2> HIDE DEF l, t, outs, m
  <2> QED BY <1>7, <1>8, <2>1, <2>2
<1>10. t.toks \in Seq(N) /\ Len(t.toks) = m
       /\ \A p \in 1 .. m - 1 : t.toks[p] = v[p]
  <2>1. \A y \in DOMAIN e : e[y] \in N
    <3> SUFFICES ASSUME NEW y \in ToSet(x) PROVE e[y] \in N OBVIOUS
    <3>1. PICK p \in DOMAIN x : x[p] = y BY DEF ToSet
    <3>2. e[y] = v[p] BY <1>2, <1>6, <3>1
    <3>3. v[p] = NewK(b, p) BY <3>1 DEF NewNamesFor
    <3>4. p \in 1 .. 4
      <4>1. DOMAIN x = 1 .. Len(x) BY <1>2
      <4> HIDE DEF m, l
      <4> QED BY <1>1, <3>1, <4>1
    <3>5. b \in Seq(P) BY DEF NamesOf
    <3> HIDE DEF e, v, N
    <3> QED BY <3>2, <3>3, <3>4, <3>5, NewNames DEF N
  <2>2. t \in Line(N) /\ Len(t.toks) = m
    <3> HIDE DEF e, l, N
    <3> QED BY <1>2, <2>1, Substituted DEF m
  <2>3. t.toks = [p \in DOMAIN l.toks |->
                    IF p \in Plain(l) /\ l.toks[p] \in DOMAIN e THEN e[l.toks[p]] ELSE l.toks[p]]
    <3>1. l \in Line(N) BY <1>2
    <3> HIDE DEF l, e, N
    <3> QED BY <3>1, SubstituteIs
  <2>4. t.toks \in Seq(N) BY <2>2, LineFields
  <2>5. \A p \in 1 .. m - 1 : p \in 1 .. m BY <1>2
  <2>6. DOMAIN e = ToSet(x) OBVIOUS
  <2> HIDE DEF m, t, e, v
  <2>7. \A p \in 1 .. m - 1 : t.toks[p] = v[p] BY <1>2, <1>5, <1>6, <2>3, <2>5, <2>6
  <2> QED BY <2>2, <2>4, <2>7
<1>11. CutAt(t.toks, m, b) = a
  <2> DEFINE q == t.toks
             c == SubSeq(q, 1, m - 1)
  <2>1. q \in Seq(N) /\ Len(q) = m /\ m \in Nat /\ m >= 2 BY <1>2, <1>10
  <2>2. \A p \in 1 .. m - 1 : q[p] = v[p] BY <1>10
  <2>3. CutAt(q, m, b) = Append(c, b) BY DEF CutAt
  <2> HIDE DEF q, m, v
  <2>4. c \in Seq(N) /\ Len(c) = m - 1 /\ \A p \in 1 .. m - 1 : c[p] = q[p] BY <2>1
  <2> HIDE DEF c
  <2>5. Append(c, b) \in Seq(N) /\ Len(Append(c, b)) = m BY <2>1, <2>4
  <2>6. \A p \in 1 .. m : Append(c, b)[p] = IF p = m THEN b ELSE v[p]
    BY <2>1, <2>2, <2>4
  <2>7. a \in Seq(N) /\ Len(a) = m
    <3>1. \A p \in 1 .. m : a[p] \in N BY <2>5, <2>6
    <3> QED BY <2>1, <3>1
  <2>8. Append(c, b) = a BY <2>5, <2>6, <2>7, SeqEqual
  <2> QED BY <2>3, <2>8 DEF q
<1>12. a = [p \in DOMAIN l.toks |-> IF p = Len(l.toks) THEN b ELSE v[p]] BY <1>2
<1> HIDE DEF a, t, m, l, v
<1>13. Lut(CutAt(t.toks, m, b), TRUE).kind = "names"
       /\ Lut(CutAt(t.toks, m, b), TRUE).toks = a
  BY <1>11 DEF Lut
<1> QED BY <1>9, <1>12, <1>13 DEF NowReads, l, v

\* LUT k reads some of the inputs x of L, and the rewriting covers that.
OtherReads(n, l, b, L, x, u) ==
  /\ Fresh(n, x, u, NewNamesFor(x, b)) /\ u = NewNamesFor(x, L)
  /\ DOMAIN x = 1 .. Len(x) /\ Len(x) \in 2 .. 4
  /\ <<>> \notin ToSet(x) /\ b \notin ToSet(x)
  /\ CoversBackward(l, L, x)

\* What each of the branches makes of it.
LEMMA RenamedNone ==
  ASSUME NEW P, NEW n, NEW l \in Line(NamesOf(P)), NEW b, NEW L \in Seq(P),
         NEW x \in Seq(Seq(P)), NEW u, OtherReads(n, l, b, L, x, u),
         \A k \in DOMAIN x : ~Mentions(l, x[k]), NEW m, DOMAIN m = {L}
  PROVE  Renamed(l, Substitute(l, m), x, u)
<1>1. ~Mentions(l, L)
  <2>1. ~Includes(l, L) BY DEF OtherReads, CoversBackward
  <2> QED BY <2>1, MentionsIncludes
<1>2. \A p \in DOMAIN l.toks : l.toks[p] \notin DOMAIN m /\ l.toks[p] \notin ToSet(x)
  BY <1>1 DEF Mentions, ToSet
<1> QED BY <1>2, SubstituteRenames

\* A group is renamed whole.
LEMMA RenamedAll ==
  ASSUME NEW P, NEW n, NEW l \in Line(NamesOf(P)), NEW b, NEW L \in Seq(P),
         NEW x \in Seq(Seq(P)), NEW u, OtherReads(n, l, b, L, x, u),
         NEW group \in ToSet(Groups(Len(x))), group = {k \in DOMAIN x : Mentions(l, x[k])},
         l.glued => OutputOf(l) \notin ToSet(x)
  PROVE  Renamed(l, RenamedGroup(l, b, L, x, group), x, u)
<1> DEFINE free == {k \in group : b # x[Guard(Len(x), group, k)]}
           m == [y \in {x[k] : k \in free} |-> NewK(L, Min({k \in free : x[k] = y}))]
<1>1. /\ Fresh(n, x, u, NewNamesFor(x, b)) /\ u = NewNamesFor(x, L)
      /\ DOMAIN x = 1 .. Len(x) /\ Len(x) \in 2 .. 4 /\ b \notin ToSet(x)
      /\ IsInjective(x)
  BY DEF OtherReads, Fresh
<1>2. group \subseteq DOMAIN x OBVIOUS
<1>3. \A k \in group : Guard(Len(x), group, k) \in DOMAIN x BY <1>1, <1>2 DEF Guard
<1>4. free = group BY <1>1, <1>3 DEF ToSet
<1>5. ASSUME NEW k \in group PROVE {j \in free : x[j] = x[k]} = {k}
  <2>1. \A j \in group : x[j] = x[k] => j = k BY <1>1, <1>2 DEF IsInjective
  <2> HIDE DEF free
  <2> QED BY <1>4, <2>1
<1>6. \A k \in group : m[x[k]] = u[k] /\ x[k] \in DOMAIN m
  <2> SUFFICES ASSUME NEW k \in group PROVE m[x[k]] = u[k] /\ x[k] \in DOMAIN m OBVIOUS
  <2>1. Min({k}) = k
    <3>1. {k} \in SUBSET Int /\ k \in {k} /\ \A j \in {k} : k <= j BY <1>1, <1>2
    <3> QED BY <3>1, Smallest
  <2>2. u[k] = NewK(L, k) BY <1>1, <1>2 DEF NewNamesFor
  <2>3. x[k] \in {x[j] : j \in free} BY <1>4
  <2> HIDE DEF free
  <2> QED BY <1>5, <2>1, <2>2, <2>3
<1>7. RenamedGroup(l, b, L, x, group) = Substitute(l, m) BY DEF RenamedGroup
<1>8. DOMAIN m = {x[k] : k \in group} BY <1>4
<1> HIDE DEF m, free
<1>9. \A k \in DOMAIN x : Ren(x, u, x[k]) = u[k] BY <1>1, RenIs
<1>10. \A p \in DOMAIN l.toks : \A k \in DOMAIN x :
         l.toks[p] = x[k] => k \in group /\ p \in Plain(l)
  <2> SUFFICES ASSUME NEW p \in DOMAIN l.toks, NEW k \in DOMAIN x, l.toks[p] = x[k]
               PROVE  k \in group /\ p \in Plain(l)
    OBVIOUS
  <2>1. k \in group BY DEF Mentions, ToSet
  <2>2. CASE ~l.glued BY <2>1, <2>2 DEF Plain
  <2>3. CASE l.glued
    <3>1. Len(l.toks) \in Nat /\ DOMAIN l.toks = 1 .. Len(l.toks) BY LineFields
    <3>2. OutputOf(l) = l.toks[Len(l.toks)] BY PinsAre
    <3>3. x[k] \in ToSet(x) BY DEF ToSet
    <3>4. p # Len(l.toks) BY <2>3, <3>2, <3>3
    <3>5. p \in 1 .. Len(l.toks) - 1 BY <3>1, <3>4
    <3> QED BY <2>1, <2>3, <3>5 DEF Plain
  <2> QED BY <2>1, <2>2, <2>3
<1>11. \A p \in DOMAIN l.toks :
         \/ /\ p \in Plain(l) /\ l.toks[p] \in DOMAIN m
            /\ m[l.toks[p]] = Ren(x, u, l.toks[p])
         \/ l.toks[p] \notin DOMAIN m /\ l.toks[p] \notin ToSet(x)
  <2> SUFFICES ASSUME NEW p \in DOMAIN l.toks
               PROVE  \/ /\ p \in Plain(l) /\ l.toks[p] \in DOMAIN m
                         /\ m[l.toks[p]] = Ren(x, u, l.toks[p])
                      \/ l.toks[p] \notin DOMAIN m /\ l.toks[p] \notin ToSet(x)
    OBVIOUS
  <2>1. CASE l.toks[p] \in ToSet(x)
    <3>1. PICK k \in DOMAIN x : l.toks[p] = x[k] BY <2>1 DEF ToSet
    <3>2. k \in group /\ p \in Plain(l) BY <1>10, <3>1
    <3> QED BY <1>6, <1>9, <3>1, <3>2
  <2>2. CASE l.toks[p] \notin ToSet(x)
    <3>1. \A k \in group : x[k] \in ToSet(x) BY <1>2 DEF ToSet
    <3> QED BY <1>8, <2>2, <3>1
  <2> QED BY <2>1, <2>2
<1>12. Renamed(l, Substitute(l, m), x, u) BY <1>11, SubstituteRenames
<1> QED BY <1>7, <1>12

\* One name is renamed wherever it is, an output with the end of the line too.
LEMMA RenamedJust ==
  ASSUME NEW P, NEW n, NEW l \in Line(NamesOf(P)), NEW b, NEW L \in Seq(P),
         NEW x \in Seq(Seq(P)), NEW u, OtherReads(n, l, b, L, x, u),
         l.kind = "names", Len(l.toks) >= 2,
         NEW k, {k} = {j \in DOMAIN x : Mentions(l, x[j])},
         \A y \in DOMAIN x : u[y] \in NamesOf(P)
  PROVE  Renamed(l, RenamedOne(l, b, L, x, k), x, u)
<1> DEFINE N == NamesOf(P)
           m == [y \in {x[k]} \ {b} |-> NewK(L, k)]
           t == Substitute(l, m)
           q == Len(l.toks)
           drives == b # x[k] /\ x[k] = (IF l.glued THEN OutputOf(l) ELSE <<>>)
           read == IF l.glued THEN Front(t.toks) ELSE t.toks
<1>1. /\ Fresh(n, x, u, NewNamesFor(x, b)) /\ u = NewNamesFor(x, L)
      /\ <<>> \notin ToSet(x) /\ b \notin ToSet(x)
  BY DEF OtherReads
<1>2. k \in DOMAIN x /\ Mentions(l, x[k]) OBVIOUS
<1>3. x[k] \in ToSet(x) /\ x[k] # b /\ x[k] # <<>> BY <1>1, <1>2 DEF ToSet
<1>4. DOMAIN m = {x[k]} /\ m[x[k]] = u[k] BY <1>1, <1>2, <1>3 DEF NewNamesFor
<1>5. Ren(x, u, x[k]) = u[k] BY <1>1, <1>2, RenIs
<1>6. \A p \in DOMAIN l.toks : l.toks[p] \in ToSet(x) => l.toks[p] = x[k]
  BY DEF Mentions, ToSet
<1>7. q \in Nat /\ q >= 2 /\ DOMAIN l.toks = 1 .. q /\ OutputOf(l) = l.toks[q]
  BY LineFields, PinsAre
<1>8. RenamedOne(l, b, L, x, k) =
        IF drives THEN Lut(Append(read, NewK(L, k)), FALSE) ELSE t
  BY DEF RenamedOne
<1>9. NewK(L, k) = u[k] BY <1>1, <1>2 DEF NewNamesFor
<1> HIDE DEF m
<1>10. CASE ~drives
  <2>1. l.glued => l.toks[q] # x[k] BY <1>3, <1>7, <1>10
  <2>2. \A p \in 1 .. q : p # q => p \in 1 .. q - 1 BY <1>7
  <2> HIDE DEF q
  <2>3. \A p \in DOMAIN l.toks : l.toks[p] = x[k] => p \in Plain(l)
    BY <1>7, <2>1, <2>2 DEF Plain, q
  <2>4. \A p \in DOMAIN l.toks :
          \/ /\ p \in Plain(l) /\ l.toks[p] \in DOMAIN m
             /\ m[l.toks[p]] = Ren(x, u, l.toks[p])
          \/ l.toks[p] \notin DOMAIN m /\ l.toks[p] \notin ToSet(x)
    BY <1>3, <1>4, <1>5, <1>6, <2>3
  <2>5. Renamed(l, t, x, u) BY <2>4, SubstituteRenames
  <2> HIDE DEF t, drives
  <2> QED BY <1>8, <1>10, <2>5
<1>11. CASE drives
  <2>1. l.glued /\ l.toks[q] = x[k] BY <1>3, <1>7, <1>11
  <2>2. Plain(l) = 1 .. q - 1 BY <2>1 DEF Plain
  <2>3. t \in Line(N) /\ Len(t.toks) = q
    <3>1. \A y \in DOMAIN m : m[y] \in N BY <1>2, <1>4
    <3>2. l \in Line(N) OBVIOUS
    <3> HIDE DEF N
    <3> QED BY <3>1, <3>2, Substituted
  <2>4. t.toks = [p \in DOMAIN l.toks |->
                    IF p \in Plain(l) /\ l.toks[p] \in DOMAIN m THEN m[l.toks[p]] ELSE l.toks[p]]
    BY SubstituteIs
  <2>5. t.toks \in Seq(N) BY <2>3, LineFields
  <2>6. \A y : y \notin ToSet(x) => Ren(x, u, y) = y BY DEF Ren
  <2>7. \A p \in 1 .. q - 1 : t.toks[p] = Ren(x, u, l.toks[p])
    <3>1. \A p \in 1 .. q - 1 : p \in 1 .. q BY <1>7
    <3> HIDE DEF q, t
    <3> QED BY <1>3, <1>4, <1>5, <1>6, <1>7, <2>2, <2>4, <2>6, <3>1
  <2> DEFINE e == t.toks
             c == Front(e)
             d == Append(c, u[k])
             a == [p \in 1 .. q |-> Ren(x, u, l.toks[p])]
  <2>8. e \in Seq(N) /\ Len(e) = q /\ q \in Nat /\ q >= 2 BY <1>7, <2>3, <2>5
  <2>9. \A p \in 1 .. q - 1 : e[p] = Ren(x, u, l.toks[p]) BY <2>7
  <2>10. u[k] \in N BY <1>2
  <2> HIDE DEF e, q, N, t
  <2>11. c \in Seq(N) /\ Len(c) = q - 1 /\ \A p \in 1 .. q - 1 : c[p] = e[p]
    BY <2>8 DEF Front
  <2> HIDE DEF c
  <2>12. d \in Seq(N) /\ Len(d) = q BY <2>8, <2>10, <2>11
  <2>13. \A p \in 1 .. q : d[p] = Ren(x, u, l.toks[p])
    <3>1. d[q] = u[k] BY <2>8, <2>10, <2>11
    <3>2. \A p \in 1 .. q - 1 : d[p] = c[p] BY <2>8, <2>10, <2>11
    <3>3. \A p \in 1 .. q : p # q => p \in 1 .. q - 1 BY <2>8
    <3> HIDE DEF d
    <3> QED BY <1>5, <2>1, <2>9, <2>11, <3>1, <3>2, <3>3
  <2>14. a \in Seq(N) /\ Len(a) = q
    <3> HIDE DEF d
    <3>1. \A p \in 1 .. q : d[p] \in N BY <2>12
    <3>2. \A p \in 1 .. q : a[p] \in N BY <2>13, <3>1
    <3> QED BY <2>8, <3>2
  <2>15. d = a
    <3> HIDE DEF d
    <3>1. \A p \in 1 .. q : d[p] = a[p] BY <2>13
    <3> HIDE DEF a
    <3> QED BY <2>12, <2>14, <3>1, SeqEqual
  <2>16. RenamedOne(l, b, L, x, k) = Lut(d, FALSE)
    <3>1. read = c BY <2>1 DEF c, e
    <3> HIDE DEF drives, read
    <3> QED BY <1>8, <1>9, <1>11, <3>1
  <2>17. Lut(d, FALSE).kind = "names" /\ Lut(d, FALSE).toks = d BY DEF Lut
  <2> HIDE DEF d
  <2> QED BY <1>7, <2>15, <2>16, <2>17 DEF Renamed
<1> QED BY <1>10, <1>11

\* The branches taken for the other LUTs, whichever inputs of L they read.
LEMMA BackwardReader ==
  ASSUME NEW P, NEW n, NEW l \in Line(NamesOf(P)), NEW b, NEW L \in Seq(P),
         NEW x \in Seq(Seq(P)), NEW u, OtherReads(n, l, b, L, x, u),
         l.kind = "names", Len(l.toks) >= 2, \A y \in DOMAIN x : u[y] \in NamesOf(P)
  PROVE  Renamed(l, BackwardLut(l, b, L, x), x, u)
<1> DEFINE named == {k \in DOMAIN x : Mentions(l, x[k])}
           groups == Groups(Len(x))
           read == {g \in DOMAIN groups : \A k \in groups[g] : Mentions(l, x[k])}
           ones == {k \in DOMAIN x : IF Len(x) = 3 THEN Mentions(l, x[k])
                                                  ELSE Includes(l, x[k])}
           all == (\A k \in DOMAIN x : Mentions(l, x[k])) /\ Includes(l, L)
           d == BackwardLut(l, b, L, x)
<1>1. /\ DOMAIN x = 1 .. Len(x) /\ Len(x) \in 2 .. 4 /\ CoversBackward(l, L, x)
  BY DEF OtherReads
<1>2. \A k \in DOMAIN x : Includes(l, x[k]) <=> Mentions(l, x[k])
  <2>1. \A k \in DOMAIN x : x[k] \in Seq(P) OBVIOUS
  <2>2. \A k \in DOMAIN x : Includes(l, x[k]) => Mentions(l, x[k])
    BY <1>1 DEF CoversBackward
  <2> QED BY <2>1, <2>2, MentionsIncludes
<1>3. /\ ones = named /\ ~all
      /\ \/ Cardinality(named) <= 1
         \/ named \in ToSet(groups) /\ (l.glued => OutputOf(l) \notin ToSet(x))
  <2>1. {k \in DOMAIN x : Includes(l, x[k])} = named BY <1>2
  <2>2. ~Includes(l, L) BY <1>1 DEF CoversBackward
  <2>3. ones = named BY <1>2
  <2> HIDE DEF ones
  <2> QED BY <1>1, <2>1, <2>2, <2>3 DEF CoversBackward
<1>4. d = IF read # {} THEN RenamedGroup(l, b, L, x, groups[Min(read)])
          ELSE IF named # {} THEN RenamedOne(l, b, L, x, Min(named))
          ELSE Substitute(l, [y \in {L} |-> b])
  <2>1. d = IF all THEN MovedLut(l, b, L, x)
            ELSE IF read # {} THEN RenamedGroup(l, b, L, x, groups[Min(read)])
            ELSE IF ones # {} THEN RenamedOne(l, b, L, x, Min(ones))
            ELSE Substitute(l, [y \in {L} |-> b])
    BY DEF BackwardLut
  <2> HIDE DEF all, ones, named, read, groups, d
  <2> QED BY <1>3, <2>1
<1>5. /\ \A g \in DOMAIN groups : \E e, j \in groups[g] : e # j
      /\ \A g, j \in DOMAIN groups : g < j => ~(groups[g] \subseteq groups[j])
      /\ DOMAIN groups \subseteq Nat
      /\ \A g \in DOMAIN groups : groups[g] \subseteq DOMAIN x
  BY <1>1, GroupsInOrder, GroupsAre
<1>6. \A g \in DOMAIN groups : g \in read <=> groups[g] \subseteq named BY <1>5
<1>7. IsFiniteSet(named)
  <2>1. IsFiniteSet(1 .. Len(x))
    <3>1. 1 \in Int /\ Len(x) \in Int BY <1>1
    <3> QED BY <3>1, FS_Interval
  <2>2. named \subseteq 1 .. Len(x) BY <1>1
  <2> HIDE DEF named
  <2> QED BY <2>1, <2>2, FS_Subset
<1>8. read \subseteq DOMAIN groups OBVIOUS
<1> HIDE DEF groups, read, d
<1>9. CASE Cardinality(named) <= 1
  <2> DEFINE S == named
  <2>1. \/ S = {}
        \/ \E k : S = {k}
    <3>1. IsFiniteSet(S) /\ Cardinality(S) <= 1 BY <1>7, <1>9
    <3> HIDE DEF S
    <3>2. Cardinality(S) \in Nat BY <3>1, FS_CardinalityType
    <3>3. Cardinality(S) = 0 \/ Cardinality(S) = 1 BY <3>1, <3>2
    <3> QED BY <3>1, <3>3, FS_EmptySet, FS_Singleton
  <2>2. read = {}
    <3> SUFFICES ASSUME NEW g \in read PROVE FALSE OBVIOUS
    <3>1. groups[g] \subseteq named /\ g \in DOMAIN groups BY <1>6, <1>8
    <3>2. PICK e \in groups[g], j \in groups[g] : e # j BY <1>5, <3>1
    <3>3. e \in S /\ j \in S BY <3>1, <3>2
    <3> HIDE DEF S
    <3> QED BY <2>1, <3>2, <3>3
  <2>3. CASE S = {}
    <3>1. d = Substitute(l, [y \in {L} |-> b]) BY <1>4, <2>2, <2>3
    <3>2. \A k \in DOMAIN x : ~Mentions(l, x[k]) BY <2>3
    <3> DEFINE m == [y \in {L} |-> b]
    <3>3. DOMAIN m = {L} OBVIOUS
    <3> HIDE DEF S, named, ones, all, m
    <3>4. Renamed(l, Substitute(l, m), x, u) BY <3>2, <3>3, RenamedNone
    <3> QED BY <3>1, <3>4 DEF d, m
  <2>4. CASE \E k : S = {k}
    <3>1. PICK k : named = {k} BY <2>4
    <3>2. k \in Nat
      <4>1. k \in DOMAIN x BY <3>1
      <4> QED BY <1>1, <4>1
    <3>3. Min({k}) = k
      <4>1. {k} \in SUBSET Int /\ k \in {k} /\ \A j \in {k} : k <= j BY <3>2
      <4> QED BY <4>1, Smallest
    <3>4. d = RenamedOne(l, b, L, x, k)
      <4> HIDE DEF named
      <4> QED BY <1>4, <2>2, <3>1, <3>3
    <3>5. Renamed(l, RenamedOne(l, b, L, x, k), x, u) BY <3>1, RenamedJust
    <3> QED BY <3>4, <3>5 DEF d
  <2> QED BY <2>1, <2>3, <2>4
<1>10. CASE named \in ToSet(groups) /\ (l.glued => OutputOf(l) \notin ToSet(x))
  <2>1. PICK g \in DOMAIN groups : groups[g] = named BY <1>10 DEF ToSet
  <2>2. \A j \in read : g <= j
    <3> HIDE DEF named
    <3> SUFFICES ASSUME NEW j \in read PROVE g <= j OBVIOUS
    <3>1. j \in DOMAIN groups /\ groups[j] \subseteq groups[g] BY <1>6, <1>8, <2>1
    <3>2. ~(j < g) BY <1>5, <3>1
    <3>3. g \in Nat /\ j \in Nat BY <1>5, <3>1
    <3> QED BY <3>2, <3>3
  <2>3. g \in read BY <1>6, <2>1
  <2>4. Min(read) = g
    <3>1. read \in SUBSET Int BY <1>5, <1>8
    <3> QED BY <2>2, <2>3, <3>1, Smallest
  <2>5. d = RenamedGroup(l, b, L, x, named)
    <3> HIDE DEF named
    <3> QED BY <1>4, <2>1, <2>3, <2>4
  <2>6. Renamed(l, RenamedGroup(l, b, L, x, named), x, u)
    <3>1. named \in ToSet(Groups(Len(x))) BY <1>10 DEF groups
    <3>2. l.glued => OutputOf(l) \notin ToSet(x) BY <1>10
    <3> QED BY <3>1, <3>2, RenamedAll
  <2> QED BY <2>5, <2>6 DEF d
<1> QED BY <1>3, <1>9, <1>10

\* What the move makes of each line: ports stay, the latch of b becomes the new
\* ones, h ends at b and reads them, and elsewhere the inputs of h are renamed.
BackwardLines(n, h, b, L, x, made) ==
  \A k \in 1 .. Len(n) : LET l == n[k] IN
    /\ l.kind \in {"inputs", "outputs"} => made[k] = <<l>>
    /\ l.kind = "latch" =>
         IF l.toks = <<L, b>> THEN made[k] = NewLatches(b, L, Len(x))
         ELSE \E d : made[k] = <<d>> /\ Renamed(l, d, x, NewNamesFor(x, L))
    /\ l.kind = "names" => \E d :
         /\ made[k] = <<d>>
         /\ IF l = LutsOf(n)[h]
            THEN NowReads(l, d, b, NewNamesFor(x, b))
            ELSE Renamed(l, d, x, NewNamesFor(x, L))

\* A backward move that suits makes these lines.
LEMMA BackwardMakes ==
  ASSUME NEW P, HasSuffixes(P), NEW n \in Seq(Line(NamesOf(P))), WellFormed(n),
         NEW b \in NamesOf(P), NEW L \in Seq(P), NEW h, NEW made,
         NEW x \in Seq(Seq(P)), x = LutInputs(n, L),
         BackwardReads(n, h, b, L, x, NewNamesFor(x, L), NewNamesFor(x, b)),
         BackwardMade(n, b, L, made)
  PROVE  BackwardLines(n, h, b, L, x, made)
<1> DEFINE N == NamesOf(P)
           u == NewNamesFor(x, L)
           luts == LutsOf(n)
<1>1. /\ h \in DOMAIN luts /\ L = OutputOf(luts[h]) /\ x = InputPins(luts[h])
      /\ Fresh(n, x, u, NewNamesFor(x, b)) /\ Len(x) \in 2 .. 4
      /\ <<>> \notin ToSet(x) /\ b \notin ToSet(x)
      /\ \A k \in DOMAIN luts \ {h} : CoversBackward(luts[k], L, x)
  BY DEF BackwardReads
<1>2. DOMAIN x = 1 .. Len(x) OBVIOUS
<1>3. \A k \in DOMAIN x : u[k] \in N
  <2>1. \A k \in DOMAIN x : k \in 1 .. 4 BY <1>1, <1>2
  <2>2. \A k \in DOMAIN x : u[k] = NewK(L, k) BY DEF NewNamesFor
  <2> HIDE DEF u, N
  <2> QED BY <2>1, <2>2, NewNames DEF N
<1>4. ASSUME NEW k \in 1 .. Len(n), n[k].kind \in {"inputs", "outputs"}
      PROVE  made[k] = <<n[k]>>
  BY <1>4 DEF BackwardMade
<1>5. ASSUME NEW k \in 1 .. Len(n), n[k].kind = "latch"
      PROVE  IF n[k].toks = <<L, b>> THEN made[k] = NewLatches(b, L, Len(x))
             ELSE \E d : made[k] = <<d>> /\ Renamed(n[k], d, x, u)
  <2>1. made[k] = BackwardLatch(n[k], b, L, x) BY <1>5 DEF BackwardMade
  <2>2. n \in Seq(Line(N)) OBVIOUS
  <2> HIDE DEF N
  <2>3. IF n[k].toks = <<L, b>> THEN BackwardLatch(n[k], b, L, x) = NewLatches(b, L, Len(x))
        ELSE \E d : BackwardLatch(n[k], b, L, x) = <<d>> /\ Renamed(n[k], d, x, NewNamesFor(x, L))
    BY <1>5, <2>2, BackwardLatchLine
  <2> QED BY <2>1, <2>3
<1>6. ASSUME NEW k \in 1 .. Len(n), n[k].kind = "names"
      PROVE  \E d :
         /\ made[k] = <<d>>
         /\ IF n[k] = luts[h]
            THEN NowReads(n[k], d, b, NewNamesFor(x, b))
            ELSE Renamed(n[k], d, x, u)
  <2> DEFINE l == n[k]
             d == BackwardLut(l, b, L, x)
  <2>1. made[k] = <<d>> BY <1>6 DEF BackwardMade
  <2>2. PICK j \in DOMAIN luts : luts[j] = l BY <1>6, LutLines
  <2>3. CASE l = luts[h]
    <3>1. NowReads(luts[h], BackwardLut(luts[h], b, L, x), b, NewNamesFor(x, b))
      BY BackwardOwn
    <3> HIDE DEF l, luts
    <3>2. NowReads(l, d, b, NewNamesFor(x, b)) BY <2>3, <3>1
    <3> HIDE DEF d
    <3> QED BY <2>1, <2>3, <3>2 DEF l
  <2>4. CASE l # luts[h]
    <3>1. j \in DOMAIN luts \ {h} BY <2>2, <2>4
    <3>2. l \in Line(N) /\ l.kind = "names" /\ Len(l.toks) >= 2 BY <2>2, LutsAre
    <3>3. OtherReads(n, l, b, L, x, u)
      <4>1. CoversBackward(l, L, x) BY <1>1, <2>2, <3>1
      <4> HIDE DEF l, u
      <4> QED BY <1>1, <1>2, <4>1 DEF OtherReads, u
    <3>4. Renamed(l, BackwardLut(l, b, L, x), x, u)
      <4> HIDE DEF l, u
      <4> QED BY <1>3, <3>2, <3>3, BackwardReader DEF N
    <3> HIDE DEF u
    <3> QED BY <2>1, <2>4, <3>4
  <2> QED BY <2>3, <2>4
<1> QED BY <1>4, <1>5, <1>6 DEF BackwardLines

\* So it moves a latch backward.
LEMMA BackwardMoves ==
  ASSUME NEW P, NEW n \in Seq(Line(NamesOf(P))), WellFormed(n), NEW N,
         NEW made \in [1 .. Len(n) -> Seq(Line(N))],
         NEW h, NEW b, NEW L \in Seq(P), NEW x \in Seq(Seq(P)),
         BackwardReads(n, h, b, L, x, NewNamesFor(x, L), NewNamesFor(x, b)),
         BackwardLines(n, h, b, L, x, made)
  PROVE  MovedBackward(n, FlattenSeq(made), h, b, NewNamesFor(x, L), NewNamesFor(x, b))
<1> DEFINE c == FlattenSeq(made)
           luts == LutsOf(n)
           u == NewNamesFor(x, L)
           v == NewNamesFor(x, b)
<1>1. /\ h \in DOMAIN luts /\ L = OutputOf(luts[h]) /\ x = InputPins(luts[h])
      /\ Len(x) \in 2 .. 4 /\ Fresh(n, x, u, v)
      /\ b \notin ToSet(x) /\ <<L, b>> \in Passes(n)
      /\ \A t \in ToSet(OfKind(n, "latch")) : t.toks # <<L, b>> => ~Mentions(t, L)
      /\ ToSet(x) \cap ToSet(InsOf(n)) = {}
      /\ (ToSet(x) \cup {L}) \cap NamesOn(n, "outputs") = {}
      /\ \A k \in DOMAIN luts \ {h} : CoversBackward(luts[k], L, x)
  BY DEF BackwardReads
<1>2. DOMAIN x = 1 .. Len(x) OBVIOUS
<1>3. ASSUME NEW k \in 1 .. Len(n)
      PROVE  /\ n[k].kind \in {"inputs", "outputs"} => made[k] = <<n[k]>>
             /\ n[k].kind = "latch" =>
                  IF n[k].toks = <<L, b>> THEN made[k] = NewLatches(b, L, Len(x))
                  ELSE \E d : made[k] = <<d>> /\ Renamed(n[k], d, x, u)
             /\ n[k].kind = "names" => \E d :
                  /\ made[k] = <<d>>
                  /\ IF n[k] = luts[h] THEN NowReads(n[k], d, b, v) ELSE Renamed(n[k], d, x, u)
  BY DEF BackwardLines
<1>4. /\ \A k \in DOMAIN x : u[k] = NewK(L, k) /\ v[k] = NewK(b, k)
      /\ NewLatches(b, L, Len(x)) = [k \in DOMAIN x |-> Latch(u[k], v[k])]
  <2>1. \A k \in DOMAIN x : u[k] = NewK(L, k) /\ v[k] = NewK(b, k) BY DEF NewNamesFor
  <2> HIDE DEF u, v
  <2> QED BY <1>2, <2>1 DEF NewLatches
<1>5. \A y, z : /\ Latch(y, z).kind = "latch"
                /\ Latch(y, z).toks[1] = y /\ Latch(y, z).toks[2] = z
  BY DEF Latch
<1> HIDE DEF c, u, v
<1>6. Preserves(n, made)
  <2>1. ASSUME NEW k \in 1 .. Len(n), n[k].kind = "names"
        PROVE  Len(made[k]) = 1 /\ made[k][1].kind = "names"
    <3>1. PICK d : /\ made[k] = <<d>>
                   /\ NowReads(n[k], d, b, v) \/ Renamed(n[k], d, x, u)
      BY <1>3, <2>1
    <3>2. d.kind = "names" BY <2>1, <3>1 DEF NowReads, Renamed
    <3>3. Len(made[k]) = 1 /\ made[k][1] = d BY <3>1
    <3> QED BY <3>2, <3>3
  <2>2. ASSUME NEW k \in 1 .. Len(n), n[k].kind = "latch", NEW j \in 1 .. Len(made[k])
        PROVE  made[k][j].kind = "latch"
    <3>1. CASE n[k].toks = <<L, b>>
      <4>1. made[k] = [i_ \in DOMAIN x |-> Latch(u[i_], v[i_])] BY <1>3, <1>4, <2>2, <3>1
      <4>2. Len(made[k]) = Len(x) BY <1>1, <1>2, <4>1
      <4>3. j \in DOMAIN x BY <1>2, <4>2
      <4>4. made[k][j] = Latch(u[j], v[j]) BY <4>1, <4>3
      <4> QED BY <1>5, <4>4
    <3>2. CASE n[k].toks # <<L, b>>
      <4>1. PICK d : made[k] = <<d>> /\ Renamed(n[k], d, x, u) BY <1>3, <2>2, <3>2
      <4>2. Len(made[k]) = 1 /\ made[k][1] = d BY <4>1
      <4>3. j = 1 BY <4>2
      <4> QED BY <2>2, <4>1, <4>2, <4>3 DEF Renamed
    <3> QED BY <3>1, <3>2
  <2> QED BY <1>3, <2>1, <2>2 DEF Preserves
<1>7. IsRewritten(n, made, c) BY <1>6, RewrittenIs DEF c
<1>8. /\ OfKind(c, "inputs") = OfKind(n, "inputs")
      /\ OfKind(c, "outputs") = OfKind(n, "outputs")
      /\ Len(LutsOf(c)) = Len(luts)
      /\ \A j \in DOMAIN luts : \E k \in 1 .. Len(n) : luts[j] = n[k] /\ LutsOf(c)[j] = made[k][1]
      /\ Passes(c) = LatchesMade(n, made)
  BY <1>7 DEF IsRewritten
<1>9. \A j \in DOMAIN luts : luts[j].kind = "names" BY LinesOfKind DEF LutsOf
<1>10. \A j \in DOMAIN luts : luts[j] = luts[h] => j = h BY <1>1, WellFormedIs
<1>11. ASSUME NEW j \in DOMAIN luts
       PROVE  IF j = h THEN NowReads(luts[j], LutsOf(c)[j], b, v)
              ELSE Renamed(luts[j], LutsOf(c)[j], x, u)
  <2>1. PICK k \in 1 .. Len(n) : luts[j] = n[k] /\ LutsOf(c)[j] = made[k][1] BY <1>8
  <2>2. n[k].kind = "names" BY <1>9, <2>1
  <2>3. PICK d : /\ made[k] = <<d>>
                 /\ IF n[k] = luts[h] THEN NowReads(n[k], d, b, v) ELSE Renamed(n[k], d, x, u)
    BY <1>3, <2>2
  <2>4. made[k][1] = d BY <2>3
  <2> QED BY <1>10, <2>1, <2>3, <2>4
<1>12. LutsOf(c)[h].toks = [p \in DOMAIN luts[h].toks |->
                              IF p = Len(luts[h].toks) THEN b ELSE v[p]]
  <2>1. NowReads(luts[h], LutsOf(c)[h], b, v) BY <1>1, <1>11
  <2> QED BY <2>1 DEF NowReads
<1>13. \A k \in DOMAIN luts \ {h} :
         /\ L \notin ToSet(luts[k].toks)
         /\ LutsOf(c)[k].toks = [p \in DOMAIN luts[k].toks |-> Ren(x, u, luts[k].toks[p])]
  <2> SUFFICES ASSUME NEW k \in DOMAIN luts \ {h}
               PROVE  /\ L \notin ToSet(luts[k].toks)
                      /\ LutsOf(c)[k].toks =
                           [p \in DOMAIN luts[k].toks |-> Ren(x, u, luts[k].toks[p])]
    OBVIOUS
  <2>1. ~Includes(luts[k], L) BY <1>1 DEF CoversBackward
  <2>2. ~Mentions(luts[k], L) BY <2>1, MentionsIncludes
  <2>3. Renamed(luts[k], LutsOf(c)[k], x, u) BY <1>11
  <2> QED BY <2>2, <2>3 DEF Mentions, Renamed
<1>14. \A p \in Passes(n) : p[1] = L => p[2] = b
  <2>1. \A p \in Passes(n) : \E t \in ToSet(OfKind(n, "latch")) :
          p[1] = t.toks[1] /\ p[2] = t.toks[2]
    BY PassIs
  <2>2. \A t \in ToSet(OfKind(n, "latch")) : t.toks[1] \in ToSet(t.toks)
    <3> DEFINE M == NamesOf(P)
    <3>1. n \in Seq(Line(M)) OBVIOUS
    <3> HIDE DEF M
    <3>2. \A t \in ToSet(OfKind(n, "latch")) : t \in Line(M) /\ t.kind = "latch"
      BY <3>1, LinesOfKind DEF ToSet
    <3>3. \A t \in ToSet(OfKind(n, "latch")) : ToSet(t.toks) = {t.toks[1], t.toks[2]}
      BY <3>2, LatchLines
    <3> QED BY <3>3
  <2>3. \A t : t.toks = <<L, b>> => t.toks[2] = b
    <3> DEFINE q == <<L, b>>
    <3>1. q[2] = b OBVIOUS
    <3> HIDE DEF q
    <3>2. \A t : t.toks = q => t.toks[2] = b BY <3>1
    <3> QED BY <3>2 DEF q
  <2> QED BY <1>1, <2>1, <2>2, <2>3 DEF Mentions
<1>15. Passes(c) = {<<Ren(x, u, p[1]), Ren(x, u, p[2])>> : p \in Passes(n) \ {<<L, b>>}}
                     \cup {<<u[k], v[k]>> : k \in DOMAIN x}
  <2> DEFINE K == {k \in 1 .. Len(n) : n[k].kind = "latch"}
             pass(t) == <<t.toks[1], t.toks[2]>>
             ren(p) == <<Ren(x, u, p[1]), Ren(x, u, p[2])>>
             q == <<L, b>>
  <2>1. /\ \A k \in K : pass(n[k]) \in Passes(n)
        /\ \A p \in Passes(n) : \E k \in K : p = pass(n[k])
    <3>1. PassesArePairs(n) BY PassesOf
    <3>2. \A p \in Passes(n) : p = <<p[1], p[2]>> BY PassIs
    <3>3. \A k \in K : pass(n[k]) \in Passes(n) BY <3>1 DEF PassesArePairs
    <3>4. ASSUME NEW p \in Passes(n) PROVE \E k \in K : p = pass(n[k])
      <4>1. PICK k \in 1 .. Len(n) :
              n[k].kind = "latch" /\ p[1] = n[k].toks[1] /\ p[2] = n[k].toks[2]
        BY <3>1 DEF PassesArePairs
      <4>2. k \in K BY <4>1
      <4>3. p = pass(n[k]) BY <3>2, <4>1
      <4> HIDE DEF K, pass
      <4> QED BY <4>2, <4>3
    <3> HIDE DEF K, pass
    <3> QED BY <3>3, <3>4
  <2>2. ASSUME NEW k \in K
        PROVE  /\ n[k].toks = q <=> pass(n[k]) = q
               /\ DOMAIN n[k].toks = {1, 2}
    <3>1. n[k] \in Line(NamesOf(P)) /\ n[k].kind = "latch" OBVIOUS
    <3>2. n[k].toks \in Seq(NamesOf(P)) /\ Len(n[k].toks) = 2
          /\ DOMAIN n[k].toks = 1 .. Len(n[k].toks)
      BY <3>1, LineFields
    <3>3. n[k].toks = <<n[k].toks[1], n[k].toks[2]>> BY <3>2
    <3>4. n[k].toks = pass(n[k]) BY <3>3
    <3>5. DOMAIN n[k].toks = {1, 2} BY <3>2
    <3> HIDE DEF q, pass
    <3> QED BY <3>4, <3>5
  <2>3. LatchesMade(n, made) = UNION {{pass(t) : t \in ToSet(made[k])} : k \in K}
    BY DEF LatchesMade
  <2>4. ASSUME NEW k \in K
        PROVE  {pass(t) : t \in ToSet(made[k])} =
                 IF pass(n[k]) = q THEN {<<u[j], v[j]>> : j \in DOMAIN x}
                 ELSE {ren(pass(n[k]))}
    <3>1. CASE n[k].toks = q
      <4>1. made[k] = [j \in DOMAIN x |-> Latch(u[j], v[j])] BY <1>3, <1>4, <3>1
      <4>2. ToSet(made[k]) = {Latch(u[j], v[j]) : j \in DOMAIN x} BY <4>1 DEF ToSet
      <4>3. \A j \in DOMAIN x : pass(Latch(u[j], v[j])) = <<u[j], v[j]>> BY <1>5
      <4>4. pass(n[k]) = q BY <2>2, <3>1
      <4> HIDE DEF pass, q
      <4>5. {pass(t) : t \in ToSet(made[k])} = {<<u[j], v[j]>> : j \in DOMAIN x}
        BY <4>2, <4>3
      <4> QED BY <4>4, <4>5
    <3>2. CASE n[k].toks # q
      <4>1. PICK d : made[k] = <<d>> /\ Renamed(n[k], d, x, u) BY <1>3, <3>2
      <4>2. ToSet(made[k]) = {d} BY <4>1 DEF ToSet
      <4>3. d.toks[1] = Ren(x, u, n[k].toks[1]) /\ d.toks[2] = Ren(x, u, n[k].toks[2])
        BY <2>2, <4>1 DEF Renamed
      <4>4. pass(d) = ren(pass(n[k])) BY <4>3
      <4> HIDE DEF pass, q, ren
      <4> QED BY <2>2, <3>2, <4>2, <4>4
    <3> QED BY <3>1, <3>2
  <2>5. q \in Passes(n) BY <1>1
  <2>6. Passes(c) = {ren(p) : p \in Passes(n) \ {q}} \cup {<<u[j], v[j]>> : j \in DOMAIN x}
    <3> DEFINE W == {<<u[j], v[j]>> : j \in DOMAIN x}
    <3>1. \A k \in K : {pass(t) : t \in ToSet(made[k])} =
            IF pass(n[k]) = q THEN W ELSE {ren(pass(n[k]))}
      BY <2>4
    <3> HIDE DEF pass, q, ren, K, W
    <3>2. ASSUME NEW p \in Passes(c) PROVE p \in {ren(r) : r \in Passes(n) \ {q}} \cup W
      <4>1. PICK k \in K : p \in {pass(t) : t \in ToSet(made[k])} BY <1>8, <2>3
      <4> QED BY <2>1, <3>1, <4>1
    <3>3. ASSUME NEW p \in Passes(n) \ {q} PROVE ren(p) \in Passes(c)
      <4>1. PICK k \in K : p = pass(n[k]) BY <2>1
      <4>2. ren(p) \in {pass(t) : t \in ToSet(made[k])} BY <3>1, <4>1
      <4> QED BY <1>8, <2>3, <4>2
    <3>4. W \subseteq Passes(c)
      <4>1. PICK k \in K : q = pass(n[k]) BY <2>1, <2>5
      <4>2. W = {pass(t) : t \in ToSet(made[k])} BY <3>1, <4>1
      <4> QED BY <1>8, <2>3, <4>2
    <3> QED BY <3>2, <3>3, <3>4 DEF W
  <2> QED BY <2>6
<1> HIDE DEF luts
<1>16. MovedBackward(n, c, h, b, u, v)
  BY <1>1, <1>8, <1>12, <1>13, <1>14, <1>15 DEF MovedBackward, luts
<1> QED BY <1>16 DEF c, u, v

\* What BlifBackwardModify writes for a move that the rewriting covers, of the
\* flip-flop b that LUT L drives, is a well-formed netlist and the retiming that
\* moves one latch backward over L.
THEOREM BackwardIsRetiming ==
  ASSUME NEW P, HasSuffixes(P), NEW n \in Seq(Line(NamesOf(P))), WellFormed(n), SoundNet(n),
         NEW b \in NamesOf(P), NEW L \in Seq(P), <<L, b>> \in Passes(n),
         \E k \in DOMAIN LutsOf(n) : L = OutputOf(LutsOf(n)[k]),
         Backward(n, b, L).ok, SuitsBackward(n, b, L)
  PROVE  /\ WellFormed(Backward(n, b, L).net)
         /\ IsRetiming(n, Backward(n, b, L).net, Over(n, L, 1))
<1> DEFINE R == Line(NamesOf(P))
           x == LutInputs(n, L)
           c == Backward(n, b, L).net
           u == NewNamesFor(x, L)
           v == NewNamesFor(x, b)
<1>1. x \in Seq(Seq(P))
  <2>1. PICK k \in DOMAIN LutsOf(n) : L = OutputOf(LutsOf(n)[k]) OBVIOUS
  <2>2. Mentions(LutsOf(n)[k], L) BY <2>1, LutsAre DEF Mentions
  <2> QED BY <2>2, LutInputsAre
<1>2. Len(x) \in 2 .. 4 BY DEF SuitsBackward
<1>3. PICK made \in [1 .. Len(n) -> Seq(R)] :
        BackwardMade(n, b, L, made) /\ MayMoveBackward(n, x) /\ c = FlattenSeq(made)
  BY <1>1, <1>2, BackwardText
<1>4. PICK h : BackwardReads(n, h, b, L, x, u, v) BY <1>3, BackwardIsRead
<1>5. BackwardLines(n, h, b, L, x, made) BY <1>1, <1>3, <1>4, BackwardMakes
<1>6. h \in DOMAIN LutsOf(n) /\ L = OutputOf(LutsOf(n)[h]) BY <1>4 DEF BackwardReads
<1>7. c \in Seq(R)
  <2>1. Len(n) \in Nat OBVIOUS
  <2> HIDE DEF R, c
  <2> QED BY <1>3, <2>1, FlattenedLines
<1> HIDE DEF x
<1>8. MovedBackward(n, c, h, b, u, v)
  <2> DEFINE M == NamesOf(P)
  <2>1. made \in [1 .. Len(n) -> Seq(Line(M))] OBVIOUS
  <2> HIDE DEF M, R, c
  <2>2. MovedBackward(n, FlattenSeq(made), h, b, NewNamesFor(x, L), NewNamesFor(x, b))
    BY <1>1, <1>4, <1>5, <2>1, BackwardMoves
  <2> QED BY <1>3, <2>2
<1> DEFINE lags == [k \in DOMAIN LutsOf(n) |-> IF k = h THEN 1 ELSE 0]
<1>9. WellFormed(c) /\ IsRetiming(n, c, lags)
  <2> DEFINE M == NamesOf(P)
  <2>1. n \in Seq(Line(M)) /\ c \in Seq(Line(M)) BY <1>7
  <2> HIDE DEF M, R, c, u, v
  <2> QED BY <1>8, <2>1, BackwardFormed, BackwardRetimes
<1>10. lags = Over(n, L, 1) BY <1>6, OverOne
<1> QED BY <1>9, <1>10

-----------------------------------------------------------------------------
(***************************************************************************)
(* The moves of a run, one after the other.                                *)
(***************************************************************************)
\* The user's netlist stays well formed, and so is every netlist that moves have
\* made of it; a move is made of one VPR has timed.
RetimedInv ==
  /\ TypedInv
  /\ WellFormed(files[0])
  /\ suited /\ net # <<>> => WellFormed(net) /\ IsRetiming(files[0], net, lag)
  /\ pc = "retime" => net # <<>> /\ SoundNet(net)

\* The path a report tells ends behind the last LUT on it.
LEMMA ReportsEnd ==
  ASSUME NEW P, NEW n \in Seq(Line(NamesOf(P))), WellFormed(n), NEW r \in Reports(n),
         r.end \in FlipFlops(n)
  PROVE  /\ <<r.last, r.end>> \in Passes(n)
         /\ \E k \in DOMAIN LutsOf(n) : r.last = OutputOf(LutsOf(n)[k])
<1> DEFINE luts == LutsOf(n)
           latches == OfKind(n, "latch")
<1>1. PICK k \in DOMAIN luts : r \in PathsFrom(n, k) BY DEF Reports
<1> DEFINE starts == ToSet(InputPins(luts[k])) \cap (NamesOn(n, "inputs") \cup FlipFlops(n))
           EndsOf(x) == {t.toks[2] : t \in {u \in ToSet(latches) : u.toks[1] = x}}
                        \cup ({x} \cap NamesOn(n, "outputs"))
           lasts == {OutputOf(luts[j]) : j \in Below(n, k)}
<1>2. PICK x \in lasts :
        r \in [start : starts, first : {OutputOf(luts[k])}, last : {x}, end : EndsOf(x)]
  BY <1>1 DEF PathsFrom
<1>3. r.last = x /\ r.end \in EndsOf(x)
  <2> HIDE DEF starts, EndsOf, lasts, luts
  <2> QED BY <1>2
<1>4. \E j \in DOMAIN luts : x = OutputOf(luts[j])
  <2>1. InputPins(luts[k]) # <<>> BY WellFormedIs
  <2>2. \A j \in Below(n, k) : j \in DOMAIN luts BY <2>1, BelowHaveInputs
  <2> QED BY <1>2, <2>2
<1>5. \E t \in ToSet(latches) : r.end = t.toks[2] BY DEF FlipFlops
<1>6. \A t \in ToSet(latches) : <<t.toks[1], t.toks[2]>> \in Passes(n) BY DEF Passes
<1>7. \A j \in DOMAIN luts, p \in Passes(n) : OutputOf(luts[j]) # p[2] BY WellFormedIs
<1>8. r.end # x
  <2>1. PICK t \in ToSet(latches) : r.end = t.toks[2] BY <1>5
  <2> DEFINE p == <<t.toks[1], t.toks[2]>>
  <2>2. p \in Passes(n) /\ p[2] = r.end BY <1>6, <2>1
  <2> HIDE DEF p, luts, latches, lasts
  <2> QED BY <1>4, <1>7, <2>2
<1>9. PICK t \in ToSet(latches) : t.toks[1] = x /\ t.toks[2] = r.end BY <1>3, <1>8
<1>10. <<x, r.end>> \in Passes(n) BY <1>6, <1>9
<1> QED BY <1>3, <1>4, <1>10

\* One move more.
LEMMA RetimedFurther ==
  ASSUME RetimedInv, suited, net # <<>>, NEW c, NEW L, NEW d \in Int,
         IsRetiming(net, c, Over(net, L, d))
  PROVE  IsRetiming(files[0], c, Lagged(net, L, d))
<1> DEFINE a == files[0]
           n == net
           more == Over(n, L, d)
           M == Text \ {<<>>}
<1>1. a \in Seq(Line(M)) /\ n \in Seq(Line(M)) /\ lag \in [DOMAIN LutsOf(a) -> Int]
  BY DEF RetimedInv, TypedInv, TypeOK, net
<1>2. IsRetiming(a, n, lag) /\ OfKind(a, "inputs") # <<>>
  <2>1. OfKind(a, "inputs") # <<>> BY <1>1, Once DEF RetimedInv
  <2> QED BY <2>1 DEF RetimedInv
<1>3. DOMAIN LutsOf(a) = DOMAIN LutsOf(n)
  <2>1. Len(LutsOf(a)) = Len(LutsOf(n)) BY <1>2, RetimingIs
  <2>2. /\ DOMAIN LutsOf(a) = 1 .. Len(LutsOf(a))
        /\ DOMAIN LutsOf(n) = 1 .. Len(LutsOf(n))
    BY <1>1, LinesOfKind DEF LutsOf
  <2> HIDE DEF a, n
  <2> QED BY <2>1, <2>2
<1>4. lag \in Lags(a) /\ more \in Lags(a)
  <2>1. more \in [DOMAIN LutsOf(n) -> Int] BY DEF Over
  <2> HIDE DEF more, a, n
  <2> QED BY <1>1, <1>3, <2>1 DEF Lags
<1>5. Lagged(n, L, d) = [k \in DOMAIN lag |-> lag[k] + more[k]]
  <2>1. \A k \in DOMAIN lag : lag[k] \in Int /\ k \in DOMAIN LutsOf(n) BY <1>1, <1>3
  <2>2. \A k \in DOMAIN LutsOf(n) : more[k] = IF OutputOf(LutsOf(n)[k]) = L THEN d ELSE 0
    BY DEF Over
  <2> HIDE DEF more, n
  <2> QED BY <2>1, <2>2 DEF Lagged
<1>6. IsRetiming(n, c, more) OBVIOUS
<1> HIDE DEF a, n, more, M
<1>7. IsRetiming(a, c, [k \in DOMAIN lag |-> lag[k] + more[k]])
  BY <1>1, <1>2, <1>4, <1>6, RetimingsCompose
<1> QED BY <1>5, <1>7 DEF a, n

\* What a move writes is the next netlist.
LEMMA WriteRetimed ==
  ASSUME RetimedInv, TypedInv', NEW move, Write(move), pc' # "retime",
         suited' /\ move.net # <<>> =>
           WellFormed(move.net) /\ IsRetiming(files[0], move.net, lag')
  PROVE  RetimedInv'
<1>1. 0 \in DOMAIN files /\ i \in Nat BY DEF RetimedInv, TypedInv, TypeOK
<1>2. files'[0] = files[0] /\ files'[FP'] = move.net
  <2>1. /\ FP' = i + 1 /\ i + 1 # 0
        /\ DOMAIN files' = DOMAIN files \cup {i + 1}
        /\ \A k \in DOMAIN files' : files'[k] = IF k = i + 1 THEN move.net ELSE files[k]
    BY <1>1 DEF Write, With
  <2> QED BY <1>1, <2>1
<1>3. WellFormed(files'[0]) BY <1>2 DEF RetimedInv
<1>4. suited' /\ files'[FP'] # <<>> =>
        WellFormed(files'[FP']) /\ IsRetiming(files'[0], files'[FP'], lag')
  BY <1>2
<1> QED BY <1>3, <1>4 DEF RetimedInv, net

\* The backward move of an iteration.
LEMMA MoveBackwardRetimes ==
  ASSUME RetimedInv, TypedInv', MoveBackward
  PROVE  RetimedInv'
<1> DEFINE P == Pieces(files[0])
           n == net
           b == report.end
           L == report.last
           move == Backward(n, b, L)
<1>1. /\ pc = "retime" /\ b \in FlipFlops(n) /\ Write(move) /\ pc' = "vpr"
      /\ lag' = Lagged(n, L, 1) /\ suited' = (suited /\ move.ok /\ SuitsBackward(n, b, L))
  BY DEF MoveBackward, EndsAtFlipFlop
<1>2. n # <<>> /\ SoundNet(n) /\ report \in Reports(n) BY <1>1 DEF RetimedInv, TypedInv
<1>3. n \in Seq(Line(NamesOf(P))) BY TextIs DEF RetimedInv, TypedInv, TypeOK, net
<1>4. ASSUME suited' PROVE WellFormed(move.net) /\ IsRetiming(files[0], move.net, lag')
  <2>1. suited /\ move.ok /\ SuitsBackward(n, b, L) BY <1>1, <1>4
  <2>2. WellFormed(n) BY <1>2, <2>1 DEF RetimedInv
  <2>3. b \in NamesOf(P) /\ L \in Seq(P)
    <3> HIDE DEF P, n
    <3> QED BY <1>2, <1>3, ReportsAre DEF NamesOf
  <2>4. <<L, b>> \in Passes(n) /\ \E k \in DOMAIN LutsOf(n) : L = OutputOf(LutsOf(n)[k])
    <3> HIDE DEF P, n
    <3> QED BY <1>1, <1>2, <1>3, <2>2, ReportsEnd
  <2>5. WellFormed(move.net) /\ IsRetiming(n, move.net, Over(n, L, 1))
    <3>1. HasSuffixes(P) BY TextIs
    <3> HIDE DEF P, n, b, L
    <3> QED BY <1>2, <1>3, <2>1, <2>2, <2>3, <2>4, <3>1, BackwardIsRetiming
  <2>6. 1 \in Int OBVIOUS
  <2> HIDE DEF move, L
  <2> QED BY <1>1, <1>2, <2>1, <2>5, <2>6, RetimedFurther
<1> HIDE DEF move
<1> QED BY <1>1, <1>4, WriteRetimed

\* A forward move that goes through ends the claim, one that does not leaves an
\* empty file.
LEMMA MoveForwardRetimes ==
  ASSUME RetimedInv, TypedInv', pc = "retime", WriteForward(forwardFF', forwardLUT')
  PROVE  RetimedInv'
<1> DEFINE move == Forward(net, forwardFF', forwardLUT')
<1>1. /\ Write(move)
      /\ IF move.ok THEN pc' = "vpr" /\ suited' = FALSE ELSE pc' = "finish"
  BY DEF WriteForward
<1>2. ~move.ok => move.net = <<>>
  <2>1. move = Failed \/ move.ok BY DEF Forward, Rewritten
  <2> QED BY <2>1 DEF Failed
<1> HIDE DEF move
<1>3. suited' /\ move.net # <<>> =>
        WellFormed(move.net) /\ IsRetiming(files[0], move.net, lag')
  BY <1>1, <1>2
<1> QED BY <1>1, <1>3, WriteRetimed

\* The user's netlist is a retiming of itself.
LEMMA InitRetimed == Init => RetimedInv
<1> SUFFICES ASSUME Init PROVE RetimedInv OBVIOUS
<1>1. PICK n \in Netlists : /\ files = [k \in {0} |-> n]
                            /\ lag = [k \in DOMAIN LutsOf(n) |-> 0]
  BY DEF Init
<1>2. files[0] = n /\ net = n BY <1>1 DEF Init, net
<1>3. n \in Seq(Line(Seq(STRING) \ {<<>>})) /\ WellFormed(n) BY NetlistsAssumption
<1>4. IsRetiming(n, n, lag)
  <2> DEFINE M == Seq(STRING) \ {<<>>}
  <2>1. n \in Seq(Line(M)) BY <1>3
  <2> HIDE DEF M
  <2>2. OfKind(n, "inputs") # <<>> BY <1>3, <2>1, Once
  <2>3. IsRetiming(n, n, [k \in DOMAIN LutsOf(n) |-> 0]) BY <2>1, <2>2, NothingMoved
  <2> QED BY <1>1, <2>3
<1>5. pc = "vpr" BY DEF Init
<1> QED BY <1>2, <1>3, <1>4, <1>5, InitTyped DEF RetimedInv

\* No other step changes a netlist or a lag.
LEMMA OthersRetimed ==
  ASSUME RetimedInv, TypedInv', UNCHANGED <<files, FP, lag, suited>>,
         pc' = "retime" => pc = "retime" \/ (net # <<>> /\ SoundNet(net))
  PROVE  RetimedInv'
<1>1. net' = net BY DEF net
<1> QED BY <1>1 DEF RetimedInv

\* Every action of the driver keeps the netlist a retiming.
LEMMA NextRetimed == RetimedInv /\ [Next]_vars => RetimedInv'
<1> SUFFICES ASSUME RetimedInv, [Next]_vars PROVE RetimedInv' OBVIOUS
<1>1. TypedInv' BY NextTyped DEF RetimedInv
<1>2. CASE Time BY <1>1, <1>2, OthersRetimed DEF Time
<1>3. CASE TimeFails BY <1>1, <1>3, OthersRetimed DEF TimeFails
<1>4. CASE MoveBackward BY <1>1, <1>4, MoveBackwardRetimes
<1>5. CASE MoveForwardInstead BY <1>1, <1>5, MoveForwardRetimes DEF MoveForwardInstead
<1>6. CASE MoveForward BY <1>1, <1>6, MoveForwardRetimes DEF MoveForward
<1>7. CASE NoMove BY <1>1, <1>7, OthersRetimed DEF NoMove
<1>8. CASE Finish BY <1>1, <1>8, OthersRetimed DEF Finish
<1>9. CASE UNCHANGED vars BY <1>1, <1>9, OthersRetimed DEF vars
<1> QED BY <1>2, <1>3, <1>4, <1>5, <1>6, <1>7, <1>8, <1>9 DEF Next

\* However many moves are made, on whatever LUTs: as long as they are backward moves
\* the rewriting covers, the current netlist (SR.cpp writes it, VPR reads it) is a
\* retiming of the user's, by the lags that the moves add up to.
THEOREM NetRetimed == Spec => []NetIsRetimed
<1>1. RetimedInv => NetIsRetimed BY DEF RetimedInv, NetIsRetimed
<1> QED BY <1>1, InitRetimed, NextRetimed, PTL DEF Spec

\* A forward move that went through was no retiming.
LEMMA ForwardBreaks ==
  ASSUME RetimedInv, RetimedInv', Next, suited, FreshNames(net),
         MoveForward \/ MoveForwardInstead, pc' = "vpr",
         forwardFF' \in FlipFlops(net), Seen(net, forwardLUT')
  PROVE  ~IsRetiming(net, net', [k \in DOMAIN lag |-> lag'[k] - lag[k]])
<1> DEFINE P == Pieces(files[0])
           n == net
           f == forwardFF'
           L == forwardLUT'
           move == Forward(n, f, L)
<1>1. pc = "retime" /\ WriteForward(f, L) BY DEF MoveForward, MoveForwardInstead
<1>2. Write(move) /\ move.ok /\ lag' = Lagged(n, L, -1) BY <1>1 DEF WriteForward
<1>3. n # <<>> BY <1>1 DEF RetimedInv
<1>4. WellFormed(n) /\ IsRetiming(files[0], n, lag) BY <1>3 DEF RetimedInv
<1>5. n \in Seq(Line(NamesOf(P))) BY TextIs DEF RetimedInv, TypedInv, TypeOK, net
<1>6. f \in Seq(P)
  <2>1. i \in Nat /\ i + 1 # 0 /\ 0 \in DOMAIN files BY DEF RetimedInv, TypedInv, TypeOK
  <2>2. files'[0] = files[0] BY <1>2, <2>1 DEF Write, With
  <2>3. Text' = Text BY <2>2, TextStays
  <2> QED BY <2>3, TextIs DEF RetimedInv, TypedInv, TypeOK
<1>7. net' = move.net BY <1>2 DEF Write, With, net
<1>8. [k \in DOMAIN lag |-> lag'[k] - lag[k]] = Over(n, L, -1)
  <2> DEFINE a == files[0]
             one(k) == OutputOf(LutsOf(n)[k]) = L
  <2>1. a \in Seq(Line(Text \ {<<>>})) /\ lag \in [DOMAIN LutsOf(a) -> Int]
    BY DEF RetimedInv, TypedInv, TypeOK
  <2>2. Len(LutsOf(a)) = Len(LutsOf(n)) BY <1>4, RetimingIs
  <2>3. /\ DOMAIN LutsOf(a) = 1 .. Len(LutsOf(a))
        /\ DOMAIN LutsOf(n) = 1 .. Len(LutsOf(n))
    BY <1>5, <2>1, LinesOfKind DEF LutsOf
  <2> HIDE DEF a
  <2>4. DOMAIN lag = DOMAIN LutsOf(n) /\ \A k \in DOMAIN lag : lag[k] \in Int
    BY <2>1, <2>2, <2>3
  <2>5. /\ lag' = [k \in DOMAIN lag |-> IF one(k) THEN lag[k] + -1 ELSE lag[k]]
        /\ Over(n, L, -1) = [k \in DOMAIN LutsOf(n) |-> IF one(k) THEN -1 ELSE 0]
    BY <1>2 DEF Lagged, Over
  <2> HIDE DEF one, n
  <2> QED BY <2>4, <2>5
<1>9. HasSuffixes(P) BY TextIs
<1>10. ~IsRetiming(n, move.net, Over(n, L, -1))
  <2>1. FreshNames(n) /\ f \in FlipFlops(n) /\ Seen(n, L) OBVIOUS
  <2> HIDE DEF P, n, f, L
  <2> QED BY <1>2, <1>4, <1>5, <1>6, <1>9, <2>1, ForwardIsNone DEF move
<1> QED BY <1>7, <1>8, <1>10

\* However many backward moves the rewriting covered before: the forward move that
\* BlifForwardModify (SR.cpp) then writes is not the retiming it is announced as.
THEOREM NoForwardMoveIsLegal == Spec => ForwardIsNoRetiming
<1> DEFINE A ==
      /\ suited /\ FreshNames(net) /\ (MoveForward \/ MoveForwardInstead) /\ pc' = "vpr"
      /\ forwardFF' \in FlipFlops(net) /\ Seen(net, forwardLUT')
      => ~IsRetiming(net, net', [k \in DOMAIN lag |-> lag'[k] - lag[k]])
<1>1. RetimedInv /\ RetimedInv' /\ [Next]_vars => [A]_vars
  <2> SUFFICES ASSUME RetimedInv, RetimedInv', Next PROVE A OBVIOUS
  <2> QED BY ForwardBreaks
<1> QED BY <1>1, InitRetimed, NextRetimed, PTL DEF Spec, ForwardIsNoRetiming
=============================================================================
