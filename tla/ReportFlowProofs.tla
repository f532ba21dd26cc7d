-------------------------- MODULE ReportFlowProofs --------------------------
(***************************************************************************)
(* The paths of two reports of any length on their way into LBTB's delay   *)
(* graph.                                                                  *)
(*                                                                         *)
(* While a report is read the invariant says what each line of a path      *)
(* leaves behind, the second word in memory among it: of the lines of the  *)
(* path k+1 three are taken for arrivals, and so the count is 3k at its    *)
(* beginning.  In the join every hold row marked or passed has a row in    *)
(* the file; of aligned reports every setup row has one too, and no row    *)
(* has a delay that is not a path's.  What is then read is the subject of  *)
(* TimingGraphProofs, whose invariant is made here when the file is        *)
(* written and kept by its own lemma.                                      *)
(***************************************************************************)
EXTENDS ReportFlow, CommonProofs, SequenceTheorems

\* The words of a report.
Word == Name \cup Int \cup
  {"#Timing", "report", "of", "worst", "100", "path(s)", "#End", "timing",
   "Startpoint:", "Endpoint", ":", "Point", "Incr", "Path", "-----", "data",
   "arrival", "time", "required", "slack", "(MET)"}

-----------------------------------------------------------------------------
(***************************************************************************)
(* The lines of a report.                                                  *)
(***************************************************************************)
LEMMA PathLinesAre ==
  ASSUME NEW p \in Path
  PROVE  /\ PathLines(p) \in Seq(Seq(Word)) /\ Len(PathLines(p)) = 13
         /\ PathLines(p)[1] = <<"Startpoint:", p.from>>
         /\ PathLines(p)[2] = <<"Endpoint", ":", p.to>>
         /\ PathLines(p)[3] = <<"Point", "Incr", "Path">>
         /\ PathLines(p)[4] = <<"-----">>
         /\ PathLines(p)[5] = <<"data", "arrival", "time", p.delay>>
         /\ PathLines(p)[6] = <<>>
         /\ PathLines(p)[7] = <<"data", "required", "time", 0>>
         /\ PathLines(p)[8] = <<"-----">>
         /\ PathLines(p)[9] = <<"data", "required", "time", 0>>
         /\ PathLines(p)[10] = <<"data", "arrival", "time", -p.delay>>
         /\ PathLines(p)[11] = <<"-----">>
         /\ PathLines(p)[12] = <<"slack", "(MET)", 0>>
         /\ PathLines(p)[13] = <<>>
         /\ \A x \in 1 .. 13 : /\ PathLines(p)[x] \in Seq(Word)
                             /\ PathLines(p)[x] # EndOfReport
<1>1. p.from \in Word /\ p.to \in Word /\ p.delay \in Word /\ -p.delay \in Word /\ 0 \in Word
      /\ p.delay \in Int
  BY DEF Path, Time, Word
<1>2. {"Startpoint:", "Endpoint", ":", "Point", "Incr", "Path", "-----", "data",
       "arrival", "time", "required", "slack", "(MET)"} \subseteq Word
  BY DEF Word
<1> HIDE DEF Word
<1>4. PathLines(p) \in Seq(Seq(Word)) BY <1>1, <1>2 DEF PathLines
<1> DEFINE l == PathLines(p)
<1>5. /\ l[1] = <<"Startpoint:", p.from>> /\ l[2] = <<"Endpoint", ":", p.to>>
      /\ l[3] = <<"Point", "Incr", "Path">> /\ l[4] = <<"-----">>
      /\ l[5] = <<"data", "arrival", "time", p.delay>> /\ l[6] = <<>>
      /\ l[7] = <<"data", "required", "time", 0>> /\ l[8] = <<"-----">>
      /\ l[9] = <<"data", "required", "time", 0>>
      /\ l[10] = <<"data", "arrival", "time", -p.delay>> /\ l[11] = <<"-----">>
      /\ l[12] = <<"slack", "(MET)", 0>> /\ l[13] = <<>> /\ Len(l) = 13
  BY DEF PathLines
<1> HIDE DEF l
<1>6. ASSUME NEW x \in 1 .. 13 PROVE l[x] \in Seq(Word) /\ l[x] # EndOfReport
  <2>1. l[x] \in Seq(Word)
    <3> DEFINE W == Seq(Word)
    <3>1. l \in Seq(W) /\ x \in 1 .. Len(l) BY <1>4, <1>5 DEF l
    <3> HIDE DEF W
    <3>2. l[x] \in W BY <3>1, ElementOfSeq
    <3> QED BY <3>2 DEF W
  <2>2. CASE x \in {1, 2, 3, 4, 5, 6} BY <1>5, <2>1, <2>2 DEF EndOfReport
  <2>3. CASE x \in {7, 8, 9, 10, 11, 12, 13} BY <1>5, <2>1, <2>3 DEF EndOfReport
  <2> QED BY <2>1, <2>2, <2>3
<1> QED BY <1>4, <1>5, <1>6 DEF l

\* The 13 lines of a path follow those of the path before.
LEMMA LinesOfPaths ==
  ASSUME NEW paths \in Seq(Path),
         NEW s, s = FlattenSeq([k \in DOMAIN paths |-> PathLines(paths[k])])
  PROVE  /\ s \in Seq(Seq(Word)) /\ Len(s) = 13 * Len(paths)
         /\ \A k \in 0 .. Len(paths) - 1, m \in 1 .. 13 :
              s[13 * k + m] = PathLines(paths[k + 1])[m]
<1> DEFINE n == Len(paths)
           W == Seq(Word)
           seqs == [k \in 1 .. n |-> PathLines(paths[k])]
<1>1. n \in Nat /\ DOMAIN paths = 1 .. n /\ \A k \in 1 .. n : paths[k] \in Path OBVIOUS
<1>2. ASSUME NEW k \in 1 .. n
      PROVE  seqs[k] = PathLines(paths[k]) /\ seqs[k] \in Seq(W) /\ Len(seqs[k]) = 13
  BY <1>1, PathLinesAre
<1>3. s = FlattenSeq(seqs) BY <1>1
<1>4. seqs \in [1 .. n -> Seq(W)] BY <1>2
<1> HIDE DEF n, seqs, W
<1>5. PICK f : Joined(W, n, seqs, f, s) BY <1>1, <1>3, <1>4, Flattened
<1>6. /\ f \in [0 .. n -> Seq(W)] /\ f[0] = <<>> /\ f[n] = s
      /\ \A k \in 1 .. n : f[k] = f[k - 1] \o seqs[k]
  BY <1>5 DEF Joined
<1> DEFINE Good(k) == /\ Len(f[k]) = 13 * k
                      /\ \A q \in 0 .. k - 1, m \in 1 .. 13 : f[k][13 * q + m] = seqs[q + 1][m]
           X == {k \in 0 .. n : Good(k)}
<1>7. 0 \in X BY <1>1, <1>6
<1>8. ASSUME NEW k \in 1 .. n, k - 1 \in X PROVE k \in X
  <2> DEFINE a == f[k - 1]
             b == seqs[k]
             c == f[k]
  <2>1. a \in Seq(W) /\ b \in Seq(W) /\ c = a \o b
    <3>1. k - 1 \in 0 .. n BY <1>1
    <3>2. f[k] = f[k - 1] \o seqs[k] /\ f[k - 1] \in Seq(W) BY <1>6, <3>1
    <3> QED BY <1>4, <3>2
  <2>2. /\ Len(a) = 13 * (k - 1)
        /\ \A q \in 0 .. k - 2, m \in 1 .. 13 : a[13 * q + m] = seqs[q + 1][m]
    <3>1. Good(k - 1) BY <1>8
    <3>2. k - 1 - 1 = k - 2 BY <1>1
    <3> QED BY <3>1, <3>2
  <2>3. Len(b) = 13 BY <1>2
  <2> HIDE DEF a, b, c
  <2> DEFINE z == 13 * (k - 1)
  <2>4. /\ z \in Nat /\ Len(c) = z + 13
        /\ \A x \in 1 .. z : c[x] = a[x]
        /\ \A x \in 1 .. 13 : c[z + x] = b[x]
    <3>1. z \in Nat /\ Len(a) = z BY <1>1, <2>2
    <3> HIDE DEF z
    <3>2. IsConcat(W, a, b, c) BY <2>1, Concatenated
    <3> QED BY <2>1, <2>3, <3>1, <3>2 DEF IsConcat
  <2>5. ASSUME NEW q \in 0 .. k - 1, NEW m \in 1 .. 13
        PROVE  c[13 * q + m] = seqs[q + 1][m]
    <3>1. CASE q = k - 1
      <4>1. q \in Nat /\ z = 13 * q /\ q + 1 = k BY <1>1, <3>1
      <4>2. c[z + m] = b[m]
        <5> HIDE DEF z
        <5> QED BY <2>4
      <4> HIDE DEF z
      <4> QED BY <4>1, <4>2 DEF b
    <3>2. CASE q # k - 1
      <4>1. q \in 0 .. k - 2 /\ 13 * q + m \in 1 .. z BY <1>1, <3>2
      <4> HIDE DEF z
      <4> QED BY <2>2, <2>4, <4>1
    <3> QED BY <3>1, <3>2
  <2>6. Good(k)
    <3>1. Len(c) = 13 * k BY <1>1, <2>4
    <3> QED BY <2>5, <3>1 DEF c
  <2>7. k \in 0 .. n BY <1>1
  <2> HIDE DEF Good
  <2> QED BY <2>6, <2>7
<1> HIDE DEF X
<1>9. 0 .. n \subseteq X BY <1>1, <1>7, <1>8, AllUpTo
<1>10. Good(n)
  <2>1. n \in X BY <1>1, <1>9
  <2> QED BY <2>1 DEF X
<1>11. ASSUME NEW k \in 0 .. n - 1, NEW m \in 1 .. 13
       PROVE  s[13 * k + m] = PathLines(paths[k + 1])[m]
  <2>1. k + 1 \in 1 .. n BY <1>1
  <2> QED BY <1>2, <1>6, <1>10, <2>1
<1> QED BY <1>1, <1>6, <1>10, <1>11 DEF n, W

\* The lines of a report: its heading, its paths and its end.
LEMMA LinesAt ==
  ASSUME NEW paths \in Seq(Path)
  PROVE  /\ Lines(paths) \in Seq(Seq(Word))
         /\ Len(Lines(paths)) = 13 * Len(paths) + 3
         /\ Lines(paths)[1] = Heading
         /\ \A k \in 0 .. Len(paths) - 1, m \in 1 .. 13 :
              Lines(paths)[13 * k + 1 + m] = PathLines(paths[k + 1])[m]
         /\ Lines(paths)[13 * Len(paths) + 2] = EndOfReport
         /\ Lines(paths)[13 * Len(paths) + 3] = <<>>
<1> DEFINE s == FlattenSeq([k \in DOMAIN paths |-> PathLines(paths[k])])
           n == Len(paths)
           W == Seq(Word)
           e == <<EndOfReport, <<>>>>
           h == <<Heading>>
           L == Lines(paths)
<1>1. /\ s \in Seq(W) /\ Len(s) = 13 * n
      /\ \A k \in 0 .. n - 1, m \in 1 .. 13 : s[13 * k + m] = PathLines(paths[k + 1])[m]
  BY LinesOfPaths
<1>2. n \in Nat OBVIOUS
<1>3. L = (h \o s) \o e BY DEF Lines
<1>4. Heading \in W /\ EndOfReport \in W /\ <<>> \in W
  BY DEF Heading, EndOfReport, Word
<1>5. h \in Seq(W) /\ e \in Seq(W) /\ Len(h) = 1 /\ Len(e) = 2 /\ h[1] = Heading
      /\ e[1] = EndOfReport /\ e[2] = <<>>
  BY <1>4
<1> HIDE DEF L, h, s, e, n, W
<1> DEFINE hs == h \o s
<1>6. /\ hs \in Seq(W) /\ Len(hs) = 13 * n + 1 /\ hs[1] = Heading
      /\ \A x \in 1 .. 13 * n : hs[1 + x] = s[x]
  <2>1. /\ hs \in Seq(W) /\ Len(hs) = 1 + 13 * n
        /\ \A x \in 1 .. 1 : hs[x] = h[x]
        /\ \A x \in 1 .. 13 * n : hs[1 + x] = s[x]
    <3>1. s \in Seq(W) /\ Len(s) = 13 * n BY <1>1
    <3>2. h \in Seq(W) /\ Len(h) = 1 BY <1>5
    <3>3. IsConcat(W, h, s, hs) BY <3>1, <3>2, Concatenated
    <3> HIDE DEF hs
    <3>4. Len(hs) = 1 + 13 * n /\ hs \in Seq(W)
      BY <3>1, <3>2, <3>3 DEF IsConcat
    <3>5. \A x \in 1 .. Len(s) : hs[1 + x] = s[x] BY <3>2, <3>3 DEF IsConcat
    <3>6. \A x \in 1 .. 1 : hs[x] = h[x] BY <3>2, <3>3 DEF IsConcat
    <3> QED BY <3>1, <3>4, <3>5, <3>6
  <2> HIDE DEF hs
  <2> QED BY <1>2, <1>5, <2>1
<1> HIDE DEF hs
<1>7. /\ L \in Seq(W) /\ Len(L) = 13 * n + 3
      /\ \A x \in 1 .. 13 * n + 1 : L[x] = hs[x]
      /\ L[13 * n + 2] = e[1] /\ L[13 * n + 3] = e[2]
  <2>1. /\ L \in Seq(W) /\ Len(L) = Len(hs) + 2
        /\ \A x \in 1 .. Len(hs) : L[x] = hs[x]
        /\ \A x \in 1 .. 2 : L[Len(hs) + x] = e[x]
    <3>1. L = hs \o e BY <1>3 DEF hs
    <3>2. IsConcat(W, hs, e, L) BY <1>5, <1>6, <3>1, Concatenated
    <3> QED BY <1>5, <1>6, <3>2 DEF IsConcat
  <2>2. L[Len(hs) + 1] = e[1] /\ L[Len(hs) + 2] = e[2] BY <2>1
  <2>3. Len(hs) + 1 = 13 * n + 2 /\ Len(hs) + 2 = 13 * n + 3 BY <1>2, <1>6
  <2> QED BY <1>2, <1>6, <2>1, <2>2, <2>3
<1>8. ASSUME NEW k \in 0 .. n - 1, NEW m \in 1 .. 13
      PROVE  L[13 * k + 1 + m] = PathLines(paths[k + 1])[m]
  <2>1. 13 * k + m \in 1 .. 13 * n /\ 13 * k + 1 + m = 1 + (13 * k + m) BY <1>2
  <2> DEFINE x == 13 * k + m
  <2>2. 1 + x \in 1 .. 13 * n + 1 BY <1>2, <2>1
  <2>3. hs[1 + x] = s[x] /\ L[1 + x] = hs[1 + x] BY <1>6, <1>7, <2>1, <2>2
  <2>4. s[x] = PathLines(paths[k + 1])[m] BY <1>1
  <2> HIDE DEF x
  <2> QED BY <2>1, <2>3, <2>4 DEF x
<1>9. L[1] = Heading BY <1>2, <1>6, <1>7
<1> QED BY <1>5, <1>7, <1>8, <1>9 DEF L, n, W

-----------------------------------------------------------------------------
(***************************************************************************)
(* benchmarkConversion.                                                    *)
(***************************************************************************)
\* The rows of the first k paths.
RowsOf(P, k) == [q \in 1 .. k |-> <<P[q].from, P[q].to, P[q].delay>>]

Table(P) == RowsOf(P, Len(P)) \o <<<<"End">>>>

\* After m lines of a path: the lines of it taken for arrivals, what has been
\* written of it, and the second word in memory.
Arrivals(m) == IF m < 5 THEN 0 ELSE IF m < 10 THEN 1 ELSE IF m = 10 THEN 2 ELSE 3

Begun(p, m) ==
  IF m = 1 THEN <<p.from>> ELSE IF m \in 2 .. 4 THEN <<p.from, p.to>> ELSE <<>>

SecondWord(m) ==
  IF m = 2 THEN ":" ELSE IF m \in 3 .. 4 THEN "Incr" ELSE IF m \in 5 .. 6 THEN "arrival"
  ELSE IF m \in 7 .. 9 THEN "required" ELSE IF m \in 10 .. 11 THEN "arrival" ELSE "(MET)"

\* k paths are read and m lines of the next one.
Midway(P, k, m) ==
  /\ next = 13 * k + 2 + m
  /\ cunt = 3 * k + Arrivals(m)
  /\ line = Begun(P[k + 1], m)
  /\ temp[file] = RowsOf(P, IF m < 5 THEN k ELSE k + 1)
  /\ memory \in Seq(Word) /\ Len(memory) >= 2
  /\ m >= 2 => memory[2] = SecondWord(m)

Unread ==
  /\ next = 1 /\ cunt = 0 /\ line = <<>> /\ temp[file] = <<>>
  /\ memory = <<>>

AtEnd(P) ==
  /\ next \in {13 * Len(P) + 3, 13 * Len(P) + 4}
  /\ cunt \in Nat /\ line = <<>> /\ temp[file] = Table(P) /\ memory \in Seq(Word)

Converting(P) ==
  \/ Unread
  \/ \E k \in 0 .. Len(P) - 1, m \in 0 .. 12 : Midway(P, k, m)
  \/ Midway(P, Len(P), 0)
  \/ AtEnd(P)

\* What the storage has after a line.
LEMMA StoredWords ==
  ASSUME NEW words \in Seq(Word), memory \in Seq(Word), NEW slots, slots = Stored(words)
  PROVE  /\ slots \in Seq(Word) /\ Len(slots) >= Len(memory) /\ Len(slots) >= Len(words)
         /\ \A x \in 1 .. Len(words) : slots[x] = words[x]
         /\ \A x \in 1 .. Len(memory) : x > Len(words) => slots[x] = memory[x]
<1> DEFINE a == Len(words)
           b == Len(memory)
           c == Max({a, b})
<1>1. a \in Nat /\ b \in Nat OBVIOUS
<1>2. c \in Nat /\ c >= a /\ c >= b /\ (c = a \/ c = b)
  <2> HIDE DEF a, b
  <2>1. CASE a <= b
    <3>1. {a, b} \in SUBSET Int /\ b \in {a, b} /\ \A x \in {a, b} : x <= b BY <1>1, <2>1
    <3> HIDE DEF c
    <3>2. Max({a, b}) = b BY <3>1, Largest
    <3> QED BY <1>1, <2>1, <3>2 DEF c
  <2>2. CASE ~(a <= b)
    <3>1. {a, b} \in SUBSET Int /\ a \in {a, b} /\ \A x \in {a, b} : x <= a BY <1>1, <2>2
    <3> HIDE DEF c
    <3>2. Max({a, b}) = a BY <3>1, Largest
    <3> QED BY <1>1, <2>2, <3>2 DEF c
  <2> QED BY <2>1, <2>2
<1>3. slots = [x \in 1 .. c |-> IF x <= a THEN words[x] ELSE memory[x]] BY DEF Stored
<1>4. ASSUME NEW x \in 1 .. c PROVE (IF x <= a THEN words[x] ELSE memory[x]) \in Word
  <2> HIDE DEF Word, c
  <2>1. CASE x <= a
    <3>1. x \in 1 .. a BY <1>1, <1>2, <2>1
    <3> QED BY <2>1, <3>1
  <2>2. CASE ~(x <= a)
    <3>1. x \in 1 .. b BY <1>1, <1>2, <2>2
    <3> QED BY <2>2, <3>1
  <2> QED BY <2>1, <2>2
<1> HIDE DEF c, Word
<1>5. slots \in Seq(Word) /\ Len(slots) = c BY <1>2, <1>3, <1>4
<1>6. \A x \in 1 .. a : slots[x] = words[x] BY <1>1, <1>2, <1>3
<1>7. \A x \in 1 .. b : x > a => slots[x] = memory[x] BY <1>1, <1>2, <1>3
<1> QED BY <1>1, <1>2, <1>5, <1>6, <1>7

\* What a turn of the loop does with the words of a line, slots being the storage.
LineDone(words, slots) ==
  /\ words # <<>> /\ words[1] = "Startpoint:" =>
       line' = line \o <<words[2]>> /\ temp' = temp /\ cunt' = cunt
  /\ words # <<>> /\ words[1] = "Endpoint" =>
       line' = line \o <<words[3]>> /\ temp' = temp /\ cunt' = cunt
  /\ IsArrival(words, slots) /\ OpensPath(cunt) =>
       /\ temp' = [temp EXCEPT ![file] = Append(@, line \o <<slots[4]>>)]
       /\ line' = <<>> /\ cunt' = cunt + 1
  /\ IsArrival(words, slots) /\ ~OpensPath(cunt) =>
       temp' = temp /\ line' = line /\ cunt' = cunt + 1
  /\ /\ ~IsArrival(words, slots)
     /\ words = <<>> \/ words[1] \notin {"Startpoint:", "Endpoint"}
     => temp' = temp /\ line' = line /\ cunt' = cunt

\* It does that with every line but the last.
LEMMA LineEffect ==
  ASSUME ConvertLine, NEW words, words = Lines(reports[file])[next], words # EndOfReport
  PROVE  LineDone(words, Stored(words))
<1> DEFINE slots == Stored(words)
<1> HIDE DEF slots
<1>1. /\ CASE words = EndOfReport -> EndLine(<<"End">>) /\ UNCHANGED cunt
           [] words # <<>> /\ words[1] = "Startpoint:" ->
                Emit(<<words[2]>>) /\ UNCHANGED cunt
           [] words # <<>> /\ words[1] = "Endpoint" ->
                Emit(<<words[3]>>) /\ UNCHANGED cunt
           [] IsArrival(words, slots) ->
                /\ IF OpensPath(cunt) THEN EndLine(<<slots[4]>>)
                   ELSE UNCHANGED <<line, temp>>
                /\ cunt' = cunt + 1
           [] OTHER -> UNCHANGED <<line, temp, cunt>>
  BY DEF ConvertLine, slots
<1> DEFINE start == words # <<>> /\ words[1] = "Startpoint:"
           end == words # <<>> /\ words[1] = "Endpoint"
<1>3. /\ start => ~end /\ ~IsArrival(words, slots)
      /\ end => ~start /\ ~IsArrival(words, slots)
  BY DEF IsArrival
<1>4. ASSUME start PROVE line' = line \o <<words[2]>> /\ temp' = temp /\ cunt' = cunt
  BY <1>1, <1>3, <1>4 DEF Emit
<1>5. ASSUME end PROVE line' = line \o <<words[3]>> /\ temp' = temp /\ cunt' = cunt
  BY <1>1, <1>3, <1>5 DEF Emit
<1>6. ASSUME IsArrival(words, slots)
      PROVE  /\ IF OpensPath(cunt) THEN EndLine(<<slots[4]>>) ELSE UNCHANGED <<line, temp>>
             /\ cunt' = cunt + 1
  BY <1>1, <1>3, <1>6
<1>7. ASSUME ~start, ~end, ~IsArrival(words, slots)
      PROVE  UNCHANGED <<line, temp, cunt>>
  BY <1>1, <1>7
<1>8. LineDone(words, slots) BY <1>4, <1>5, <1>6, <1>7 DEF EndLine, LineDone
<1> QED BY <1>8 DEF slots

\* A field more.
LEMMA PairAndOne ==
  ASSUME NEW a, NEW b, NEW c
  PROVE  <<a, b>> \o <<c>> = <<a, b, c>>
<1> DEFINE S == {a, b, c}
           s == <<a, b>> \o <<c>>
           t == <<a, b, c>>
<1>1. s \in Seq(S) /\ t \in Seq(S) /\ Len(s) = 3 /\ Len(t) = 3
      /\ s[1] = a /\ s[2] = b /\ s[3] = c
  OBVIOUS
<1>2. t[1] = a /\ t[2] = b /\ t[3] = c OBVIOUS
<1>3. \A x \in 1 .. 3 : s[x] = t[x]
  <2> SUFFICES ASSUME NEW x \in {1, 2, 3} PROVE s[x] = t[x]
    OBVIOUS
  <2> HIDE DEF s, t
  <2> QED BY <1>1, <1>2
<1> HIDE DEF s, t, S
<1>4. s = t BY <1>1, <1>3, SeqEqual
<1> QED BY <1>4 DEF s, t

\* A row more.
LEMMA RowsGrow ==
  ASSUME NEW P \in Seq(Path), NEW k \in Nat, k + 1 \in 1 .. Len(P)
  PROVE  Append(RowsOf(P, k), <<P[k + 1].from, P[k + 1].to, P[k + 1].delay>>)
           = RowsOf(P, k + 1)
<1> DEFINE R(q) == <<P[q].from, P[q].to, P[q].delay>>
           T == {R(q) : q \in 1 .. k + 1}
           a == RowsOf(P, k)
           b == RowsOf(P, k + 1)
           c == Append(a, R(k + 1))
<1>1. \A q \in 1 .. k + 1 : R(q) \in T OBVIOUS
<1>2. a = [q \in 1 .. k |-> R(q)] /\ b = [q \in 1 .. k + 1 |-> R(q)] BY DEF RowsOf
<1> HIDE DEF T, a, b, R
<1>3. a \in Seq(T) /\ b \in Seq(T) /\ Len(a) = k /\ Len(b) = k + 1 BY <1>1, <1>2
<1>4. c \in Seq(T) /\ Len(c) = k + 1 /\ c[k + 1] = R(k + 1)
      /\ \A q \in 1 .. k : c[q] = a[q]
  BY <1>1, <1>3
<1>5. \A q \in 1 .. k + 1 : c[q] = b[q] BY <1>2, <1>4
<1> HIDE DEF c
<1>6. c = b BY <1>3, <1>4, <1>5, SeqEqual
<1> QED BY <1>6 DEF a, b, c, R

\* One line more.  The first word of a path's lines is never that of the last
\* line of the report.
LEMMA PathLineStep ==
  ASSUME ConvertLine, NEW P \in Seq(Path), P = reports[file],
         DOMAIN temp = {"hold", "setup"}, file \in {"hold", "setup"},
         NEW k \in 0 .. Len(P) - 1, NEW m \in 0 .. 12, Midway(P, k, m)
  PROVE  IF m < 12 THEN Midway(P, k, m + 1)' ELSE Midway(P, k + 1, 0)'
<1> DEFINE p == P[k + 1]
           words == PathLines(p)[m + 1]
           slots == Stored(words)
<1>1. k \in Nat /\ k + 1 \in 1 .. Len(P) /\ p \in Path OBVIOUS
<1>2. words = Lines(reports[file])[next]
  <2>1. m + 1 \in 1 .. 13 /\ next = 13 * k + 1 + (m + 1)
    <3>1. next = 13 * k + 2 + m BY DEF Midway
    <3> QED BY <1>1, <3>1
  <2> QED BY <2>1, LinesAt
<1>3. words \in Seq(Word) /\ words # EndOfReport
  <2>1. m + 1 \in 1 .. 13 OBVIOUS
  <2> QED BY <1>1, <2>1, PathLinesAre
<1>4. memory \in Seq(Word) /\ Len(memory) >= 2 /\ Len(memory) \in Nat BY DEF Midway
<1> HIDE DEF words, slots
<1>5. /\ slots \in Seq(Word) /\ Len(slots) >= 2 /\ Len(slots) >= Len(words)
      /\ \A x \in 1 .. Len(words) : slots[x] = words[x]
      /\ Len(words) < 2 => slots[2] = memory[2]
  <2>1. /\ slots \in Seq(Word) /\ Len(slots) >= Len(memory) /\ Len(slots) >= Len(words)
        /\ \A x \in 1 .. Len(words) : slots[x] = words[x]
        /\ \A x \in 1 .. Len(memory) : x > Len(words) => slots[x] = memory[x]
    BY <1>3, <1>4, StoredWords DEF slots
  <2>2. Len(words) \in Nat /\ Len(slots) \in Nat BY <1>3, <2>1
  <2>3. 2 \in 1 .. Len(memory) BY <1>4
  <2> QED BY <1>4, <2>1, <2>2, <2>3
<1>6. LineDone(words, slots) BY <1>2, <1>3, LineEffect DEF slots
<1>7. /\ next = 13 * k + 2 + m /\ cunt = 3 * k + Arrivals(m) /\ line = Begun(p, m)
      /\ temp[file] = RowsOf(P, IF m < 5 THEN k ELSE k + 1)
      /\ m >= 2 => memory[2] = SecondWord(m)
  BY DEF Midway
<1>80. next' = next + 1 /\ file' = file BY DEF ConvertLine
<1>81. memory' = slots BY <1>2 DEF ConvertLine, slots
<1>8. SUFFICES /\ cunt' = 3 * k + Arrivals(m + 1)
               /\ line' = Begun(p, m + 1)
               /\ temp'[file] = RowsOf(P, IF m + 1 < 5 THEN k ELSE k + 1)
               /\ m >= 1 => slots[2] = SecondWord(m + 1)
  <2>1. CASE m < 12
    <3>1. next' = 13 * k + 2 + (m + 1)
      <4>1. k \in Int /\ m \in Int /\ next = 13 * k + 2 + m BY <1>1, <1>7
      <4> QED BY <1>80, <4>1
    <3>2. m + 1 >= 2 => m >= 1 OBVIOUS
    <3>3. memory' \in Seq(Word) /\ Len(memory') >= 2 BY <1>5, <1>81
    <3>4. m + 1 >= 2 => memory'[2] = SecondWord(m + 1) BY <1>8, <1>81, <3>2
    <3>5. temp'[file'] = RowsOf(P, IF m + 1 < 5 THEN k ELSE k + 1) BY <1>8, <1>80
    <3>6. Midway(P, k, m + 1)' BY <1>8, <3>1, <3>3, <3>4, <3>5 DEF Midway
    <3> QED BY <2>1, <3>6
  <2>2. CASE m = 12
    <3>1. next' = 13 * (k + 1) + 2 + 0 BY <1>1, <1>7, <1>80, <2>2
    <3>2. cunt' = 3 * (k + 1) + Arrivals(0) BY <1>1, <1>8, <2>2 DEF Arrivals
    <3>3. line' = Begun(P[k + 2], 0) BY <1>8, <2>2 DEF Begun, LineDone
    <3>4. temp'[file] = RowsOf(P, k + 1) BY <1>8, <2>2
    <3>5. k + 1 + 1 = k + 2 BY <1>1
    <3> HIDE DEF p
    <3> QED BY <1>5, <1>80, <1>81, <2>2, <3>1, <3>2, <3>3, <3>4, <3>5 DEF Midway
  <2> QED BY <2>1, <2>2
<1>9. CASE m = 0
  <2>1. words = <<"Startpoint:", p.from>>
    <3>1. m + 1 = 1 BY <1>9
    <3> QED BY <1>1, <3>1, PathLinesAre DEF words
  <2>2. words # <<>> /\ words[1] = "Startpoint:" BY <2>1
  <2>3. line' = <<p.from>> /\ temp' = temp /\ cunt' = cunt
    BY <1>6, <1>7, <1>9, <2>1, <2>2 DEF Begun, LineDone
  <2> QED BY <1>1, <1>7, <1>9, <2>3 DEF Arrivals, Begun
<1>10. CASE m = 1
  <2>1. words = <<"Endpoint", ":", p.to>>
    <3>1. m + 1 = 2 BY <1>10
    <3> QED BY <1>1, <3>1, PathLinesAre DEF words
  <2>2. words # <<>> /\ words[1] = "Endpoint" BY <2>1
  <2>3. line' = <<p.from, p.to>> /\ temp' = temp /\ cunt' = cunt
    BY <1>6, <1>7, <1>10, <2>1, <2>2 DEF Begun, LineDone
  <2>4. slots[2] = ":" BY <1>5, <2>1
  <2> QED BY <1>1, <1>7, <1>10, <2>3, <2>4 DEF Arrivals, Begun, SecondWord
<1>11. CASE m = 2
  <2>1. words = <<"Point", "Incr", "Path">>
    <3>1. m + 1 = 3 BY <1>11
    <3> QED BY <1>1, <3>1, PathLinesAre DEF words
  <2>2. slots[2] = "Incr" BY <1>5, <2>1
  <2>3. ~IsArrival(words, slots) /\ (words = <<>> \/ words[1] \notin {"Startpoint:", "Endpoint"})
    BY <2>1, <2>2 DEF IsArrival
  <2>4. temp' = temp /\ line' = line /\ cunt' = cunt BY <1>6, <2>3 DEF LineDone
  <2> QED BY <1>1, <1>7, <1>11, <2>2, <2>4 DEF Arrivals, Begun, SecondWord
<1>12. CASE m = 3
  <2>1. words = <<"-----">>
    <3>1. m + 1 = 4 BY <1>12
    <3> QED BY <1>1, <3>1, PathLinesAre DEF words
  <2>2. slots[2] = "Incr" BY <1>5, <1>7, <1>12, <2>1 DEF SecondWord
  <2>3. ~IsArrival(words, slots) /\ (words = <<>> \/ words[1] \notin {"Startpoint:", "Endpoint"})
    BY <2>1, <2>2 DEF IsArrival
  <2>4. temp' = temp /\ line' = line /\ cunt' = cunt BY <1>6, <2>3 DEF LineDone
  <2> QED BY <1>1, <1>7, <1>12, <2>2, <2>4 DEF Arrivals, Begun, SecondWord
<1>13. CASE m = 4
  <2>1. words = <<"data", "arrival", "time", p.delay>>
    <3>1. m + 1 = 5 BY <1>13
    <3> QED BY <1>1, <3>1, PathLinesAre DEF words
  <2>2. slots[2] = "arrival" BY <1>5, <2>1
  <2>3. IsArrival(words, slots) /\ slots[4] = p.delay BY <1>5, <2>1, <2>2 DEF IsArrival
  <2>4. OpensPath(cunt) BY <1>1, <1>7, <1>13 DEF OpensPath, Arrivals
  <2>5. /\ temp' = [temp EXCEPT ![file] = Append(@, line \o <<slots[4]>>)]
        /\ line' = <<>> /\ cunt' = cunt + 1
    BY <1>6, <2>3, <2>4 DEF LineDone
  <2>6. line \o <<slots[4]>> = <<p.from, p.to, p.delay>>
    <3>1. line = <<p.from, p.to>> BY <1>7, <1>13 DEF Begun
    <3> QED BY <2>3, <3>1, PairAndOne
  <2>7. temp[file] = RowsOf(P, k) BY <1>7, <1>13
  <2>8. temp'[file] = Append(RowsOf(P, k), <<p.from, p.to, p.delay>>) BY <2>5, <2>6, <2>7
  <2>9. temp'[file] = RowsOf(P, k + 1) BY <1>1, <2>8, RowsGrow
  <2>10. cunt' = 3 * k + Arrivals(m + 1) BY <1>1, <1>7, <1>13, <2>5 DEF Arrivals
  <2> QED BY <1>13, <2>2, <2>5, <2>9, <2>10 DEF Begun, SecondWord
<1>14. CASE m = 5
  <2>1. words = <<>>
    <3>1. m + 1 = 6 BY <1>14
    <3> QED BY <1>1, <3>1, PathLinesAre DEF words
  <2>2. slots[2] = "arrival" BY <1>5, <1>7, <1>14, <2>1 DEF SecondWord
  <2>3. ~IsArrival(words, slots) /\ (words = <<>> \/ words[1] \notin {"Startpoint:", "Endpoint"})
    BY <2>1, <2>2 DEF IsArrival
  <2>4. temp' = temp /\ line' = line /\ cunt' = cunt BY <1>6, <2>3 DEF LineDone
  <2> QED BY <1>1, <1>7, <1>14, <2>2, <2>4 DEF Arrivals, Begun, SecondWord
<1>15. CASE m = 6
  <2>1. words = <<"data", "required", "time", 0>>
    <3>1. m + 1 = 7 BY <1>15
    <3> QED BY <1>1, <3>1, PathLinesAre DEF words
  <2>2. slots[2] = "required" BY <1>5, <2>1
  <2>3. ~IsArrival(words, slots) /\ (words = <<>> \/ words[1] \notin {"Startpoint:", "Endpoint"})
    BY <2>1, <2>2 DEF IsArrival
  <2>4. temp' = temp /\ line' = line /\ cunt' = cunt BY <1>6, <2>3 DEF LineDone
  <2> QED BY <1>1, <1>7, <1>15, <2>2, <2>4 DEF Arrivals, Begun, SecondWord
<1>16. CASE m = 7
  <2>1. words = <<"-----">>
    <3>1. m + 1 = 8 BY <1>16
    <3> QED BY <1>1, <3>1, PathLinesAre DEF words
  <2>2. slots[2] = "required" BY <1>5, <1>7, <1>16, <2>1 DEF SecondWord
  <2>3. ~IsArrival(words, slots) /\ (words = <<>> \/ words[1] \notin {"Startpoint:", "Endpoint"})
    BY <2>1, <2>2 DEF IsArrival
  <2>4. temp' = temp /\ line' = line /\ cunt' = cunt BY <1>6, <2>3 DEF LineDone
  <2> QED BY <1>1, <1>7, <1>16, <2>2, <2>4 DEF Arrivals, Begun, SecondWord
<1>17. CASE m = 8
  <2>1. words = <<"data", "required", "time", 0>>
    <3>1. m + 1 = 9 BY <1>17
    <3> QED BY <1>1, <3>1, PathLinesAre DEF words
  <2>2. slots[2] = "required" BY <1>5, <2>1
  <2>3. ~IsArrival(words, slots) /\ (words = <<>> \/ words[1] \notin {"Startpoint:", "Endpoint"})
    BY <2>1, <2>2 DEF IsArrival
  <2>4. temp' = temp /\ line' = line /\ cunt' = cunt BY <1>6, <2>3 DEF LineDone
  <2> QED BY <1>1, <1>7, <1>17, <2>2, <2>4 DEF Arrivals, Begun, SecondWord
<1>18. CASE m = 9
  <2>1. words = <<"data", "arrival", "time", -p.delay>>
    <3>1. m + 1 = 10 BY <1>18
    <3> QED BY <1>1, <3>1, PathLinesAre DEF words
  <2>2. slots[2] = "arrival" BY <1>5, <2>1
  <2>3. IsArrival(words, slots) BY <1>5, <2>1, <2>2 DEF IsArrival
  <2>4. ~OpensPath(cunt) BY <1>1, <1>7, <1>18 DEF OpensPath, Arrivals
  <2>5. temp' = temp /\ line' = line /\ cunt' = cunt + 1 BY <1>6, <2>3, <2>4 DEF LineDone
  <2> QED BY <1>1, <1>7, <1>18, <2>2, <2>5 DEF Arrivals, Begun, SecondWord
<1>19. CASE m = 10
  <2>1. words = <<"-----">>
    <3>1. m + 1 = 11 BY <1>19
    <3> QED BY <1>1, <3>1, PathLinesAre DEF words
  <2>2. slots[2] = "arrival" BY <1>5, <1>7, <1>19, <2>1 DEF SecondWord
  <2>3. IsArrival(words, slots) BY <1>5, <2>1, <2>2 DEF IsArrival
  <2>4. ~OpensPath(cunt) BY <1>1, <1>7, <1>19 DEF OpensPath, Arrivals
  <2>5. temp' = temp /\ line' = line /\ cunt' = cunt + 1 BY <1>6, <2>3, <2>4 DEF LineDone
  <2> QED BY <1>1, <1>7, <1>19, <2>2, <2>5 DEF Arrivals, Begun, SecondWord
<1>20. CASE m = 11
  <2>1. words = <<"slack", "(MET)", 0>>
    <3>1. m + 1 = 12 BY <1>20
    <3> QED BY <1>1, <3>1, PathLinesAre DEF words
  <2>2. slots[2] = "(MET)" BY <1>5, <2>1
  <2>3. ~IsArrival(words, slots) /\ (words = <<>> \/ words[1] \notin {"Startpoint:", "Endpoint"})
    BY <2>1, <2>2 DEF IsArrival
  <2>4. temp' = temp /\ line' = line /\ cunt' = cunt BY <1>6, <2>3 DEF LineDone
  <2> QED BY <1>1, <1>7, <1>20, <2>2, <2>4 DEF Arrivals, Begun, SecondWord
<1>21. CASE m = 12
  <2>1. words = <<>>
    <3>1. m + 1 = 13 BY <1>21
    <3> QED BY <1>1, <3>1, PathLinesAre DEF words
  <2>2. slots[2] = "(MET)" BY <1>5, <1>7, <1>21, <2>1 DEF SecondWord
  <2>3. ~IsArrival(words, slots) /\ (words = <<>> \/ words[1] \notin {"Startpoint:", "Endpoint"})
    BY <2>1, <2>2 DEF IsArrival
  <2>4. temp' = temp /\ line' = line /\ cunt' = cunt BY <1>6, <2>3 DEF LineDone
  <2> QED BY <1>1, <1>7, <1>21, <2>2, <2>4 DEF Arrivals, Begun, SecondWord
<1> QED BY <1>9, <1>10, <1>11, <1>12, <1>13, <1>14, <1>15, <1>16, <1>17, <1>18, <1>19, <1>20, <1>21

\* The last line of a report closes the table.
LEMMA LastLine ==
  ASSUME ConvertLine, memory \in Seq(Word), Lines(reports[file])[next] = EndOfReport
  PROVE  EndLine(<<"End">>) /\ cunt' = cunt
<1> DEFINE words == Lines(reports[file])[next]
           slots == Stored(EndOfReport)
<1>1. EndOfReport \in Seq(Word) /\ Len(EndOfReport) = 4 /\ EndOfReport[1] = "#End"
      /\ EndOfReport[2] = "of" /\ EndOfReport # <<>>
  BY DEF EndOfReport, Word
<1>2. slots[2] = "of" BY <1>1, StoredWords
<1>3. ~IsArrival(EndOfReport, slots) BY <1>2 DEF IsArrival
<1>4. /\ CASE words = EndOfReport -> EndLine(<<"End">>) /\ UNCHANGED cunt
           [] words # <<>> /\ words[1] = "Startpoint:" ->
                Emit(<<words[2]>>) /\ UNCHANGED cunt
           [] words # <<>> /\ words[1] = "Endpoint" ->
                Emit(<<words[3]>>) /\ UNCHANGED cunt
           [] IsArrival(words, Stored(words)) ->
                /\ IF OpensPath(cunt) THEN EndLine(<<Stored(words)[4]>>)
                   ELSE UNCHANGED <<line, temp>>
                /\ cunt' = cunt + 1
           [] OTHER -> UNCHANGED <<line, temp, cunt>>
  BY DEF ConvertLine
<1>5. words = EndOfReport OBVIOUS
<1> HIDE DEF words, slots
<1>6. ~IsArrival(words, Stored(words)) /\ words[1] = "#End" BY <1>1, <1>3, <1>5 DEF slots
<1> QED BY <1>4, <1>5, <1>6

\* The other table is left alone.
LEMMA OtherTable ==
  ASSUME ConvertLine, memory \in Seq(Word),
         DOMAIN temp = {"hold", "setup"}, file \in {"hold", "setup"}
  PROVE  /\ DOMAIN temp' = {"hold", "setup"}
         /\ \A t \in {"hold", "setup"} : t # file => temp'[t] = temp[t]
<1> DEFINE words == Lines(reports[file])[next]
           slots == Stored(words)
<1>1. CASE words = EndOfReport
  <2>1. EndLine(<<"End">>) BY <1>1, LastLine
  <2>2. PICK x : temp' = [temp EXCEPT ![file] = x] BY <2>1 DEF EndLine
  <2> QED BY <2>2
<1>2. CASE words # EndOfReport
  <2>1. LineDone(words, slots) BY <1>2, LineEffect
  <2> HIDE DEF words, slots
  <2>2. temp' = temp \/ \E x : temp' = [temp EXCEPT ![file] = x]
    <3>1. CASE words # <<>> /\ words[1] \in {"Startpoint:", "Endpoint"}
      BY <2>1, <3>1 DEF LineDone
    <3>2. CASE words = <<>> \/ words[1] \notin {"Startpoint:", "Endpoint"}
      BY <2>1, <3>2 DEF LineDone
    <3> QED BY <3>1, <3>2
  <2> QED BY <2>2
<1> QED BY <1>1, <1>2

\* A turn of the reading loop keeps to the account of what has been read.
LEMMA ConvertStep ==
  ASSUME ConvertLine, NEW P \in Seq(Path), P = reports[file],
         DOMAIN temp = {"hold", "setup"}, file \in {"hold", "setup"}, Converting(P)
  PROVE  Converting(P)'
<1> DEFINE n == Len(P)
           words == Lines(reports[file])[next]
           slots == Stored(words)
<1>1. n \in Nat /\ Len(Lines(P)) = 13 * n + 3 BY LinesAt
<1>2. next' = next + 1 /\ memory' = slots /\ file' = file /\ next <= Len(Lines(P))
  BY DEF ConvertLine
<1>3. CASE Unread
  <2>1. words = Heading BY <1>3, LinesAt DEF Unread
  <2>2. Heading # EndOfReport /\ Heading \in Seq(Word) /\ Len(Heading) = 6
        /\ Heading[1] = "#Timing" /\ Heading[2] = "report"
    BY DEF Heading, EndOfReport, Word
  <2>3. LineDone(words, slots) BY <2>1, <2>2, LineEffect
  <2>4. memory \in Seq(Word) BY <1>3 DEF Unread
  <2> HIDE DEF words
  <2>5. slots \in Seq(Word) /\ Len(slots) >= 6 /\ slots[2] = "report"
    <3>1. words \in Seq(Word) /\ Len(words) = 6 /\ words[2] = "report" BY <2>1, <2>2
    <3>2. slots = Stored(words) OBVIOUS
    <3> HIDE DEF slots
    <3>3. words \in Seq(Word) BY <3>1
    <3>4. /\ slots \in Seq(Word) /\ Len(slots) >= Len(memory) /\ Len(slots) >= Len(words)
          /\ \A x \in 1 .. Len(words) : slots[x] = words[x]
          /\ \A x \in 1 .. Len(memory) : x > Len(words) => slots[x] = memory[x]
      BY <2>4, <3>2, <3>3, StoredWords
    <3> QED BY <3>1, <3>4
  <2> HIDE DEF slots
  <2>6. ~IsArrival(words, slots) /\ words[1] \notin {"Startpoint:", "Endpoint"}
    BY <2>1, <2>2, <2>5 DEF IsArrival
  <2>7. temp' = temp /\ line' = line /\ cunt' = cunt BY <2>3, <2>6 DEF LineDone
  <2>8. RowsOf(P, 0) = <<>> BY DEF RowsOf
  <2>9. Midway(P, 0, 0)'
    <3>1. next' = 13 * 0 + 2 + 0 /\ cunt' = 3 * 0 + Arrivals(0) /\ line' = Begun(P[0 + 1], 0)
      BY <1>2, <1>3, <2>7 DEF Unread, Arrivals, Begun
    <3>2. temp'[file'] = RowsOf(P, IF 0 < 5 THEN 0 ELSE 0 + 1)
      BY <1>2, <1>3, <2>7, <2>8 DEF Unread
    <3>3. memory' \in Seq(Word) /\ Len(memory') >= 2 BY <1>2, <2>5
    <3> QED BY <3>1, <3>2, <3>3 DEF Midway
  <2> QED
    <3>1. CASE n = 0 BY <2>9, <3>1 DEF Converting
    <3>2. CASE n # 0
      <4>1. 0 \in 0 .. n - 1 /\ 0 \in 0 .. 12 BY <1>1, <3>2
      <4> QED BY <2>9, <4>1 DEF Converting
    <3> QED BY <3>1, <3>2
<1>4. ASSUME NEW k \in 0 .. n - 1, NEW m \in 0 .. 12, Midway(P, k, m) PROVE Converting(P)'
  <2>1. IF m < 12 THEN Midway(P, k, m + 1)' ELSE Midway(P, k + 1, 0)' BY <1>4, PathLineStep
  <2>2. CASE m < 12
    <3>1. m + 1 \in 0 .. 12 BY <2>2
    <3> QED BY <2>1, <2>2, <3>1 DEF Converting
  <2>3. CASE ~(m < 12) /\ k + 1 = n BY <2>1, <2>3 DEF Converting
  <2>4. CASE ~(m < 12) /\ k + 1 # n
    <3>1. k + 1 \in 0 .. n - 1 /\ 0 \in 0 .. 12 BY <1>1, <2>4
    <3> QED BY <2>1, <2>4, <3>1 DEF Converting
  <2> QED BY <2>2, <2>3, <2>4
<1>5. CASE Midway(P, n, 0)
  <2>1. /\ next = 13 * n + 2 /\ cunt \in Nat /\ line = <<>> /\ temp[file] = RowsOf(P, n)
        /\ memory \in Seq(Word)
    <3>1. next = 13 * n + 2 + 0 /\ cunt = 3 * n + Arrivals(0) /\ line = Begun(P[n + 1], 0)
      BY <1>5 DEF Midway
    <3>2. temp[file] = RowsOf(P, n) /\ memory \in Seq(Word) BY <1>5 DEF Midway
    <3> QED BY <1>1, <3>1, <3>2 DEF Arrivals, Begun
  <2>2. words = EndOfReport BY <2>1, LinesAt
  <2>3. EndLine(<<"End">>) /\ cunt' = cunt BY <2>1, <2>2, LastLine
  <2>4. line' = <<>> /\ temp'[file] = Append(RowsOf(P, n), <<"End">>)
    <3>1. <<>> \o <<"End">> = <<"End">> OBVIOUS
    <3> QED BY <2>1, <2>3, <3>1 DEF EndLine
  <2>5. Append(RowsOf(P, n), <<"End">>) = Table(P)
    <3> DEFINE T == {<<P[q].from, P[q].to, P[q].delay>> : q \in 1 .. n} \cup {<<"End">>}
    <3>1. RowsOf(P, n) \in Seq(T) /\ <<"End">> \in T BY <1>1 DEF RowsOf
    <3> HIDE DEF T
    <3> QED BY <3>1, AppendIsConcat DEF Table
  <2>6. EndOfReport \in Seq(Word) BY DEF EndOfReport, Word
  <2>7. slots \in Seq(Word) BY <2>1, <2>2, <2>6, StoredWords
  <2>8. next' = 13 * n + 3 BY <1>1, <1>2, <2>1
  <2> HIDE DEF slots, words
  <2>9. AtEnd(P)' BY <1>2, <2>1, <2>3, <2>4, <2>5, <2>7, <2>8 DEF AtEnd
  <2> QED BY <2>9 DEF Converting
<1>6. CASE AtEnd(P)
  <2>1. next = 13 * n + 3 BY <1>1, <1>2, <1>6 DEF AtEnd
  <2>2. words = <<>> BY <2>1, LinesAt
  <2>3. <<>> # EndOfReport BY DEF EndOfReport
  <2>4. LineDone(words, slots) BY <2>2, <2>3, LineEffect
  <2>5. ~IsArrival(words, slots) BY <2>2 DEF IsArrival
  <2>6. temp' = temp /\ line' = line /\ cunt' = cunt BY <2>2, <2>4, <2>5 DEF LineDone
  <2>7. memory \in Seq(Word) /\ words \in Seq(Word) BY <1>6, <2>2 DEF AtEnd
  <2>8. slots \in Seq(Word) BY <2>7, StoredWords
  <2>9. next' = 13 * n + 4 BY <1>1, <1>2, <2>1
  <2> HIDE DEF slots, words
  <2>10. AtEnd(P)' BY <1>2, <1>6, <2>6, <2>8, <2>9 DEF AtEnd
  <2> QED BY <2>10 DEF Converting
<1> QED BY <1>3, <1>4, <1>5, <1>6 DEF Converting

\* At its end the table of the report is complete.
LEMMA ConvertedAtEnd ==
  ASSUME NEW P \in Seq(Path), Converting(P), next = Len(Lines(P)) + 1
  PROVE  temp[file] = Table(P)
<1>1. Len(P) \in Nat /\ next = 13 * Len(P) + 4
  <2>1. Len(Lines(P)) = 13 * Len(P) + 3 BY LinesAt
  <2>2. Len(P) \in Nat OBVIOUS
  <2> QED BY <2>1, <2>2
<1>2. ~Unread BY <1>1 DEF Unread
<1>3. ASSUME NEW k \in 0 .. Len(P), NEW m \in 0 .. 12, k = Len(P) => m = 0, Midway(P, k, m)
      PROVE  FALSE
  <2>1. next = 13 * k + 2 + m BY <1>3 DEF Midway
  <2> QED BY <1>1, <1>3, <2>1
<1>4. AtEnd(P)
  <2>1. ~Midway(P, Len(P), 0) BY <1>1, <1>3
  <2>2. \A k \in 0 .. Len(P) - 1, m \in 0 .. 12 : ~Midway(P, k, m) BY <1>1, <1>3
  <2> QED BY <1>2, <2>1, <2>2 DEF Converting
<1> QED BY <1>4 DEF AtEnd

-----------------------------------------------------------------------------
(***************************************************************************)
(* printrsltfile.                                                          *)
(***************************************************************************)
OutRow == [kind : {"row"}, from : EndPoint, to : EndPoint, first : Time, second : Time]

Joins(l, p) == l.from = Written(p.from) /\ l.to = Written(p.to)

\* Row l is of the ends of path p, and p's delay is within its delays.
Covers(l, p) == Joins(l, p) /\ l.second <= p.delay /\ p.delay <= l.first

HasRow(rows, p) == \E k \in 1 .. Len(rows) : Covers(rows[k], p)

\* The delays of row l are delays of paths between its ends.
Explained(l) ==
  \A x \in {l.first, l.second} : \E p \in Paths("setup") \cup Paths("hold") :
    Joins(l, p) /\ p.delay = x

Given ==
  /\ reports \in Reports
  /\ file \in {"setup", "hold"} /\ DOMAIN temp = {"hold", "setup"} /\ flag \in BOOLEAN
  /\ pc \in {"convert", "match", "rest", "written", "undefined"}

\* The account of what has been read, and of what is still as it began.
ConvertInv ==
  pc = "convert" =>
    /\ Converting(reports[file])
    /\ file = "hold" => temp["setup"] = <<>>
    /\ file = "setup" => temp["hold"] = Table(reports.hold)
    /\ i = 1 /\ arr = {} /\ out = <<>>

\* The tables are made.  A hold row marked has a row in the file, one passed in
\* the second loop too; of aligned reports every setup row has one once its turn
\* is over, and the delays of a row are those of paths between its ends.
JoinInv ==
  pc # "convert" =>
    /\ temp["setup"] = Table(reports.setup) /\ temp["hold"] = Table(reports.hold)
    /\ next = 1 /\ cunt = 0
    /\ i \in Nat \ {0} /\ out \in Seq(OutRow)
    /\ arr \subseteq (1 .. Len(reports.hold)) \cap (1 .. ArrSize)
    /\ \A j \in arr : HasRow(out, reports.hold[j])
    /\ pc = "rest" => \A j \in 1 .. Len(reports.hold) : j < i => HasRow(out, reports.hold[j])
    /\ pc = "written" => \A j \in 1 .. Len(reports.hold) : HasRow(out, reports.hold[j])
    /\ Aligned =>
         /\ \A k \in 1 .. Len(out) : Explained(out[k])
         /\ pc # "undefined" =>
              \A k \in 1 .. Len(reports.setup) :
                (pc = "match" => k < i) => HasRow(out, reports.setup[k])
    /\ FitsIsDefined

\* What the reports are.
LEMMA ReportsAre ==
  ASSUME Given
  PROVE  /\ reports.setup \in Seq(Path) /\ reports.hold \in Seq(Path)
         /\ reports["setup"] = reports.setup /\ reports["hold"] = reports.hold
         /\ reports[file] \in Seq(Path)
BY ReportsAssumption DEF Given

\* The loops leave the "End" out.
LEMMA FrontOfTable ==
  ASSUME NEW P \in Seq(Path)
  PROVE  /\ Front(Table(P)) = RowsOf(P, Len(P))
         /\ Len(Front(Table(P))) = Len(P) /\ DOMAIN Front(Table(P)) = 1 .. Len(P)
         /\ \A q \in 1 .. Len(P) : /\ Front(Table(P))[q][1] = P[q].from
                                   /\ Front(Table(P))[q][2] = P[q].to
                                   /\ Front(Table(P))[q][3] = P[q].delay
<1> DEFINE R(q) == <<P[q].from, P[q].to, P[q].delay>>
           n == Len(P)
           T == {R(q) : q \in 1 .. n} \cup {<<"End">>}
           a == RowsOf(P, n)
           e == <<<<"End">>>>
           t == Table(P)
           f == Front(t)
<1>1. n \in Nat /\ a = [q \in 1 .. n |-> R(q)] /\ t = a \o e BY DEF RowsOf, Table
<1>2. \A q \in 1 .. n : R(q) \in T OBVIOUS
<1>3. e \in Seq(T) /\ Len(e) = 1 OBVIOUS
<1> HIDE DEF R, T, n, a, e, t
<1>4. a \in Seq(T) /\ Len(a) = n BY <1>1, <1>2
<1>5. /\ t \in Seq(T) /\ Len(t) = n + 1 /\ \A q \in 1 .. n : t[q] = a[q]
  <2>1. IsConcat(T, a, e, t) BY <1>1, <1>3, <1>4, Concatenated
  <2> QED BY <1>3, <1>4, <2>1 DEF IsConcat
<1>6. f = SubSeq(t, 1, n)
  <2>1. Len(t) - 1 = n BY <1>1, <1>5
  <2> QED BY <2>1 DEF Front
<1> HIDE DEF f
<1>7. /\ f \in Seq(T) /\ Len(f) = n /\ \A q \in 1 .. n : f[q] = t[q]
  <2>1. \A q \in 1 .. n : t[q] \in T BY <1>1, <1>5
  <2> QED BY <1>1, <1>6, <2>1, SubSeqProperties
<1>8. \A q \in 1 .. n : f[q] = a[q] BY <1>5, <1>7
<1>9. f = a BY <1>4, <1>7, <1>8, SeqEqual
<1>10. \A q \in 1 .. n : f[q] = R(q) BY <1>1, <1>9
<1>11. DOMAIN f = 1 .. n BY <1>7
<1> QED BY <1>7, <1>9, <1>10, <1>11 DEF f, t, a, R, n

\* A name of a report is written as an end point.
LEMMA WrittenIsEndPoint ==
  ASSUME NEW name \in Name
  PROVE  Written(name) \in EndPoint
BY DEF Name, Written, EndPoint

\* What a row of the file says.
LEMMA RowIs ==
  ASSUME NEW names, names[1] \in Name, names[2] \in Name, NEW x \in Time, NEW y \in Time
  PROVE  /\ Row(names, x, y) \in OutRow
         /\ Row(names, x, y).from = Written(names[1])
         /\ Row(names, x, y).to = Written(names[2])
         /\ Row(names, x, y).first \in {x, y} /\ Row(names, x, y).second \in {x, y}
         /\ \A z \in {x, y} : Row(names, x, y).second <= z /\ z <= Row(names, x, y).first
<1> DEFINE a == Max({x, y})
           b == Min({x, y})
<1>1. x \in Int /\ y \in Int BY DEF Time
<1>2. a \in {x, y} /\ b \in {x, y} /\ \A z \in {x, y} : b <= z /\ z <= a
  <2>1. CASE x <= y
    <3>1. {x, y} \in SUBSET Int /\ y \in {x, y} /\ \A z \in {x, y} : z <= y BY <1>1, <2>1
    <3>2. x \in {x, y} /\ \A z \in {x, y} : x <= z BY <1>1, <2>1
    <3> HIDE DEF a, b
    <3>3. Max({x, y}) = y BY <3>1, Largest
    <3>4. Min({x, y}) = x BY <3>1, <3>2, Smallest
    <3> QED BY <3>1, <3>2, <3>3, <3>4 DEF a, b
  <2>2. CASE ~(x <= y)
    <3>1. {x, y} \in SUBSET Int /\ x \in {x, y} /\ \A z \in {x, y} : z <= x BY <1>1, <2>2
    <3>2. y \in {x, y} /\ \A z \in {x, y} : y <= z BY <1>1, <2>2
    <3> HIDE DEF a, b
    <3>3. Max({x, y}) = x BY <3>1, Largest
    <3>4. Min({x, y}) = y BY <3>1, <3>2, Smallest
    <3> QED BY <3>1, <3>2, <3>3, <3>4 DEF a, b
  <2> QED BY <2>1, <2>2
<1>3. Written(names[1]) \in EndPoint /\ Written(names[2]) \in EndPoint BY WrittenIsEndPoint
<1>4. Row(names, x, y) = [kind |-> "row", from |-> Written(names[1]), to |-> Written(names[2]),
                          first |-> a, second |-> b]
  BY DEF Row
<1> HIDE DEF a, b
<1>5. a \in Time /\ b \in Time BY <1>2
<1> QED BY <1>2, <1>3, <1>4, <1>5 DEF OutRow

\* Every turn of a loop of the two functions begins in such a state.
BInv == Given /\ ConvertInv /\ JoinInv

\* A table has three fields in a row, but in "End".
Shaped(t) == \A k \in DOMAIN t : Len(t[k]) = 3 \/ (Len(t[k]) = 1 /\ k = Len(t))

LEMMA TablesAreShaped ==
  ASSUME NEW P \in Seq(Path)
  PROVE  Shaped(Table(P)) /\ \A k \in Nat : Shaped(RowsOf(P, k))
<1>1. \A k \in Nat : Shaped(RowsOf(P, k)) BY DEF RowsOf, Shaped
<1>2. Shaped(Table(P))
  <2> DEFINE R(q) == <<P[q].from, P[q].to, P[q].delay>>
             n == Len(P)
             T == {R(q) : q \in 1 .. n} \cup {<<"End">>}
             a == RowsOf(P, n)
             e == <<<<"End">>>>
             t == Table(P)
  <2>1. n \in Nat /\ a = [q \in 1 .. n |-> R(q)] /\ t = a \o e BY DEF RowsOf, Table
  <2>2. \A q \in 1 .. n : R(q) \in T OBVIOUS
  <2>3. e \in Seq(T) /\ Len(e) = 1 /\ Len(e[1]) = 1 OBVIOUS
  <2>4. \A q \in 1 .. n : Len(R(q)) = 3 OBVIOUS
  <2> HIDE DEF R, T, n, a, e, t
  <2>5. a \in Seq(T) /\ Len(a) = n BY <2>1, <2>2
  <2>6. t \in Seq(T) /\ Len(t) = n + 1 /\ t[n + 1] = e[1] /\ \A q \in 1 .. n : t[q] = a[q]
    <3>1. IsConcat(T, a, e, t) BY <2>1, <2>3, <2>5, Concatenated
    <3> QED BY <2>3, <2>5, <3>1 DEF IsConcat
  <2>7. ASSUME NEW k \in 1 .. n + 1 PROVE Len(t[k]) = 3 \/ (Len(t[k]) = 1 /\ k = Len(t))
    <3>1. CASE k = n + 1 BY <2>3, <2>6, <3>1
    <3>2. CASE k # n + 1
      <4>1. k \in 1 .. n BY <2>1, <3>2
      <4> QED BY <2>1, <2>4, <2>6, <4>1
    <3> QED BY <3>1, <3>2
  <2>8. DOMAIN t = 1 .. n + 1 BY <2>6
  <2> QED BY <2>7, <2>8 DEF Shaped, t
<1> QED BY <1>1, <1>2

\* What the account of what has been read says of types.
LEMMA ConvertingTypes ==
  ASSUME NEW P \in Seq(Path), Converting(P)
  PROVE  /\ memory \in Seq(Word) /\ cunt \in Nat
         /\ next \in 1 .. Len(Lines(P)) + 1 /\ Shaped(temp[file])
<1>1. Len(P) \in Nat /\ Len(Lines(P)) = 13 * Len(P) + 3 BY LinesAt
<1>2. CASE Unread
  <2>1. <<>> \in Seq(Word) /\ Shaped(<<>>) BY DEF Shaped
  <2> QED BY <1>1, <1>2, <2>1 DEF Unread
<1>3. ASSUME NEW k \in 0 .. Len(P), NEW m \in 0 .. 12, k = Len(P) => m = 0, Midway(P, k, m)
      PROVE  /\ memory \in Seq(Word) /\ cunt \in Nat
             /\ next \in 1 .. Len(Lines(P)) + 1 /\ Shaped(temp[file])
  <2>1. Arrivals(m) \in Nat BY DEF Arrivals
  <2>2. next = 13 * k + 2 + m /\ cunt = 3 * k + Arrivals(m) /\ memory \in Seq(Word)
    BY <1>3 DEF Midway
  <2>3. cunt \in Nat BY <2>1, <2>2
  <2>4. next \in 1 .. Len(Lines(P)) + 1 BY <1>1, <1>3, <2>2
  <2>5. (IF m < 5 THEN k ELSE k + 1) \in Nat BY <1>1
  <2>6. Shaped(temp[file]) BY <1>3, <2>5, TablesAreShaped DEF Midway
  <2> QED BY <2>2, <2>3, <2>4, <2>6
<1>4. CASE AtEnd(P)
  <2>1. next \in 1 .. Len(Lines(P)) + 1 BY <1>1, <1>4 DEF AtEnd
  <2> QED BY <1>4, <2>1, TablesAreShaped DEF AtEnd
<1>5. CASE Midway(P, Len(P), 0) BY <1>1, <1>3, <1>5
<1>6. CASE \E k \in 0 .. Len(P) - 1, m \in 0 .. 12 : Midway(P, k, m)
  <2>1. PICK k \in 0 .. Len(P) - 1, m \in 0 .. 12 : Midway(P, k, m) BY <1>6
  <2>2. k \in 0 .. Len(P) /\ k # Len(P) BY <1>1
  <2> QED BY <1>3, <2>1, <2>2
<1> QED BY <1>2, <1>4, <1>5, <1>6 DEF Converting

LEMMA InitBInv == Init => BInv
<1> SUFFICES ASSUME Init PROVE BInv
  OBVIOUS
<1>1. Given BY DEF Init, Given
<1>2. ConvertInv
  <2>1. Unread BY DEF Init, Unread
  <2> QED BY <2>1 DEF Init, ConvertInv, Converting
<1>3. JoinInv BY DEF Init, JoinInv
<1> QED BY <1>1, <1>2, <1>3 DEF BInv

LEMMA ConvertLineKeeps ==
  ASSUME BInv, ConvertLine
  PROVE  BInv'
<1>1. /\ Given /\ pc = "convert" /\ reports' = reports /\ file' = file /\ pc' = pc
      /\ i' = i /\ flag' = flag /\ arr' = arr /\ out' = out
  BY DEF BInv, ConvertLine, joining
<1>2. /\ Converting(reports[file]) /\ i = 1 /\ arr = {} /\ out = <<>>
      /\ file = "hold" => temp["setup"] = <<>>
      /\ file = "setup" => temp["hold"] = Table(reports.hold)
  BY <1>1 DEF BInv, ConvertInv
<1>3. PICK P \in Seq(Path) : P = reports[file] BY <1>1, ReportsAre
<1>4. DOMAIN temp = {"hold", "setup"} /\ file \in {"hold", "setup"} BY <1>1 DEF Given
<1>5. memory \in Seq(Word) BY <1>2, <1>3, ConvertingTypes
<1>6. /\ DOMAIN temp' = {"hold", "setup"}
      /\ \A t \in {"hold", "setup"} : t # file => temp'[t] = temp[t]
  BY <1>4, <1>5, OtherTable
<1>7. Converting(P)' BY <1>2, <1>3, <1>4, ConvertStep
<1>8. Given' BY <1>1, <1>6 DEF Given
<1>9. ConvertInv'
  <2>1. P = reports'[file'] BY <1>1, <1>3
  <2>2. Converting(reports[file])' BY <1>7, <2>1 DEF Converting, Unread, AtEnd, Midway
  <2> QED BY <1>1, <1>2, <1>4, <1>6, <2>2 DEF ConvertInv
<1>10. JoinInv' BY <1>1 DEF JoinInv
<1> QED BY <1>8, <1>9, <1>10 DEF BInv

LEMMA CloseReportKeeps ==
  ASSUME BInv, CloseReport
  PROVE  BInv'
<1>1. /\ Given /\ pc = "convert" /\ reports' = reports /\ temp' = temp
      /\ i' = i /\ flag' = flag /\ arr' = arr /\ out' = out
      /\ next' = 1 /\ memory' = <<>> /\ cunt' = 0 /\ line' = <<>>
      /\ next = Len(Lines(reports[file])) + 1
      /\ IF file = "hold" THEN file' = "setup" /\ pc' = pc ELSE pc' = "match" /\ file' = file
  BY DEF BInv, CloseReport, joining
<1>2. /\ Converting(reports[file]) /\ i = 1 /\ arr = {} /\ out = <<>>
      /\ file = "hold" => temp["setup"] = <<>>
      /\ file = "setup" => temp["hold"] = Table(reports.hold)
  BY <1>1 DEF BInv, ConvertInv
<1>3. PICK P \in Seq(Path) : P = reports[file] BY <1>1, ReportsAre
<1>4. temp[file] = Table(P) BY <1>1, <1>2, <1>3, ConvertedAtEnd
<1>5. Given' BY <1>1 DEF Given
<1>6. CASE file = "hold"
  <2>1. temp'["hold"] = Table(reports'.hold) BY <1>1, <1>3, <1>4, <1>6, ReportsAre
  <2>2. Unread' BY <1>1, <1>2, <1>6 DEF Unread
  <2>3. Converting(reports[file])' BY <2>2 DEF Converting
  <2>4. ConvertInv' BY <1>1, <1>2, <1>6, <2>1, <2>3 DEF ConvertInv
  <2>5. JoinInv' BY <1>1, <1>6 DEF JoinInv
  <2> QED BY <1>5, <2>4, <2>5 DEF BInv
<1>7. CASE file # "hold"
  <2>1. file = "setup" BY <1>1, <1>7 DEF Given
  <2>2. /\ temp'["setup"] = Table(reports'.setup) /\ temp'["hold"] = Table(reports'.hold)
    BY <1>1, <1>2, <1>3, <1>4, <2>1, ReportsAre
  <2>3. pc' = "match" BY <1>1, <1>7
  <2>4. ConvertInv' BY <2>3 DEF ConvertInv
  <2>5. JoinInv'
    <3>1. next' = 1 /\ cunt' = 0 /\ i' \in Nat \ {0} /\ out' \in Seq(OutRow) /\ arr' = {}
      BY <1>1, <1>2
    <3>2. Len(out') = 0 /\ i' = 1 BY <1>1, <1>2
    <3>3. FitsIsDefined' BY <2>3 DEF FitsIsDefined
    <3>4. \A k \in 1 .. Len(out') : FALSE BY <3>2
    <3>5. \A k \in 1 .. Len(reports'.setup) : ~(k < i') BY <3>2
    <3> QED BY <2>2, <2>3, <3>1, <3>3, <3>4, <3>5 DEF JoinInv
  <2> QED BY <1>5, <2>4, <2>5 DEF BInv
<1> QED BY <1>6, <1>7

\* What the loops of printrsltfile see of the tables.
LEMMA TablesAre ==
  ASSUME BInv, pc # "convert"
  PROVE  /\ reports.setup \in Seq(Path) /\ reports.hold \in Seq(Path)
         /\ Len(reports.setup) \in Nat /\ Len(reports.hold) \in Nat
         /\ Len(Setup) = Len(reports.setup) /\ Len(Hold) = Len(reports.hold)
         /\ DOMAIN Hold = 1 .. Len(reports.hold)
         /\ \A q \in 1 .. Len(reports.setup) :
              /\ reports.setup[q] \in Path /\ reports.setup[q] \in Paths("setup")
              /\ Setup[q][1] = reports.setup[q].from /\ Setup[q][2] = reports.setup[q].to
              /\ Setup[q][3] = reports.setup[q].delay
         /\ \A q \in 1 .. Len(reports.hold) :
              /\ reports.hold[q] \in Path /\ reports.hold[q] \in Paths("hold")
              /\ Hold[q][1] = reports.hold[q].from /\ Hold[q][2] = reports.hold[q].to
              /\ Hold[q][3] = reports.hold[q].delay
<1>1. /\ reports.setup \in Seq(Path) /\ reports.hold \in Seq(Path)
      /\ reports["setup"] = reports.setup /\ reports["hold"] = reports.hold
  BY ReportsAre DEF BInv
<1> DEFINE P == reports.setup
           Q == reports.hold
<1>2. temp["setup"] = Table(P) /\ temp["hold"] = Table(Q) BY DEF BInv, JoinInv
<1>3. Setup = Front(Table(P)) /\ Hold = Front(Table(Q)) BY <1>2 DEF Setup, Hold
<1>4. /\ \A q \in 1 .. Len(P) : P[q] \in Path /\ P[q] \in Paths("setup")
      /\ \A q \in 1 .. Len(Q) : Q[q] \in Path /\ Q[q] \in Paths("hold")
  BY <1>1 DEF Paths, ToSet
<1>5. Len(P) \in Nat /\ Len(Q) \in Nat BY <1>1
<1>6. /\ Len(Setup) = Len(P)
      /\ \A q \in 1 .. Len(P) : /\ Setup[q][1] = P[q].from /\ Setup[q][2] = P[q].to
                                /\ Setup[q][3] = P[q].delay
  <2> HIDE DEF P, Q
  <2>1. P \in Seq(Path) BY <1>1 DEF P
  <2> QED BY <1>3, <2>1, FrontOfTable
<1>7. /\ Len(Hold) = Len(Q) /\ DOMAIN Hold = 1 .. Len(Q)
      /\ \A q \in 1 .. Len(Q) : /\ Hold[q][1] = Q[q].from /\ Hold[q][2] = Q[q].to
                                /\ Hold[q][3] = Q[q].delay
  <2> HIDE DEF P, Q
  <2>1. Q \in Seq(Path) BY <1>1 DEF Q
  <2> QED BY <1>3, <2>1, FrontOfTable
<1> QED BY <1>1, <1>4, <1>5, <1>6, <1>7

\* The row of a match, and that of a hold row alone.
PairRow(j) == Row(Hold[j], Setup[j][3], Hold[j][3])
HoldRow(j) == Row(Hold[j], Hold[j][3], Hold[j][3])

LEMMA PairRowIs ==
  ASSUME BInv, pc # "convert",
         NEW j \in 1 .. Len(reports.hold), j <= Len(reports.setup)
  PROVE  /\ PairRow(j) \in OutRow /\ Covers(PairRow(j), reports.hold[j])
         /\ Aligned => /\ Explained(PairRow(j))
                       /\ Covers(PairRow(j), reports.setup[j])
<1> DEFINE p == reports.setup[j]
           q == reports.hold[j]
           l == PairRow(j)
<1>1. /\ j \in 1 .. Len(reports.setup) /\ p \in Path /\ q \in Path
      /\ p \in Paths("setup") /\ q \in Paths("hold")
      /\ Setup[j][3] = p.delay
      /\ Hold[j][1] = q.from /\ Hold[j][2] = q.to /\ Hold[j][3] = q.delay
  <2>1. Len(reports.setup) \in Nat /\ Len(reports.hold) \in Nat BY TablesAre
  <2>2. j \in 1 .. Len(reports.setup) BY <2>1
  <2> QED BY <2>2, TablesAre
<1>2. /\ q.from \in Name /\ q.to \in Name /\ p.delay \in Time /\ q.delay \in Time
  BY <1>1 DEF Path
<1>3. /\ l \in OutRow /\ l.from = Written(q.from) /\ l.to = Written(q.to)
      /\ l.first \in {p.delay, q.delay} /\ l.second \in {p.delay, q.delay}
      /\ \A z \in {p.delay, q.delay} : l.second <= z /\ z <= l.first
  BY <1>1, <1>2, RowIs DEF PairRow
<1>4. ASSUME Aligned PROVE p.from = q.from /\ p.to = q.to
  BY <1>1, <1>4 DEF Aligned
<1> HIDE DEF l, p, q
<1>5. Covers(l, q) BY <1>3 DEF Covers, Joins
<1>6. ASSUME Aligned PROVE Covers(l, p) /\ Explained(l)
  <2>1. Joins(l, p) /\ Joins(l, q) BY <1>3, <1>4, <1>6 DEF Joins
  <2>2. Covers(l, p) BY <1>3, <2>1 DEF Covers
  <2>3. Explained(l) BY <1>1, <1>3, <2>1 DEF Explained
  <2> QED BY <2>2, <2>3
<1> QED BY <1>3, <1>5, <1>6 DEF l, p, q

LEMMA HoldRowIs ==
  ASSUME BInv, pc # "convert", NEW j \in 1 .. Len(reports.hold)
  PROVE  /\ HoldRow(j) \in OutRow /\ Covers(HoldRow(j), reports.hold[j])
         /\ Explained(HoldRow(j))
<1> DEFINE q == reports.hold[j]
           l == HoldRow(j)
<1>1. /\ q \in Path /\ q \in Paths("hold")
      /\ Hold[j][1] = q.from /\ Hold[j][2] = q.to /\ Hold[j][3] = q.delay
  BY TablesAre
<1>2. /\ q.from \in Name /\ q.to \in Name /\ q.delay \in Time
  BY <1>1 DEF Path
<1>3. /\ l \in OutRow /\ l.from = Written(q.from) /\ l.to = Written(q.to)
      /\ l.first = q.delay /\ l.second = q.delay
      /\ l.second <= q.delay /\ q.delay <= l.first
  BY <1>1, <1>2, RowIs DEF HoldRow
<1> HIDE DEF l, q
<1>4. Joins(l, q) BY <1>3 DEF Joins
<1>5. Covers(l, q) BY <1>3, <1>4 DEF Covers
<1>6. Explained(l) BY <1>1, <1>3, <1>4 DEF Explained
<1> QED BY <1>3, <1>5, <1>6 DEF l, q

\* What a turn of the first loop writes.
LEMMA RowsForIs ==
  ASSUME BInv, pc # "convert", NEW k \in 1 .. Len(reports.setup),
         NEW js, js = Matches(Setup[k]), \A j \in js : j <= Len(reports.setup)
  PROVE  /\ RowsFor(Setup[k], js) \in Seq(OutRow)
         /\ \A j \in js : \E x \in 1 .. Len(RowsFor(Setup[k], js)) :
              RowsFor(Setup[k], js)[x] = PairRow(j)
         /\ js # {} => \A x \in 1 .. Len(RowsFor(Setup[k], js)) : \E j \in js :
              RowsFor(Setup[k], js)[x] = PairRow(j)
<1> DEFINE R == RowsFor(Setup[k], js)
           h == Len(reports.hold)
           seqs == [j \in 1 .. h |-> IF j \in js THEN <<PairRow(j)>> ELSE <<>>]
<1>1. h \in Nat /\ js \subseteq 1 .. h
  <2>1. h \in Nat /\ DOMAIN Hold = 1 .. h BY TablesAre
  <2> QED BY <2>1 DEF Matches
<1>2. \A j \in js : PairRow(j) \in OutRow BY <1>1, PairRowIs
<1>3. CASE flag \/ js # {}
  <2>1. R = FlattenSeq(seqs)
    <3>1. DOMAIN Hold = 1 .. h BY TablesAre
    <3> QED BY <1>3, <3>1 DEF RowsFor, PairRow
  <2> HIDE DEF R, h, OutRow
  <2>2. /\ \A j \in js : seqs[j] = <<PairRow(j)>>
        /\ \A j \in (1 .. h) \ js : seqs[j] = <<>>
    BY <1>1
  <2>3. seqs \in [1 .. h -> Seq(OutRow)]
    <3>1. ASSUME NEW j \in 1 .. h
          PROVE  (IF j \in js THEN <<PairRow(j)>> ELSE <<>>) \in Seq(OutRow)
      BY <1>2
    <3> QED BY <3>1
  <2> HIDE DEF seqs
  <2>4. /\ R \in Seq(OutRow)
        /\ \A j \in 1 .. h : \A y \in 1 .. Len(seqs[j]) : \E x \in 1 .. Len(R) : R[x] = seqs[j][y]
        /\ \A x \in 1 .. Len(R) : \E j \in 1 .. h : \E y \in 1 .. Len(seqs[j]) : R[x] = seqs[j][y]
    <3>1. Gathers(OutRow, h, seqs, R) BY <1>1, <2>1, <2>3, FlattenMembers
    <3> QED BY <3>1 DEF Gathers
  <2>5. ASSUME NEW j \in js PROVE \E x \in 1 .. Len(R) : R[x] = PairRow(j)
    <3>1. j \in 1 .. h /\ 1 \in 1 .. Len(seqs[j]) /\ seqs[j][1] = PairRow(j) BY <1>1, <2>2
    <3> QED BY <2>4, <3>1
  <2>6. ASSUME NEW x \in 1 .. Len(R) PROVE \E j \in js : R[x] = PairRow(j)
    <3>1. PICK j \in 1 .. h : \E y \in 1 .. Len(seqs[j]) : R[x] = seqs[j][y] BY <2>4
    <3>2. PICK y \in 1 .. Len(seqs[j]) : R[x] = seqs[j][y] BY <3>1
    <3>3. CASE j \in js
      <4>1. seqs[j] = <<PairRow(j)>> BY <2>2, <3>3
      <4>2. y = 1 BY <3>2, <4>1
      <4>3. R[x] = PairRow(j) BY <3>2, <4>1, <4>2
      <4> QED BY <3>3, <4>3
    <3>4. CASE j \notin js
      <4>1. seqs[j] = <<>> BY <2>2, <3>4
      <4> QED BY <3>2, <4>1
    <3> QED BY <3>3, <3>4
  <2> QED BY <2>4, <2>5, <2>6 DEF R
<1>4. CASE ~flag /\ js = {}
  <2>1. R = <<Row(Setup[k], Setup[k][3], Setup[k][3])>> BY <1>4 DEF RowsFor
  <2>2. Row(Setup[k], Setup[k][3], Setup[k][3]) \in OutRow
    <3>1. /\ reports.setup[k] \in Path /\ Setup[k][1] = reports.setup[k].from
          /\ Setup[k][2] = reports.setup[k].to /\ Setup[k][3] = reports.setup[k].delay
      BY TablesAre
    <3>2. Setup[k][1] \in Name /\ Setup[k][2] \in Name /\ Setup[k][3] \in Time
      BY <3>1 DEF Path
    <3> QED BY <3>2, RowIs
  <2> HIDE DEF OutRow
  <2>3. R \in Seq(OutRow) BY <2>1, <2>2
  <2> QED BY <1>4, <2>3
<1>5. flag \in BOOLEAN BY DEF BInv, Given
<1> QED BY <1>3, <1>4, <1>5

\* Rows added to the file leave those it has where they are.
LEMMA OutGrows ==
  ASSUME out \in Seq(OutRow), NEW R \in Seq(OutRow), out' = out \o R
  PROVE  /\ out' \in Seq(OutRow)
         /\ \A p : HasRow(out, p) => HasRow(out', p)
         /\ \A p : \A x \in 1 .. Len(R) : Covers(R[x], p) => HasRow(out', p)
         /\ \A x \in 1 .. Len(out') :
              \/ \E y \in 1 .. Len(out) : out'[x] = out[y]
              \/ \E y \in 1 .. Len(R) : out'[x] = R[y]
<1> DEFINE S == OutRow
<1>1. out \in Seq(S) /\ R \in Seq(S) OBVIOUS
<1> HIDE DEF S
<1>2. IsConcat(S, out, R, out') BY <1>1, Concatenated
<1>3. /\ out' \in Seq(S) /\ Len(out) \in Nat /\ Len(R) \in Nat
      /\ Len(out') = Len(out) + Len(R)
      /\ \A x \in 1 .. Len(out) : out'[x] = out[x]
      /\ \A x \in 1 .. Len(R) : out'[Len(out) + x] = R[x]
  BY <1>2 DEF IsConcat
<1>4. ASSUME NEW x \in 1 .. Len(out) PROVE x \in 1 .. Len(out') /\ out'[x] = out[x]
  BY <1>3
<1>5. ASSUME NEW x \in 1 .. Len(R)
      PROVE  Len(out) + x \in 1 .. Len(out') /\ out'[Len(out) + x] = R[x]
  BY <1>3
<1>6. ASSUME NEW x \in 1 .. Len(out'), x \notin 1 .. Len(out)
      PROVE  x - Len(out) \in 1 .. Len(R) /\ out'[x] = R[x - Len(out)]
  <2>1. x - Len(out) \in 1 .. Len(R) /\ Len(out) + (x - Len(out)) = x BY <1>3, <1>6
  <2> QED BY <1>3, <2>1
<1>7. ASSUME NEW p, HasRow(out, p) PROVE HasRow(out', p)
  <2>1. PICK k \in 1 .. Len(out) : Covers(out[k], p) BY <1>7 DEF HasRow
  <2>2. k \in 1 .. Len(out') /\ out'[k] = out[k] BY <1>4
  <2>3. Covers(out'[k], p) BY <2>1, <2>2
  <2> QED BY <2>2, <2>3 DEF HasRow
<1>8. ASSUME NEW p, NEW x \in 1 .. Len(R), Covers(R[x], p) PROVE HasRow(out', p)
  <2>1. Covers(out'[Len(out) + x], p) BY <1>5, <1>8
  <2> QED BY <1>5, <2>1 DEF HasRow
<1> QED BY <1>3, <1>4, <1>6, <1>7, <1>8 DEF S

LEMMA MatchSetupKeeps ==
  ASSUME BInv, MatchSetup
  PROVE  BInv'
<1> DEFINE P == reports.setup
           Q == reports.hold
           js == Matches(Setup[i])
           R == RowsFor(Setup[i], js)
<1>1. /\ Given /\ pc = "match" /\ i <= Len(Setup)
      /\ reports' = reports /\ file' = file /\ next' = next /\ cunt' = cunt /\ temp' = temp
      /\ IF \E j \in js : j > Len(Setup) \/ j > ArrSize
         THEN pc' = "undefined" /\ UNCHANGED joining
         ELSE /\ out' = out \o R
              /\ flag' = (flag \/ js # {})
              /\ arr' = arr \cup js
              /\ i' = i + 1
              /\ pc' = pc
  BY DEF BInv, MatchSetup, conversion
<1>2. /\ temp["setup"] = Table(P) /\ temp["hold"] = Table(Q)
      /\ next = 1 /\ cunt = 0 /\ i \in Nat \ {0} /\ out \in Seq(OutRow)
      /\ arr \subseteq (1 .. Len(Q)) \cap (1 .. ArrSize)
      /\ \A j \in arr : HasRow(out, Q[j])
      /\ Aligned => /\ \A k \in 1 .. Len(out) : Explained(out[k])
                    /\ \A k \in 1 .. Len(P) : k < i => HasRow(out, P[k])
  BY <1>1 DEF BInv, JoinInv
<1>3. /\ Len(P) \in Nat /\ Len(Q) \in Nat /\ Len(Setup) = Len(P) /\ DOMAIN Hold = 1 .. Len(Q)
      /\ \A q \in 1 .. Len(P) : Setup[q][1] = P[q].from /\ Setup[q][2] = P[q].to
      /\ \A q \in 1 .. Len(Q) : Hold[q][1] = Q[q].from /\ Hold[q][2] = Q[q].to
  BY <1>1, TablesAre
<1>4. i \in 1 .. Len(P) BY <1>1, <1>2, <1>3
<1>5. js \subseteq 1 .. Len(Q) BY <1>3 DEF Matches
<1>6. ArrSize \in Nat BY ArrSizeAssumption
<1>7. CASE \E j \in js : j > Len(Setup) \/ j > ArrSize
  <2>1. pc' = "undefined" /\ i' = i /\ flag' = flag /\ arr' = arr /\ out' = out
    BY <1>1, <1>7 DEF joining
  <2>2. Len(Q) > Len(P) \/ Len(Q) > ArrSize
    <3>1. PICK j \in js : j > Len(Setup) \/ j > ArrSize BY <1>7
    <3>2. j \in 1 .. Len(Q) BY <1>5, <3>1
    <3> HIDE DEF P, Q, js
    <3> QED BY <1>3, <1>6, <3>1, <3>2
  <2>3. FitsIsDefined' BY <1>1, <2>2 DEF FitsIsDefined
  <2>4. Given' BY <1>1, <2>1 DEF Given
  <2>5. ConvertInv' BY <2>1 DEF ConvertInv
  <2>6. \A p : HasRow(out', p) <=> HasRow(out, p) BY <2>1 DEF HasRow
  <2>7. \A l : Explained(l)' <=> Explained(l) BY <1>1 DEF Explained, Paths
  <2>8. Aligned' <=> Aligned BY <1>1 DEF Aligned
  <2>9. JoinInv' BY <1>1, <1>2, <2>1, <2>3, <2>6, <2>7, <2>8 DEF JoinInv
  <2> QED BY <2>4, <2>5, <2>9 DEF BInv
<1>8. CASE ~\E j \in js : j > Len(Setup) \/ j > ArrSize
  <2>1. /\ pc' = "match" /\ i' = i + 1 /\ arr' = arr \cup js /\ out' = out \o R
        /\ flag' = (flag \/ js # {})
    BY <1>1, <1>8
  <2>2. \A j \in js : j <= Len(P) /\ j <= ArrSize
    <3> HIDE DEF P, Q, js
    <3> QED BY <1>3, <1>5, <1>6, <1>8
  <2>3. /\ R \in Seq(OutRow)
        /\ \A j \in js : \E x \in 1 .. Len(R) : R[x] = PairRow(j)
        /\ js # {} => \A x \in 1 .. Len(R) : \E j \in js : R[x] = PairRow(j)
    BY <1>1, <1>4, <2>2, RowsForIs
  <2>4. \A j \in js : /\ Covers(PairRow(j), Q[j])
                      /\ Aligned => Explained(PairRow(j)) /\ Covers(PairRow(j), P[j])
    BY <1>1, <1>5, <2>2, PairRowIs
  <2> HIDE DEF R, js
  <2>5. /\ out' \in Seq(OutRow)
        /\ \A p : HasRow(out, p) => HasRow(out', p)
        /\ \A p : \A x \in 1 .. Len(R) : Covers(R[x], p) => HasRow(out', p)
        /\ \A x \in 1 .. Len(out') :
             \/ \E y \in 1 .. Len(out) : out'[x] = out[y]
             \/ \E y \in 1 .. Len(R) : out'[x] = R[y]
    BY <1>2, <2>1, <2>3, OutGrows
  <2>6. ASSUME NEW j \in arr' PROVE HasRow(out', Q[j])
    <3>1. CASE j \in arr BY <1>2, <2>5, <3>1
    <3>2. CASE j \notin arr
      <4>1. j \in js BY <2>1, <3>2
      <4>2. PICK x \in 1 .. Len(R) : R[x] = PairRow(j) BY <2>3, <4>1
      <4>3. Covers(R[x], Q[j]) BY <2>4, <4>1, <4>2
      <4> QED BY <2>5, <4>2, <4>3
    <3> QED BY <3>1, <3>2
  <2>7. ASSUME Aligned
        PROVE  /\ \A k \in 1 .. Len(out') : Explained(out'[k])
               /\ \A k \in 1 .. Len(P) : k < i' => HasRow(out', P[k])
    <3>1. i \in js
      <4>1. i \in 1 .. Len(Q) /\ P[i].from = Q[i].from /\ P[i].to = Q[i].to
        BY <1>4, <2>7 DEF Aligned
      <4> QED BY <1>3, <1>4, <4>1 DEF js, Matches, SameEnds
    <3>2. ASSUME NEW k \in 1 .. Len(out') PROVE Explained(out'[k])
      <4>1. CASE \E y \in 1 .. Len(out) : out'[k] = out[y] BY <1>2, <2>7, <4>1
      <4>2. CASE \E y \in 1 .. Len(R) : out'[k] = R[y]
        <5>1. PICK y \in 1 .. Len(R) : out'[k] = R[y] BY <4>2
        <5>2. PICK j \in js : R[y] = PairRow(j) BY <2>3, <3>1
        <5>3. Explained(PairRow(j)) BY <2>4, <2>7
        <5> QED BY <5>1, <5>2, <5>3
      <4> QED BY <2>5, <4>1, <4>2
    <3>3. ASSUME NEW k \in 1 .. Len(P), k < i' PROVE HasRow(out', P[k])
      <4>1. CASE k < i BY <1>2, <2>5, <2>7, <4>1
      <4>2. CASE ~(k < i)
        <5>1. k = i BY <1>2, <1>3, <2>1, <3>3, <4>2
        <5>2. PICK x \in 1 .. Len(R) : R[x] = PairRow(i) BY <2>3, <3>1
        <5>3. Covers(PairRow(i), P[i]) BY <2>4, <2>7, <3>1
        <5> QED BY <2>5, <5>1, <5>2, <5>3
      <4> QED BY <4>1, <4>2
    <3> QED BY <3>2, <3>3
  <2>8. arr' \subseteq (1 .. Len(Q)) \cap (1 .. ArrSize)
    <3>1. \A j \in js : j \in 1 .. ArrSize
      <4> HIDE DEF P, Q
      <4> QED BY <1>3, <1>5, <1>6, <2>2
    <3> QED BY <1>2, <1>5, <2>1, <3>1
  <2>9. i' \in Nat \ {0} BY <1>2, <2>1
  <2>10. FitsIsDefined' BY <2>1 DEF FitsIsDefined
  <2>11. flag' \in BOOLEAN BY <2>1
  <2>12. Given' BY <1>1, <2>1, <2>11 DEF Given
  <2>13. ConvertInv' BY <2>1 DEF ConvertInv
  <2>14. \A l : Explained(l)' <=> Explained(l) BY <1>1 DEF Explained, Paths
  <2>15. Aligned' <=> Aligned BY <1>1 DEF Aligned
  <2>16. JoinInv'
    <3>1. P' = P /\ Q' = Q BY <1>1
    <3> QED BY <1>1, <1>2, <2>1, <2>5, <2>6, <2>7, <2>8, <2>9, <2>10, <2>14, <2>15, <3>1
        DEF JoinInv
  <2> QED BY <2>12, <2>13, <2>16 DEF BInv
<1> QED BY <1>7, <1>8

LEMMA StartRestKeeps ==
  ASSUME BInv, StartRest
  PROVE  BInv'
<1> DEFINE P == reports.setup
           Q == reports.hold
<1>1. /\ Given /\ pc = "match" /\ i = Len(Setup) + 1 /\ i' = 1 /\ pc' = "rest"
      /\ reports' = reports /\ file' = file /\ next' = next /\ cunt' = cunt /\ temp' = temp
      /\ flag' = flag /\ arr' = arr /\ out' = out
  BY DEF BInv, StartRest, conversion
<1>2. /\ temp["setup"] = Table(P) /\ temp["hold"] = Table(Q)
      /\ next = 1 /\ cunt = 0 /\ i \in Nat \ {0} /\ out \in Seq(OutRow)
      /\ arr \subseteq (1 .. Len(Q)) \cap (1 .. ArrSize)
      /\ \A j \in arr : HasRow(out, Q[j])
      /\ Aligned => /\ \A k \in 1 .. Len(out) : Explained(out[k])
                    /\ \A k \in 1 .. Len(P) : k < i => HasRow(out, P[k])
  BY <1>1 DEF BInv, JoinInv
<1>3. Len(P) \in Nat /\ Len(Q) \in Nat /\ Len(Setup) = Len(P) BY <1>1, TablesAre
<1>4. \A k \in 1 .. Len(P) : k < i BY <1>1, <1>3
<1>5. \A j \in 1 .. Len(Q) : ~(j < i') BY <1>1, <1>3
<1>6. Given' BY <1>1 DEF Given
<1>7. ConvertInv' BY <1>1 DEF ConvertInv
<1>8. FitsIsDefined' BY <1>1 DEF FitsIsDefined
<1>9. \A p : HasRow(out', p) <=> HasRow(out, p) BY <1>1 DEF HasRow
<1>10. \A l : Explained(l)' <=> Explained(l) BY <1>1 DEF Explained, Paths
<1>11. Aligned' <=> Aligned BY <1>1 DEF Aligned
<1>12. i' \in Nat \ {0} BY <1>1
<1>13. JoinInv'
  BY <1>1, <1>2, <1>4, <1>5, <1>8, <1>9, <1>10, <1>11, <1>12 DEF JoinInv
<1> QED BY <1>6, <1>7, <1>13 DEF BInv

LEMMA EmitHoldKeeps ==
  ASSUME BInv, EmitHold
  PROVE  BInv'
<1> DEFINE P == reports.setup
           Q == reports.hold
<1>1. /\ Given /\ pc = "rest" /\ i <= Len(Hold)
      /\ reports' = reports /\ file' = file /\ next' = next /\ cunt' = cunt /\ temp' = temp
      /\ flag' = flag /\ arr' = arr
      /\ IF i > ArrSize
         THEN pc' = "undefined" /\ i' = i /\ out' = out
         ELSE /\ out' = IF i \in arr THEN out ELSE Append(out, HoldRow(i))
              /\ i' = i + 1 /\ pc' = pc
  BY DEF BInv, EmitHold, conversion, HoldRow
<1>2. /\ temp["setup"] = Table(P) /\ temp["hold"] = Table(Q)
      /\ next = 1 /\ cunt = 0 /\ i \in Nat \ {0} /\ out \in Seq(OutRow)
      /\ arr \subseteq (1 .. Len(Q)) \cap (1 .. ArrSize)
      /\ \A j \in arr : HasRow(out, Q[j])
      /\ \A j \in 1 .. Len(Q) : j < i => HasRow(out, Q[j])
      /\ Aligned => /\ \A k \in 1 .. Len(out) : Explained(out[k])
                    /\ \A k \in 1 .. Len(P) : HasRow(out, P[k])
  BY <1>1 DEF BInv, JoinInv
<1>3. Len(P) \in Nat /\ Len(Q) \in Nat /\ Len(Hold) = Len(Q) BY <1>1, TablesAre
<1>4. i \in 1 .. Len(Q) BY <1>1, <1>2, <1>3
<1>5. ArrSize \in Nat BY ArrSizeAssumption
<1>6. \A l : Explained(l)' <=> Explained(l) BY <1>1 DEF Explained, Paths
<1>7. Aligned' <=> Aligned BY <1>1 DEF Aligned
<1>8. CASE i > ArrSize
  <2>1. pc' = "undefined" /\ i' = i /\ out' = out BY <1>1, <1>8
  <2>2. Len(Q) > ArrSize
    <3> HIDE DEF P, Q
    <3> QED BY <1>3, <1>4, <1>5, <1>8
  <2>3. FitsIsDefined' BY <1>1, <2>2 DEF FitsIsDefined
  <2>4. Given' BY <1>1, <2>1 DEF Given
  <2>5. ConvertInv' BY <2>1 DEF ConvertInv
  <2>6. \A p : HasRow(out', p) <=> HasRow(out, p) BY <2>1 DEF HasRow
  <2>7. JoinInv' BY <1>1, <1>2, <1>6, <1>7, <2>1, <2>3, <2>6 DEF JoinInv
  <2> QED BY <2>4, <2>5, <2>7 DEF BInv
<1>9. CASE ~(i > ArrSize)
  <2>1. /\ out' = (IF i \in arr THEN out ELSE Append(out, HoldRow(i)))
        /\ i' = i + 1 /\ pc' = "rest"
    BY <1>1, <1>9
  <2>2. /\ HoldRow(i) \in OutRow /\ Covers(HoldRow(i), Q[i]) /\ Explained(HoldRow(i))
    BY <1>1, <1>4, HoldRowIs
  <2>3. /\ out' \in Seq(OutRow)
        /\ \A p : HasRow(out, p) => HasRow(out', p)
        /\ HasRow(out', Q[i])
        /\ \A x \in 1 .. Len(out') :
             (\E y \in 1 .. Len(out) : out'[x] = out[y]) \/ out'[x] = HoldRow(i)
    <3>1. CASE i \in arr
      <4>1. out' = out BY <2>1, <3>1
      <4>2. \A p : HasRow(out', p) <=> HasRow(out, p) BY <4>1 DEF HasRow
      <4>3. HasRow(out, Q[i]) BY <1>2, <3>1
      <4> QED BY <1>2, <4>1, <4>2, <4>3
    <3>2. CASE i \notin arr
      <4> DEFINE S == OutRow
                 l == HoldRow(i)
                 R == <<l>>
      <4>1. out \in Seq(S) /\ l \in S BY <1>2, <2>2
      <4> HIDE DEF S, l
      <4>2. R \in Seq(S) /\ Len(R) = 1 /\ R[1] = l BY <4>1
      <4>3. out' = out \o R
        <5>1. out' = Append(out, l) BY <2>1, <3>2 DEF l
        <5> QED BY <4>1, <5>1, AppendIsConcat
      <4> HIDE DEF R
      <4>4. /\ out' \in Seq(OutRow)
            /\ \A p : HasRow(out, p) => HasRow(out', p)
            /\ \A p : \A x \in 1 .. Len(R) : Covers(R[x], p) => HasRow(out', p)
            /\ \A x \in 1 .. Len(out') :
                 \/ \E y \in 1 .. Len(out) : out'[x] = out[y]
                 \/ \E y \in 1 .. Len(R) : out'[x] = R[y]
        BY <1>2, <4>2, <4>3, OutGrows DEF S
      <4>5. HasRow(out', Q[i])
        <5>1. 1 \in 1 .. Len(R) /\ Covers(R[1], Q[i]) BY <2>2, <4>2 DEF l
        <5> QED BY <4>4, <5>1
      <4>6. ASSUME NEW x \in 1 .. Len(out')
            PROVE  (\E y \in 1 .. Len(out) : out'[x] = out[y]) \/ out'[x] = l
        BY <4>2, <4>4
      <4> QED BY <4>4, <4>5, <4>6 DEF l
    <3> QED BY <3>1, <3>2
  <2>4. ASSUME NEW j \in 1 .. Len(Q), j < i' PROVE HasRow(out', Q[j])
    <3>1. CASE j < i BY <1>2, <2>3, <3>1
    <3>2. CASE ~(j < i)
      <4>1. j = i BY <1>2, <1>3, <2>1, <2>4, <3>2
      <4> QED BY <2>3, <4>1
    <3> QED BY <3>1, <3>2
  <2>5. i' \in Nat \ {0} BY <1>2, <2>1
  <2>6. FitsIsDefined' BY <2>1 DEF FitsIsDefined
  <2>7. Given' BY <1>1, <2>1 DEF Given
  <2>8. ConvertInv' BY <2>1 DEF ConvertInv
  <2>9. ASSUME Aligned
        PROVE  /\ \A k \in 1 .. Len(out') : Explained(out'[k])
               /\ \A k \in 1 .. Len(P) : HasRow(out', P[k])
    <3>1. \A k \in 1 .. Len(out') : Explained(out'[k]) BY <1>2, <2>2, <2>3, <2>9
    <3> QED BY <1>2, <2>3, <2>9, <3>1
  <2>10. JoinInv'
    <3>1. P' = P /\ Q' = Q BY <1>1
    <3> QED BY <1>1, <1>2, <1>6, <1>7, <2>1, <2>3, <2>4, <2>5, <2>6, <2>9, <3>1 DEF JoinInv
  <2> QED BY <2>7, <2>8, <2>10 DEF BInv
<1> QED BY <1>8, <1>9

LEMMA CloseKeeps ==
  ASSUME BInv, Close
  PROVE  BInv'
<1> DEFINE P == reports.setup
           Q == reports.hold
<1>1. /\ Given /\ pc = "rest" /\ i = Len(Hold) + 1 /\ pc' = "written"
      /\ reports' = reports /\ file' = file /\ next' = next /\ cunt' = cunt /\ temp' = temp
      /\ i' = i /\ flag' = flag /\ arr' = arr /\ out' = out
  BY DEF BInv, Close, conversion, joining
<1>2. /\ temp["setup"] = Table(P) /\ temp["hold"] = Table(Q)
      /\ next = 1 /\ cunt = 0 /\ i \in Nat \ {0} /\ out \in Seq(OutRow)
      /\ arr \subseteq (1 .. Len(Q)) \cap (1 .. ArrSize)
      /\ \A j \in arr : HasRow(out, Q[j])
      /\ \A j \in 1 .. Len(Q) : j < i => HasRow(out, Q[j])
      /\ Aligned => /\ \A k \in 1 .. Len(out) : Explained(out[k])
                    /\ \A k \in 1 .. Len(P) : HasRow(out, P[k])
  BY <1>1 DEF BInv, JoinInv
<1>3. Len(Q) \in Nat /\ Len(Hold) = Len(Q) BY <1>1, TablesAre
<1>4. \A j \in 1 .. Len(Q) : j < i BY <1>1, <1>3
<1>5. Given' BY <1>1 DEF Given
<1>6. ConvertInv' BY <1>1 DEF ConvertInv
<1>7. FitsIsDefined' BY <1>1 DEF FitsIsDefined
<1>8. \A p : HasRow(out', p) <=> HasRow(out, p) BY <1>1 DEF HasRow
<1>9. \A l : Explained(l)' <=> Explained(l) BY <1>1 DEF Explained, Paths
<1>10. Aligned' <=> Aligned BY <1>1 DEF Aligned
<1>11. JoinInv' BY <1>1, <1>2, <1>4, <1>7, <1>8, <1>9, <1>10 DEF JoinInv
<1> QED BY <1>5, <1>6, <1>11 DEF BInv

LEMMA NextKeeps ==
  ASSUME BInv, Next
  PROVE  BInv'
BY ConvertLineKeeps, CloseReportKeeps, MatchSetupKeeps, StartRestKeeps, EmitHoldKeeps,
   CloseKeeps DEF Next

LEMMA StutterKeeps ==
  ASSUME BInv, UNCHANGED vars
  PROVE  BInv'
<1>1. /\ reports' = reports /\ file' = file /\ next' = next /\ memory' = memory
      /\ cunt' = cunt /\ line' = line /\ temp' = temp
      /\ i' = i /\ flag' = flag /\ arr' = arr /\ out' = out /\ pc' = pc
  BY DEF vars, conversion, joining
<1>2. Given' BY <1>1 DEF BInv, Given
<1>3. Converting(reports[file])' <=> Converting(reports[file])
  BY <1>1 DEF Converting, Unread, AtEnd, Midway
<1>4. ConvertInv' BY <1>1, <1>3 DEF BInv, ConvertInv
<1>5. \A p : HasRow(out', p) <=> HasRow(out, p) BY <1>1 DEF HasRow
<1>6. \A l : Explained(l)' <=> Explained(l) BY <1>1 DEF Explained, Paths
<1>7. Aligned' <=> Aligned BY <1>1 DEF Aligned
<1>8. FitsIsDefined' <=> FitsIsDefined BY <1>1 DEF FitsIsDefined
<1>9. JoinInv' BY <1>1, <1>5, <1>6, <1>7, <1>8 DEF BInv, JoinInv
<1> QED BY <1>2, <1>4, <1>9 DEF BInv

-----------------------------------------------------------------------------
(***************************************************************************)
(* The .out file and its reading.                                          *)
(***************************************************************************)
tg == INSTANCE TimingGraphProofs WITH Reports <- Files, FlipFlops <- {},
                                      report <- OutFile, next <- nextOut, pc <- readPc

\* The rows of the file are those LBTB reads.
LEMMA OutFileRows ==
  ASSUME out \in Seq(OutRow)
  PROVE  /\ OutFile \in Files
         /\ \A k \in 1 .. Len(out) : 4 + k \in tg!Rows /\ OutFile.lines[4 + k] = out[k]
         /\ \A n \in tg!Rows : \E k \in 1 .. Len(out) : OutFile.lines[n] = out[k]
<1> DEFINE S == {Skip} \cup OutRow
           a == <<Skip, Skip, Skip, Skip>>
           b == a \o out
           e == <<Skip>>
           L == OutFile.lines
<1>1. L = b \o e /\ OutFile.format = "out" /\ OutFile.newline = TRUE BY DEF OutFile
<1>2. Skip.kind = "skip" /\ \A l \in OutRow : l.kind = "row" BY DEF Skip, OutRow
<1>3. a \in Seq(S) /\ Len(a) = 4 /\ \A x \in 1 .. 4 : a[x] = Skip OBVIOUS
<1>4. e \in Seq(S) /\ Len(e) = 1 /\ e[1] = Skip OBVIOUS
<1>5. out \in Seq(S) /\ \A k \in 1 .. Len(out) : out[k] \in OutRow
  <2> HIDE DEF OutRow
  <2> QED OBVIOUS
<1>6. Files = [format : {"out"}, newline : {TRUE}, lines : Seq(S)] BY DEF Files, OutRow
<1>7. OutFile = [format |-> "out", lines |-> L, newline |-> TRUE] BY DEF OutFile
<1> HIDE DEF S, a, b, e, L
<1>8. /\ b \in Seq(S) /\ Len(b) = 4 + Len(out) /\ Len(out) \in Nat
      /\ \A x \in 1 .. 4 : b[x] = Skip
      /\ \A x \in 1 .. Len(out) : b[4 + x] = out[x]
  <2>1. IsConcat(S, a, out, b) BY <1>3, <1>5, Concatenated DEF b
  <2> QED BY <1>3, <2>1 DEF IsConcat
<1>9. /\ L \in Seq(S) /\ Len(L) = Len(out) + 5
      /\ \A x \in 1 .. Len(out) + 4 : L[x] = b[x]
      /\ L[Len(out) + 5] = Skip
  <2>1. IsConcat(S, b, e, L) BY <1>1, <1>4, <1>8, Concatenated
  <2>2. /\ L \in Seq(S) /\ Len(L) = Len(b) + 1
        /\ \A x \in 1 .. Len(b) : L[x] = b[x]
        /\ L[Len(b) + 1] = Skip
    BY <1>4, <2>1 DEF IsConcat
  <2>3. Len(b) = Len(out) + 4 /\ Len(b) + 1 = Len(out) + 5 BY <1>8
  <2> QED BY <2>2, <2>3
<1>10. OutFile \in Files BY <1>6, <1>7, <1>9
<1>11. tg!Rows = {n \in 1 .. Len(L) : L[n].kind = "row"} BY DEF tg!Rows, L
<1>12. ASSUME NEW k \in 1 .. Len(out) PROVE 4 + k \in tg!Rows /\ L[4 + k] = out[k]
  <2>1. 4 + k \in 1 .. Len(out) + 4 /\ 4 + k \in 1 .. Len(L) BY <1>8, <1>9
  <2>2. L[4 + k] = out[k] BY <1>8, <1>9, <2>1
  <2>3. out[k].kind = "row" BY <1>2, <1>5
  <2> QED BY <1>11, <2>1, <2>2, <2>3
<1>13. ASSUME NEW n \in tg!Rows PROVE \E k \in 1 .. Len(out) : L[n] = out[k]
  <2>1. n \in 1 .. Len(out) + 5 /\ L[n].kind = "row" BY <1>9, <1>11
  <2>2. L[n] # Skip BY <1>2, <2>1
  <2>3. n # Len(out) + 5 BY <1>9, <2>2
  <2>4. n \notin 1 .. 4
    <3>1. \A x \in 1 .. 4 : x \in 1 .. Len(out) + 4 BY <1>8
    <3> QED BY <1>8, <1>9, <2>2, <3>1
  <2>5. n - 4 \in 1 .. Len(out) /\ 4 + (n - 4) = n /\ n \in 1 .. Len(out) + 4
    BY <1>8, <2>1, <2>3, <2>4
  <2>6. L[n] = out[n - 4] BY <1>8, <1>9, <2>5
  <2> QED BY <2>5, <2>6
<1> QED BY <1>10, <1>12, <1>13 DEF L

\* What BlifOutput writes meets the assumption of TimingGraph.
LEMMA FilesGiven == tg!ReportsAssumption
<1> SUFFICES ASSUME NEW p \in Files
             PROVE  /\ p.format \in {"out", "rslt"}
                    /\ p.newline \in BOOLEAN
                    /\ p.lines \in Seq(tg!Range(p.lines))
                    /\ \A n \in DOMAIN p.lines :
                         p.lines[n].kind = "row" =>
                           {p.lines[n].first, p.lines[n].second} \subseteq tg!EvenInt
  BY DEF tg!ReportsAssumption
<1> DEFINE S == {Skip} \cup OutRow
           L == p.lines
<1>1. p.format = "out" /\ p.newline = TRUE /\ L \in Seq(S) BY DEF Files, OutRow
<1>2. Skip.kind # "row" /\ \A l \in OutRow : l.first \in Time /\ l.second \in Time
  BY DEF Skip, OutRow
<1>3. tg!EvenInt = Time BY DEF tg!EvenInt, Time
<1> HIDE DEF L
<1>4. \A n \in DOMAIN L : L[n] \in {Skip} \cup OutRow
  <2> HIDE DEF S
  <2>1. \A n \in DOMAIN L : L[n] \in S BY <1>1
  <2> QED BY <2>1 DEF S
<1>5. \A n \in DOMAIN L : L[n].kind = "row" => {L[n].first, L[n].second} \subseteq tg!EvenInt
  BY <1>2, <1>3, <1>4
<1>6. L \in Seq(tg!Range(L))
  <2> HIDE DEF S
  <2>1. DOMAIN L = 1 .. Len(L) /\ Len(L) \in Nat /\ L = [n \in 1 .. Len(L) |-> L[n]] BY <1>1
  <2>2. \A n \in 1 .. Len(L) : L[n] \in tg!Range(L) BY <2>1 DEF tg!Range
  <2> QED BY <2>1, <2>2
<1> QED BY <1>1, <1>5, <1>6 DEF L

\* The steps of LBTB's reading are those its theorems are about.
LEMMA SameReading == lbtb!Next => tg!Next
<1>1. \A l : lbtb!ReadRow(l) => tg!ReadRow(l)
  <2>1. \A name : lbtb!Instance(name) = tg!Instance(name) BY DEF lbtb!Instance, tg!Instance
  <2>2. \A l : lbtb!MaxDelay(l) = tg!MaxDelay(l) BY DEF lbtb!MaxDelay, tg!MaxDelay
  <2>3. \A l : lbtb!MinDelay(l) = tg!MinDelay(l) BY DEF lbtb!MinDelay, tg!MinDelay
  <2>4. \A l : lbtb!Accepted(l) <=> tg!Accepted(l)
    BY <2>2, <2>3 DEF lbtb!Accepted, tg!Accepted
  <2>5. \A f, k, x : lbtb!Put(f, k, x) = tg!Put(f, k, x) BY DEF lbtb!Put, tg!Put
  <2>6. \A map, cnt, name : lbtb!Intern(map, cnt, name) = tg!Intern(map, cnt, name)
    BY <2>5 DEF lbtb!Intern, tg!Intern
  <2>7. \A old, delay : lbtb!Widen(old, delay) = tg!Widen(old, delay)
    BY DEF lbtb!Widen, tg!Widen
  <2>8. \A graph, e, delay : lbtb!Merge(graph, e, delay) = tg!Merge(graph, e, delay)
    BY <2>5, <2>7 DEF lbtb!Merge, tg!Merge
  <2> QED
    <3> SUFFICES ASSUME NEW l, lbtb!ReadRow(l) PROVE tg!ReadRow(l)
      OBVIOUS
    <3> DEFINE s == lbtb!Intern(nodeIdxMap, cntNodes, lbtb!Instance(l.from))
               t == lbtb!Intern(s.map, s.cnt, lbtb!Instance(l.to))
               e == <<s.map[lbtb!Instance(l.from)], t.map[lbtb!Instance(l.to)]>>
               delay == [max |-> lbtb!MaxDelay(l), min |-> lbtb!MinDelay(l)]
    <3>1. /\ nodeIdxMap' = t.map /\ cntNodes' = t.cnt
          /\ IF lbtb!Accepted(l) THEN dg' = lbtb!Merge(dg, e, delay) /\ readPc' = readPc
             ELSE dg' = dg /\ readPc' = "aborted"
      BY DEF lbtb!ReadRow
    <3>2. /\ s = tg!Intern(nodeIdxMap, cntNodes, tg!Instance(l.from))
          /\ t = tg!Intern(s.map, s.cnt, tg!Instance(l.to))
          /\ e = <<s.map[tg!Instance(l.from)], t.map[tg!Instance(l.to)]>>
          /\ delay = [max |-> tg!MaxDelay(l), min |-> tg!MinDelay(l)]
      BY <2>1, <2>2, <2>3, <2>6
    <3> HIDE DEF s, t, e, delay
    <3> QED BY <2>4, <2>8, <3>1, <3>2 DEF tg!ReadRow
<1>2. lbtb!ReadLine => tg!ReadLine
  BY <1>1 DEF lbtb!ReadLine, tg!ReadLine
<1>3. lbtb!ReadPastEnd => tg!ReadPastEnd
  BY <1>1 DEF lbtb!ReadPastEnd, tg!ReadPastEnd, lbtb!Last, tg!Last
<1>4. lbtb!FindTInitial => tg!FindTInitial
  BY DEF lbtb!FindTInitial, tg!FindTInitial, lbtb!Max, tg!Max
<1>5. lbtb!GetMcrGraph => tg!GetMcrGraph
  <2>1. \A graph, T0 : lbtb!McrArcs(graph, T0) = tg!McrArcs(graph, T0)
    BY DEF lbtb!McrArcs, tg!McrArcs, lbtb!EdgeArcs, tg!EdgeArcs, lbtb!arc, tg!arc,
         lbtb!ref, tg!ref, lbtb!a_, tg!a_, lbtb!A_, tg!A_, lbtb!d_, tg!d_, lbtb!D_, tg!D_,
         lbtb!HalfT, tg!HalfT
  <2> QED BY <2>1 DEF lbtb!GetMcrGraph, tg!GetMcrGraph
<1> QED BY <1>2, <1>3, <1>4, <1>5 DEF lbtb!Next, tg!Next

\* Reading has not begun.
Waiting ==
  /\ nextOut = 1 /\ nodeIdxMap = [n \in {"INPUT", "OUTPUT"} |-> 0] /\ cntNodes = 1
  /\ dg = <<>> /\ tInitial = 0 /\ g = {} /\ readPc = "read"

\* The invariant of both programs: LBTB begins with a file that is written.
FlowInv ==
  /\ BInv
  /\ pc # "written" => Waiting
  /\ pc = "written" => tg!IInv

LEMMA InitFlowInv == FlowInit => FlowInv
<1> SUFFICES ASSUME FlowInit PROVE FlowInv
  OBVIOUS
<1>1. Init /\ lbtb!Init BY DEF FlowInit
<1>2. OutFile.format = "out" BY DEF OutFile
<1>3. Waiting BY <1>1, <1>2 DEF lbtb!Init, lbtb!Outside, Waiting
<1>4. pc # "written" BY <1>1 DEF Init
<1> QED BY <1>1, <1>3, <1>4, InitBInv DEF FlowInv

LEMMA NextFlowInv == FlowInv /\ [FlowNext]_<<vars, reading>> => FlowInv'
<1> SUFFICES ASSUME FlowInv, [FlowNext]_<<vars, reading>> PROVE FlowInv'
  OBVIOUS
<1>1. ASSUME UNCHANGED reading
      PROVE  /\ nextOut' = nextOut /\ nodeIdxMap' = nodeIdxMap /\ cntNodes' = cntNodes
             /\ dg' = dg /\ tInitial' = tInitial /\ g' = g /\ readPc' = readPc
  BY <1>1 DEF reading
<1>2. ASSUME UNCHANGED reading, out' = out
      PROVE  UNCHANGED tg!vars
  BY <1>1, <1>2 DEF tg!vars, OutFile
<1>3. ASSUME UNCHANGED reading PROVE Waiting' <=> Waiting
  BY <1>1, <1>3 DEF Waiting
<1>4. tg!IInv /\ [tg!Next]_(tg!vars) => tg!IInv'
  BY tg!NextIInv, FilesGiven
<1>5. CASE Convert
  <2>1. BInv' /\ UNCHANGED reading /\ Next BY <1>5, NextKeeps DEF Convert, FlowInv
  <2>2. pc # "written"
    BY <2>1 DEF Next, ConvertLine, CloseReport, MatchSetup, StartRest, EmitHold, Close
  <2>3. CASE Close
    <3>1. pc' = "written" /\ pc = "rest" /\ out' = out BY <2>3 DEF Close, joining
    <3>2. Waiting BY <2>2 DEF FlowInv
    <3>3. out \in Seq(OutRow) BY <3>1 DEF FlowInv, BInv, JoinInv
    <3>4. OutFile \in Files /\ OutFile.format = "out" BY <3>3, OutFileRows DEF OutFile
    <3>5. tg!Init BY <3>2, <3>4 DEF tg!Init, Waiting, tg!Outside
    <3>6. tg!IInv BY <3>5, tg!InitIInv, FilesGiven
    <3>7. tg!IInv' BY <1>2, <1>4, <2>1, <3>1, <3>6
    <3> QED BY <2>1, <3>1, <3>7 DEF FlowInv
  <2>4. CASE ~Close
    <3>1. pc' # "written"
      BY <2>1, <2>2, <2>4 DEF Next, ConvertLine, CloseReport, MatchSetup, StartRest, EmitHold
    <3>2. Waiting' BY <1>3, <2>1, <2>2 DEF FlowInv
    <3> QED BY <2>1, <3>1, <3>2 DEF FlowInv
  <2> QED BY <2>3, <2>4
<1>6. CASE Read
  <2>1. pc = "written" /\ UNCHANGED vars /\ tg!Next BY <1>6, SameReading DEF Read
  <2>2. BInv' /\ pc' = "written" BY <2>1, StutterKeeps DEF FlowInv, vars
  <2>3. tg!IInv' BY <1>4, <2>1 DEF FlowInv
  <2> QED BY <2>2, <2>3 DEF FlowInv
<1>7. CASE UNCHANGED <<vars, reading>>
  <2>1. UNCHANGED vars /\ UNCHANGED reading BY <1>7
  <2>2. BInv' /\ pc' = pc /\ out' = out BY <2>1, StutterKeeps DEF FlowInv, vars, joining
  <2>3. pc = "written" => tg!IInv' BY <1>2, <1>4, <2>1, <2>2 DEF FlowInv
  <2> QED BY <1>3, <2>1, <2>2, <2>3 DEF FlowInv
<1> QED BY <1>5, <1>6, <1>7 DEF FlowNext

LEMMA FlowInductive == FlowSpec => []FlowInv
BY InitFlowInv, NextFlowInv, PTL DEF FlowSpec

-----------------------------------------------------------------------------
(***************************************************************************)
(* What the invariant says of the paths.                                   *)
(***************************************************************************)
LEMMA Typed == FlowInv => TypeOK
<1> SUFFICES ASSUME FlowInv PROVE TypeOK
  OBVIOUS
<1>1. Given /\ ConvertInv /\ JoinInv BY DEF FlowInv, BInv
<1>2. /\ file \in {"setup", "hold"} /\ DOMAIN temp = {"hold", "setup"} /\ flag \in BOOLEAN
      /\ pc \in {"convert", "match", "rest", "written", "undefined"}
  BY <1>1 DEF Given
<1>3. PICK P \in Seq(Path) : P = reports[file] BY <1>1, ReportsAre
<1>4. Len(Lines(P)) \in Nat
  <2>1. Len(P) \in Nat /\ Len(Lines(P)) = 13 * Len(P) + 3 BY LinesAt
  <2> QED BY <2>1
<1>5. /\ cunt \in Nat /\ next \in 1 .. Len(Lines(P)) + 1 /\ arr \subseteq 1 .. ArrSize
      /\ \A t \in {"hold", "setup"} : Shaped(temp[t])
  <2>1. CASE pc = "convert"
    <3>1. /\ Converting(reports[file]) /\ arr = {}
          /\ file = "hold" => temp["setup"] = <<>>
          /\ file = "setup" => temp["hold"] = Table(reports.hold)
      BY <1>1, <2>1 DEF ConvertInv
    <3>2. cunt \in Nat /\ next \in 1 .. Len(Lines(P)) + 1 /\ Shaped(temp[file])
      BY <1>3, <3>1, ConvertingTypes
    <3>3. Shaped(<<>>) BY DEF Shaped
    <3>4. Shaped(Table(reports.hold)) BY <1>1, ReportsAre, TablesAreShaped
    <3> QED BY <1>2, <3>1, <3>2, <3>3, <3>4
  <2>2. CASE pc # "convert"
    <3>1. /\ temp["setup"] = Table(reports.setup) /\ temp["hold"] = Table(reports.hold)
          /\ next = 1 /\ cunt = 0
          /\ arr \subseteq (1 .. Len(reports.hold)) \cap (1 .. ArrSize)
      BY <1>1, <2>2 DEF JoinInv
    <3>2. Shaped(temp["setup"]) /\ Shaped(temp["hold"])
      BY <1>1, <3>1, ReportsAre, TablesAreShaped
    <3> QED BY <1>4, <3>1, <3>2
  <2> QED BY <2>1, <2>2
<1>6. readPc \in {"read", "build", "built", "aborted"}
  <2>1. CASE pc # "written" BY <2>1 DEF FlowInv, Waiting
  <2>2. CASE pc = "written"
    <3>1. tg!IInv BY <2>2 DEF FlowInv
    <3> QED BY <3>1 DEF tg!IInv, tg!TypeOK
  <2> QED BY <2>1, <2>2
<1> QED BY <1>2, <1>3, <1>5, <1>6 DEF TypeOK, Shaped

\* A path with a row in the file that was read is in the delay graph.
LEMMA RowEnters ==
  ASSUME FlowInv, readPc = "built", NEW k \in 1 .. Len(out), NEW p, Covers(out[k], p),
         p.delay \in Int
  PROVE  /\ Enters(p)
         /\ EdgeOf(p) = tg!Edge(OutFile.lines[4 + k])
<1>1. pc = "written" /\ tg!IInv
  <2>1. pc = "written" BY DEF FlowInv, Waiting
  <2> QED BY <2>1 DEF FlowInv
<1>2. out \in Seq(OutRow) BY <1>1 DEF FlowInv, BInv, JoinInv
<1> DEFINE l == OutFile.lines[4 + k]
           e == tg!Edge(l)
<1>3. 4 + k \in tg!Rows /\ l = out[k] BY <1>2, OutFileRows
<1>4. 4 + k \in tg!RowsRead
  <2>1. nextOut = Len(OutFile.lines) + 2 BY <1>1 DEF tg!IInv, tg!Built
  <2>2. 4 + k \in 1 .. Len(OutFile.lines) BY <1>3 DEF tg!Rows
  <2> HIDE DEF l
  <2>3. Len(OutFile.lines) \in Nat
    <3>1. tg!Rows = {n \in 1 .. Len(OutFile.lines) : OutFile.lines[n].kind = "row"}
      BY DEF tg!Rows
    <3>2. OutFile \in Files BY <1>2, OutFileRows
    <3>3. \A L : L \in Seq({Skip} \cup OutRow) => Len(L) \in Nat OBVIOUS
    <3>4. OutFile.lines \in Seq({Skip} \cup OutRow) BY <3>2 DEF Files, OutRow
    <3> QED BY <3>3, <3>4
  <2>4. 4 + k < nextOut BY <2>1, <2>2, <2>3
  <2> QED BY <1>3, <2>4 DEF tg!RowsRead
<1>5. tg!Covered(l)
  <2>1. tg!IsMergeOfRows /\ readPc # "aborted" BY <1>1 DEF tg!IInv
  <2> QED BY <1>4, <2>1 DEF tg!IsMergeOfRows
<1>6. /\ OutFile.format = "out"
      /\ \A n : tg!Instance(n) = n /\ tg!MaxDelay(l) = l.first /\ tg!MinDelay(l) = l.second
  BY DEF OutFile, tg!Instance, tg!MaxDelay, tg!MinDelay
<1> HIDE DEF l
<1>7. /\ {l.from, l.to} \subseteq DOMAIN nodeIdxMap /\ e \in DOMAIN dg
      /\ e = <<nodeIdxMap[l.from], nodeIdxMap[l.to]>>
      /\ dg[e].max >= l.first /\ dg[e].min <= l.second
  BY <1>5, <1>6 DEF tg!Covered, tg!Edge
<1>8. /\ l.from = Written(p.from) /\ l.to = Written(p.to)
      /\ l.second <= p.delay /\ p.delay <= l.first
  BY <1>3 DEF Covers, Joins
<1>9. EdgeOf(p) = e BY <1>7, <1>8 DEF EdgeOf
<1>10. l.first \in Int /\ l.second \in Int
  <2>1. out[k] \in OutRow
    <3> HIDE DEF OutRow
    <3> QED BY <1>2
  <2> QED BY <1>3, <2>1 DEF OutRow, Time
<1>11. dg[e].max \in Int /\ dg[e].min \in Int
  <2>1. tg!IsDelayGraph(dg) BY <1>1 DEF tg!IInv, tg!TypeOK
  <2> QED BY <1>7, <2>1 DEF tg!IsDelayGraph, tg!Delays
<1> HIDE DEF e
<1>12. dg[e].min <= p.delay /\ p.delay <= dg[e].max BY <1>7, <1>8, <1>10, <1>11
<1>13. Enters(p) BY <1>7, <1>8, <1>9, <1>12 DEF Enters
<1> QED BY <1>9, <1>13 DEF e, l

\* Once LBTB has its graph the file is written.
LEMMA BuiltIsWritten ==
  ASSUME FlowInv, readPc = "built"
  PROVE  /\ pc = "written" /\ tg!IInv /\ Given
         /\ out \in Seq(OutRow)
         /\ \A j \in 1 .. Len(reports.hold) : HasRow(out, reports.hold[j])
         /\ Aligned => /\ \A k \in 1 .. Len(out) : Explained(out[k])
                       /\ \A k \in 1 .. Len(reports.setup) : HasRow(out, reports.setup[k])
<1>1. pc = "written" BY DEF FlowInv, Waiting
<1>2. tg!IInv /\ JoinInv /\ Given BY <1>1 DEF FlowInv, BInv
<1> QED BY <1>1, <1>2 DEF JoinInv

\* The paths of a report, by their places.
LEMMA PathsAre ==
  ASSUME Given
  PROVE  /\ Paths("hold") = {reports.hold[j] : j \in 1 .. Len(reports.hold)}
         /\ Paths("setup") = {reports.setup[j] : j \in 1 .. Len(reports.setup)}
         /\ \A p \in Paths("hold") \cup Paths("setup") : p.delay \in Int
<1>1. /\ reports.setup \in Seq(Path) /\ reports.hold \in Seq(Path)
      /\ reports["setup"] = reports.setup /\ reports["hold"] = reports.hold
  BY ReportsAre
<1>2. \A s \in Seq(Path) : ToSet(s) = {s[j] : j \in 1 .. Len(s)} BY DEF ToSet
<1>3. \A s \in Seq(Path) : \A j \in 1 .. Len(s) : s[j] \in Path OBVIOUS
<1>4. \A p \in Path : p.delay \in Int BY DEF Path, Time
<1>5. /\ Paths("hold") = {reports.hold[j] : j \in 1 .. Len(reports.hold)}
      /\ Paths("setup") = {reports.setup[j] : j \in 1 .. Len(reports.setup)}
  BY <1>1, <1>2 DEF Paths
<1> QED BY <1>1, <1>3, <1>4, <1>5

LEMMA HoldEnters == FlowInv => HoldPathsEnter
<1> SUFFICES ASSUME FlowInv, readPc = "built", NEW p \in Paths("hold")
             PROVE  Enters(p)
  BY DEF HoldPathsEnter
<1>1. Given /\ \A j \in 1 .. Len(reports.hold) : HasRow(out, reports.hold[j])
  BY BuiltIsWritten
<1>2. HasRow(out, p) /\ p.delay \in Int BY <1>1, PathsAre
<1>3. PICK k \in 1 .. Len(out) : Covers(out[k], p) BY <1>2 DEF HasRow
<1> QED BY <1>2, <1>3, RowEnters

\* Of aligned reports every path enters, and every delay of an edge is a path's.
LEMMA Exact == FlowInv => AlignedIsExact
<1> DEFINE All == Paths("setup") \cup Paths("hold")
           Of(p) == {q \in All : EdgeOf(q) = EdgeOf(p)}
<1> SUFFICES ASSUME FlowInv, readPc = "built", Aligned, NEW p \in All
             PROVE  /\ Enters(p)
                    /\ dg[EdgeOf(p)].max = Max({q.delay : q \in Of(p)})
                    /\ dg[EdgeOf(p)].min = Min({q.delay : q \in Of(p)})
  BY DEF AlignedIsExact
<1>1. /\ tg!IInv /\ Given /\ out \in Seq(OutRow)
      /\ \A j \in 1 .. Len(reports.hold) : HasRow(out, reports.hold[j])
      /\ \A k \in 1 .. Len(out) : Explained(out[k])
      /\ \A k \in 1 .. Len(reports.setup) : HasRow(out, reports.setup[k])
  BY BuiltIsWritten
<1>2. \A q \in All : HasRow(out, q) /\ q.delay \in Int BY <1>1, PathsAre
<1> HIDE DEF All
<1>3. ASSUME NEW q \in All PROVE Enters(q)
  <2>1. PICK k \in 1 .. Len(out) : Covers(out[k], q) BY <1>2 DEF HasRow
  <2> QED BY <1>2, <2>1, RowEnters
<1> DEFINE e == EdgeOf(p)
           D == {q.delay : q \in Of(p)}
<1>4. e \in DOMAIN dg BY <1>3 DEF Enters
<1>5. \A q \in Of(p) : q \in All /\ EdgeOf(q) = e /\ q.delay \in Int
      /\ dg[e].min <= q.delay /\ q.delay <= dg[e].max
  BY <1>2, <1>3 DEF Enters
<1>6. /\ OutFile.format = "out"
      /\ \A l : tg!MaxDelay(l) = l.first /\ tg!MinDelay(l) = l.second
  BY DEF OutFile, tg!MaxDelay, tg!MinDelay
<1>7. tg!Attained(e)
  <2>1. tg!IsMergeOfRows /\ readPc # "aborted" BY <1>1 DEF tg!IInv
  <2> HIDE DEF e
  <2> QED BY <1>4, <2>1 DEF tg!IsMergeOfRows
<1>8. ASSUME NEW n \in tg!RowsRead, tg!Edge(OutFile.lines[n]) = e
      PROVE  OutFile.lines[n].first \in D /\ OutFile.lines[n].second \in D
  <2>1. n \in tg!Rows BY DEF tg!RowsRead
  <2>2. PICK k \in 1 .. Len(out) : OutFile.lines[n] = out[k] BY <1>1, <2>1, OutFileRows
  <2> DEFINE l == out[k]
  <2>3. \A x \in {l.first, l.second} : \E q \in All : Joins(l, q) /\ q.delay = x
    BY <1>1 DEF Explained, All
  <2>4. ASSUME NEW q \in All, Joins(l, q) PROVE q.delay \in D
    <3>1. \A x : tg!Instance(x) = x BY <1>6 DEF tg!Instance
    <3>2. tg!Edge(OutFile.lines[n]) = <<nodeIdxMap[l.from], nodeIdxMap[l.to]>>
      BY <2>2, <3>1 DEF tg!Edge
    <3>3. EdgeOf(q) = e BY <1>8, <2>4, <3>2 DEF EdgeOf, Joins
    <3> QED BY <2>4, <3>3
  <2> QED BY <2>2, <2>3, <2>4
<1>9. dg[e].max \in D /\ dg[e].min \in D
  <2> HIDE DEF e, D
  <2>1. PICK n \in tg!RowsRead : /\ tg!Edge(OutFile.lines[n]) = e
                                 /\ tg!MaxDelay(OutFile.lines[n]) = dg[e].max
    BY <1>7 DEF tg!Attained
  <2>2. PICK m \in tg!RowsRead : /\ tg!Edge(OutFile.lines[m]) = e
                                 /\ tg!MinDelay(OutFile.lines[m]) = dg[e].min
    BY <1>7 DEF tg!Attained
  <2> QED BY <1>6, <1>8, <2>1, <2>2
<1>10. D \in SUBSET Int /\ \A x \in D : dg[e].min <= x /\ x <= dg[e].max BY <1>5
<1>11. Enters(p) BY <1>3
<1> HIDE DEF D, e
<1>12. Max(D) = dg[e].max BY <1>9, <1>10, Largest
<1>13. Min(D) = dg[e].min BY <1>9, <1>10, Smallest
<1> QED BY <1>11, <1>12, <1>13 DEF D, e

LEMMA TablesHold == FlowInv => TablesAreReports
<1> SUFFICES ASSUME FlowInv, pc # "convert", NEW t \in {"setup", "hold"}
             PROVE  temp[t] = [k \in 1 .. Len(reports[t]) |->
                                 <<reports[t][k].from, reports[t][k].to, reports[t][k].delay>>]
                              \o <<<<"End">>>>
  BY DEF TablesAreReports
<1>1. Given /\ temp["setup"] = Table(reports.setup) /\ temp["hold"] = Table(reports.hold)
  BY DEF FlowInv, BInv, JoinInv
<1>2. temp[t] = Table(reports[t]) BY <1>1, ReportsAre
<1> QED BY <1>2 DEF Table, RowsOf

LEMMA FitsHolds == FlowInv => FitsIsDefined
BY DEF FlowInv, BInv, JoinInv, FitsIsDefined

\* The arrays and files are what the code takes them for, however long the
\* reports are: a turn of benchmarkConversion's loop never completes a row with
\* more or less than three fields, and no mark is outside arr.
THEOREM FlowTypes == FlowSpec => []TypeOK
BY FlowInductive, Typed, PTL

\* benchmarkConversion turns reports of any number of paths into tables with a
\* row for each, although it takes three lines of each path for arrivals.
THEOREM TablesOfReports == FlowSpec => []TablesAreReports
BY FlowInductive, TablesHold, PTL

\* Every path of the hold report is in LBTB's delay graph, within the bounds of
\* its edge, whatever the setup report lists.
THEOREM HoldPathsInGraph == FlowSpec => []HoldPathsEnter
BY FlowInductive, HoldEnters, PTL

\* For reports of the same pairs of pins the delay graph LBTB works on is
\* exact: the bounds of its edges are the extremes of the paths on them.
THEOREM GraphOfAligned == FlowSpec => []AlignedIsExact
BY FlowInductive, Exact, PTL

\* printrsltfile stays within its arrays, however large arr is, for hold
\* reports that are no longer than arr and than the setup report.
THEOREM JoinIsDefined == FlowSpec => []FitsIsDefined
BY FlowInductive, FitsHolds, PTL

=============================================================================
