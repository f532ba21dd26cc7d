---------------------------- MODULE CommonProofs ----------------------------
(***************************************************************************)
(* What the proofs about more than one component rest on.                  *)
(*                                                                         *)
(* Of numbers and sequences: induction over numbers and over finite sets   *)
(* appears as what it amounts to, that a set of numbers which is not empty *)
(* has a least member, and a set of finite sets one that contains no       *)
(* other.  What Max, Min, \o and FlattenSeq do follows from it.            *)
(*                                                                         *)
(* Of trees: what Subtree and Relink do with a parent function.            *)
(*                                                                         *)
(* Of graphs: the bounds of CycleBounds hold just when there are           *)
(* potentials, values of the nodes that no arc can lower.  Solvers keep    *)
(* potentials, and so their results can be compared with the bounds.       *)
(* Where the bounds do not hold there is a simple cycle to show for it, of *)
(* negative cost: what a finder that only sees simple cycles reports.      *)
(*                                                                         *)
(* Of what getMcrGraph makes of every delay graph: the arcs are the rows   *)
(* of the linear program, every cycle has a positive delay, and r = 0 (the *)
(* initial period) satisfies all constraints.                              *)
(***************************************************************************)
EXTENDS ConstraintGraph, CycleBounds, ParentTree, Sequences, SequencesExt,
        FiniteSetTheorems, TLAPS

\* A non-empty set of natural numbers has a least member.
LEMMA LeastNatural ==
  ASSUME NEW S \in SUBSET Nat, S # {}
  PROVE  \E m \in S : \A n \in S : m <= n
<1> DEFINE R == OpToRel(<, Nat)
<1>1. PICK m \in S : \A n \in S : ~(<<n, m>> \in R)
  <2>1. IsWellFoundedOn(R, Nat) BY NatLessThanWellFounded
  <2> HIDE DEF R
  <2> QED BY <2>1, WFMin
<1>2. ASSUME NEW n \in S PROVE m <= n
  <2>1. n \in Nat /\ m \in Nat BY <1>1
  <2>2. n < m => <<n, m>> \in R BY <2>1 DEF OpToRel
  <2> HIDE DEF R
  <2> QED BY <1>1, <2>1, <2>2
<1> QED BY <1>2

\* A set that has zero and with every number the next one has all of them.
LEMMA AllNaturals ==
  ASSUME NEW S, 0 \in S, \A n \in Nat : n \in S => n + 1 \in S
  PROVE  Nat \subseteq S
<1> SUFFICES ASSUME NEW k \in Nat, k \notin S PROVE FALSE
  OBVIOUS
<1>1. PICK m \in Nat \ S : \A n \in Nat \ S : m <= n
  BY LeastNatural
<1>2. m # 0 /\ m - 1 \in Nat /\ m - 1 + 1 = m BY <1>1
<1>3. m - 1 \in S BY <1>1, <1>2
<1> QED BY <1>1, <1>2, <1>3

\* A function on a finite set that is not empty is least somewhere.
LEMMA LeastValue ==
  ASSUME NEW S, IsFiniteSet(S), S # {}, NEW f \in [S -> Int]
  PROVE  \E x \in S : \A y \in S : f[x] <= f[y]
<1> DEFINE Bad == {T \in SUBSET S : /\ T # {}
                                    /\ ~\E x \in T : \A y \in T : f[x] <= f[y]}
<1> SUFFICES ASSUME Bad # {} PROVE FALSE
  OBVIOUS
<1>1. PICK T \in Bad : \A U \in Bad : ~(<<U, T>> \in StrictSubsetOrdering(S))
  <2>1. IsWellFoundedOn(StrictSubsetOrdering(S), FiniteSubsetsOf(S))
    BY FS_StrictSubsetOrderingWellFounded
  <2>2. Bad \subseteq FiniteSubsetsOf(S) BY FS_FiniteSubsetsOfFinite
  <2> HIDE DEF Bad
  <2> QED BY <2>1, <2>2, WFMin
<1>2. PICK x \in T : TRUE OBVIOUS
<1> DEFINE U == T \ {x}
<1>3. U \notin Bad
  <2>1. <<U, T>> \in StrictSubsetOrdering(S)
    BY <1>1, <1>2 DEF StrictSubsetOrdering
  <2> QED BY <1>1, <2>1
<1>4. CASE U = {}
  BY <1>1, <1>2, <1>4
<1>5. CASE U # {}
  <2>1. PICK y \in U : \A z \in U : f[y] <= f[z] BY <1>1, <1>3, <1>5
  <2>2. f[x] \in Int /\ \A z \in U : f[z] \in Int BY <1>1, <1>2
  <2>3. CASE f[x] <= f[y] BY <1>1, <1>2, <2>1, <2>2, <2>3
  <2>4. CASE ~(f[x] <= f[y]) BY <1>1, <1>2, <2>1, <2>2, <2>4
  <2> QED BY <2>3, <2>4
<1> QED BY <1>4, <1>5

\* So has a set of numbers up to n that has zero, and the next of each it has.
LEMMA AllUpTo ==
  ASSUME NEW n \in Nat, NEW S, 0 \in S, \A k \in 1 .. n : k - 1 \in S => k \in S
  PROVE  0 .. n \subseteq S
<1> DEFINE Z == {k \in Nat : k <= n => k \in S}
<1>1. 0 \in Z OBVIOUS
<1>2. ASSUME NEW k \in Nat, k \in Z PROVE k + 1 \in Z
  <2>1. k + 1 <= n => k + 1 \in 1 .. n /\ (k + 1) - 1 = k /\ k <= n OBVIOUS
  <2> QED BY <1>2, <2>1
<1> HIDE DEF Z
<1>3. Nat \subseteq Z BY <1>1, <1>2, AllNaturals
<1> QED BY <1>3 DEF Z

\* f begins with b and goes on with F, which may count its steps.
Iterated(f, b, F, n) ==
  /\ f[0] = b
  /\ \A k \in 1 .. n : f[k] = F[<<k, f[k - 1]>>]

\* There is such a function.
LEMMA Iterates ==
  ASSUME NEW V, NEW b \in V, NEW n \in Nat, NEW F \in [(1 .. n) \X V -> V]
  PROVE  \E f \in [0 .. n -> V] : Iterated(f, b, F, n)
<1> DEFINE Goes(f, m) == /\ f[0] = b
                         /\ \A k \in 1 .. m : f[k] = F[<<k, f[k - 1]>>]
           Good == {m \in Nat : m <= n => \E f \in [0 .. m -> V] : Goes(f, m)}
<1>1. 0 \in Good
  <2> DEFINE f == [k \in 0 .. 0 |-> b]
  <2>1. f \in [0 .. 0 -> V] /\ Goes(f, 0) OBVIOUS
  <2> QED BY <2>1
<1>2. ASSUME NEW m \in Nat, m \in Good PROVE m + 1 \in Good
  <2> SUFFICES ASSUME m + 1 <= n PROVE \E f \in [0 .. m + 1 -> V] : Goes(f, m + 1)
    OBVIOUS
  <2>1. PICK f \in [0 .. m -> V] : Goes(f, m) BY <1>2
  <2> DEFINE h == [k \in 0 .. m + 1 |-> IF k = m + 1 THEN F[<<m + 1, f[m]>>] ELSE f[k]]
  <2>2. h \in [0 .. m + 1 -> V]
    <3>1. m + 1 \in 1 .. n /\ f[m] \in V BY <2>1
    <3>2. F[<<m + 1, f[m]>>] \in V BY <3>1
    <3> QED BY <2>1, <3>2
  <2>3. h[0] = b BY <2>1
  <2>4. ASSUME NEW k \in 1 .. m + 1 PROVE h[k] = F[<<k, h[k - 1]>>]
    <3>1. CASE k = m + 1
      <4>1. h[k] = F[<<m + 1, f[m]>>] /\ k - 1 = m /\ h[m] = f[m] BY <3>1
      <4> QED BY <3>1, <4>1
    <3>2. CASE k # m + 1
      <4>1. k \in 1 .. m /\ k - 1 \in 0 .. m /\ k - 1 # m + 1 BY <3>2
      <4>2. h[k] = f[k] /\ h[k - 1] = f[k - 1] BY <4>1
      <4>3. f[k] = F[<<k, f[k - 1]>>] BY <2>1, <4>1
      <4> QED BY <4>2, <4>3
    <3> QED BY <3>1, <3>2
  <2> HIDE DEF h
  <2>5. Goes(h, m + 1) BY <2>3, <2>4
  <2> QED BY <2>2, <2>5
<1> HIDE DEF Good
<1>3. Nat \subseteq Good BY <1>1, <1>2, AllNaturals
<1> QED BY <1>3 DEF Good, Iterated

\* f has what the first k numbers of s add up to, for every k.
SumsUp(s, n, f) ==
  /\ f \in [0 .. n -> Int] /\ f[0] = 0
  /\ \A k \in 1 .. n : f[k] = f[k - 1] + s[k]

\* Numbers can be added up one after the other.
LEMMA SumsExist ==
  ASSUME NEW n \in Nat, NEW s \in [1 .. n -> Int]
  PROVE  \E f : SumsUp(s, n, f)
<1> DEFINE V == Int
           F == [x \in (1 .. n) \X V |-> x[2] + s[x[1]]]
<1>1. F \in [(1 .. n) \X V -> V] /\ 0 \in V OBVIOUS
<1>2. PICK f \in [0 .. n -> V] : Iterated(f, 0, F, n)
  <2> HIDE DEF F, V
  <2> QED BY <1>1, Iterates
<1>3. ASSUME NEW k \in 1 .. n PROVE f[k] = f[k - 1] + s[k]
  <2>1. f[k] = F[<<k, f[k - 1]>>] BY <1>2 DEF Iterated
  <2>2. k - 1 \in 0 .. n OBVIOUS
  <2> QED BY <2>1, <2>2
<1> HIDE DEF F
<1>4. SumsUp(s, n, f) BY <1>2, <1>3 DEF Iterated, SumsUp
<1> QED BY <1>4

\* A member of a set of numbers that bounds the others is what Max finds, or Min.
LEMMA Largest ==
  ASSUME NEW S \in SUBSET Int, NEW m \in S, \A x \in S : x <= m
  PROVE  Max(S) = m
<1>1. \A y \in S : m >= y
  OBVIOUS
<1>2. Max(S) \in S /\ \A y \in S : Max(S) >= y
  BY <1>1 DEF Max
<1> DEFINE k == Max(S)
<1>3. k \in Int /\ m \in Int /\ k >= m /\ m >= k
  BY <1>1, <1>2
<1> HIDE DEF k
<1>4. k = m
  BY <1>3
<1> QED BY <1>4 DEF k

LEMMA Smallest ==
  ASSUME NEW S \in SUBSET Int, NEW m \in S, \A x \in S : m <= x
  PROVE  Min(S) = m
<1>1. \A y \in S : m <= y
  OBVIOUS
<1>2. Min(S) \in S /\ \A y \in S : Min(S) <= y
  BY <1>1 DEF Min
<1> DEFINE k == Min(S)
<1>3. k \in Int /\ m \in Int /\ k <= m /\ m <= k
  BY <1>1, <1>2
<1> HIDE DEF k
<1>4. k = m
  BY <1>3
<1> QED BY <1>4 DEF k

\* What stands where when b is put after a.
IsConcat(S, a, b, c) ==
  /\ c \in Seq(S) /\ Len(a) \in Nat /\ Len(b) \in Nat
  /\ Len(c) = Len(a) + Len(b)
  /\ \A x \in 1 .. Len(a) : c[x] = a[x]
  /\ \A x \in 1 .. Len(b) : c[Len(a) + x] = b[x]

LEMMA Concatenated ==
  ASSUME NEW S, NEW a \in Seq(S), NEW b \in Seq(S)
  PROVE  IsConcat(S, a, b, a \o b)
<1> DEFINE c == a \o b
<1>1. Len(a) \in Nat /\ Len(b) \in Nat /\ Len(c) = Len(a) + Len(b) /\ c \in Seq(S)
  OBVIOUS
<1>2. \A x \in 1 .. Len(a) : c[x] = a[x] BY <1>1
<1>3. ASSUME NEW x \in 1 .. Len(b) PROVE c[Len(a) + x] = b[x]
  <2>1. Len(a) + x \in 1 .. Len(a) + Len(b) /\ ~(Len(a) + x <= Len(a))
        /\ Len(a) + x - Len(a) = x
    BY <1>1
  <2> QED BY <2>1
<1> HIDE DEF c
<1> QED BY <1>1, <1>2, <1>3 DEF IsConcat, c

\* f has what the first k sequences are one after the other, and at last s.
Joined(S, n, seqs, f, s) ==
  /\ f \in [0 .. n -> Seq(S)] /\ f[0] = <<>> /\ f[n] = s
  /\ \A k \in 1 .. n : f[k] = f[k - 1] \o seqs[k]

\* FlattenSeq puts sequences one after the other.
LEMMA Flattened ==
  ASSUME NEW S, NEW n \in Nat, NEW seqs \in [1 .. n -> Seq(S)]
  PROVE  \E f : Joined(S, n, seqs, f, FlattenSeq(seqs))
<1> DEFINE V == Seq(S)
           F == [x \in (1 .. n) \X V |-> x[2] \o seqs[x[1]]]
<1>1. F \in [(1 .. n) \X V -> V] /\ <<>> \in V OBVIOUS
<1>2. \A k \in 1 .. n, s \in V : F[<<k, s>>] = s \o seqs[k] OBVIOUS
<1>3. Len(seqs) = n
  <2>1. seqs \in Seq(V) OBVIOUS
  <2> QED BY <2>1
<1> HIDE DEF F, V
<1>4. PICK f \in [0 .. n -> V] : Iterated(f, <<>>, F, n) BY <1>1, Iterates
<1>5. /\ f[0] = <<>>
      /\ \A k \in 1 .. n : f[k] = f[k - 1] \o seqs[k]
      /\ n # 0 => f[1] = seqs[1]
  <2>1. ASSUME NEW k \in 1 .. n PROVE f[k] = f[k - 1] \o seqs[k]
    <3>1. k - 1 \in 0 .. n OBVIOUS
    <3>2. f[k - 1] \in V BY <1>4, <3>1
    <3>3. f[k] = F[<<k, f[k - 1]>>] BY <1>4 DEF Iterated
    <3> QED BY <1>2, <3>2, <3>3
  <2>2. f[0] = <<>> BY <1>4 DEF Iterated
  <2>3. ASSUME n # 0 PROVE f[1] = seqs[1]
    <3>1. 1 \in 1 .. n /\ 1 - 1 = 0 BY <2>3
    <3>2. f[1] = <<>> \o seqs[1] BY <2>1, <2>2, <3>1
    <3>3. seqs[1] \in Seq(S) BY <3>1
    <3> QED BY <3>2, <3>3
  <2> QED BY <2>1, <2>2, <2>3
<1>6. f[n] = FlattenSeq(seqs)
  <2>1. CASE n = 0
    <3>1. seqs = <<>> /\ FlattenSeq(seqs) = seqs BY <1>3, <2>1 DEF FlattenSeq
    <3> QED BY <1>5, <2>1, <3>1
  <2>2. CASE n # 0
    <3> DEFINE Step(h) == [i \in 1 .. n |-> IF i = 1 THEN seqs[i] ELSE h[i - 1] \o seqs[i]]
               fl == CHOOSE h : h = Step(h)
               h0 == [i \in 1 .. n |-> f[i]]
    <3>1. FlattenSeq(seqs) = fl[n] BY <1>3, <2>2 DEF FlattenSeq
    <3>2. h0 = Step(h0)
      <4>1. ASSUME NEW i \in 1 .. n
            PROVE  f[i] = IF i = 1 THEN seqs[i] ELSE h0[i - 1] \o seqs[i]
        <5>1. CASE i = 1 BY <1>5, <5>1
        <5>2. CASE i # 1
          <6>1. i - 1 \in 1 .. n BY <5>2
          <6> QED BY <1>5, <5>2, <6>1
        <5> QED BY <5>1, <5>2
      <4> QED BY <4>1
    <3>3. fl = Step(fl)
      <4> HIDE DEF h0, Step
      <4> QED BY <3>2
    <3>4. fl = [i \in 1 .. n |-> IF i = 1 THEN seqs[i] ELSE fl[i - 1] \o seqs[i]] BY <3>3
    <3> HIDE DEF fl, Step, h0
    <3> DEFINE X == {k \in 0 .. n : k # 0 => fl[k] = f[k]}
    <3>5. 0 .. n \subseteq X
      <4>1. 0 \in X OBVIOUS
      <4>2. ASSUME NEW k \in 1 .. n, k - 1 \in X PROVE k \in X
        <5>1. fl[k] = IF k = 1 THEN seqs[k] ELSE fl[k - 1] \o seqs[k] BY <3>4
        <5>2. CASE k = 1 BY <1>5, <5>1, <5>2
        <5>3. CASE k # 1
          <6>1. fl[k - 1] = f[k - 1] BY <4>2, <5>3
          <6>2. fl[k] = f[k - 1] \o seqs[k] BY <5>1, <5>3, <6>1
          <6>3. f[k] = f[k - 1] \o seqs[k] BY <1>5
          <6>4. fl[k] = f[k] /\ k \in 0 .. n BY <6>2, <6>3
          <6> QED BY <6>4
        <5> QED BY <5>2, <5>3
      <4> HIDE DEF X
      <4> QED BY <4>1, <4>2, AllUpTo
    <3> QED BY <2>2, <3>1, <3>5
  <2> QED BY <2>1, <2>2
<1> QED BY <1>4, <1>5, <1>6 DEF V, Joined

\* s has the members of the n sequences and no others.
Gathers(S, n, seqs, s) ==
  /\ s \in Seq(S)
  /\ \A k \in 1 .. n : \A j \in 1 .. Len(seqs[k]) : \E i \in 1 .. Len(s) : s[i] = seqs[k][j]
  /\ \A i \in 1 .. Len(s) : \E k \in 1 .. n : \E j \in 1 .. Len(seqs[k]) : s[i] = seqs[k][j]

LEMMA FlattenMembers ==
  ASSUME NEW S, NEW n \in Nat, NEW seqs \in [1 .. n -> Seq(S)]
  PROVE  Gathers(S, n, seqs, FlattenSeq(seqs))
<1> DEFINE s == FlattenSeq(seqs)
<1> HIDE DEF s
<1>0. PICK f : Joined(S, n, seqs, f, s) BY Flattened DEF s
<1>1. /\ f \in [0 .. n -> Seq(S)] /\ f[0] = <<>> /\ f[n] = s
      /\ \A k \in 1 .. n : f[k] = f[k - 1] \o seqs[k]
  BY <1>0 DEF Joined
<1> DEFINE Has(m) ==
             /\ \A k \in 1 .. m : \A j \in 1 .. Len(seqs[k]) :
                  \E i \in 1 .. Len(f[m]) : f[m][i] = seqs[k][j]
             /\ \A i \in 1 .. Len(f[m]) :
                  \E k \in 1 .. m : \E j \in 1 .. Len(seqs[k]) : f[m][i] = seqs[k][j]
           X == {m \in 0 .. n : Has(m)}
<1>2. 0 \in X BY <1>1
<1>3. ASSUME NEW m \in 1 .. n, m - 1 \in X PROVE m \in X
  <2> DEFINE a == f[m - 1]
             b == seqs[m]
             c == f[m]
  <2>1. a \in Seq(S) /\ b \in Seq(S) /\ c = a \o b /\ Has(m - 1) BY <1>1, <1>3
  <2>2. /\ Len(a) \in Nat /\ Len(b) \in Nat /\ Len(c) = Len(a) + Len(b)
        /\ \A i \in 1 .. Len(a) : c[i] = a[i]
        /\ \A i \in 1 .. Len(b) : c[Len(a) + i] = b[i]
    <3> HIDE DEF a, b, c
    <3>1. IsConcat(S, a, b, c) BY <2>1, Concatenated
    <3> QED BY <3>1 DEF IsConcat
  <2>3. /\ \A k \in 1 .. m - 1 : \A j \in 1 .. Len(seqs[k]) : \E i \in 1 .. Len(a) : a[i] = seqs[k][j]
        /\ \A i \in 1 .. Len(a) : \E k \in 1 .. m - 1 : \E j \in 1 .. Len(seqs[k]) : a[i] = seqs[k][j]
    BY <2>1
  <2> HIDE DEF a, c
  <2>4. ASSUME NEW k \in 1 .. m, NEW j \in 1 .. Len(seqs[k])
        PROVE  \E i \in 1 .. Len(c) : c[i] = seqs[k][j]
    <3>1. CASE k = m
      <4>1. j \in 1 .. Len(b) /\ c[Len(a) + j] = b[j] BY <2>2, <3>1
      <4>2. Len(a) + j \in 1 .. Len(c) BY <2>2, <4>1
      <4> QED BY <3>1, <4>1, <4>2
    <3>2. CASE k # m
      <4>1. k \in 1 .. m - 1 BY <3>2
      <4>2. PICK i \in 1 .. Len(a) : a[i] = seqs[k][j] BY <2>3, <4>1
      <4>3. i \in 1 .. Len(c) /\ c[i] = a[i] BY <2>2, <4>2
      <4> QED BY <4>2, <4>3
    <3> QED BY <3>1, <3>2
  <2>5. ASSUME NEW i \in 1 .. Len(c)
        PROVE  \E k \in 1 .. m : \E j \in 1 .. Len(seqs[k]) : c[i] = seqs[k][j]
    <3>1. CASE i <= Len(a)
      <4>1. i \in 1 .. Len(a) BY <2>2, <3>1
      <4>2. PICK k \in 1 .. m - 1 : \E j \in 1 .. Len(seqs[k]) : a[i] = seqs[k][j] BY <2>3, <4>1
      <4> QED BY <2>2, <4>1, <4>2
    <3>2. CASE ~(i <= Len(a))
      <4>1. i - Len(a) \in 1 .. Len(b) /\ Len(a) + (i - Len(a)) = i BY <2>2, <3>2
      <4>2. c[i] = b[i - Len(a)] BY <2>2, <4>1
      <4> QED BY <4>1, <4>2
    <3> QED BY <3>1, <3>2
  <2>6. Has(m)
    <3>1. /\ \A k \in 1 .. m : \A j \in 1 .. Len(seqs[k]) : \E i \in 1 .. Len(c) : c[i] = seqs[k][j]
          /\ \A i \in 1 .. Len(c) : \E k \in 1 .. m : \E j \in 1 .. Len(seqs[k]) : c[i] = seqs[k][j]
      BY <2>4, <2>5
    <3> QED BY <3>1 DEF c
  <2> HIDE DEF Has
  <2> QED BY <2>6
<1> HIDE DEF X
<1>4. 0 .. n \subseteq X BY <1>2, <1>3, AllUpTo
<1>5. Has(n) BY <1>4 DEF X
<1> QED BY <1>1, <1>5 DEF Gathers, s

-----------------------------------------------------------------------------
(***************************************************************************)
(* The parent tree.  Subtree is defined by the sets it must contain, so    *)
(* what it is follows from two facts: it is closed under tree children,    *)
(* and it is the least such set.                                           *)
(***************************************************************************)
\* A subtree consists of nodes, its root among them.
LEMMA SubtreeNodes ==
  ASSUME NEW N, NEW V, NEW T \in [N -> V], NEW v \in N
  PROVE  Subtree(T, v) \subseteq N /\ v \in Subtree(T, v)
BY DEF Subtree

\* A child of a node of the subtree is in the subtree: the breadth-first loops
\* leave nothing below v out.
LEMMA SubtreeClosed ==
  ASSUME NEW N, NEW V, NEW T \in [N -> V], NEW v \in N
  PROVE  Closed(T, Subtree(T, v))
<1> DEFINE Linked == {x \in N : T[x] \in N}
           Around == {X \in SUBSET Linked : Closed(T, X \cup {v})}
<1>1. ASSUME NEW x \in N, T[x] \in Subtree(T, v), x # v
      PROVE  x \in Subtree(T, v)
  <2>1. T[x] \in N BY <1>1, SubtreeNodes
  <2>2. ASSUME NEW X \in Around PROVE x \in X
    <3>1. T[x] \in X \cup {v} BY <1>1, <2>2 DEF Subtree
    <3>2. x \in X \cup {v} BY <3>1, <2>2, <1>1 DEF Closed
    <3> QED BY <3>2, <1>1
  <2>3. x \in Linked /\ \A X \in Around : x \in X BY <1>1, <2>1, <2>2
  <2> QED BY <2>3 DEF Subtree
<1> QED BY <1>1, SubtreeNodes DEF Closed

\* Every closed set that contains v contains the subtree: the loops add
\* nothing that is not below v.
LEMMA SubtreeLeast ==
  ASSUME NEW N, NEW V, NEW T \in [N -> V], NEW v \in N, NEW Z, v \in Z, Closed(T, Z)
  PROVE  Subtree(T, v) \subseteq Z
<1> DEFINE Linked == {x \in N : T[x] \in N}
           X == {x \in Linked : x \in Z}
<1> SUFFICES ASSUME NEW x \in Subtree(T, v), x # v PROVE x \in Z
  OBVIOUS
<1>1. Closed(T, X \cup {v})
  <2> SUFFICES ASSUME NEW y \in N, T[y] \in X \cup {v}
               PROVE  y \in X \cup {v}
    BY DEF Closed
  <2>1. T[y] \in Z /\ T[y] \in N OBVIOUS
  <2>2. y \in Z BY <2>1 DEF Closed
  <2> QED BY <2>1, <2>2
<1>2. X \in SUBSET Linked OBVIOUS
<1>3. x \in X BY <1>1, <1>2 DEF Subtree
<1> QED BY <1>3

\* A node of the subtree other than its root has its parent in the subtree.
LEMMA SubtreeParent ==
  ASSUME NEW N, NEW V, NEW T \in [N -> V], NEW v \in N, NEW x \in Subtree(T, v), x # v
  PROVE  T[x] \in Subtree(T, v)
<1> DEFINE S == Subtree(T, v)
           Z == {v} \cup {y \in S : T[y] \in S}
<1>1. S \subseteq N /\ v \in S /\ Closed(T, S)
  BY SubtreeNodes, SubtreeClosed
<1>2. Closed(T, Z) BY <1>1 DEF Closed
<1>3. S \subseteq Z BY <1>2, SubtreeLeast
<1> QED BY <1>3

\* Hanging a node under one that is not below it keeps the tree a forest.
LEMMA RelinkKeepsForest ==
  ASSUME NEW N, NEW V, N \subseteq V, NEW T \in [N -> V], Acyclic(T),
         NEW u \in N, NEW v \in N, u \notin Subtree(T, v)
  PROVE  Relink(T, u, v) \in [N -> V] /\ Acyclic(Relink(T, u, v))
<1> DEFINE S == Subtree(T, v)
           R == Relink(T, u, v)
<1>1. R \in [N -> V] BY DEF Relink
<1>2. \A x \in N : R[x] = IF x = v THEN u ELSE T[x] BY DEF Relink
<1>3. S \subseteq N /\ v \in S /\ Closed(T, S)
  BY SubtreeNodes, SubtreeClosed
<1>4. ASSUME NEW X \in SUBSET N, X # {}, \A x \in X : R[x] \in X
      PROVE  FALSE
  <2>1. CASE v \notin X
    <3>1. \A x \in X : T[x] \in X BY <1>2, <1>4, <2>1
    <3> QED BY <3>1, <1>4 DEF Acyclic
  <2>2. CASE v \in X
    <3>1. u \in X \ S BY <1>2, <1>4, <2>2
    <3>2. \A x \in X \ S : T[x] \in X \ S
      BY <1>2, <1>3, <1>4 DEF Closed
    <3>3. X \ S \in SUBSET N BY <1>4
    <3> QED BY <3>1, <3>2, <3>3 DEF Acyclic
  <2> QED BY <2>1, <2>2
<1> HIDE DEF R
<1>5. Acyclic(R) BY <1>1, <1>4 DEF Acyclic
<1> QED BY <1>1, <1>5 DEF R

\* Relinking its root leaves the subtree where it was: the loop that rescans
\* it after the move (YTO.cpp:110) visits at least what was shifted.
LEMMA RelinkKeepsSubtree ==
  ASSUME NEW N, NEW V, N \subseteq V, NEW T \in [N -> V], NEW u \in N, NEW v \in N
  PROVE  Subtree(T, v) \subseteq Subtree(Relink(T, u, v), v)
<1> DEFINE R == Relink(T, u, v)
           Z == Subtree(R, v)
<1>1. R \in [N -> V] BY DEF Relink
<1>2. \A x \in N : R[x] = IF x = v THEN u ELSE T[x] BY DEF Relink
<1>3. v \in Z /\ Closed(R, Z) BY <1>1, SubtreeNodes, SubtreeClosed
<1> HIDE DEF R
<1>4. Closed(T, Z) BY <1>1, <1>2, <1>3 DEF Closed
<1> QED BY <1>3, <1>4, SubtreeLeast DEF R

-----------------------------------------------------------------------------
(***************************************************************************)
(* Facts about extended rationals.                                         *)
(***************************************************************************)
\* Multiplying keeps an order.
LEMMA TimesMonotone ==
  ASSUME NEW a \in Int, NEW b \in Int, NEW k \in Nat
  PROVE  /\ a <= b => a * k <= b * k
         /\ k # 0 /\ a * k <= b * k => a <= b
<1>1. a <= b => a * k <= b * k
  <2> SUFFICES ASSUME a <= b PROVE a * k <= b * k
    OBVIOUS
  <2>1. (b - a) \in Nat OBVIOUS
  <2>2. (b - a) * k >= 0 BY <2>1
  <2>3. (b - a) * k = b * k - a * k OBVIOUS
  <2>4. a * k \in Int /\ b * k \in Int OBVIOUS
  <2> QED BY <2>2, <2>3, <2>4
<1>2. k # 0 /\ b < a => b * k < a * k
  <2> SUFFICES ASSUME k # 0, b < a PROVE b * k < a * k
    OBVIOUS
  <2>1. (a - b) \in Nat \ {0} OBVIOUS
  <2>2. (a - b) * k > 0 BY <2>1
  <2>3. (a - b) * k = a * k - b * k OBVIOUS
  <2>4. a * k \in Int /\ b * k \in Int OBVIOUS
  <2> QED BY <2>2, <2>3, <2>4
<1>3. a * k \in Int /\ b * k \in Int OBVIOUS
<1> QED BY <1>1, <1>2, <1>3

\* The parts of a ratio; the denominator is zero just for infinity.
LEMMA RatioParts ==
  ASSUME NEW p \in Ratio
  PROVE  /\ p[1] \in Int /\ p[2] \in Nat
         /\ p[2] = 0 <=> p = Infinity
         /\ p = <<p[1], p[2]>>
         /\ p[2] = 0 => p[1] = 1
BY DEF Ratio, Infinity

\* Fractions a/b, c/d and e/f in order, where only infinity has denominator 0.
LEMMA FractionsTransitive ==
  ASSUME NEW a \in Int, NEW b \in Nat, NEW c \in Int, NEW d \in Nat,
         NEW e \in Int, NEW f \in Nat,
         d = 0 => c = 1, f = 0 => e = 1, a * d <= c * b, c * f <= e * d
  PROVE  a * f <= e * b
<1>1. CASE d = 0
  <2>1. c * f <= 0 /\ c = 1 BY <1>1
  <2>2. f = 0 BY <2>1
  <2>3. a * f = 0 /\ e = 1 BY <2>2
  <2> QED BY <2>3
<1>2. CASE d # 0
  <2>1. (a * d) * f <= (c * b) * f BY TimesMonotone
  <2>2. (c * f) * b <= (e * d) * b BY TimesMonotone
  <2>3. (c * b) * f = (c * f) * b OBVIOUS
  <2>4. (a * d) * f = (a * f) * d /\ (e * d) * b = (e * b) * d OBVIOUS
  <2>5. (a * f) \in Int /\ (e * b) \in Int OBVIOUS
  <2>6. (a * f) * d <= (e * b) * d
    <3>1. (a * d) * f \in Int /\ (c * b) * f \in Int /\ (e * d) * b \in Int OBVIOUS
    <3> QED BY <2>1, <2>2, <2>3, <2>4, <3>1
  <2> QED BY <1>2, <2>5, <2>6, TimesMonotone
<1> QED BY <1>1, <1>2

\* "Not less" is transitive.
LEMMA NotLessTransitive ==
  ASSUME NEW p \in Ratio, NEW q \in Ratio, NEW s \in Ratio, ~Less(q, p), ~Less(s, q)
  PROVE  ~Less(s, p)
<1> DEFINE a == p[1]  b == p[2]  c == q[1]  d == q[2]  e == s[1]  f == s[2]
<1>1. /\ a \in Int /\ b \in Nat /\ c \in Int /\ d \in Nat /\ e \in Int /\ f \in Nat
      /\ d = 0 => c = 1
      /\ f = 0 => e = 1
  BY RatioParts
<1>2. /\ a * d <= c * b /\ c * f <= e * d
  BY <1>1 DEF Less
<1>3. a * f <= e * b
  <2> HIDE DEF a, b, c, d, e, f
  <2> QED BY <1>1, <1>2, FractionsTransitive
<1>4. a * f \in Int /\ e * b \in Int BY <1>1
<1> QED BY <1>3, <1>4 DEF Less

\* Less is an order: of two ratios one is not less than the other.
LEMMA LessOrder ==
  ASSUME NEW p \in Ratio, NEW q \in Ratio
  PROVE  /\ Less(p, q) => ~Less(q, p)
         /\ ~Less(p, q) /\ ~Less(q, p) <=> Same(p, q)
<1>1. p[1] \in Int /\ p[2] \in Nat /\ q[1] \in Int /\ q[2] \in Nat BY RatioParts
<1>2. p[1] * q[2] \in Int /\ q[1] * p[2] \in Int BY <1>1
<1> QED BY <1>2 DEF Less, Same

\* Of finitely many ratios one is least.
LEMMA LeastRatio ==
  ASSUME NEW S, IsFiniteSet(S), S # {}, NEW K \in [S -> Ratio]
  PROVE  \E x \in S : \A y \in S : ~Less(K[y], K[x])
<1> DEFINE Bad == {T \in SUBSET S : /\ T # {}
                                    /\ ~\E x \in T : \A y \in T : ~Less(K[y], K[x])}
<1> SUFFICES ASSUME Bad # {} PROVE FALSE
  OBVIOUS
<1>1. PICK T \in Bad : \A U \in Bad : ~(<<U, T>> \in StrictSubsetOrdering(S))
  <2>1. IsWellFoundedOn(StrictSubsetOrdering(S), FiniteSubsetsOf(S))
    BY FS_StrictSubsetOrderingWellFounded
  <2>2. Bad \subseteq FiniteSubsetsOf(S) BY FS_FiniteSubsetsOfFinite
  <2> HIDE DEF Bad
  <2> QED BY <2>1, <2>2, WFMin
<1>2. PICK x \in T : TRUE OBVIOUS
<1> DEFINE U == T \ {x}
<1>3. U \notin Bad
  <2>1. <<U, T>> \in StrictSubsetOrdering(S)
    BY <1>1, <1>2 DEF StrictSubsetOrdering
  <2> QED BY <1>1, <2>1
<1>4. \A y \in T : K[y] \in Ratio BY <1>1
<1>5. \A y \in T : ~Less(K[y], K[y]) BY <1>4, LessOrder
<1>6. CASE U = {}
  BY <1>1, <1>2, <1>5, <1>6
<1>7. CASE U # {}
  <2>1. PICK y \in U : \A z \in U : ~Less(K[z], K[y]) BY <1>1, <1>3, <1>7
  <2>2. CASE ~Less(K[x], K[y]) BY <1>1, <1>2, <2>1, <2>2
  <2>3. CASE Less(K[x], K[y])
    <3>1. ~Less(K[y], K[x]) BY <1>2, <1>4, <2>1, <2>3, LessOrder
    <3>2. \A z \in U : ~Less(K[z], K[x])
      BY <1>2, <1>4, <2>1, <3>1, NotLessTransitive
    <3> QED BY <1>1, <1>2, <1>5, <3>2
  <2> QED BY <2>2, <2>3
<1> QED BY <1>6, <1>7

-----------------------------------------------------------------------------
(***************************************************************************)
(* The costs of walks.                                                     *)
(***************************************************************************)
IsGraph(N, g) == \A e \in g : e.from \in N /\ e.to \in N

\* The costs d of the nodes as the pairs CycleBounds has for them.
Pairs(N, d) == {<<v, d[v]>> : v \in N}

\* b are the costs when walks may be one arc longer than for d.
OneMore(N, g, cost, d, b) ==
  \A v \in N :
    /\ b[v] <= d[v]
    /\ \A e \in g : e.to = v => b[v] <= d[e.from] + cost[e]
    /\ \/ b[v] = d[v]
       \/ \E e \in g : e.to = v /\ b[v] = d[e.from] + cost[e]

LEMMA PairsAreOne ==
  ASSUME NEW N, NEW c \in [N -> Int], NEW d \in [N -> Int], Pairs(N, c) = Pairs(N, d)
  PROVE  c = d
<1>1. ASSUME NEW v \in N PROVE c[v] = d[v]
  <2>1. <<v, c[v]>> \in Pairs(N, d) BY DEF Pairs
  <2> QED BY <2>1 DEF Pairs
<1> QED BY <1>1

LEMMA ExtendedCosts ==
  ASSUME NEW N, NEW g, IsFiniteSet(g), IsGraph(N, g), NEW cost \in [g -> Int],
         NEW d \in [N -> Int]
  PROVE  \E b \in [N -> Int] :
           /\ Extended(N, g, cost, Pairs(N, d)) = Pairs(N, b)
           /\ OneMore(N, g, cost, d, b)
<1> DEFINE W == Pairs(N, d)
           Around(v) == {e \in g : e.to = v}
           Into(v) == {p[2] : p \in {q \in W : q[1] = v}} \cup
                      UNION {{p[2] + cost[e] : p \in {q \in W : q[1] = e.from}} :
                               e \in {f \in g : f.to = v}}
           Costs(v) == {d[v]} \cup {d[e.from] + cost[e] : e \in Around(v)}
           b == [v \in N |-> Least(Into(v))]
<1>1. ASSUME NEW v \in N PROVE Into(v) = Costs(v)
  <2> DEFINE At(x) == {q \in W : q[1] = x}
             Via(e) == {p[2] + cost[e] : p \in At(e.from)}
             sum(e) == d[e.from] + cost[e]
  <2>1. ASSUME NEW x \in N PROVE At(x) = {<<x, d[x]>>} BY DEF Pairs
  <2>2. \A e \in g : e.from \in N BY DEF IsGraph
  <2>4. {p[2] : p \in At(v)} = {d[v]}
    <3>1. At(v) = {<<v, d[v]>>} BY <2>1
    <3> HIDE DEF At
    <3> QED BY <3>1
  <2>5. ASSUME NEW e \in Around(v) PROVE Via(e) = {sum(e)}
    <3>1. At(e.from) = {<<e.from, d[e.from]>>} BY <2>1, <2>2
    <3> HIDE DEF At
    <3> QED BY <3>1
  <2>6. Into(v) = {p[2] : p \in At(v)} \cup UNION {Via(e) : e \in Around(v)} OBVIOUS
  <2>7. Costs(v) = {d[v]} \cup {sum(e) : e \in Around(v)} OBVIOUS
  <2> HIDE DEF At, Via, sum, Into, Costs, Around, W
  <2> QED BY <2>4, <2>5, <2>6, <2>7
<1>2. ASSUME NEW v \in N
      PROVE  /\ Least(Costs(v)) \in Costs(v)
             /\ \A y \in Costs(v) : Least(Costs(v)) <= y
  <2>1. \E x \in Costs(v) : \A y \in Costs(v) : x <= y
    <3>1. d[v] \in Int /\ \A e \in Around(v) : d[e.from] + cost[e] \in Int
      BY DEF IsGraph
    <3>2. CASE Around(v) = {} BY <3>1, <3>2
    <3>3. CASE Around(v) # {}
      <4> DEFINE f == [e \in Around(v) |-> d[e.from] + cost[e]]
      <4>1. IsFiniteSet(Around(v)) BY FS_Subset
      <4>2. f \in [Around(v) -> Int] BY <3>1
      <4> HIDE DEF f
      <4>3. PICK x \in Around(v) : \A y \in Around(v) : f[x] <= f[y]
        BY <3>3, <4>1, <4>2, LeastValue
      <4>4. \A y \in Around(v) : d[x.from] + cost[x] <= d[y.from] + cost[y]
        BY <4>3 DEF f
      <4>5. CASE d[v] <= d[x.from] + cost[x] BY <3>1, <4>4, <4>5
      <4>6. CASE ~(d[v] <= d[x.from] + cost[x]) BY <3>1, <4>4, <4>6
      <4> QED BY <4>5, <4>6
    <3> QED BY <3>2, <3>3
  <2> HIDE DEF Costs
  <2> QED BY <2>1 DEF Least
<1>3. ASSUME NEW v \in N
      PROVE  /\ b[v] \in Costs(v) /\ b[v] \in Int
             /\ \A y \in Costs(v) : b[v] <= y
  <2>1. b[v] = Least(Costs(v)) BY <1>1
  <2>2. Costs(v) \subseteq Int BY DEF IsGraph
  <2> QED BY <2>1, <2>2, <1>2
<1>4. Extended(N, g, cost, W) = Pairs(N, b) BY DEF Extended, Pairs
<1> HIDE DEF b
<1>5. b \in [N -> Int]
  <2>1. b = [v \in N |-> b[v]] BY DEF b
  <2> QED BY <2>1, <1>3
<1>6. OneMore(N, g, cost, d, b)
  <2> SUFFICES ASSUME NEW v \in N
               PROVE  /\ b[v] <= d[v]
                      /\ \A e \in g : e.to = v => b[v] <= d[e.from] + cost[e]
                      /\ \/ b[v] = d[v]
                         \/ \E e \in g : e.to = v /\ b[v] = d[e.from] + cost[e]
    BY DEF OneMore
  <2>1. \A e \in g : e.to = v => d[e.from] + cost[e] \in Costs(v) OBVIOUS
  <2>2. d[v] \in Costs(v) OBVIOUS
  <2>3. b[v] = d[v] \/ \E e \in Around(v) : b[v] = d[e.from] + cost[e]
    BY <1>3
  <2> HIDE DEF Costs
  <2> QED BY <1>3, <2>1, <2>2, <2>3
<1> QED BY <1>4, <1>5, <1>6

\* The recursion of WalkCosts is one that defines a function, and each of its
\* values is the one before with one more arc.
LEMMA WalksAreCosted ==
  ASSUME NEW N, IsFiniteSet(N), NEW g, IsFiniteSet(g), IsGraph(N, g),
         NEW cost \in [g -> Int]
  PROVE  \E D \in [0 .. Cardinality(N) -> [N -> Int]] :
           /\ \A k \in 0 .. Cardinality(N) : WalkCosts(N, g, cost)[k] = Pairs(N, D[k])
           /\ \A v \in N : D[0][v] = 0
           /\ \A k \in 1 .. Cardinality(N) : OneMore(N, g, cost, D[k - 1], D[k])
<1> DEFINE n == Cardinality(N)
           V == {Pairs(N, d) : d \in [N -> Int]}
           E(W) == Extended(N, g, cost, W)
           F == [x \in (1 .. n) \X V |-> E(x[2])]
           b == N \X {0}
           Walks == WalkCosts(N, g, cost)
<1>1. n \in Nat BY FS_CardinalityType
<1>2. b = Pairs(N, [v \in N |-> 0]) BY DEF Pairs
<1>3. b \in V BY <1>2
<1>4. F \in [(1 .. n) \X V -> V] /\ \A W \in V : E(W) \in V
  <2>1. \A d \in [N -> Int] : E(Pairs(N, d)) \in V BY ExtendedCosts
  <2> HIDE DEF E
  <2> QED BY <2>1
<1>5. PICK f \in [0 .. n -> V] : Iterated(f, b, F, n)
  <2> HIDE DEF V, b, F, n, Walks, E
  <2> QED BY <1>1, <1>3, <1>4, Iterates
<1>6. f = [k \in 0 .. n |-> IF k = 0 THEN b ELSE E(f[k - 1])]
  <2> HIDE DEF V, b, E, n
  <2>1. ASSUME NEW k \in 0 .. n, k # 0 PROVE f[k] = E(f[k - 1])
    <3>1. k \in 1 .. n /\ k - 1 \in 0 .. n BY <1>1, <2>1
    <3> QED BY <1>5, <3>1 DEF Iterated
  <2> QED BY <1>1, <1>5, <2>1 DEF Iterated
<1>7. Walks = CHOOSE h : h = [k \in 0 .. n |-> IF k = 0 THEN b ELSE E(h[k - 1])]
  BY DEF WalkCosts
<1>8. Walks = [k \in 0 .. n |-> IF k = 0 THEN b ELSE E(Walks[k - 1])]
  <2> HIDE DEF Walks, b, E, n
  <2> QED BY <1>6, <1>7
<1> HIDE DEF Walks
<1>9. Walks[0] = b /\ \A k \in 1 .. n : k - 1 \in 0 .. n /\ Walks[k] = E(Walks[k - 1])
  <2> HIDE DEF b, E, n
  <2> QED BY <1>1, <1>8
<1>10. \A k \in 0 .. n : Walks[k] \in V
  <2> DEFINE S == {k \in Nat : k \in 0 .. n => Walks[k] \in V}
  <2>1. 0 \in S BY <1>3, <1>9
  <2>2. ASSUME NEW k \in Nat, k \in S PROVE k + 1 \in S
    <3>1. CASE k + 1 \in 0 .. n
      <4> HIDE DEF n, V, E
      <4>1. k \in 0 .. n /\ k + 1 \in 1 .. n /\ (k + 1) - 1 = k BY <1>1, <3>1
      <4>2. Walks[k] \in V BY <2>2, <4>1
      <4>3. Walks[k + 1] = E(Walks[k]) BY <1>9, <4>1
      <4>4. E(Walks[k]) \in V BY <1>4, <4>2
      <4> QED BY <4>3, <4>4
    <3> QED BY <3>1
  <2> HIDE DEF S
  <2>3. Nat \subseteq S BY <2>1, <2>2, AllNaturals
  <2> QED BY <2>3 DEF S
<1> DEFINE D == [k \in 0 .. n |-> CHOOSE d \in [N -> Int] : Walks[k] = Pairs(N, d)]
<1>11. \A k \in 0 .. n : D[k] \in [N -> Int] /\ Walks[k] = Pairs(N, D[k])
  BY <1>10
<1>12. D \in [0 .. n -> [N -> Int]] BY <1>11
<1> HIDE DEF D
<1>13. \A v \in N : D[0][v] = 0
  <2>0. 0 \in 0 .. n BY <1>1
  <2>1. Pairs(N, D[0]) = Pairs(N, [v \in N |-> 0])
    <3> HIDE DEF b, n, V, F
    <3> QED BY <2>0, <1>2, <1>9, <1>11
  <2>2. D[0] \in [N -> Int] BY <1>1, <1>11
  <2>3. D[0] = [v \in N |-> 0] BY <2>1, <2>2, PairsAreOne
  <2> QED BY <2>3
<1>14. ASSUME NEW k \in 1 .. n PROVE OneMore(N, g, cost, D[k - 1], D[k])
  <2>1. k - 1 \in 0 .. n /\ k \in 0 .. n BY <1>1
  <2>2. D[k - 1] \in [N -> Int] /\ D[k] \in [N -> Int] BY <1>11, <2>1
  <2>3. PICK c \in [N -> Int] : /\ Extended(N, g, cost, Pairs(N, D[k - 1])) = Pairs(N, c)
                                /\ OneMore(N, g, cost, D[k - 1], c)
    BY <2>2, ExtendedCosts
  <2>4. Pairs(N, D[k]) = Pairs(N, c) BY <1>9, <1>11, <2>1, <2>3
  <2>5. D[k] = c BY <2>2, <2>4, PairsAreOne
  <2> QED BY <2>3, <2>5
<1> QED
  <2> HIDE DEF b, V, F, E
  <2> QED BY <1>11, <1>12, <1>13, <1>14 DEF Walks

-----------------------------------------------------------------------------
(***************************************************************************)
(* Potentials.                                                             *)
(***************************************************************************)
\* No arc leads to a node at less than its cost.
IsPotential(g, cost, p) == \A e \in g : p[e.to] <= p[e.from] + cost[e]

\* When walks of more arcs are no cheaper, their costs are potentials.
LEMMA NoNegativeCycleGivesPotentials ==
  ASSUME NEW N, IsFiniteSet(N), N # {}, NEW g, IsFiniteSet(g), IsGraph(N, g),
         NEW cost \in [g -> Int], NoNegativeCycle(N, g, cost)
  PROVE  \E p \in [N -> Int] : IsPotential(g, cost, p)
<1> DEFINE n == Cardinality(N)
<1>1. n \in Nat /\ n # 0 BY FS_CardinalityType, FS_EmptySet
<1>2. PICK D \in [0 .. n -> [N -> Int]] :
        /\ \A k \in 0 .. n : WalkCosts(N, g, cost)[k] = Pairs(N, D[k])
        /\ \A v \in N : D[0][v] = 0
        /\ \A k \in 1 .. n : OneMore(N, g, cost, D[k - 1], D[k])
  BY WalksAreCosted
<1>3. WalkCosts(N, g, cost)[n] = WalkCosts(N, g, cost)[n - 1]
  BY DEF NoNegativeCycle
<1> HIDE DEF n
<1>4. n \in 0 .. n /\ n \in 1 .. n /\ n - 1 \in 0 .. n BY <1>1
<1>5. D[n] \in [N -> Int] /\ D[n - 1] \in [N -> Int] BY <1>2, <1>4
<1>6. D[n] = D[n - 1] BY <1>2, <1>3, <1>4, <1>5, PairsAreOne
<1>7. OneMore(N, g, cost, D[n - 1], D[n]) BY <1>2, <1>4
<1>8. IsPotential(g, cost, D[n]) BY <1>6, <1>7 DEF OneMore, IsPotential, IsGraph
<1> QED BY <1>5, <1>8

\* D has the least costs of walks of up to n arcs.
Costed(N, g, cost, n, D) ==
  /\ IsGraph(N, g) /\ cost \in [g -> Int]
  /\ n \in Nat /\ D \in [0 .. n -> [N -> Int]]
  /\ \A k \in 1 .. n : OneMore(N, g, cost, D[k - 1], D[k])

\* The nodes to which walks of k arcs cost less than those of k - 1.
Fallen(N, D, k) == {v \in N : k = 0 \/ D[k][v] < D[k - 1][v]}

\* What falls comes along an arc from what fell just before.
ComesFrom(N, g, cost, D, k, v, e) ==
  /\ e.to = v /\ e.from \in Fallen(N, D, k)
  /\ D[k + 1][v] = D[k][e.from] + cost[e]

LEMMA FallsFrom ==
  ASSUME NEW N, NEW g, NEW cost, NEW n, NEW D, Costed(N, g, cost, n, D),
         NEW k \in 0 .. n, k + 1 \in 0 .. n, NEW v \in Fallen(N, D, k + 1)
  PROVE  \E e \in g : ComesFrom(N, g, cost, D, k, v, e)
<1> USE DEF Costed
<1>1. k + 1 \in 1 .. n /\ k + 1 - 1 = k /\ k + 1 # 0 OBVIOUS
<1>2. OneMore(N, g, cost, D[k], D[k + 1])
  <2>1. \A i \in 1 .. n : OneMore(N, g, cost, D[i - 1], D[i]) OBVIOUS
  <2> QED BY <1>1, <2>1
<1>3. v \in N /\ D[k + 1][v] < D[k][v] BY <1>1 DEF Fallen
<1>4. D[k + 1][v] \in Int /\ D[k][v] \in Int BY <1>3
<1>5. PICK e \in g : e.to = v /\ D[k + 1][v] = D[k][e.from] + cost[e]
  BY <1>2, <1>3, <1>4 DEF OneMore
<1> DEFINE u == e.from
<1>6. u \in N /\ D[k][u] \in Int /\ cost[e] \in Int BY <1>3 DEF IsGraph
<1>7. u \in Fallen(N, D, k)
  <2>1. CASE k = 0 BY <1>6, <2>1 DEF Fallen
  <2>2. CASE k # 0
    <3>1. k \in 1 .. n /\ k - 1 \in 0 .. n BY <2>2
    <3>2. OneMore(N, g, cost, D[k - 1], D[k]) BY <3>1
    <3>3. D[k - 1][u] \in Int BY <1>6, <3>1
    <3>4. D[k][v] <= D[k - 1][u] + cost[e] BY <1>3, <1>5, <3>2 DEF OneMore
    <3>5. D[k][u] < D[k - 1][u]
      <4> DEFINE new == D[k + 1][v]  old == D[k][v]  w == cost[e]
      <4>1. new < old /\ new = D[k][u] + w /\ old <= D[k - 1][u] + w
        BY <1>3, <1>5, <3>4
      <4>2. new \in Int /\ old \in Int /\ w \in Int BY <1>4, <1>6
      <4> HIDE DEF u, new, old, w
      <4> QED BY <1>6, <3>3, <4>1, <4>2
    <3> QED BY <1>6, <3>5 DEF Fallen
  <2> QED BY <2>1, <2>2
<1> QED BY <1>5, <1>7 DEF ComesFrom

\* Costs only go down.
LEMMA CostsGoDown ==
  ASSUME NEW N, NEW g, NEW cost, NEW n, NEW D, Costed(N, g, cost, n, D),
         NEW k \in 0 .. n, NEW j \in 0 .. n, k <= j, NEW v \in N
  PROVE  D[j][v] <= D[k][v]
<1> USE DEF Costed
<1> DEFINE S == {i \in Nat : k + i \in 0 .. n => D[k + i][v] <= D[k][v]}
<1>1. \A i \in 0 .. n : D[i][v] \in Int OBVIOUS
<1>2. 0 \in S
  <2>1. k + 0 = k OBVIOUS
  <2> QED BY <1>1, <2>1
<1>3. ASSUME NEW i \in Nat, i \in S PROVE i + 1 \in S
  <2> SUFFICES ASSUME k + (i + 1) \in 0 .. n
               PROVE  D[k + (i + 1)][v] <= D[k][v]
    OBVIOUS
  <2>1. k + i \in 0 .. n /\ k + (i + 1) \in 1 .. n /\ (k + (i + 1)) - 1 = k + i
    OBVIOUS
  <2>2. OneMore(N, g, cost, D[k + i], D[k + (i + 1)])
    <3>1. \A x \in 1 .. n : OneMore(N, g, cost, D[x - 1], D[x]) OBVIOUS
    <3> QED BY <2>1, <3>1
  <2>3. D[k + (i + 1)][v] <= D[k + i][v] BY <2>2 DEF OneMore
  <2>4. D[k + i][v] <= D[k][v] BY <1>3, <2>1
  <2> QED BY <1>1, <2>1, <2>3, <2>4
<1> HIDE DEF S
<1>4. Nat \subseteq S BY <1>2, <1>3, AllNaturals
<1>5. j - k \in Nat /\ k + (j - k) = j OBVIOUS
<1>6. j - k \in S BY <1>4, <1>5
<1> QED BY <1>5, <1>6 DEF S

\* With potentials walks of more arcs are no cheaper.  Say that a node fell at
\* k if walks of k arcs cost less than those of k - 1, and take for every k
\* the node that fell at k and is least above its potential.  The cost of a
\* node that falls comes along an arc, from a node that fell just before and
\* is no further above its potential: so the node taken for k does not fall
\* after k, and there are more numbers than nodes.
LEMMA PotentialsGiveNoNegativeCycle ==
  ASSUME NEW N, IsFiniteSet(N), N # {}, NEW g, IsFiniteSet(g), IsGraph(N, g),
         NEW cost \in [g -> Int], NEW p \in [N -> Int], IsPotential(g, cost, p)
  PROVE  NoNegativeCycle(N, g, cost)
<1> DEFINE n == Cardinality(N)
<1>1. n \in Nat /\ n # 0 BY FS_CardinalityType, FS_EmptySet
<1>2. PICK D \in [0 .. n -> [N -> Int]] :
        /\ \A k \in 0 .. n : WalkCosts(N, g, cost)[k] = Pairs(N, D[k])
        /\ \A v \in N : D[0][v] = 0
        /\ \A k \in 1 .. n : OneMore(N, g, cost, D[k - 1], D[k])
  BY WalksAreCosted
<1> SUFFICES ASSUME D[n] # D[n - 1] PROVE FALSE
  <2>1. n \in 0 .. n /\ n - 1 \in 0 .. n BY <1>1
  <2> QED BY <1>2, <2>1 DEF NoNegativeCycle
<1> HIDE DEF n
<1>3. \A k \in 0 .. n : \A v \in N : D[k][v] \in Int BY <1>2
<1> DEFINE Fell(k) == Fallen(N, D, k)
           Above(k, v) == D[k][v] - p[v]
<1>4. \A k \in 0 .. n : \A v \in N : Above(k, v) \in Int BY <1>3
\* What falls comes from what fell.
<1>5. ASSUME NEW k \in 0 .. n, k + 1 \in 0 .. n, NEW v \in Fell(k + 1)
      PROVE  \E u \in Fell(k) : Above(k, u) <= Above(k + 1, v)
  <2>1. Costed(N, g, cost, n, D) BY <1>1, <1>2 DEF Costed
  <2>2. PICK e \in g : ComesFrom(N, g, cost, D, k, v, e)
    <3> HIDE DEF Above
    <3> QED BY <1>5, <2>1, FallsFrom
  <2>3. /\ e.to = v /\ e.from \in Fell(k) /\ v \in N /\ e.from \in N
        /\ D[k + 1][v] = D[k][e.from] + cost[e]
    BY <2>2 DEF ComesFrom, Fallen
  <2>4. /\ D[k][e.from] \in Int /\ D[k + 1][v] \in Int /\ cost[e] \in Int
        /\ p[e.from] \in Int /\ p[v] \in Int
    BY <1>3, <1>5, <2>3
  <2>5. p[v] <= p[e.from] + cost[e] BY <2>3 DEF IsPotential
  <2>6. Above(k, e.from) <= Above(k + 1, v) BY <2>3, <2>4, <2>5
  <2> QED BY <2>3, <2>6
<1> USE DEF Fallen
\* Some node falls at every length.
<1>6. ASSUME NEW k \in 0 .. n PROVE Fell(k) # {}
  <2> DEFINE S == {i \in Nat : n - i \in 0 .. n => Fell(n - i) # {}}
  <2>1. 0 \in S
    <3>1. n \in 0 .. n /\ n - 1 \in 0 .. n /\ n \in 1 .. n /\ n - 0 = n BY <1>1
    <3>2. D[n] \in [N -> Int] /\ D[n - 1] \in [N -> Int] BY <3>1
    <3>3. PICK v \in N : D[n][v] # D[n - 1][v] BY <3>2
    <3>4. OneMore(N, g, cost, D[n - 1], D[n]) BY <1>2, <3>1
    <3>5. D[n][v] < D[n - 1][v] BY <3>2, <3>3, <3>4 DEF OneMore
    <3> QED BY <3>1, <3>5
  <2>2. ASSUME NEW i \in Nat, i \in S PROVE i + 1 \in S
    <3>1. CASE n - (i + 1) \in 0 .. n
      <4>1. n - i \in 0 .. n /\ (n - (i + 1)) + 1 = n - i BY <1>1, <3>1
      <4>2. PICK v \in Fell(n - i) : TRUE BY <2>2, <4>1
      <4> HIDE DEF Fell, Above
      <4>3. \E u \in Fell(n - (i + 1)) : TRUE BY <1>5, <3>1, <4>1, <4>2
      <4> QED BY <4>3
    <3>2. CASE n - (i + 1) \notin 0 .. n BY <3>2
    <3> QED BY <3>1, <3>2
  <2> HIDE DEF S
  <2>3. Nat \subseteq S BY <2>1, <2>2, AllNaturals
  <2>4. n - k \in Nat /\ n - (n - k) = k BY <1>1
  <2>5. n - k \in S BY <2>3, <2>4
  <2> HIDE DEF Fell
  <2> QED BY <2>4, <2>5 DEF S
<1>7. \A k \in 0 .. n : \E x \in Fell(k) : \A y \in Fell(k) : Above(k, x) <= Above(k, y)
  <2> SUFFICES ASSUME NEW k \in 0 .. n
               PROVE  \E x \in Fell(k) : \A y \in Fell(k) : Above(k, x) <= Above(k, y)
    OBVIOUS
  <2> DEFINE T == Fell(k)
             f == [x \in T |-> Above(k, x)]
  <2>1. IsFiniteSet(T) BY FS_Subset
  <2>2. f \in [T -> Int] BY <1>4
  <2>3. T # {} BY <1>6
  <2> HIDE DEF T, f
  <2>4. \E x \in T : \A y \in T : f[x] <= f[y] BY <2>1, <2>2, <2>3, LeastValue
  <2> QED BY <2>4 DEF T, f
<1> DEFINE m == [k \in 0 .. n |-> CHOOSE x \in Fell(k) :
                                    \A y \in Fell(k) : Above(k, x) <= Above(k, y)]
<1>8. \A k \in 0 .. n : m[k] \in Fell(k) /\ \A y \in Fell(k) : Above(k, m[k]) <= Above(k, y)
  <2> HIDE DEF Fell, Above
  <2> QED BY <1>7
<1> HIDE DEF m
\* After k no node falls further than the one taken for k.
<1>9. ASSUME NEW k \in 0 .. n, NEW j \in 0 .. n, k <= j, NEW v \in Fell(j)
      PROVE  Above(k, m[k]) <= Above(j, v)
  <2> DEFINE S == {i \in Nat : k + i \in 0 .. n =>
                     \A x \in Fell(k + i) : Above(k, m[k]) <= Above(k + i, x)}
  <2>1. 0 \in S
    <3>1. k + 0 = k OBVIOUS
    <3> HIDE DEF Fell, Above
    <3> QED BY <1>8, <3>1
  <2>2. ASSUME NEW i \in Nat, i \in S PROVE i + 1 \in S
    <3> SUFFICES ASSUME k + (i + 1) \in 0 .. n, NEW x \in Fell(k + (i + 1))
                 PROVE  Above(k, m[k]) <= Above(k + (i + 1), x)
      OBVIOUS
    <3>1. k + i \in 0 .. n /\ (k + i) + 1 = k + (i + 1) BY <1>1
    <3>2. m[k] \in N /\ x \in N BY <1>8
    <3>3. Fell(k + i) \subseteq N OBVIOUS
    <3> HIDE DEF Fell
    <3>4. PICK u \in Fell(k + i) : Above(k + i, u) <= Above(k + (i + 1), x)
      <4> HIDE DEF Above
      <4> QED BY <1>5, <3>1
    <3>5. Above(k, m[k]) <= Above(k + i, u) BY <2>2, <3>1
    <3>6. /\ Above(k, m[k]) \in Int /\ Above(k + i, u) \in Int
          /\ Above(k + (i + 1), x) \in Int
      <4> HIDE DEF Above
      <4> QED BY <1>4, <3>1, <3>2, <3>3
    <3> HIDE DEF Above
    <3> QED BY <3>4, <3>5, <3>6
  <2> HIDE DEF S
  <2>3. Nat \subseteq S BY <2>1, <2>2, AllNaturals
  <2>4. j - k \in Nat /\ k + (j - k) = j BY <1>9
  <2>5. j - k \in S BY <2>3, <2>4
  <2> HIDE DEF Fell, Above
  <2> QED BY <2>4, <2>5 DEF S
<1>10. ASSUME NEW k \in 0 .. n, NEW j \in 0 .. n, k <= j, NEW v \in N
       PROVE  D[j][v] <= D[k][v]
  <2>1. Costed(N, g, cost, n, D) BY <1>1, <1>2 DEF Costed
  <2> HIDE DEF Above, Fell
  <2> QED BY <1>10, <2>1, CostsGoDown
<1>11. ASSUME NEW k \in 0 .. n, NEW j \in 0 .. n, k < j PROVE m[k] # m[j]
  <2> SUFFICES ASSUME m[k] = m[j] PROVE FALSE
    OBVIOUS
  <2> DEFINE v == m[j]
  <2>1. v \in N /\ v \in Fell(j) /\ j # 0 BY <1>8, <1>11
  <2>2. D[j][v] < D[j - 1][v] BY <2>1
  <2>3. j - 1 \in 0 .. n /\ k <= j - 1 /\ k <= j BY <1>1, <1>11
  <2>4. D[j - 1][v] <= D[k][v]
    <3> HIDE DEF v
    <3> QED BY <1>10, <2>1, <2>3
  <2>5. Above(k, v) <= Above(j, v)
    <3>1. Above(k, m[k]) <= Above(j, v)
      <4> HIDE DEF Above, Fell, v
      <4> QED BY <1>9, <2>1, <2>3
    <3> QED BY <3>1
  <2>6. D[j][v] \in Int /\ D[j - 1][v] \in Int /\ D[k][v] \in Int /\ p[v] \in Int
    BY <1>3, <2>1, <2>3
  <2> HIDE DEF v
  <2> QED BY <2>2, <2>4, <2>5, <2>6
<1>12. m \in [0 .. n -> N]
  <2>1. \A k \in 0 .. n : m[k] \in N BY <1>8
  <2> HIDE DEF Fell, Above
  <2> QED BY <2>1 DEF m
<1>13. IsFiniteSet(0 .. n) /\ Cardinality(0 .. n) = n + 1
  BY <1>1, FS_Interval
<1>14. PICK x \in 0 .. n, y \in 0 .. n : x # y /\ m[x] = m[y]
  <2>1. Cardinality(N) < Cardinality(0 .. n) BY <1>1, <1>13 DEF n
  <2> DEFINE I == 0 .. n
  <2>2. IsFiniteSet(N) /\ IsFiniteSet(I) /\ Cardinality(N) < Cardinality(I) BY <1>1, <1>13, <2>1
  <2>3. m \in [I -> N] BY <1>12
  <2> HIDE DEF I, m, n
  <2>4. \E x \in I, y \in I : x # y /\ m[x] = m[y] BY <2>2, <2>3, FS_PigeonHole
  <2> QED BY <2>4 DEF I
<1> QED BY <1>11, <1>14

\* There is no negative cycle just when there are potentials.
THEOREM Potentials ==
  ASSUME NEW N, IsFiniteSet(N), N # {}, NEW g, IsFiniteSet(g), IsGraph(N, g),
         NEW cost \in [g -> Int]
  PROVE  NoNegativeCycle(N, g, cost) <=> \E p \in [N -> Int] : IsPotential(g, cost, p)
BY NoNegativeCycleGivesPotentials, PotentialsGiveNoNegativeCycle

\* The walk w along the arcs a, each of its nodes fallen as the walk gets there.
Falling(N, g, cost, n, D, w, a) ==
  /\ w \in [0 .. n -> N] /\ a \in [1 .. n -> g]
  /\ \A k \in 0 .. n : w[k] \in Fallen(N, D, k)
  /\ \A k \in 1 .. n : /\ a[k].from = w[k - 1] /\ a[k].to = w[k]
                       /\ D[k][w[k]] = D[k - 1][w[k - 1]] + cost[a[k]]

\* To a node that falls last such a walk leads: it is traced back.
LEMMA WalkToFallen ==
  ASSUME NEW N, NEW g, NEW cost, NEW n, NEW D, Costed(N, g, cost, n, D),
         NEW v \in Fallen(N, D, n)
  PROVE  \E w, a : Falling(N, g, cost, n, D, w, a)
<1>1. n \in Nat /\ IsGraph(N, g) BY DEF Costed
<1> DEFINE By(k, x) == CHOOSE e \in g : ComesFrom(N, g, cost, D, k, x, e)
           Before(i, x) == IF x \in Fallen(N, D, (n - i) + 1) THEN By(n - i, x).from ELSE x
           F == [z \in (1 .. n) \X N |-> Before(z[1], z[2])]
<1>2. ASSUME NEW k \in 0 .. n, k + 1 \in 0 .. n, NEW x \in Fallen(N, D, k + 1)
      PROVE  By(k, x) \in g /\ ComesFrom(N, g, cost, D, k, x, By(k, x))
  <2>1. \E e \in g : ComesFrom(N, g, cost, D, k, x, e) BY <1>2, FallsFrom
  <2> QED BY <2>1
<1> HIDE DEF By
<1>3. F \in [(1 .. n) \X N -> N]
  <2> SUFFICES ASSUME NEW i \in 1 .. n, NEW x \in N PROVE Before(i, x) \in N
    OBVIOUS
  <2>1. CASE x \in Fallen(N, D, (n - i) + 1)
    <3>1. n - i \in 0 .. n /\ (n - i) + 1 \in 0 .. n BY <1>1
    <3>2. By(n - i, x) \in g BY <1>2, <2>1, <3>1
    <3> QED BY <1>1, <2>1, <3>2 DEF IsGraph
  <2>2. CASE x \notin Fallen(N, D, (n - i) + 1) BY <2>2
  <2> QED BY <2>1, <2>2
<1>4. v \in N BY DEF Fallen
<1>5. PICK f \in [0 .. n -> N] : Iterated(f, v, F, n)
  <2> HIDE DEF F
  <2> QED BY <1>1, <1>3, <1>4, Iterates
<1>6. \A i \in 1 .. n : f[i] = Before(i, f[i - 1])
  <2> SUFFICES ASSUME NEW i \in 1 .. n PROVE f[i] = Before(i, f[i - 1])
    OBVIOUS
  <2>1. f[i] = F[<<i, f[i - 1]>>] BY <1>5 DEF Iterated
  <2>2. i - 1 \in 0 .. n /\ <<i, f[i - 1]>> \in (1 .. n) \X N BY <1>1
  <2> HIDE DEF Before
  <2> QED BY <2>1, <2>2
<1> HIDE DEF F
<1>7. \A i \in 0 .. n : f[i] \in Fallen(N, D, n - i)
  <2> DEFINE S == {i \in 0 .. n : f[i] \in Fallen(N, D, n - i)}
  <2>1. 0 \in S
    <3>1. f[0] = v /\ n - 0 = n /\ 0 \in 0 .. n BY <1>1, <1>5 DEF Iterated
    <3> QED BY <3>1
  <2>2. ASSUME NEW i \in 1 .. n, i - 1 \in S PROVE i \in S
    <3>1. n - i \in 0 .. n /\ (n - i) + 1 \in 0 .. n /\ (n - i) + 1 = n - (i - 1) /\ i \in 0 .. n
      BY <1>1
    <3>2. f[i - 1] \in Fallen(N, D, (n - i) + 1) BY <2>2, <3>1
    <3>3. f[i] = By(n - i, f[i - 1]).from BY <1>6, <3>2
    <3>4. f[i] \in Fallen(N, D, n - i) BY <1>2, <3>1, <3>2, <3>3 DEF ComesFrom
    <3> QED BY <3>1, <3>4
  <2> HIDE DEF S
  <2>3. 0 .. n \subseteq S BY <1>1, <2>1, <2>2, AllUpTo
  <2> QED BY <2>3 DEF S
<1> DEFINE w == [k \in 0 .. n |-> f[n - k]]
           a == [k \in 1 .. n |-> By(k - 1, w[k])]
<1>8. ASSUME NEW k \in 0 .. n PROVE w[k] \in N /\ w[k] \in Fallen(N, D, k)
  <2>1. n - k \in 0 .. n /\ n - (n - k) = k BY <1>1
  <2>2. f[n - k] \in Fallen(N, D, n - (n - k)) BY <1>7, <2>1
  <2> QED BY <2>1, <2>2
<1>9. ASSUME NEW k \in 1 .. n
      PROVE  /\ a[k] \in g /\ a[k].from = w[k - 1] /\ a[k].to = w[k]
             /\ D[k][w[k]] = D[k - 1][w[k - 1]] + cost[a[k]]
  <2>1. /\ k - 1 \in 0 .. n /\ k \in 0 .. n /\ (k - 1) + 1 = k
        /\ (n - k) + 1 \in 1 .. n /\ ((n - k) + 1) - 1 = n - k
        /\ n - (k - 1) = (n - k) + 1 /\ n - ((n - k) + 1) = k - 1
    BY <1>1
  <2>2. w[k] \in Fallen(N, D, (k - 1) + 1) BY <1>8, <2>1
  <2>3. a[k] = By(k - 1, w[k]) /\ w[k] = f[n - k] /\ w[k - 1] = f[(n - k) + 1]
    BY <2>1
  <2> HIDE DEF w, a
  <2>4. a[k] \in g /\ ComesFrom(N, g, cost, D, k - 1, w[k], a[k]) BY <1>2, <2>1, <2>2, <2>3
  <2>5. w[k - 1] = a[k].from
    <3>1. f[(n - k) + 1] = Before((n - k) + 1, f[n - k])
      <4>1. f[(n - k) + 1] = Before((n - k) + 1, f[((n - k) + 1) - 1])
        <5> HIDE DEF Before
        <5> QED BY <1>6, <2>1
      <4> HIDE DEF Before
      <4> QED BY <4>1, <2>1
    <3> QED BY <2>1, <2>2, <2>3, <3>1
  <2> QED BY <2>1, <2>4, <2>5 DEF ComesFrom
<1>10. w \in [0 .. n -> N]
  <2>1. \A k \in 0 .. n : w[k] \in N BY <1>8
  <2> QED BY <2>1
<1>11. a \in [1 .. n -> g]
  <2>1. \A k \in 1 .. n : a[k] \in g BY <1>9
  <2> QED BY <2>1
<1> HIDE DEF w, a
<1>12. Falling(N, g, cost, n, D, w, a) BY <1>8, <1>9, <1>10, <1>11 DEF Falling
<1> QED BY <1>12

\* The arcs c, m of them, make a cycle that meets no node twice; s sums up
\* their costs, and the sum is negative.
NegativeCycle(g, cost, m, c, s) ==
  /\ c \in [1 .. m -> g] /\ s \in [0 .. m -> Int]
  /\ \A k \in 1 .. m : c[k].to = c[IF k = m THEN 1 ELSE k + 1].from
  /\ \A k, l \in 1 .. m : c[k].from = c[l].from => k = l
  /\ s[0] = 0 /\ \A k \in 1 .. m : s[k] = s[k - 1] + cost[c[k]]
  /\ s[m] < 0

\* If there is a negative cycle by the costs of walks, one can be shown, and it
\* is simple: the walk to a node that still falls has more nodes than there
\* are, so it meets one twice; between two places that are as close as can be
\* it meets none twice.  The node fell at the second place, so that it costs
\* less there than at the first, and what it costs less is what the cycle costs.
THEOREM NegativeCycleIsSimple ==
  ASSUME NEW N, IsFiniteSet(N), N # {}, NEW g, IsFiniteSet(g), IsGraph(N, g),
         NEW cost \in [g -> Int], ~NoNegativeCycle(N, g, cost)
  PROVE  \E m \in 1 .. Cardinality(N) : \E c, s : NegativeCycle(g, cost, m, c, s)
<1> DEFINE n == Cardinality(N)
<1>1. n \in Nat /\ n # 0 BY FS_CardinalityType, FS_EmptySet
<1>2. PICK D \in [0 .. n -> [N -> Int]] :
        /\ \A k \in 0 .. n : WalkCosts(N, g, cost)[k] = Pairs(N, D[k])
        /\ \A v \in N : D[0][v] = 0
        /\ \A k \in 1 .. n : OneMore(N, g, cost, D[k - 1], D[k])
  BY WalksAreCosted
<1>3. D[n] # D[n - 1]
  <2>1. n \in 0 .. n /\ n - 1 \in 0 .. n BY <1>1
  <2> QED BY <1>2, <2>1 DEF NoNegativeCycle
<1>4. IsFiniteSet(0 .. n) /\ Cardinality(0 .. n) = n + 1
  BY <1>1, FS_Interval
<1>5. Cardinality(N) < Cardinality(0 .. n) BY <1>1, <1>4
<1> HIDE DEF n
<1>6. Costed(N, g, cost, n, D) BY <1>1, <1>2 DEF Costed
<1>7. Fallen(N, D, n) # {}
  <2>1. n \in 0 .. n /\ n - 1 \in 0 .. n /\ n \in 1 .. n BY <1>1
  <2>2. D[n] \in [N -> Int] /\ D[n - 1] \in [N -> Int] BY <2>1
  <2>3. PICK v \in N : D[n][v] # D[n - 1][v] BY <1>3, <2>2
  <2>4. OneMore(N, g, cost, D[n - 1], D[n]) BY <1>2, <2>1
  <2>5. D[n][v] < D[n - 1][v] BY <2>2, <2>3, <2>4 DEF OneMore
  <2> QED BY <2>5 DEF Fallen
<1>8. PICK w, a : Falling(N, g, cost, n, D, w, a) BY <1>6, <1>7, WalkToFallen
<1>9. /\ w \in [0 .. n -> N] /\ a \in [1 .. n -> g]
      /\ \A k \in 0 .. n : w[k] \in Fallen(N, D, k)
      /\ \A k \in 1 .. n : /\ a[k].from = w[k - 1] /\ a[k].to = w[k]
                           /\ D[k][w[k]] = D[k - 1][w[k - 1]] + cost[a[k]]
  BY <1>8 DEF Falling
<1> DEFINE Apart == {d \in 1 .. n : \E i \in 0 .. n : i + d \in 0 .. n /\ w[i] = w[i + d]}
<1>10. Apart # {}
  <2>1. PICK x \in 0 .. n, y \in 0 .. n : x # y /\ w[x] = w[y]
    <3>1. w \in [0 .. n -> N] BY <1>9
    <3> HIDE DEF Apart
    <3> QED BY <1>4, <1>5, <3>1, FS_PigeonHole
  <2>2. CASE x < y
    <3>1. y - x \in 1 .. n /\ x + (y - x) = y BY <1>1, <2>2
    <3> QED BY <2>1, <3>1
  <2>3. CASE y < x
    <3>1. x - y \in 1 .. n /\ y + (x - y) = x BY <1>1, <2>3
    <3> QED BY <2>1, <3>1
  <2> QED BY <1>1, <2>1, <2>2, <2>3
<1>11. PICK m \in Apart : \A d \in Apart : m <= d
  <2>1. Apart \subseteq Nat BY <1>1
  <2> HIDE DEF Apart
  <2> QED BY <1>10, <2>1, LeastNatural
<1>12. PICK i \in 0 .. n : i + m \in 0 .. n /\ w[i] = w[i + m] BY <1>11
<1>13. m \in 1 .. n BY <1>11
<1> DEFINE c == [k \in 1 .. m |-> a[i + k]]
           s == [k \in 0 .. m |-> D[i + k][w[i + k]] - D[i][w[i]]]
<1>14. \A k \in 0 .. m : i + k \in 0 .. n BY <1>1, <1>12, <1>13
<1>15. ASSUME NEW k \in 1 .. m
       PROVE  /\ i + k \in 1 .. n /\ k - 1 \in 0 .. m /\ i + (k - 1) = (i + k) - 1
              /\ c[k] \in g /\ c[k].from = w[i + (k - 1)] /\ c[k].to = w[i + k]
  <2>1. i + k \in 1 .. n /\ k - 1 \in 0 .. m /\ i + (k - 1) = (i + k) - 1
    BY <1>1, <1>12, <1>13
  <2> QED BY <1>9, <2>1
<1>16. \A k \in 0 .. n : w[k] \in N /\ D[k][w[k]] \in Int BY <1>9
<1>17. c \in [1 .. m -> g] BY <1>15
<1>18. s \in [0 .. m -> Int]
  <2>1. \A k \in 0 .. m : D[i + k][w[i + k]] - D[i][w[i]] \in Int BY <1>12, <1>14, <1>16
  <2> QED BY <2>1
<1>19. ASSUME NEW k \in 1 .. m PROVE c[k].to = c[IF k = m THEN 1 ELSE k + 1].from
  <2>1. CASE k = m
    <3>1. 1 \in 1 .. m /\ i + (1 - 1) = i BY <1>13, <1>12
    <3>2. c[1].from = w[i]
      <4>1. c[1].from = w[i + (1 - 1)] BY <1>15, <3>1
      <4> QED BY <3>1, <4>1
    <3>3. c[k].to = w[i + m] BY <1>15, <2>1
    <3> HIDE DEF c
    <3> QED BY <1>12, <2>1, <3>2, <3>3
  <2>2. CASE k # m
    <3>1. k + 1 \in 1 .. m /\ (k + 1) - 1 = k BY <1>13, <2>2
    <3>2. c[k + 1].from = w[i + k]
      <4>1. c[k + 1].from = w[i + ((k + 1) - 1)] BY <1>15, <3>1
      <4> QED BY <3>1, <4>1
    <3>3. c[k].to = w[i + k] BY <1>15
    <3> HIDE DEF c
    <3> QED BY <2>2, <3>2, <3>3
  <2> QED BY <2>1, <2>2
<1>20. ASSUME NEW k \in 1 .. m, NEW l \in 1 .. m, k < l PROVE c[k].from # c[l].from
  <2> SUFFICES ASSUME c[k].from = c[l].from PROVE FALSE
    OBVIOUS
  <2>1. w[i + (k - 1)] = w[i + (l - 1)] BY <1>15
  <2>2. /\ l - k \in 1 .. n /\ l - k < m
        /\ i + (k - 1) \in 0 .. n /\ (i + (k - 1)) + (l - k) = i + (l - 1)
        /\ i + (l - 1) \in 0 .. n
    BY <1>1, <1>12, <1>13, <1>20
  <2>3. l - k \in Apart BY <2>1, <2>2
  <2> HIDE DEF Apart
  <2>4. m <= l - k BY <1>11, <2>3
  <2> QED BY <1>13, <2>2, <2>4
<1>21. ASSUME NEW k \in 1 .. m, NEW l \in 1 .. m, c[k].from = c[l].from PROVE k = l
  <2>1. k < l \/ l < k \/ k = l BY <1>13
  <2> HIDE DEF c
  <2> QED BY <1>20, <1>21, <2>1
<1>22. s[0] = 0
  <2>1. 0 \in 0 .. m /\ i + 0 = i BY <1>12, <1>13
  <2> QED BY <1>12, <1>16, <2>1
<1>23. ASSUME NEW k \in 1 .. m PROVE s[k] = s[k - 1] + cost[c[k]]
  <2>1. /\ k \in 0 .. m /\ k - 1 \in 0 .. m /\ i + k \in 1 .. n
        /\ i + (k - 1) = (i + k) - 1 /\ i + k \in 0 .. n /\ (i + k) - 1 \in 0 .. n
    BY <1>1, <1>12, <1>13
  <2>2. s[k] = D[i + k][w[i + k]] - D[i][w[i]] BY <2>1
  <2>3. s[k - 1] = D[(i + k) - 1][w[(i + k) - 1]] - D[i][w[i]] BY <2>1
  <2>4. D[i + k][w[i + k]] = D[(i + k) - 1][w[(i + k) - 1]] + cost[c[k]] BY <1>9, <2>1
  <2>5. cost[c[k]] \in Int BY <1>15
  <2> HIDE DEF s, c
  <2> QED BY <1>12, <1>16, <2>1, <2>2, <2>3, <2>4, <2>5
<1>24. s[m] < 0
  <2> DEFINE j == i + m  u == w[i]
  <2>1. j \in 0 .. n /\ j # 0 /\ j - 1 \in 0 .. n /\ i <= j - 1 /\ m \in 0 .. m
    BY <1>1, <1>12, <1>13
  <2>2. u \in N /\ u = w[j] BY <1>12, <1>16
  <2>3. D[j][u] < D[j - 1][u] BY <1>9, <2>1, <2>2 DEF Fallen
  <2>4. D[j - 1][u] <= D[i][u]
    <3> HIDE DEF j, u
    <3> QED BY <1>6, <2>1, <2>2, CostsGoDown
  <2>5. D[j][u] \in Int /\ D[j - 1][u] \in Int /\ D[i][u] \in Int BY <1>12, <2>1, <2>2
  <2>6. s[m] = D[j][u] - D[i][u] BY <2>1, <2>2
  <2> HIDE DEF s, j, u
  <2> QED BY <2>3, <2>4, <2>5, <2>6
<1> HIDE DEF c, s
<1>25. NegativeCycle(g, cost, m, c, s)
  BY <1>17, <1>18, <1>19, <1>21, <1>22, <1>23, <1>24 DEF NegativeCycle
<1> QED BY <1>13, <1>25 DEF n

-----------------------------------------------------------------------------
(***************************************************************************)
(* The constraint graph.                                                   *)
(***************************************************************************)
LEMMA Halves ==
  ASSUME NEW T0 \in Delays
  PROVE  /\ HalfT(T0) \in Nat
         /\ 2 * HalfT(T0) = T0
BY DEF Delays, HalfT

-----------------------------------------------------------------------------
(***************************************************************************)
(* Rows and arcs.                                                          *)
(***************************************************************************)
LEMMA EdgeRowsAreArcs ==
  ASSUME NEW T0 \in Delays, NEW u \in Nat, NEW v \in Nat, NEW delay,
         delay.max \in Delays, delay.min \in Delays
  PROVE  EdgeArcs(u, v, delay, T0) =
           {RowArc(q, T0) : q \in EdgeRows(u, v, delay)}
<1> DEFINE t == HalfT(T0)
           R == {RowArc(q, T0) : q \in EdgeRows(u, v, delay)}
<1>1. t \in Nat /\ 2 * t = T0 /\ T0 \in Nat
  BY Halves DEF Delays
<1>2. R = { RowArc(row( 0, ref,   a_(v), 0), T0),
            RowArc(row(-2, A_(v), ref,   0), T0),
            RowArc(row( 0, a_(u), d_(u), 0), T0),
            RowArc(row( 1, ref,   d_(u), 0), T0),
            RowArc(row( 0, A_(u), D_(u), 0), T0),
            RowArc(row( 1, ref,   D_(u), 0), T0),
            RowArc(row( 2, a_(v), d_(u), delay.min), T0),
            RowArc(row(-2, D_(u), A_(v), -delay.max), T0),
            RowArc(row( 0, a_(v), A_(v), 0), T0),
            RowArc(row( 0, d_(v), D_(v), 0), T0) }
  BY Zenon DEF EdgeRows
<1>3. ASSUME NEW x, NEW y, NEW b, NEW k
      PROVE  RowArc(row(k, x, y, b), T0) = arc(y, x, b - k * t, -k)
  BY Zenon DEF RowArc, row
<1>4. ASSUME NEW b \in Int
      PROVE  /\ b - 0 * t = b /\ b - 1 * t = b - t
             /\ b - 2 * t = b - T0 /\ b - (-2) * t = b + T0
  BY <1>1
<1>5. /\ 0 - t = -t /\ 0 + T0 = T0 
      /\ delay.min \in Int /\ -delay.max \in Int
      /\ -delay.max + T0 = T0 - delay.max
  BY <1>1 DEF Delays
<1>11. -(-2) = 2 /\ -0 = 0
  <2>1. \A m, n \in Int : m + n = 0 => -m = n
    OBVIOUS
  <2>2. -2 \in Int /\ 2 \in Int /\ 0 \in Int /\ (-2) + 2 = 0 /\ 0 + 0 = 0
    OBVIOUS
  <2> QED BY <2>1, <2>2, Zenon
<1> HIDE DEF t
<1>6. /\ RowArc(row( 0, ref,   a_(v), 0), T0) = arc(a_(v), ref, 0, 0)
      /\ RowArc(row( 0, a_(u), d_(u), 0), T0) = arc(d_(u), a_(u), 0, 0)
      /\ RowArc(row( 0, A_(u), D_(u), 0), T0) = arc(D_(u), A_(u), 0, 0)
      /\ RowArc(row( 0, a_(v), A_(v), 0), T0) = arc(A_(v), a_(v), 0, 0)
      /\ RowArc(row( 0, d_(v), D_(v), 0), T0) = arc(D_(v), d_(v), 0, 0)
  BY <1>3, <1>4, <1>5
<1>7. /\ RowArc(row( 1, ref,   d_(u), 0), T0) = arc(d_(u), ref, -t, -1)
      /\ RowArc(row( 1, ref,   D_(u), 0), T0) = arc(D_(u), ref, -t, -1)
  BY <1>3, <1>4, <1>5
<1>8. RowArc(row(-2, A_(v), ref, 0), T0) = arc(ref, A_(v), T0, 2)
  BY <1>3, <1>4, <1>5, <1>11
<1>9. RowArc(row( 2, a_(v), d_(u), delay.min), T0)
        = arc(d_(u), a_(v), delay.min - T0, -2)
  BY <1>3, <1>4, <1>5
<1>10. RowArc(row(-2, D_(u), A_(v), -delay.max), T0)
        = arc(A_(v), D_(u), T0 - delay.max, 2)
  BY <1>3, <1>4, <1>5, <1>11
<1> HIDE DEF R
<1>12. R = EdgeArcs(u, v, delay, T0)
  BY <1>2, <1>6, <1>7, <1>8, <1>9, <1>10, Zenon DEF EdgeArcs, t
<1> QED BY <1>12 DEF R

\* The linear program of LP.cpp and the constraint graph of timing_graph.cpp
\* state the same constraints about every delay graph and initial period.
THEOREM RowsAreArcs ==
  ASSUME NEW dg, IsDelayGraph(dg), NEW T0 \in Delays
  PROVE  McrArcs(dg, T0) = {RowArc(q, T0) : q \in McrRows(dg)}
<1> DEFINE A(e) == EdgeArcs(e[1], e[2], dg[e], T0)
           Q(e) == EdgeRows(e[1], e[2], dg[e])
<1>1. \A e \in DOMAIN dg : A(e) = {RowArc(q, T0) : q \in Q(e)}
  BY EdgeRowsAreArcs DEF IsDelayGraph
<1> HIDE DEF A, Q
<1>2. UNION {A(e) : e \in DOMAIN dg}
        = {RowArc(q, T0) : q \in UNION {Q(e) : e \in DOMAIN dg}}
  BY <1>1
<1> QED BY <1>2 DEF McrArcs, McrRows, A, Q
-----------------------------------------------------------------------------
(***************************************************************************)
(* Potentials.  A vertex has its kind for remainder modulo four.           *)
(***************************************************************************)
LEMMA Kinds ==
  ASSUME NEW i \in Nat
  PROVE  /\ a_(i) \in Nat /\ a_(i) # 0 /\ a_(i) % 4 = 1
         /\ A_(i) \in Nat /\ A_(i) # 0 /\ A_(i) % 4 = 2
         /\ d_(i) \in Nat /\ d_(i) # 0 /\ d_(i) % 4 = 3
         /\ D_(i) \in Nat /\ D_(i) # 0 /\ D_(i) % 4 = 0
BY DEF a_, A_, d_, D_

\* Four times the least total delay of a way to the vertex, and a remainder
\* that orders the vertices among which the delay is zero.
DelayPotential(x) ==
  IF x = 0 THEN 0
  ELSE IF x % 4 = 1 THEN 1
  ELSE IF x % 4 = 2 THEN 4
  ELSE IF x % 4 = 3 THEN 10 ELSE 11

\* No cycle of the constraint graph has a delay of zero or less.  Along a
\* cycle the potentials cancel, so that four times its delay is at least the
\* number of its arcs: Howard and YTO never divide by zero (howard.cpp:40,
\* YTO.cpp:18), whatever the flip-flops and the paths between them are.
THEOREM DelaysArePositive ==
  ASSUME NEW dg, IsDelayGraph(dg), NEW T0 \in Delays,
         NEW x \in McrArcs(dg, T0)
  PROVE  4 * x.delay + DelayPotential(x.from) - DelayPotential(x.to) >= 1
<1>1. PICK e \in DOMAIN dg : x \in EdgeArcs(e[1], e[2], dg[e], T0)
  BY DEF McrArcs
<1>2. e[1] \in Nat /\ e[2] \in Nat
  BY DEF IsDelayGraph
<1> DEFINE u == e[1]
           v == e[2]
<1>3. \A i \in Nat : /\ DelayPotential(a_(i)) = 1 /\ DelayPotential(A_(i)) = 4
                     /\ DelayPotential(d_(i)) = 10 /\ DelayPotential(D_(i)) = 11
  <2>1. ASSUME NEW y \in Nat, y # 0
        PROVE  /\ y % 4 = 1 => DelayPotential(y) = 1
               /\ y % 4 = 2 => DelayPotential(y) = 4
               /\ y % 4 = 3 => DelayPotential(y) = 10
               /\ y % 4 = 0 => DelayPotential(y) = 11
    BY <2>1 DEF DelayPotential
  <2> QED BY <2>1, Kinds
<1>4. DelayPotential(ref) = 0
  BY DEF DelayPotential, ref
<1>5. \/ x.from = a_(v) /\ x.to = ref /\ x.delay = 0
      \/ x.from = ref /\ x.to = A_(v) /\ x.delay = 2
      \/ x.from = d_(u) /\ x.to = a_(u) /\ x.delay = 0
      \/ x.from = d_(u) /\ x.to = ref /\ x.delay = -1
      \/ x.from = D_(u) /\ x.to = A_(u) /\ x.delay = 0
      \/ x.from = D_(u) /\ x.to = ref /\ x.delay = -1
      \/ x.from = d_(u) /\ x.to = a_(v) /\ x.delay = -2
      \/ x.from = A_(v) /\ x.to = D_(u) /\ x.delay = 2
      \/ x.from = A_(v) /\ x.to = a_(v) /\ x.delay = 0
      \/ x.from = D_(v) /\ x.to = d_(v) /\ x.delay = 0
  BY <1>1 DEF EdgeArcs, arc
<1> QED BY <1>2, <1>3, <1>4, <1>5

\* With r = 0 every latch may open when its earliest signal can come and close
\* one period later.
AtStart(x, T0) == IF x = 0 \/ x % 4 = 1 THEN 0 ELSE T0

\* The initial period is feasible: r = 0 satisfies every arc of the graph when
\* T0 is no less than any delay, as main.cpp:40 takes it to be by reporting
\* tInitial - 2 * r as an improvement of tInitial.
THEOREM StartIsFeasible ==
  ASSUME NEW dg, IsDelayGraph(dg), NEW T0 \in Delays,
         \A e \in DOMAIN dg : dg[e].max <= T0,
         NEW x \in McrArcs(dg, T0)
  PROVE  AtStart(x.to, T0) - AtStart(x.from, T0) <= x.weight
<1>1. PICK e \in DOMAIN dg : x \in EdgeArcs(e[1], e[2], dg[e], T0)
  BY DEF McrArcs
<1> DEFINE u == e[1]
           v == e[2]
           t == HalfT(T0)
<1>2. u \in Nat /\ v \in Nat
  BY DEF IsDelayGraph
<1>3. \A i \in Nat : /\ AtStart(a_(i), T0) = 0 /\ AtStart(A_(i), T0) = T0
                     /\ AtStart(d_(i), T0) = T0 /\ AtStart(D_(i), T0) = T0
  <2>1. ASSUME NEW y \in Nat, y # 0
        PROVE  /\ y % 4 = 1 => AtStart(y, T0) = 0
               /\ y % 4 \in {0, 2, 3} => AtStart(y, T0) = T0
    BY <2>1 DEF AtStart
  <2> QED BY <2>1, Kinds
<1>4. AtStart(ref, T0) = 0
  BY DEF AtStart, ref
<1>5. t \in Nat /\ 2 * t = T0 /\ T0 \in Nat
  BY Halves DEF Delays
<1>6. dg[e].max \in Nat /\ dg[e].min \in Nat /\ dg[e].max <= T0
  BY DEF IsDelayGraph, Delays
<1> HIDE DEF u, v, t
<1>7. \/ x.from = a_(v) /\ x.to = ref /\ x.weight = 0
      \/ x.from = ref /\ x.to = A_(v) /\ x.weight = T0
      \/ x.from = d_(u) /\ x.to = a_(u) /\ x.weight = 0
      \/ x.from = d_(u) /\ x.to = ref /\ x.weight = -t
      \/ x.from = D_(u) /\ x.to = A_(u) /\ x.weight = 0
      \/ x.from = D_(u) /\ x.to = ref /\ x.weight = -t
      \/ x.from = d_(u) /\ x.to = a_(v) /\ x.weight = dg[e].min - T0
      \/ x.from = A_(v) /\ x.to = D_(u) /\ x.weight = T0 - dg[e].max
      \/ x.from = A_(v) /\ x.to = a_(v) /\ x.weight = 0
      \/ x.from = D_(v) /\ x.to = d_(v) /\ x.weight = 0
  BY <1>1 DEF EdgeArcs, arc, u, v, t
<1> QED BY <1>2, <1>3, <1>4, <1>5, <1>6, <1>7
-----------------------------------------------------------------------------
\* A vertex is the reference or belongs to a flip-flop.
LEMMA McrVertices ==
  ASSUME NEW n \in Nat, NEW x \in McrNodes(n)
  PROVE  \/ x = ref
         \/ \E k \in 0 .. n - 1 : x \in {a_(k), A_(k), d_(k), D_(k)}
<1>1. CASE x = 0
  BY <1>1 DEF ref
<1>2. CASE x # 0
  <2> DEFINE k == (x - 1) \div 4
  <2>1. x \in Nat /\ x <= 4 * n
    BY DEF McrNodes
  <2>2. k \in 0 .. n - 1 /\ x - 1 - 4 * k \in 0 .. 3
    BY <1>2, <2>1
  <2>3. x \in {a_(k), A_(k), d_(k), D_(k)}
    BY <2>1, <2>2 DEF a_, A_, d_, D_
  <2> QED BY <2>2, <2>3
<1> QED BY <1>1, <1>2

\* Howard's policy is defined on every vertex (howard.cpp:26 dereferences it
\* unchecked) just when every end point of the report is the start of some path
\* and the end of some path: a_ and A_ have arcs from the paths that end at
\* them, d_ from those that start, and no other arc helps.
THEOREM WhenHowardIsDefined ==
  ASSUME NEW dg, IsDelayGraph(dg), DOMAIN dg # {}, NEW T0 \in Delays,
         NEW n \in Nat, DOMAIN dg \subseteq (0 .. n - 1) \X (0 .. n - 1)
  PROVE  (\A x \in McrNodes(n) : \E y \in McrArcs(dg, T0) : y.from = x)
           <=> \A k \in 0 .. n - 1 : /\ \E e \in DOMAIN dg : e[1] = k
                                     /\ \E e \in DOMAIN dg : e[2] = k
<1> DEFINE HasArc(x) == \E y \in McrArcs(dg, T0) : y.from = x
<1>1. \A e \in DOMAIN dg : e[1] \in 0 .. n - 1 /\ e[2] \in 0 .. n - 1
  OBVIOUS
<1>2. ASSUME NEW e \in DOMAIN dg
      PROVE  /\ HasArc(ref)
             /\ HasArc(a_(e[2])) /\ HasArc(A_(e[2])) /\ HasArc(D_(e[2]))
             /\ HasArc(d_(e[1])) /\ HasArc(D_(e[1]))
  <2>1. EdgeArcs(e[1], e[2], dg[e], T0) \subseteq McrArcs(dg, T0)
    BY DEF McrArcs
  <2>2. \A x, y, w, t : arc(x, y, w, t) \in EdgeArcs(e[1], e[2], dg[e], T0) => HasArc(x)
    BY <2>1 DEF arc
  <2>3. /\ arc(a_(e[2]), ref, 0, 0) \in EdgeArcs(e[1], e[2], dg[e], T0)
        /\ arc(ref, A_(e[2]), T0, 2) \in EdgeArcs(e[1], e[2], dg[e], T0)
        /\ arc(d_(e[1]), a_(e[1]), 0, 0) \in EdgeArcs(e[1], e[2], dg[e], T0)
        /\ arc(D_(e[1]), A_(e[1]), 0, 0) \in EdgeArcs(e[1], e[2], dg[e], T0)
        /\ arc(A_(e[2]), a_(e[2]), 0, 0) \in EdgeArcs(e[1], e[2], dg[e], T0)
        /\ arc(D_(e[2]), d_(e[2]), 0, 0) \in EdgeArcs(e[1], e[2], dg[e], T0)
    BY DEF EdgeArcs
  <2> HIDE DEF HasArc
  <2> QED BY <2>2, <2>3
<1>3. ASSUME \A k \in 0 .. n - 1 : /\ \E e \in DOMAIN dg : e[1] = k
                                   /\ \E e \in DOMAIN dg : e[2] = k,
             NEW x \in McrNodes(n)
      PROVE  HasArc(x)
  <2> HIDE DEF HasArc
  <2>1. CASE x = ref
    BY <2>1, <1>2
  <2>2. ASSUME NEW k \in 0 .. n - 1, x \in {a_(k), A_(k), d_(k), D_(k)}
        PROVE  HasArc(x)
    BY <1>2, <1>3, <2>2
  <2> QED BY <2>1, <2>2, McrVertices
<1>4. ASSUME NEW k \in 0 .. n - 1,
             \A x \in McrNodes(n) : HasArc(x)
      PROVE  /\ \E e \in DOMAIN dg : e[1] = k
             /\ \E e \in DOMAIN dg : e[2] = k
  <2>1. /\ a_(k) \in McrNodes(n) /\ a_(k) % 4 = 1 /\ a_(k) # 0
        /\ d_(k) \in McrNodes(n) /\ d_(k) % 4 = 3 /\ d_(k) # 0
    BY DEF McrNodes, a_, d_
  <2>2. ASSUME NEW y \in McrArcs(dg, T0)
        PROVE  \E e \in DOMAIN dg :
                 y.from \in {ref, a_(e[2]), A_(e[2]), D_(e[2]), d_(e[1]), D_(e[1])}
    <3>1. PICK e \in DOMAIN dg : y \in EdgeArcs(e[1], e[2], dg[e], T0)
      BY DEF McrArcs
    <3>2. y.from \in {ref, a_(e[2]), A_(e[2]), D_(e[2]), d_(e[1]), D_(e[1])}
      BY <3>1 DEF EdgeArcs, arc
    <3> QED BY <3>2
  <2>3. \E e \in DOMAIN dg : e[2] = k
    <3>1. PICK y \in McrArcs(dg, T0) : y.from = a_(k)
      BY <1>4, <2>1
    <3>2. PICK e \in DOMAIN dg :
            a_(k) \in {ref, a_(e[2]), A_(e[2]), D_(e[2]), d_(e[1]), D_(e[1])}
      BY <3>1, <2>2
    <3>3. a_(k) = a_(e[2])
      BY <3>2, <2>1, <1>1, Kinds DEF ref
    <3> QED BY <3>3, <1>1 DEF a_
  <2>4. \E e \in DOMAIN dg : e[1] = k
    <3>1. PICK y \in McrArcs(dg, T0) : y.from = d_(k)
      BY <1>4, <2>1
    <3>2. PICK e \in DOMAIN dg :
            d_(k) \in {ref, a_(e[2]), A_(e[2]), D_(e[2]), d_(e[1]), D_(e[1])}
      BY <3>1, <2>2
    <3>3. /\ a_(e[2]) % 4 = 1 /\ A_(e[2]) % 4 = 2 /\ D_(e[2]) % 4 = 0
          /\ D_(e[1]) % 4 = 0
      BY <1>1, Kinds
    <3>4. d_(k) = d_(e[1])
      BY <3>2, <3>3, <2>1 DEF ref
    <3> QED BY <3>4, <1>1 DEF d_
  <2> QED BY <2>3, <2>4
<1> QED BY <1>3, <1>4

-----------------------------------------------------------------------------
(***************************************************************************)
(* The bounds of CycleBounds, by these potentials.                         *)
(***************************************************************************)
\* The arcs between n flip-flops and the reference are finitely many.
LEMMA McrArcsFinite ==
  ASSUME NEW dg, NEW n \in Nat, DOMAIN dg \subseteq (0 .. n - 1) \X (0 .. n - 1), NEW T0
  PROVE  IsFiniteSet(McrArcs(dg, T0))
<1> DEFINE E == DOMAIN dg
           f == [e \in E |-> EdgeArcs(e[1], e[2], dg[e], T0)]
           U == {EdgeArcs(e[1], e[2], dg[e], T0) : e \in E}
<1>1. IsFiniteSet(E)
  <2>1. IsFiniteSet(0 .. n - 1) BY FS_Interval
  <2>2. IsFiniteSet((0 .. n - 1) \X (0 .. n - 1)) BY <2>1, FS_Product
  <2> QED BY <2>2, FS_Subset
<1>2. f \in Surjection(E, U) BY DEF Surjection
<1>3. IsFiniteSet(U)
  <2> HIDE DEF E, U, f
  <2> QED BY <1>1, <1>2, FS_Surjection
<1>4. ASSUME NEW x1, NEW x2, NEW x3, NEW x4, NEW x5, NEW x6, NEW x7, NEW x8, NEW x9, NEW x10
      PROVE  IsFiniteSet({x1, x2, x3, x4, x5, x6, x7, x8, x9, x10})
  <2>1. IsFiniteSet({x1}) BY FS_Singleton
  <2>2. IsFiniteSet({x1} \cup {x2}) BY <2>1, FS_AddElement
  <2>3. IsFiniteSet({x1} \cup {x2} \cup {x3}) BY <2>2, FS_AddElement
  <2>4. IsFiniteSet({x1} \cup {x2} \cup {x3} \cup {x4}) BY <2>3, FS_AddElement
  <2>5. IsFiniteSet({x1} \cup {x2} \cup {x3} \cup {x4} \cup {x5})
    BY <2>4, FS_AddElement
  <2> DEFINE A == {x1} \cup {x2} \cup {x3} \cup {x4} \cup {x5}
  <2> HIDE DEF A
  <2>6. IsFiniteSet(A \cup {x6}) BY <2>5, FS_AddElement DEF A
  <2>7. IsFiniteSet(A \cup {x6} \cup {x7}) BY <2>6, FS_AddElement
  <2>8. IsFiniteSet(A \cup {x6} \cup {x7} \cup {x8}) BY <2>7, FS_AddElement
  <2>9. IsFiniteSet(A \cup {x6} \cup {x7} \cup {x8} \cup {x9}) BY <2>8, FS_AddElement
  <2>10. IsFiniteSet(A \cup {x6} \cup {x7} \cup {x8} \cup {x9} \cup {x10})
    BY <2>9, FS_AddElement
  <2>11. A \cup {x6} \cup {x7} \cup {x8} \cup {x9} \cup {x10}
           = {x1, x2, x3, x4, x5, x6, x7, x8, x9, x10}
    BY DEF A
  <2> QED BY <2>10, <2>11
<1>5. \A u, v, delay : IsFiniteSet(EdgeArcs(u, v, delay, T0)) BY <1>4 DEF EdgeArcs
<1>6. \A X \in U : IsFiniteSet(X) BY <1>5
<1> HIDE DEF U
<1>7. IsFiniteSet(UNION U) BY <1>3, <1>6, FS_UNION
<1> QED BY <1>7 DEF McrArcs, U

\* DelayPotential again, when every arc is charged one and a delay counts k.
ChargedPotential(k, x) ==
  IF x = 0 THEN 0
  ELSE IF x % 4 = 1 THEN 1
  ELSE IF x % 4 = 2 THEN 4
  ELSE IF x % 4 = 3 THEN 2 * k + 2 ELSE 2 * k + 3

LEMMA ChargedDelaysArePositive ==
  ASSUME NEW dg, IsDelayGraph(dg), NEW T0, NEW k \in Nat, k >= 3,
         NEW x \in McrArcs(dg, T0)
  PROVE  ChargedPotential(k, x.to) <= ChargedPotential(k, x.from) + (k * x.delay - 1)
<1>1. PICK e \in DOMAIN dg : x \in EdgeArcs(e[1], e[2], dg[e], T0)
  BY DEF McrArcs
<1>2. e[1] \in Nat /\ e[2] \in Nat
  BY DEF IsDelayGraph
<1> DEFINE u == e[1]
           v == e[2]
           P(y) == ChargedPotential(k, y)
<1>3. \A i \in Nat : /\ P(a_(i)) = 1 /\ P(A_(i)) = 4
                     /\ P(d_(i)) = 2 * k + 2 /\ P(D_(i)) = 2 * k + 3
  <2>1. ASSUME NEW y \in Nat, y # 0
        PROVE  /\ y % 4 = 1 => P(y) = 1
               /\ y % 4 = 2 => P(y) = 4
               /\ y % 4 = 3 => P(y) = 2 * k + 2
               /\ y % 4 = 0 => P(y) = 2 * k + 3
    BY <2>1 DEF ChargedPotential
  <2> HIDE DEF P
  <2> QED BY <2>1, Kinds
<1>4. P(ref) = 0
  BY DEF ChargedPotential, ref
<1> HIDE DEF P
<1>5. \/ x.from = a_(v) /\ x.to = ref /\ x.delay = 0
      \/ x.from = ref /\ x.to = A_(v) /\ x.delay = 2
      \/ x.from = d_(u) /\ x.to = a_(u) /\ x.delay = 0
      \/ x.from = d_(u) /\ x.to = ref /\ x.delay = -1
      \/ x.from = D_(u) /\ x.to = A_(u) /\ x.delay = 0
      \/ x.from = D_(u) /\ x.to = ref /\ x.delay = -1
      \/ x.from = d_(u) /\ x.to = a_(v) /\ x.delay = -2
      \/ x.from = A_(v) /\ x.to = D_(u) /\ x.delay = 2
      \/ x.from = A_(v) /\ x.to = a_(v) /\ x.delay = 0
      \/ x.from = D_(v) /\ x.to = d_(v) /\ x.delay = 0
  BY <1>1 DEF EdgeArcs, arc
<1>6. k * 0 = 0 /\ k * 2 = 2 * k /\ k * (-1) = -k /\ k * (-2) = -(2 * k)
  OBVIOUS
<1>7. P(x.to) <= P(x.from) + (k * x.delay - 1)
  BY <1>2, <1>3, <1>4, <1>5, <1>6
<1> QED BY <1>7 DEF P

\* Every cycle of a constraint graph has a positive delay.
THEOREM ConstraintCyclesArePositive ==
  ASSUME NEW dg, IsDelayGraph(dg), NEW T0 \in Delays, NEW n \in Nat \ {0},
         DOMAIN dg \subseteq (0 .. n - 1) \X (0 .. n - 1),
         McrArcs(dg, T0) \subseteq [from : McrNodes(n), to : McrNodes(n),
                                    weight : Int, delay : Int]
  PROVE  EveryCyclePositive(McrNodes(n), McrArcs(dg, T0))
<1> DEFINE N == McrNodes(n)
           g == McrArcs(dg, T0)
           k == Cardinality(N) + 1
           delay == [e \in g |-> e.delay]
           cost == [e \in g |-> k * delay[e] - 1]
           p == [x \in N |-> ChargedPotential(k, x)]
<1>1. IsFiniteSet(N) /\ k \in Nat /\ k >= 3 /\ N # {}
  <2>1. 4 * n \in Nat /\ 4 * n >= 4 OBVIOUS
  <2>2. IsFiniteSet(0 .. 4 * n) /\ Cardinality(0 .. 4 * n) = 4 * n + 1
    BY <2>1, FS_Interval
  <2> QED BY <2>1, <2>2 DEF McrNodes
<1>2. IsFiniteSet(g) BY McrArcsFinite
<1>3. \A e \in g : e.from \in N /\ e.to \in N /\ e.delay \in Int OBVIOUS
<1>4. \A x \in N : x \in Nat BY DEF McrNodes
<1> HIDE DEF k
<1>5. \A x \in N : ChargedPotential(k, x) \in Int
  BY <1>1, <1>4 DEF ChargedPotential
<1>6. p \in [N -> Int] BY <1>5
<1>7. cost \in [g -> Int]
  <2> HIDE DEF g
  <2> QED BY <1>1, <1>3
<1>8. IsPotential(g, cost, p)
  <2> SUFFICES ASSUME NEW e \in g PROVE p[e.to] <= p[e.from] + cost[e]
    BY DEF IsPotential
  <2>1. cost[e] = k * e.delay - 1 OBVIOUS
  <2>2. ChargedPotential(k, e.to) <= ChargedPotential(k, e.from) + (k * e.delay - 1)
    BY <1>1, ChargedDelaysArePositive
  <2> QED BY <1>3, <2>1, <2>2
<1>9. NoNegativeCycle(N, g, cost)
  <2>1. IsGraph(N, g) BY <1>3 DEF IsGraph
  <2> HIDE DEF N, g, cost, p
  <2> QED BY <1>1, <1>2, <1>6, <1>7, <1>8, <2>1, PotentialsGiveNoNegativeCycle
<1>10. cost = Charged(N, g, delay) BY DEF Charged, k
<1> QED BY <1>9, <1>10 DEF EveryCyclePositive

\* r = 0 is at most the ratio of every cycle.
THEOREM ConstraintStartIsFeasible ==
  ASSUME NEW dg, IsDelayGraph(dg), NEW T0 \in Delays, NEW n \in Nat,
         DOMAIN dg \subseteq (0 .. n - 1) \X (0 .. n - 1),
         \A e \in DOMAIN dg : dg[e].max <= T0,
         McrArcs(dg, T0) \subseteq [from : McrNodes(n), to : McrNodes(n),
                                    weight : Int, delay : Int]
  PROVE  AtMostEveryCycle(McrNodes(n), McrArcs(dg, T0), <<0, 1>>)
<1> DEFINE N == McrNodes(n)
           g == McrArcs(dg, T0)
           cost == ReducedCost(g, <<0, 1>>)
           p == [x \in N |-> AtStart(x, T0)]
<1>1. IsFiniteSet(N) /\ N # {}
  <2>1. 4 * n \in Nat OBVIOUS
  <2>2. IsFiniteSet(0 .. 4 * n) BY <2>1, FS_Interval
  <2> QED BY <2>1, <2>2 DEF McrNodes
<1>2. IsFiniteSet(g) BY McrArcsFinite
<1>3. \A e \in g : e.from \in N /\ e.to \in N /\ e.weight \in Int /\ e.delay \in Int
  OBVIOUS
<1>4. p \in [N -> Int] BY DEF AtStart, Delays
<1>5. \A e \in g : cost[e] = e.weight
  <2>1. \A e \in g : cost[e] = 1 * e.weight - 0 * e.delay BY DEF ReducedCost
  <2> HIDE DEF g, cost
  <2> QED BY <1>3, <2>1
<1>6. cost \in [g -> Int]
  <2>1. cost = [e \in g |-> cost[e]] BY DEF ReducedCost
  <2> HIDE DEF g, cost
  <2> QED BY <1>3, <1>5, <2>1
<1>7. IsPotential(g, cost, p)
  <2> SUFFICES ASSUME NEW e \in g PROVE p[e.to] <= p[e.from] + cost[e]
    BY DEF IsPotential
  <2>1. AtStart(e.to, T0) - AtStart(e.from, T0) <= e.weight BY StartIsFeasible
  <2>2. /\ p[e.to] = AtStart(e.to, T0) /\ p[e.from] = AtStart(e.from, T0)
        /\ cost[e] = e.weight
    BY <1>3, <1>5
  <2>3. AtStart(e.to, T0) \in Int /\ AtStart(e.from, T0) \in Int BY DEF AtStart, Delays
  <2>4. e.weight \in Int BY <1>3
  <2> HIDE DEF p, cost, g
  <2> QED BY <2>1, <2>2, <2>3, <2>4
<1>8. NoNegativeCycle(N, g, cost)
  <2>1. IsGraph(N, g) BY <1>3 DEF IsGraph
  <2> HIDE DEF N, g, cost, p
  <2> QED BY <1>1, <1>2, <1>4, <1>6, <1>7, <2>1, PotentialsGiveNoNegativeCycle
<1> QED BY <1>8 DEF AtMostEveryCycle
=============================================================================
