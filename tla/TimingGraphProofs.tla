------------------------- MODULE TimingGraphProofs -------------------------
(***************************************************************************)
(* Reading a report of any length yields the merge of its rows, indices    *)
(* that denote vertices, and a constraint graph that states the linear     *)
(* program, has cycles of positive delay only and is feasible at the       *)
(* initial period.                                                         *)
(*                                                                         *)
(* The invariants are stated of the rows read so far, and the maxima of    *)
(* GraphIsMerge by what makes them maxima: each delay of the graph is that *)
(* of a row read, and bounds those of all rows read.                       *)
(***************************************************************************)
EXTENDS TimingGraph, CommonProofs

-----------------------------------------------------------------------------
(***************************************************************************)
(* The table of names.                                                     *)
(***************************************************************************)
Indexed(map, cnt, out) ==
  /\ cnt \in Nat \ {0}
  /\ \A n \in DOMAIN map : map[n] \in 0 .. cnt - 1
  /\ \A m, n \in DOMAIN map : map[m] = map[n] => m = n \/ {m, n} \subseteq out
  /\ {map[n] : n \in DOMAIN map} = 0 .. cnt - 1
  /\ \A n \in out : n \in DOMAIN map /\ map[n] = 0

\* A lookup keeps the table sound, moves no name and finds the name.
LEMMA Interning ==
  ASSUME NEW map, NEW cnt, NEW out, NEW name, Indexed(map, cnt, out),
         NEW s, s = Intern(map, cnt, name)
  PROVE  /\ Indexed(s.map, s.cnt, out)
         /\ DOMAIN s.map = DOMAIN map \cup {name}
         /\ \A n \in DOMAIN map : s.map[n] = map[n]
         /\ s.cnt >= cnt
<1>1. CASE name \in DOMAIN map
  BY <1>1 DEF Intern, Indexed
<1>2. CASE name \notin DOMAIN map
  <2>1. s.cnt = cnt + 1 /\ s.map = Put(map, name, cnt)
    BY <1>2 DEF Intern
  <2>2. /\ DOMAIN s.map = DOMAIN map \cup {name}
        /\ s.map[name] = cnt
        /\ \A n \in DOMAIN map : s.map[n] = map[n]
    BY <2>1, <1>2 DEF Put
  <2>3. s.cnt \in Nat \ {0} /\ s.cnt >= cnt
    BY <2>1 DEF Indexed
  <2>4. \A n \in DOMAIN s.map : s.map[n] \in 0 .. s.cnt - 1
    BY <2>1, <2>2 DEF Indexed
  <2>5. \A m, n \in DOMAIN s.map :
          s.map[m] = s.map[n] => m = n \/ {m, n} \subseteq out
    <3>1. \A n \in DOMAIN map : map[n] # cnt
      BY DEF Indexed
    <3> QED BY <2>2, <3>1 DEF Indexed
  <2>6. {s.map[n] : n \in DOMAIN s.map} = 0 .. s.cnt - 1
    <3>1. {s.map[n] : n \in DOMAIN s.map} = {map[n] : n \in DOMAIN map} \cup {cnt}
      BY <2>2
    <3>2. (0 .. cnt - 1) \cup {cnt} = 0 .. s.cnt - 1
      BY <2>1 DEF Indexed
    <3> QED BY <3>1, <3>2 DEF Indexed
  <2>7. \A n \in out : n \in DOMAIN s.map /\ s.map[n] = 0
    BY <2>2 DEF Indexed
  <2> QED BY <2>2, <2>3, <2>4, <2>5, <2>6, <2>7 DEF Indexed
<1> QED BY <1>1, <1>2

-----------------------------------------------------------------------------
(***************************************************************************)
(* Merging a row.                                                          *)
(***************************************************************************)
Merged(graph, e, max, min, new) ==
  /\ IsDelayGraph(new)
  /\ DOMAIN new = DOMAIN graph \cup {e}
  /\ \A f \in DOMAIN graph \ {e} : new[f] = graph[f]
  /\ new[e].max >= max /\ new[e].min <= min
  /\ new[e].max = max \/ (e \in DOMAIN graph /\ new[e].max = graph[e].max)
  /\ new[e].min = min \/ (e \in DOMAIN graph /\ new[e].min = graph[e].min)
  /\ e \in DOMAIN graph => new[e].max >= graph[e].max /\ new[e].min <= graph[e].min

LEMMA Merging ==
  ASSUME NEW graph, IsDelayGraph(graph), NEW e \in Nat \X Nat,
         NEW max \in Delays, NEW min \in Delays,
         NEW new, new = Merge(graph, e, [max |-> max, min |-> min])
  PROVE  Merged(graph, e, max, min, new)
<1> DEFINE delay == [max |-> max, min |-> min]
<1>1. delay.max = max /\ delay.min = min
  OBVIOUS
<1>2. max \in Nat /\ min \in Nat
  BY DEF Delays
<1> HIDE DEF delay
<1>3. CASE e \in DOMAIN graph
  <2>1. graph[e].max \in Delays /\ graph[e].min \in Delays
    BY <1>3 DEF IsDelayGraph
  <2>2. graph[e].max \in Nat /\ graph[e].min \in Nat
    BY <2>1 DEF Delays
  <2> DEFINE wide == Widen(graph[e], delay)
  <2>3. /\ wide.max = IF max > graph[e].max THEN max ELSE graph[e].max
        /\ wide.min = IF min < graph[e].min THEN min ELSE graph[e].min
    BY <1>1 DEF Widen
  <2>4. new = [graph EXCEPT ![e] = wide]
    BY <1>3 DEF Merge, delay
  <2> HIDE DEF wide
  <2>5. /\ DOMAIN new = DOMAIN graph /\ new[e] = wide
        /\ \A f \in DOMAIN graph \ {e} : new[f] = graph[f]
    BY <2>4, <1>3
  <2>6. /\ wide.max = max \/ wide.max = graph[e].max
        /\ wide.min = min \/ wide.min = graph[e].min
        /\ wide.max >= max /\ wide.max >= graph[e].max
        /\ wide.min <= min /\ wide.min <= graph[e].min
    BY <2>2, <2>3, <1>2
  <2>7. IsDelayGraph(new)
    BY <2>1, <2>5, <2>6 DEF IsDelayGraph
  <2> QED BY <2>5, <2>6, <2>7, <1>3 DEF Merged
<1>4. CASE e \notin DOMAIN graph
  <2>1. new = Put(graph, e, delay)
    BY <1>4 DEF Merge, delay
  <2>2. /\ DOMAIN new = DOMAIN graph \cup {e} /\ new[e] = delay
        /\ \A f \in DOMAIN graph \ {e} : new[f] = graph[f]
    BY <2>1 DEF Put
  <2>3. IsDelayGraph(new)
    BY <2>2, <1>1 DEF IsDelayGraph
  <2> QED BY <2>2, <2>3, <1>1, <1>2, <1>4 DEF Merged
<1> QED BY <1>3, <1>4

-----------------------------------------------------------------------------
(***************************************************************************)
(* The invariant.                                                          *)
(***************************************************************************)
Edge(l) == <<nodeIdxMap[Instance(l.from)], nodeIdxMap[Instance(l.to)]>>

RowsRead == {i \in Rows : i < next}

\* Row l is in the delay graph.
Covered(l) ==
  /\ {Instance(l.from), Instance(l.to)} \subseteq DOMAIN nodeIdxMap
  /\ Edge(l) \in DOMAIN dg
  /\ dg[Edge(l)].max >= MaxDelay(l)
  /\ dg[Edge(l)].min <= MinDelay(l)

\* The delays of edge e are delays of rows read.
Attained(e) ==
  /\ \E i \in RowsRead : Edge(report.lines[i]) = e /\ MaxDelay(report.lines[i]) = dg[e].max
  /\ \E i \in RowsRead : Edge(report.lines[i]) = e /\ MinDelay(report.lines[i]) = dg[e].min

IsMergeOfRows ==
  pc # "aborted" => /\ \A i \in RowsRead : Covered(report.lines[i])
                    /\ \A e \in DOMAIN dg : Attained(e)

\* There is a longest delay, which FindTInitial finds.
IsLongest(m) ==
  /\ m \in {0} \cup {dg[e].max : e \in DOMAIN dg}
  /\ \A e \in DOMAIN dg : dg[e].max <= m

HasLongest == \E m \in Delays : IsLongest(m)

Built ==
  /\ pc \in {"build", "built"} => /\ next = Len(report.lines) + 2
                                  /\ tInitial \in Delays
                                  /\ IsLongest(tInitial)
  /\ pc = "built" => g = McrArcs(dg, tInitial)

IInv ==
  /\ TypeOK
  /\ Indexed(nodeIdxMap, cntNodes, Outside(report))
  /\ IsMergeOfRows
  /\ HasLongest
  /\ Built

LEMMA LineFacts ==
  ASSUME report \in Reports
  PROVE  /\ Len(report.lines) \in Nat
         /\ report.format \in {"out", "rslt"}
         /\ \A i \in Rows : /\ i \in 1 .. Len(report.lines)
                            /\ report.lines[i].kind = "row"
                            /\ MaxDelay(report.lines[i]) \in EvenInt
                            /\ MinDelay(report.lines[i]) \in EvenInt
<1>1. report.lines \in Seq(Range(report.lines))
  BY ReportsAssumption
<1>2. Len(report.lines) \in Nat /\ DOMAIN report.lines = 1 .. Len(report.lines)
  BY <1>1
<1>3. \A i \in Rows : /\ report.lines[i].first \in EvenInt
                      /\ report.lines[i].second \in EvenInt
  BY <1>2, ReportsAssumption DEF Rows
<1> QED BY <1>2, <1>3, ReportsAssumption DEF Rows, MaxDelay, MinDelay

LEMMA InitIInv == Init => IInv
<1> SUFFICES ASSUME Init PROVE IInv
  OBVIOUS
<1> USE DEF Init
<1>1. Len(report.lines) \in Nat /\ Rows \subseteq Nat \ {0}
  BY LineFacts DEF Rows
<1>2. /\ DOMAIN nodeIdxMap = Outside(report)
      /\ \A n \in DOMAIN nodeIdxMap : nodeIdxMap[n] = 0
      /\ Outside(report) # {}
  BY DEF Outside
<1>3. Indexed(nodeIdxMap, cntNodes, Outside(report))
  <2>1. {nodeIdxMap[n] : n \in DOMAIN nodeIdxMap} = {0}
    BY <1>2
  <2>2. 0 .. cntNodes - 1 = {0}
    OBVIOUS
  <2> QED BY <1>2, <2>1, <2>2 DEF Indexed
<1>4. DOMAIN dg = {}
  OBVIOUS
<1>5. TypeOK
  BY <1>1, <1>3, <1>4 DEF TypeOK, IsDelayGraph, Indexed
<1>6. IsMergeOfRows
  <2>1. \A i \in Nat \ {0} : ~(i < 1)
    OBVIOUS
  <2>2. RowsRead = {}
    BY <1>1, <2>1, Zenon DEF RowsRead
  <2> QED BY <2>2, <1>4 DEF IsMergeOfRows
<1>7. HasLongest
  BY <1>4 DEF HasLongest, IsLongest, Delays
<1> QED BY <1>3, <1>5, <1>6, <1>7 DEF IInv, Built

-----------------------------------------------------------------------------
(***************************************************************************)
(* Reading a row, for the first time or again.                             *)
(***************************************************************************)
LEMMA RowStep ==
  ASSUME IInv, pc = "read", NEW i \in Rows, ReadRow(report.lines[i]),
         UNCHANGED <<report, tInitial, g>>,
         next' \in 1 .. Len(report.lines) + 2,
         RowsRead' = RowsRead \cup {i}
  PROVE  IInv'
<1> DEFINE l == report.lines[i]
           s == Intern(nodeIdxMap, cntNodes, Instance(l.from))
           t == Intern(s.map, s.cnt, Instance(l.to))
           e == <<s.map[Instance(l.from)], t.map[Instance(l.to)]>>
           out == Outside(report)
<1>1. report \in Reports /\ Indexed(nodeIdxMap, cntNodes, out)
  BY DEF IInv, TypeOK
<1>2. MaxDelay(l) \in EvenInt /\ MinDelay(l) \in EvenInt
  BY <1>1, LineFacts
<1>3. /\ nodeIdxMap' = t.map /\ cntNodes' = t.cnt
      /\ \/ /\ Accepted(l) /\ pc' = "read"
            /\ dg' = Merge(dg, e, [max |-> MaxDelay(l), min |-> MinDelay(l)])
         \/ dg' = dg /\ pc' = "aborted"
  BY DEF ReadRow
<1>4. /\ Indexed(s.map, s.cnt, out)
      /\ DOMAIN s.map = DOMAIN nodeIdxMap \cup {Instance(l.from)}
      /\ \A n \in DOMAIN nodeIdxMap : s.map[n] = nodeIdxMap[n]
      /\ s.cnt >= cntNodes
  <2> HIDE DEF l, out
  <2> QED BY <1>1, Interning
<1>5. /\ Indexed(t.map, t.cnt, out)
      /\ DOMAIN t.map = DOMAIN s.map \cup {Instance(l.to)}
      /\ \A n \in DOMAIN s.map : t.map[n] = s.map[n]
      /\ t.cnt >= s.cnt
  <2> HIDE DEF l, out, s
  <2> QED BY <1>4, Interning
<1> HIDE DEF s, t
<1>6. /\ Indexed(nodeIdxMap', cntNodes', out)
      /\ {Instance(l.from), Instance(l.to)} \subseteq DOMAIN nodeIdxMap'
      /\ DOMAIN nodeIdxMap \subseteq DOMAIN nodeIdxMap'
      /\ \A n \in DOMAIN nodeIdxMap : nodeIdxMap'[n] = nodeIdxMap[n]
      /\ cntNodes' >= cntNodes
      /\ e = <<nodeIdxMap'[Instance(l.from)], nodeIdxMap'[Instance(l.to)]>>
  <2>1. cntNodes \in Int /\ s.cnt \in Int /\ t.cnt \in Int
    BY <1>1, <1>4, <1>5 DEF Indexed
  <2> QED BY <1>3, <1>4, <1>5, <2>1
<1> HIDE DEF e
<1>7. e \in (0 .. cntNodes' - 1) \X (0 .. cntNodes' - 1)
  BY <1>6 DEF Indexed
<1>8. /\ IsDelayGraph(dg)
      /\ DOMAIN dg \subseteq (0 .. cntNodes' - 1) \X (0 .. cntNodes' - 1)
  <2>1. cntNodes' \in Int /\ cntNodes \in Int
    BY <1>1, <1>6 DEF Indexed
  <2> QED BY <1>6, <2>1 DEF IInv, TypeOK
<1>9. /\ MaxDelay(l) \in Int /\ MinDelay(l) \in Int
      /\ \A j \in RowsRead : /\ MaxDelay(report.lines[j]) \in Int
                             /\ MinDelay(report.lines[j]) \in Int
  BY <1>1, <1>2, LineFacts DEF RowsRead, EvenInt
<1>10. \A k : /\ Instance(k)' = Instance(k)
              /\ MaxDelay(k)' = MaxDelay(k) /\ MinDelay(k)' = MinDelay(k)
  BY DEF Instance, MaxDelay, MinDelay
<1>11. Built'
  BY <1>3 DEF Built
<1>12. TypeOK' <=> IsDelayGraph(dg') /\ DOMAIN dg' \subseteq
                                  (0 .. cntNodes' - 1) \X (0 .. cntNodes' - 1)
  <2>1. g' \subseteq [from : McrNodes(cntNodes'), to : McrNodes(cntNodes'),
                      weight : Int, delay : Int]
    <3>1. McrNodes(cntNodes) \subseteq McrNodes(cntNodes')
      <4>1. cntNodes' \in Int /\ cntNodes \in Int
        BY <1>1, <1>6 DEF Indexed
      <4> QED BY <4>1, <1>6 DEF McrNodes
    <3>2. g \subseteq [from : McrNodes(cntNodes), to : McrNodes(cntNodes),
                       weight : Int, delay : Int]
      BY DEF IInv, TypeOK
    <3> QED BY <3>1, <3>2
  <2> QED BY <1>3, <1>6, <2>1 DEF TypeOK, IInv, Indexed
<1>13. CASE dg' = dg /\ pc' = "aborted"
  <2>1. TypeOK'
    BY <1>8, <1>12, <1>13
  <2>2. IsMergeOfRows'
    BY <1>13 DEF IsMergeOfRows
  <2>3. HasLongest'
    BY <1>13 DEF IInv, HasLongest, IsLongest
  <2> QED BY <1>6, <1>11, <2>1, <2>2, <2>3 DEF IInv, Outside
<1>14. CASE /\ Accepted(l) /\ pc' = "read"
            /\ dg' = Merge(dg, e, [max |-> MaxDelay(l), min |-> MinDelay(l)])
  <2>1. MaxDelay(l) \in Delays /\ MinDelay(l) \in Delays
    BY <1>2, <1>14 DEF Accepted, EvenInt, Delays
  <2>2. e \in Nat \X Nat
    <3>1. \A k \in 0 .. cntNodes' - 1 : k \in Nat
      OBVIOUS
    <3> QED BY <1>7, <3>1
  <2>3. /\ IsDelayGraph(dg')
        /\ DOMAIN dg' = DOMAIN dg \cup {e}
        /\ \A f \in DOMAIN dg \ {e} : dg'[f] = dg[f]
        /\ dg'[e].max >= MaxDelay(l) /\ dg'[e].min <= MinDelay(l)
        /\ dg'[e].max = MaxDelay(l) \/ (e \in DOMAIN dg /\ dg'[e].max = dg[e].max)
        /\ dg'[e].min = MinDelay(l) \/ (e \in DOMAIN dg /\ dg'[e].min = dg[e].min)
        /\ e \in DOMAIN dg => dg'[e].max >= dg[e].max /\ dg'[e].min <= dg[e].min
    <3> DEFINE mx == MaxDelay(l)
               mn == MinDelay(l)
    <3>1. mx \in Delays /\ mn \in Delays
      BY <2>1
    <3>2. dg' = Merge(dg, e, [max |-> mx, min |-> mn])
      BY <1>14
    <3> HIDE DEF mx, mn
    <3>3. Merged(dg, e, mx, mn, dg')
      BY <1>8, <3>1, <3>2, <2>2, Merging
    <3> QED BY <3>3 DEF mx, mn, Merged
  <2>4. /\ \A f \in DOMAIN dg : dg[f].max \in Nat /\ dg[f].min \in Nat
        /\ \A f \in DOMAIN dg' : dg'[f].max \in Nat /\ dg'[f].min \in Nat
    BY <1>8, <2>3 DEF IsDelayGraph, Delays
  <2>5. TypeOK'
    BY <1>7, <1>8, <1>12, <2>3
  <2>6. IsMergeOfRows'
    <3>1. /\ \A j \in RowsRead : Covered(report.lines[j])
          /\ \A f \in DOMAIN dg : Attained(f)
      BY DEF IInv, IsMergeOfRows
    <3>2. Edge(l)' = e
      BY <1>6, <1>10 DEF Edge
    <3>3. \A j \in RowsRead : Edge(report.lines[j])' = Edge(report.lines[j])
      BY <1>6, <1>10, <3>1 DEF Edge, Covered
    <3>4. Covered(l)'
      BY <1>6, <1>10, <2>3, <3>2 DEF Covered
    <3>5. ASSUME NEW j \in RowsRead
          PROVE  Covered(report.lines[j])'
      <4> DEFINE k == report.lines[j]
                 f == Edge(k)
      <4>1. /\ {Instance(k.from), Instance(k.to)} \subseteq DOMAIN nodeIdxMap
            /\ f \in DOMAIN dg
            /\ dg[f].max >= MaxDelay(k) /\ dg[f].min <= MinDelay(k)
        BY <3>1 DEF Covered
      <4>2. Edge(k)' = f /\ MaxDelay(k) \in Int /\ MinDelay(k) \in Int
        BY <3>3, <1>9
      <4> HIDE DEF f
      <4>3. f \in DOMAIN dg' /\ dg'[f].max >= dg[f].max /\ dg'[f].min <= dg[f].min
        BY <4>1, <2>3, <2>4
      <4>4. dg'[f].max >= MaxDelay(k) /\ dg'[f].min <= MinDelay(k)
        BY <2>4, <4>1, <4>2, <4>3
      <4>5. Covered(k)'
        BY <1>6, <1>10, <4>1, <4>2, <4>3, <4>4 DEF Covered
      <4> QED BY <4>5
    <3>6. ASSUME NEW f \in DOMAIN dg'
          PROVE  Attained(f)'
      <4>1. \E j \in RowsRead' : /\ Edge(report.lines[j])' = f
                                /\ MaxDelay(report.lines[j]) = dg'[f].max
        <5>1. CASE f = e /\ dg'[e].max = MaxDelay(l)
          BY <3>2, <5>1
        <5>2. CASE f \in DOMAIN dg /\ dg'[f].max = dg[f].max
          <6>1. PICK j \in RowsRead : /\ Edge(report.lines[j]) = f
                                      /\ MaxDelay(report.lines[j]) = dg[f].max
            BY <3>1, <5>2 DEF Attained
          <6> QED BY <3>3, <5>2, <6>1
        <5> QED BY <2>3, <3>6, <5>1, <5>2
      <4>2. \E j \in RowsRead' : /\ Edge(report.lines[j])' = f
                                /\ MinDelay(report.lines[j]) = dg'[f].min
        <5>1. CASE f = e /\ dg'[e].min = MinDelay(l)
          BY <3>2, <5>1
        <5>2. CASE f \in DOMAIN dg /\ dg'[f].min = dg[f].min
          <6>1. PICK j \in RowsRead : /\ Edge(report.lines[j]) = f
                                      /\ MinDelay(report.lines[j]) = dg[f].min
            BY <3>1, <5>2 DEF Attained
          <6> QED BY <3>3, <5>2, <6>1
        <5> QED BY <2>3, <3>6, <5>1, <5>2
      <4> QED BY <1>10, <4>1, <4>2 DEF Attained
    <3> QED BY <3>4, <3>5, <3>6 DEF IsMergeOfRows
  <2>7. HasLongest'
    <3>1. PICK m \in Delays : IsLongest(m)
      BY DEF IInv, HasLongest
    <3>2. m \in Nat /\ MaxDelay(l) \in Nat
      BY <3>1, <2>1 DEF Delays
    <3>3. CASE MaxDelay(l) > m
      <4>1. dg'[e].max = MaxDelay(l)
        BY <2>3, <2>4, <3>1, <3>2, <3>3 DEF IsLongest
      <4>2. \A f \in DOMAIN dg' : dg'[f].max <= MaxDelay(l)
        BY <2>3, <2>4, <3>1, <3>2, <3>3, <4>1 DEF IsLongest
      <4>3. MaxDelay(l) \in {dg'[f].max : f \in DOMAIN dg'}
        BY <2>3, <4>1
      <4> HIDE DEF l
      <4> QED BY <2>1, <4>2, <4>3 DEF HasLongest, IsLongest
    <3>4. CASE MaxDelay(l) <= m
      <4>1. \A f \in DOMAIN dg' : dg'[f].max <= m
        BY <2>3, <2>4, <3>1, <3>2, <3>4 DEF IsLongest
      <4>2. ASSUME NEW f \in DOMAIN dg, dg[f].max = m
            PROVE  f \in DOMAIN dg' /\ dg'[f].max = m
        BY <2>3, <2>4, <3>1, <3>2, <3>4, <4>1, <4>2
      <4>3. m \in {0} \cup {dg'[f].max : f \in DOMAIN dg'}
        BY <3>1, <4>2 DEF IsLongest
      <4> QED BY <4>1, <4>3 DEF HasLongest, IsLongest
    <3> QED BY <3>2, <3>3, <3>4
  <2> QED BY <1>6, <1>11, <2>5, <2>6, <2>7 DEF IInv, Outside
<1> QED BY <1>3, <1>13, <1>14

\* What the rows read have to do with the graph stays when neither changes.
LEMMA MergeStays ==
  ASSUME IsMergeOfRows, pc # "aborted", RowsRead' = RowsRead,
         UNCHANGED <<report, nodeIdxMap, dg>>
  PROVE  IsMergeOfRows'
<1>1. \A k : /\ Instance(k)' = Instance(k)
             /\ MaxDelay(k)' = MaxDelay(k) /\ MinDelay(k)' = MinDelay(k)
  BY DEF Instance, MaxDelay, MinDelay
<1>2. \A k : Edge(k)' = Edge(k)
  BY <1>1 DEF Edge
<1>3. /\ \A j \in RowsRead : Covered(report.lines[j])
      /\ \A e \in DOMAIN dg : Attained(e)
  BY DEF IsMergeOfRows
<1>4. \A j \in RowsRead : Covered(report.lines[j])'
  BY <1>1, <1>2, <1>3 DEF Covered
<1>5. \A e \in DOMAIN dg : Attained(e)'
  BY <1>1, <1>2, <1>3 DEF Attained
<1> QED BY <1>4, <1>5 DEF IsMergeOfRows

\* A turn of the loop over a line that is no row.
LEMMA SkipStep ==
  ASSUME IInv, pc = "read",
         UNCHANGED <<report, nodeIdxMap, cntNodes, dg, tInitial, g, pc>>,
         next' \in 1 .. Len(report.lines) + 2,
         RowsRead' = RowsRead
  PROVE  IInv'
<1>1. TypeOK'
  BY DEF IInv, TypeOK
<1>2. IsMergeOfRows'
  BY MergeStays DEF IInv
<1> QED BY <1>1, <1>2 DEF IInv, Built, HasLongest, IsLongest, Outside

-----------------------------------------------------------------------------
(***************************************************************************)
(* The constraint graph of a typed delay graph is typed.                   *)
(***************************************************************************)
LEMMA ArcsTyped ==
  ASSUME NEW graph, IsDelayGraph(graph), NEW n \in Nat, NEW T0 \in Delays,
         DOMAIN graph \subseteq (0 .. n - 1) \X (0 .. n - 1)
  PROVE  McrArcs(graph, T0) \subseteq [from : McrNodes(n), to : McrNodes(n),
                                       weight : Int, delay : Int]
<1> SUFFICES ASSUME NEW e \in DOMAIN graph
             PROVE  EdgeArcs(e[1], e[2], graph[e], T0) \subseteq
                      [from : McrNodes(n), to : McrNodes(n), weight : Int, delay : Int]
  BY DEF McrArcs
<1> DEFINE u == e[1]
           v == e[2]
           t == HalfT(T0)
<1>1. u \in 0 .. n - 1 /\ v \in 0 .. n - 1
  OBVIOUS
<1> HIDE DEF u, v
<1>2. /\ ref \in McrNodes(n)
      /\ \A i \in 0 .. n - 1 : /\ a_(i) \in McrNodes(n) /\ A_(i) \in McrNodes(n)
                               /\ d_(i) \in McrNodes(n) /\ D_(i) \in McrNodes(n)
  BY DEF McrNodes, ref, a_, A_, d_, D_
<1>3. -t \in Int /\ T0 \in Int /\ T0 - graph[e].max \in Int /\ graph[e].min - T0 \in Int
  BY Halves DEF IsDelayGraph, Delays
<1> HIDE DEF t
<1>4. EdgeArcs(u, v, graph[e], T0) =
      { arc(a_(v), ref, 0, 0), arc(ref, A_(v), T0, 2),
        arc(d_(u), a_(u), 0, 0), arc(d_(u), ref, -t, -1),
        arc(D_(u), A_(u), 0, 0), arc(D_(u), ref, -t, -1),
        arc(d_(u), a_(v), graph[e].min - T0, -2),
        arc(A_(v), D_(u), T0 - graph[e].max, 2),
        arc(A_(v), a_(v), 0, 0), arc(D_(v), d_(v), 0, 0) }
  BY DEF EdgeArcs, t
<1>5. \A x, y \in McrNodes(n), w, k \in Int :
        arc(x, y, w, k) \in [from : McrNodes(n), to : McrNodes(n), weight : Int, delay : Int]
  BY DEF arc
<1>6. EdgeArcs(u, v, graph[e], T0) \subseteq
        [from : McrNodes(n), to : McrNodes(n), weight : Int, delay : Int]
  BY <1>1, <1>2, <1>3, <1>4, <1>5
<1> QED BY <1>6 DEF u, v

-----------------------------------------------------------------------------
(***************************************************************************)
(* The invariant is inductive.                                             *)
(***************************************************************************)
LEMMA NextIInv == IInv /\ [Next]_vars => IInv'
<1> SUFFICES ASSUME IInv, [Next]_vars PROVE IInv'
  OBVIOUS
<1>1. /\ Len(report.lines) \in Nat
      /\ next \in 1 .. Len(report.lines) + 2
      /\ Rows = {i \in 1 .. Len(report.lines) : report.lines[i].kind = "row"}
  BY LineFacts DEF IInv, TypeOK, Rows
<1>2. ASSUME report' = report
      PROVE  RowsRead' = {i \in Rows : i < next'}
  BY <1>2 DEF RowsRead, Rows
<1>3. CASE ReadLine
  <2>1. /\ pc = "read" /\ next <= Len(report.lines) /\ next' = next + 1
        /\ UNCHANGED <<report, tInitial, g>>
    BY <1>3 DEF ReadLine
  <2>2. next' \in 1 .. Len(report.lines) + 2 /\ next \in 1 .. Len(report.lines)
    BY <1>1, <2>1
  <2>3. CASE report.lines[next].kind = "row"
    <3>1. next \in Rows
      BY <1>1, <2>2, <2>3
    <3>2. RowsRead' = RowsRead \cup {next}
      BY <1>1, <1>2, <2>1, <3>1 DEF RowsRead
    <3>3. ReadRow(report.lines[next])
      BY <1>3, <2>3 DEF ReadLine
    <3> QED BY <2>1, <2>2, <3>1, <3>2, <3>3, RowStep
  <2>4. CASE report.lines[next].kind # "row"
    <3>1. next \notin Rows
      BY <1>1, <2>4
    <3>2. RowsRead' = RowsRead
      BY <1>1, <1>2, <2>1, <3>1 DEF RowsRead
    <3>3. UNCHANGED <<nodeIdxMap, cntNodes, dg, pc>>
      BY <1>3, <2>4 DEF ReadLine
    <3> QED BY <2>1, <2>2, <3>2, <3>3, SkipStep
  <2> QED BY <2>3, <2>4
<1>4. CASE ReadPastEnd
  <2>1. /\ pc = "read" /\ next = Len(report.lines) + 1 /\ next' = next + 1
        /\ UNCHANGED <<report, tInitial, g>>
    BY <1>4 DEF ReadPastEnd
  <2>2. next' \in 1 .. Len(report.lines) + 2
    BY <1>1, <2>1
  <2>3. RowsRead' = RowsRead /\ RowsRead = Rows
    BY <1>1, <1>2, <2>1 DEF RowsRead
  <2>4. CASE /\ report.lines # <<>> /\ Last(report.lines).kind = "row"
             /\ ReadRow(Last(report.lines))
    <3> DEFINE last == Len(report.lines)
    <3>1. report.lines \in Seq(Range(report.lines))
      BY ReportsAssumption DEF IInv, TypeOK
    <3>2. last \in 1 .. Len(report.lines) /\ Last(report.lines) = report.lines[last]
      BY <2>4, <3>1 DEF Last
    <3>3. last \in Rows
      BY <1>1, <2>4, <3>2
    <3> HIDE DEF last
    <3> QED BY <2>1, <2>2, <2>3, <2>4, <3>2, <3>3, RowStep
  <2>5. CASE UNCHANGED <<nodeIdxMap, cntNodes, dg, pc>>
    BY <2>1, <2>2, <2>3, <2>5, SkipStep
  <2> QED BY <1>4, <2>4, <2>5 DEF ReadPastEnd
<1>5. CASE FindTInitial
  <2>1. /\ pc = "read" /\ pc' = "build" /\ next = Len(report.lines) + 2
        /\ tInitial' = Max({0} \cup {dg[e].max : e \in DOMAIN dg})
        /\ UNCHANGED <<report, next, nodeIdxMap, cntNodes, dg, g>>
    BY <1>5 DEF FindTInitial
  <2>2. PICK m \in Delays : IsLongest(m)
    BY DEF IInv, HasLongest
  <2>3. \A e \in DOMAIN dg : dg[e].max \in Nat
    BY DEF IInv, TypeOK, IsDelayGraph, Delays
  <2>4. tInitial' = m
    <3> DEFINE S == {0} \cup {dg[e].max : e \in DOMAIN dg}
    <3>1. S \in SUBSET Int /\ m \in S /\ m \in Nat
      BY <2>2, <2>3 DEF IsLongest, Delays
    <3>2. \A x \in S : x <= m
      BY <2>2, <2>3, <3>1 DEF IsLongest
    <3> HIDE DEF S
    <3>3. Max(S) = m
      BY <3>1, <3>2, Largest
    <3> QED BY <2>1, <3>3 DEF S
  <2>5. tInitial' \in Delays /\ IsLongest(tInitial)' /\ tInitial' \in Nat
    BY <2>1, <2>2, <2>4 DEF IsLongest, Delays
  <2>6. TypeOK' /\ HasLongest'
    BY <2>1, <2>5 DEF IInv, TypeOK, HasLongest
  <2>7. IsMergeOfRows'
    BY <1>2, <2>1, MergeStays DEF IInv, RowsRead
  <2>8. Built'
    BY <2>1, <2>5 DEF Built
  <2> QED BY <2>1, <2>6, <2>7, <2>8 DEF IInv, Outside
<1>6. CASE GetMcrGraph
  <2>1. /\ pc = "build" /\ pc' = "built" /\ g' = McrArcs(dg, tInitial)
        /\ UNCHANGED <<report, next, nodeIdxMap, cntNodes, dg, tInitial>>
    BY <1>6 DEF GetMcrGraph
  <2>2. tInitial \in Delays /\ IsLongest(tInitial) /\ next = Len(report.lines) + 2
    BY <2>1 DEF IInv, Built
  <2>3. g' \subseteq [from : McrNodes(cntNodes), to : McrNodes(cntNodes),
                      weight : Int, delay : Int]
    <3>1. cntNodes \in Nat /\ IsDelayGraph(dg)
          /\ DOMAIN dg \subseteq (0 .. cntNodes - 1) \X (0 .. cntNodes - 1)
      BY DEF IInv, TypeOK
    <3> QED BY <2>1, <2>2, <3>1, ArcsTyped
  <2>4. TypeOK' /\ HasLongest'
    BY <2>1, <2>3 DEF IInv, TypeOK, HasLongest, IsLongest
  <2>5. IsMergeOfRows'
    BY <1>2, <2>1, MergeStays DEF IInv, RowsRead
  <2>6. Built'
    BY <2>1, <2>2 DEF Built, IsLongest
  <2> QED BY <2>1, <2>4, <2>5, <2>6 DEF IInv, Outside
<1>7. CASE UNCHANGED vars
  <2>1. UNCHANGED <<report, next, nodeIdxMap, cntNodes, dg, tInitial, g, pc>>
    BY <1>7 DEF vars
  <2>2. IsMergeOfRows'
    <3>1. CASE pc = "aborted"
      BY <2>1, <3>1 DEF IsMergeOfRows
    <3>2. CASE pc # "aborted"
      BY <1>2, <2>1, <3>2, MergeStays DEF IInv, RowsRead
    <3> QED BY <3>1, <3>2
  <2>3. TypeOK'
    BY <2>1 DEF IInv, TypeOK
  <2>4. Built' /\ HasLongest'
    BY <2>1 DEF IInv, Built, HasLongest, IsLongest
  <2> QED BY <2>1, <2>2, <2>3, <2>4 DEF IInv, Outside
<1> QED BY <1>3, <1>4, <1>5, <1>6, <1>7 DEF Next

LEMMA Inductive == Spec => []IInv
<1> QED BY InitIInv, NextIInv, PTL DEF Spec

-----------------------------------------------------------------------------
(***************************************************************************)
(* What follows for every report.                                          *)
(***************************************************************************)

\* Every file keeps the reader's state well typed; in particular an edge only
\* names vertices that exist, and a delay that came in is even and not negative.
THEOREM TypeCorrect == Spec => []TypeOK
<1>1. IInv => TypeOK
  BY DEF IInv
<1> QED BY <1>1, Inductive, PTL

\* Two names share an index only if both mean the outside, and no vertex lacks a
\* name.
IndexingIsSound ==
  /\ \A m, n \in DOMAIN nodeIdxMap :
       nodeIdxMap[m] = nodeIdxMap[n] => m = n \/ {m, n} \subseteq Outside(report)
  /\ {nodeIdxMap[n] : n \in DOMAIN nodeIdxMap} = 0 .. cntNodes - 1

\* nodeIdxMap hands out every index once, except for the outside's two names,
\* and none that has no vertex (timing_graph.cpp:66-93).
THEOREM Indexing == Spec => []IndexingIsSound
<1>1. IInv => IndexingIsSound
  BY DEF IInv, Indexed, IndexingIsSound
<1> QED BY <1>1, Inductive, PTL

\* Rows that join the same names are those of one edge.
LEMMA AlikeAreRowsOf ==
  ASSUME IInv, RowsRead = Rows, \A i \in Rows : Covered(report.lines[i]), NEW i \in Rows
  PROVE  Alike(i) = {l \in {report.lines[j] : j \in Rows} : Edge(l) = Edge(report.lines[i])}
<1> DEFINE h == report.lines[i]
<1>1. ASSUME NEW x \in DOMAIN nodeIdxMap, NEW y \in DOMAIN nodeIdxMap
      PROVE  nodeIdxMap[x] = nodeIdxMap[y] <=> x = y \/ {x, y} \subseteq Outside(report)
  <2>1. /\ nodeIdxMap[x] = nodeIdxMap[y] => x = y \/ {x, y} \subseteq Outside(report)
        /\ \A n \in Outside(report) : nodeIdxMap[n] = 0
    BY DEF IInv, Indexed
  <2> QED BY <2>1
<1>2. ASSUME NEW j \in Rows
      PROVE  SameEnd(report.lines[j].from, h.from) /\ SameEnd(report.lines[j].to, h.to)
               <=> Edge(report.lines[j]) = Edge(h)
  <2> DEFINE l == report.lines[j]
  <2>1. /\ {Instance(l.from), Instance(l.to)} \subseteq DOMAIN nodeIdxMap
        /\ {Instance(h.from), Instance(h.to)} \subseteq DOMAIN nodeIdxMap
    BY DEF Covered
  <2> HIDE DEF l, h
  <2>2. SameEnd(l.from, h.from) <=> nodeIdxMap[Instance(l.from)] = nodeIdxMap[Instance(h.from)]
    BY <1>1, <2>1 DEF SameEnd
  <2>3. SameEnd(l.to, h.to) <=> nodeIdxMap[Instance(l.to)] = nodeIdxMap[Instance(h.to)]
    BY <1>1, <2>1 DEF SameEnd
  <2> QED BY <2>2, <2>3 DEF Edge, l
<1> QED BY <1>2 DEF Alike

\* The delay graph holds the extremes of the rows of each pair of names, in
\* whatever order they come and however often the last one is read.
THEOREM Merges == Spec => []GraphIsMerge
<1>1. IInv => GraphIsMerge
  <2> SUFFICES ASSUME IInv, pc \in {"build", "built"} PROVE GraphIsMerge
    BY DEF GraphIsMerge
  <2>1. /\ \A i \in Rows : Covered(report.lines[i])
        /\ \A e \in DOMAIN dg : Attained(e)
        /\ RowsRead = Rows
    <3>1. RowsRead = Rows
      BY LineFacts DEF IInv, TypeOK, Built, RowsRead
    <3> QED BY <3>1 DEF IInv, IsMergeOfRows
  <2>2. \A i \in Rows : \A e : Joins(i, e) <=> e = Edge(report.lines[i])
    BY DEF Joins, Edge
  <2>3. ASSUME NEW e \in DOMAIN dg,
               NEW rows, rows = {l \in {report.lines[j] : j \in Rows} : Edge(l) = e}
        PROVE  /\ dg[e].max = Max({MaxDelay(l) : l \in rows})
               /\ dg[e].min = Min({MinDelay(l) : l \in rows})
    <3>1. \A l \in rows : /\ MaxDelay(l) \in Int /\ MinDelay(l) \in Int
                          /\ dg[e].max >= MaxDelay(l) /\ dg[e].min <= MinDelay(l)
      BY <2>1, <2>3, LineFacts DEF IInv, TypeOK, Covered, EvenInt
    <3>2. /\ \E l \in rows : MaxDelay(l) = dg[e].max
          /\ \E l \in rows : MinDelay(l) = dg[e].min
      BY <2>1, <2>3 DEF Attained
    <3>3. dg[e].max = Max({MaxDelay(l) : l \in rows})
      <4> DEFINE S == {MaxDelay(l) : l \in rows}
      <4>1. S \in SUBSET Int /\ dg[e].max \in S /\ \A x \in S : x <= dg[e].max
        BY <3>1, <3>2
      <4> HIDE DEF S
      <4>2. Max(S) = dg[e].max
        BY <4>1, Largest
      <4> QED BY <4>2 DEF S
    <3>4. dg[e].min = Min({MinDelay(l) : l \in rows})
      <4> DEFINE S == {MinDelay(l) : l \in rows}
      <4>1. S \in SUBSET Int /\ dg[e].min \in S /\ \A x \in S : dg[e].min <= x
        BY <3>1, <3>2
      <4> HIDE DEF S
      <4>2. Min(S) = dg[e].min
        BY <4>1, Smallest
      <4> QED BY <4>2 DEF S
    <3> QED BY <3>3, <3>4
  <2>4. ASSUME NEW i \in Rows
        PROVE  \E e \in DOMAIN dg : /\ Joins(i, e)
                                    /\ dg[e].max = Max({MaxDelay(l) : l \in Alike(i)})
                                    /\ dg[e].min = Min({MinDelay(l) : l \in Alike(i)})
    <3> DEFINE e == Edge(report.lines[i])
    <3>1. e \in DOMAIN dg /\ Joins(i, e) BY <2>1, <2>2 DEF Covered
    <3>2. Alike(i) = {l \in {report.lines[j] : j \in Rows} : Edge(l) = e}
      BY <2>1, AlikeAreRowsOf
    <3> HIDE DEF e
    <3> QED BY <2>3, <3>1, <3>2
  <2>5. \A e \in DOMAIN dg : \E i \in Rows : Joins(i, e)
    BY <2>1, <2>2 DEF Attained
  <2> QED BY <2>4, <2>5 DEF GraphIsMerge
<1> QED BY <1>1, Inductive, PTL

\* Whatever the file, mcrLP and getMcrGraph are given the same constraints.
THEOREM Agreement == Spec => []ProgramAgreesWithGraph
<1>1. IInv => ProgramAgreesWithGraph
  BY RowsAreArcs DEF IInv, TypeOK, Built, ProgramAgreesWithGraph
<1> QED BY <1>1, Inductive, PTL

\* What the potentials say of the graph built: the arcs whose reduced delay is
\* at least a quarter, and whose constraint r = 0 satisfies.
Solvable ==
  pc = "built" =>
    \A x \in g :
      /\ 4 * x.delay + DelayPotential(x.from) - DelayPotential(x.to) >= 1
      /\ AtStart(x.to, tInitial) - AtStart(x.from, tInitial) <= x.weight

\* Whatever the file, the solvers are given a graph in which no cycle has a
\* delay of zero or less, and a period tInitial - 2 * r that is no worse than
\* tInitial: r = 0 is feasible.
THEOREM AlwaysSolvable == Spec => []Solvable
<1>1. IInv => Solvable
  <2> SUFFICES ASSUME IInv, pc = "built" PROVE Solvable
    BY DEF Solvable
  <2>1. /\ IsDelayGraph(dg) /\ tInitial \in Delays /\ g = McrArcs(dg, tInitial)
        /\ \A e \in DOMAIN dg : dg[e].max <= tInitial
    BY DEF IInv, TypeOK, Built, IsLongest
  <2> QED BY <2>1, DelaysArePositive, StartIsFeasible DEF Solvable
<1> QED BY <1>1, Inductive, PTL

LEMMA BuiltGraph ==
  ASSUME IInv, pc = "built"
  PROVE  /\ IsDelayGraph(dg) /\ tInitial \in Delays /\ cntNodes \in Nat \ {0}
         /\ DOMAIN dg \subseteq (0 .. cntNodes - 1) \X (0 .. cntNodes - 1)
         /\ \A e \in DOMAIN dg : dg[e].max <= tInitial
         /\ g = McrArcs(dg, tInitial)
         /\ McrArcs(dg, tInitial) \subseteq
              [from : McrNodes(cntNodes), to : McrNodes(cntNodes), weight : Int, delay : Int]
BY DEF IInv, TypeOK, Built, IsLongest

\* Whatever the file, the ratio of every cycle of the graph built is defined.
THEOREM RatiosAreDefined == Spec => []CyclesArePositive
<1>1. IInv => CyclesArePositive
  BY BuiltGraph, ConstraintCyclesArePositive DEF CyclesArePositive
<1> QED BY <1>1, Inductive, PTL

\* Whatever the file, r = 0 is feasible, so that the reported period is at most
\* the initial one.
THEOREM StartIsAlwaysFeasible == Spec => []InitialPeriodIsFeasible
<1>1. IInv => InitialPeriodIsFeasible
  BY BuiltGraph, ConstraintStartIsFeasible DEF InitialPeriodIsFeasible
<1> QED BY <1>1, Inductive, PTL
=============================================================================
