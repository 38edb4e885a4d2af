--------------------------- MODULE GraphLayoutProofs ---------------------------
(***************************************************************************)
(* Proofs about GraphLayout, for histories of any length and any number of     *)
(* parents: no edge is drawn through a commit that is not an end of it, and two *)
(* edges that share a column share an end. The invariant also speaks of the     *)
(* lanes that are only pencilled in: what the sweep has reserved below the row   *)
(* it is at.                                                                *)
(***************************************************************************)
EXTENDS GraphLayout, SequenceTheorems, TLAPS

Labelled(q) == shaToLane[q] # NoLane

TypeInv ==
  /\ row \in 0..N /\ pi \in Nat \ {0}
  /\ parents \in [Rows -> Seq(0..N)]
  /\ \A r \in Rows : \A i \in DOMAIN parents[r] : parents[r][i] = Outside \/ r < parents[r][i]
  /\ shaToLane \in [Rows -> Nat \cup {NoLane}]
  /\ mergeSpanFrom \in [Rows -> 0..row]
  /\ maxLaneSeen \in Nat \cup {NoLane}
  /\ Columns \subseteq Nat /\ \A l \in Columns : busyUntil[l] \in Nat
  /\ usedLanes \subseteq Nat

\* Lanes: every placed commit has one, two that wait below have different ones, and a column is
\* busy at least down to every commit that is in it or pencilled in there.
LanesInv ==
  /\ \A q \in Rows : q <= row => Labelled(q)
  /\ \A q \in Rows : Labelled(q) => Busy(shaToLane[q]) >= q
  /\ \A p, q \in Rows : (p > row /\ q > row /\ p # q /\ Labelled(p) /\ Labelled(q))
                          => shaToLane[p] # shaToLane[q]
  /\ \A l \in Nat : l > maxLaneSeen => Busy(l) = 0

\* Edges: their column is busy down to the parent, and no commit in between is in it or pencilled
\* in there, nor is one that waits elsewhere.
EdgesInv ==
  /\ \A e \in Edges : Labelled(To(e)) /\ Busy(VerticalLane(e)) >= To(e)
  /\ \A e \in Edges, q \in Rows :
       (e[1] < q /\ q < To(e) /\ Labelled(q)) => shaToLane[q] # VerticalLane(e)
  /\ \A e \in Edges, q \in Rows :
       (To(e) > row /\ q > row /\ q # To(e) /\ Labelled(q)) => shaToLane[q] # VerticalLane(e)
  /\ \A e \in Edges : (e[2] > 1 /\ To(e) > row) => mergeSpanFrom[To(e)] \in 1..e[1]

\* Until the first parent is claimed, the commit's column has nothing below it.
OwnInv ==
  (row > 0 /\ pi = 1) =>
    /\ \A q \in Rows : (q > row /\ Labelled(q)) => shaToLane[q] # shaToLane[row]
    /\ \A e \in Edges : To(e) > row => VerticalLane(e) # shaToLane[row]

IInv == TypeInv /\ LanesInv /\ EdgesInv /\ OwnInv /\ LinesAreTold

-----------------------------------------------------------------------------
(* Columns and edges                                                        *)

\* Busy is a row of its own for every column.
LEMMA BusyType ==
  ASSUME TypeInv, NEW l \in Nat
  PROVE  Busy(l) \in Nat
BY DEF TypeInv, Busy

\* What reserve makes of each column.
LEMMA ReserveBusy ==
  ASSUME TypeInv, NEW lanes \in SUBSET Nat, NEW until \in Nat, busyUntil' = reserve(lanes, until)
  PROVE  /\ Columns' \subseteq Nat /\ \A l \in Columns' : busyUntil'[l] \in Nat
         /\ \A l \in Nat : Busy(l)' = IF l \in lanes /\ Busy(l) < until THEN until ELSE Busy(l)
<1> DEFINE D == Columns \cup UNION {0..k : k \in lanes}
<1>1. /\ D \subseteq Nat /\ lanes \subseteq D
  <2>1. \A k \in lanes : 0..k \subseteq Nat /\ k \in 0..k
    OBVIOUS
  <2>2. Columns \subseteq Nat
    BY DEF TypeInv
  <2> HIDE DEF D
  <2>3. \A l : l \in D <=> (l \in Columns \/ \E k \in lanes : l \in 0..k)
    BY Zenon DEF D
  <2> QED
    BY <2>1, <2>2, <2>3
<1>2. busyUntil' = [l \in D |-> IF l \in lanes /\ Busy(l) < until THEN until ELSE Busy(l)]
  BY DEF reserve
<1>3. Columns' = D
  BY <1>2 DEF Columns
<1> HIDE DEF D
<1>4. \A l \in D : busyUntil'[l] = IF l \in lanes /\ Busy(l) < until THEN until ELSE Busy(l)
  BY <1>2
<1>5. \A l \in D : busyUntil'[l] \in Nat
  BY <1>1, <1>4, BusyType
<1>6. ASSUME NEW l \in Nat, l \notin D
      PROVE  Busy(l) = 0 /\ l \notin lanes
  BY <1>6, <1>1 DEF D, Busy
<1>7. \A l \in Nat : Busy(l)' = IF l \in D THEN busyUntil'[l] ELSE 0
  BY <1>3 DEF Busy
<1>8. \A l \in Nat : Busy(l)' = IF l \in lanes /\ Busy(l) < until THEN until ELSE Busy(l)
  BY <1>4, <1>6, <1>7
<1> QED
  BY <1>1, <1>3, <1>5, <1>8

\* An element of a sequence.
LEMMA Element ==
  ASSUME NEW S, NEW s \in Seq(S), NEW i \in DOMAIN s
  PROVE  s[i] \in S /\ i \in 1..Len(s)
OBVIOUS

\* The ends of an edge.
LEMMA EdgeFacts ==
  ASSUME TypeInv, NEW e \in Edges
  PROVE  /\ e[1] \in 1..row /\ e[2] \in 1..MaxParents /\ e = <<e[1], e[2]>>
         /\ To(e) \in Rows /\ e[1] < To(e)
<1>1. /\ e[1] \in 1..row /\ e[2] \in 1..MaxParents /\ e = <<e[1], e[2]>>
      /\ e[2] \in DOMAIN parents[e[1]] /\ parents[e[1]][e[2]] # Outside
  BY DEF Edges
<1>2. e[1] \in Rows /\ parents[e[1]] \in Seq(0..N)
  BY <1>1, SizeAssumption DEF TypeInv, Rows
<1>3. parents[e[1]][e[2]] \in 0..N
  BY <1>1, <1>2, Element
<1> QED
  BY <1>1, <1>2, <1>3 DEF To, Rows, Outside, TypeInv

\* The commit at the sweep has a lane.
LEMMA OwnLane ==
  ASSUME TypeInv, LanesInv, NEW q \in Rows, Labelled(q)
  PROVE  shaToLane[q] \in Nat
BY DEF TypeInv, Labelled

\* An edge's column.
LEMMA EdgeLane ==
  ASSUME TypeInv, LanesInv, EdgesInv, NEW e \in Edges
  PROVE  VerticalLane(e) \in Nat /\ Labelled(To(e)) /\ Busy(VerticalLane(e)) >= To(e)
<1>1. e[1] \in Rows /\ e[1] <= row /\ To(e) \in Rows
  BY EdgeFacts, SizeAssumption DEF TypeInv, Rows
<1>2. Labelled(e[1]) /\ Labelled(To(e))
  BY <1>1 DEF LanesInv, EdgesInv
<1>3. shaToLane[e[1]] \in Nat /\ shaToLane[To(e)] \in Nat
  BY <1>1, <1>2, OwnLane
<1> QED
  BY <1>2, <1>3 DEF VerticalLane, EdgesInv

-----------------------------------------------------------------------------
(* Placing a commit                                                         *)

\* The column a commit is placed in is the one pencilled in, or one that is idle: since the row of
\* the first merge that reaches it, if one does.
LEMMA PlacedLane ==
  ASSUME TypeInv, LanesInv, NEW r \in Rows, r > row, NEW stash, NEW lane \in LaneOf(r, stash)
  PROVE  /\ lane \in Nat
         /\ Busy(lane) < r \/ (Labelled(r) /\ lane = shaToLane[r])
         /\ (Labelled(r) /\ lane # shaToLane[r] /\ mergeSpanFrom[r] # 0)
              => Busy(lane) < mergeSpanFrom[r]
<1>0. r \in Nat /\ r > 0 /\ r <= N
  BY SizeAssumption DEF Rows
<1>1. CASE Labelled(r) /\ stash
  <2>1. LaneOf(r, stash) = {shaToLane[r]}
    BY <1>1 DEF LaneOf, Labelled
  <2> QED
    BY <1>1, <2>1, OwnLane
<1>2. CASE Labelled(r) /\ ~stash
  <2>1. lane \in Compacted(shaToLane[r], r)
    BY <1>2 DEF LaneOf, Labelled
  <2>2. shaToLane[r] \in Nat
    BY <1>2, OwnLane
  <2>3. mergeSpanFrom[r] \in 0..row
    BY DEF TypeInv
  <2> DEFINE Since == IF mergeSpanFrom[r] = 0 THEN r ELSE mergeSpanFrom[r]
  <2>4. lane \in 0..shaToLane[r] /\ \A k \in lane..(shaToLane[r] - 1) : isFree(k, Since)
    BY <2>1 DEF Compacted
  <2>5. lane \in Nat /\ (lane # shaToLane[r] => Busy(lane) < Since)
    BY <2>2, <2>4 DEF isFree
  <2>6. CASE lane = shaToLane[r]
    BY <2>5, <2>6, <1>2
  <2>7. CASE lane # shaToLane[r] /\ mergeSpanFrom[r] = 0
    BY <2>5, <2>7
  <2>8. CASE lane # shaToLane[r] /\ mergeSpanFrom[r] # 0
    <3>1. Busy(lane) < mergeSpanFrom[r]
      BY <2>5, <2>8
    <3>2. Busy(lane) \in Nat /\ row \in Nat
      BY <2>5, BusyType, SizeAssumption DEF TypeInv
    <3>3. Busy(lane) < r
      BY <3>1, <3>2, <2>3, <1>0
    <3> QED
      BY <3>1, <3>3, <2>5
  <2> QED
    BY <2>6, <2>7, <2>8
<1>3. CASE ~Labelled(r) /\ stash
  <2>1. lane = maxLaneSeen + 1
    BY <1>3 DEF LaneOf, Labelled
  <2>2. lane \in Nat /\ lane > maxLaneSeen
    BY <2>1 DEF TypeInv, NoLane
  <2>3. Busy(lane) = 0
    BY <2>2 DEF LanesInv
  <2> QED
    BY <2>2, <2>3, <1>0, <1>3
<1>4. CASE ~Labelled(r) /\ ~stash
  <2>1. lane \in findFreeLane(r, {})
    BY <1>4 DEF LaneOf, Labelled
  <2>2. lane \in {0} \cup Columns \cup {c + 1 : c \in Columns} /\ Busy(lane) < r
    BY <2>1 DEF findFreeLane, isFree
  <2>3. \A c \in Columns : c \in Nat /\ c + 1 \in Nat
    BY DEF TypeInv
  <2>4. lane \in Nat
    BY <2>2, <2>3
  <2> QED
    BY <2>2, <2>4, <1>4
<1> QED
  BY <1>1, <1>2, <1>3, <1>4

\* A commit is placed: parents not yet claimed are no edges, so the edges stay what they were; one
\* that comes from a merge above follows the commit to its new column.
LEMMA PlaceKeeps ==
  ASSUME IInv, NEW list \in Seq(0..N), NEW stash, Place(list, stash),
         \A i \in DOMAIN list : list[i] = Outside \/ row + 1 < list[i]
  PROVE  IInv'
<1> DEFINE k == row + 1
<1>0. /\ TypeInv /\ LanesInv /\ EdgesInv /\ OwnInv /\ LinesAreTold
      /\ row \in Nat /\ k \in Rows /\ k \in Nat /\ k > row /\ row' = k /\ pi' = 1 /\ N \in Nat
  BY SizeAssumption DEF IInv, Place, TypeInv, Rows
<1>1. PICK lane \in LaneOf(k, stash) :
        /\ shaToLane' = [shaToLane EXCEPT ![k] = lane]
        /\ busyUntil' = reserve({lane}, k)
        /\ maxLaneSeen' = AtLeast(maxLaneSeen, lane)
        /\ usedLanes' = {lane}
  BY DEF Place
<1>2. /\ lane \in Nat
      /\ Busy(lane) < k \/ (Labelled(k) /\ lane = shaToLane[k])
      /\ (Labelled(k) /\ lane # shaToLane[k] /\ mergeSpanFrom[k] # 0) => Busy(lane) < mergeSpanFrom[k]
  BY <1>0, <1>1, PlacedLane
<1>3. /\ Columns' \subseteq Nat /\ \A l \in Columns' : busyUntil'[l] \in Nat
      /\ \A l \in Nat : Busy(l)' = IF l \in {lane} /\ Busy(l) < k THEN k ELSE Busy(l)
  BY <1>0, <1>1, <1>2, ReserveBusy
<1>4. \A l \in Nat : /\ Busy(l) \in Nat /\ Busy(l)' \in Nat /\ Busy(l)' >= Busy(l)
                     /\ (l # lane => Busy(l)' = Busy(l)) /\ (l = lane => Busy(l)' >= k)
  <2> SUFFICES ASSUME NEW l \in Nat
               PROVE  /\ Busy(l) \in Nat /\ Busy(l)' \in Nat /\ Busy(l)' >= Busy(l)
                      /\ (l # lane => Busy(l)' = Busy(l)) /\ (l = lane => Busy(l)' >= k)
    OBVIOUS
  <2>1. Busy(l) \in Nat
    BY <1>0, BusyType
  <2>2. Busy(l)' = IF l \in {lane} /\ Busy(l) < k THEN k ELSE Busy(l)
    BY <1>3
  <2> QED
    BY <2>1, <2>2, <1>0
<1>5. /\ shaToLane \in [Rows -> Nat \cup {NoLane}]
      /\ \A q \in Rows : shaToLane'[q] = IF q = k THEN lane ELSE shaToLane[q]
  BY <1>0, <1>1 DEF TypeInv
<1>6. /\ \A q \in Rows : Labelled(q)' <=> (q = k \/ Labelled(q))
      /\ lane # NoLane
  BY <1>2, <1>5 DEF Labelled, NoLane
<1>7. /\ parents' = [parents EXCEPT ![k] = list] /\ parents \in [Rows -> Seq(0..N)]
      /\ mergeSpanFrom' = mergeSpanFrom /\ mergeSpanFrom \in [Rows -> 0..row]
  BY <1>0 DEF Place, TypeInv
<1>8. TypeInv'
  <2>1. row' \in 0..N /\ pi' \in Nat \ {0}
    BY <1>0 DEF Rows
  <2>2. parents' \in [Rows -> Seq(0..N)]
    BY <1>0, <1>7
  <2>3. \A r \in Rows : \A i \in DOMAIN parents'[r] : parents'[r][i] = Outside \/ r < parents'[r][i]
    <3>1. \A r \in Rows : parents'[r] = IF r = k THEN list ELSE parents[r]
      BY <1>7
    <3> QED
      BY <3>1, <1>0 DEF TypeInv
  <2>4. shaToLane' \in [Rows -> Nat \cup {NoLane}]
    BY <1>1, <1>2, <1>5, <1>0
  <2>5. mergeSpanFrom' \in [Rows -> 0..row']
    BY <1>0, <1>7
  <2>6. maxLaneSeen' \in Nat \cup {NoLane} /\ usedLanes' \subseteq Nat
    BY <1>0, <1>1, <1>2 DEF AtLeast, TypeInv
  <2> QED
    BY <2>1, <2>2, <2>3, <2>4, <2>5, <2>6, <1>3 DEF TypeInv
<1>9. Edges' = Edges /\ \A e \in Edges : To(e)' = To(e) /\ e[1] # k
  <2>1. \A r \in Rows : r # k => parents'[r] = parents[r]
    BY <1>7
  <2>2. RowDone
    BY DEF Place
  <2>3. \A r \in 1..row : r \in Rows /\ r # k /\ parents'[r] = parents[r]
    BY <1>0, <2>1 DEF Rows
  <2>4. \A i \in DOMAIN parents[row] : row > 0 => i < pi
    <3> SUFFICES ASSUME NEW i \in DOMAIN parents[row], row > 0 PROVE i < pi
      OBVIOUS
    <3>1. parents[row] \in Seq(0..N) /\ pi > Len(parents[row])
      BY <2>2, <1>0, <1>7 DEF RowDone, Rows
    <3>2. i \in 1..Len(parents[row]) /\ Len(parents[row]) \in Nat
      BY <3>1, Element
    <3> QED
      BY <3>1, <3>2, <1>0 DEF TypeInv
  <2>5. ASSUME NEW e PROVE e \in Edges' <=> e \in Edges
    <3>1. ASSUME e \in Edges PROVE e \in Edges'
      <4>1. /\ e \in (1..row) \X (1..MaxParents) /\ e[2] \in DOMAIN parents[e[1]]
            /\ parents[e[1]][e[2]] # Outside
        BY <3>1 DEF Edges
      <4>2. e[1] \in 1..row /\ parents'[e[1]] = parents[e[1]] /\ e[1] < row'
        BY <4>1, <2>3, <1>0
      <4>3. e \in (1..row') \X (1..MaxParents)
        BY <4>1, <1>0
      <4> QED
        BY <4>1, <4>2, <4>3 DEF Edges
    <3>2. ASSUME e \in Edges' PROVE e \in Edges
      <4>1. /\ e \in (1..row') \X (1..MaxParents) /\ e[2] \in DOMAIN parents'[e[1]]
            /\ parents'[e[1]][e[2]] # Outside /\ (e[1] < row' \/ e[2] < pi')
        BY <3>2 DEF Edges
      <4>2. e[1] \in 1..row
        BY <4>1, <1>0
      <4>3. parents'[e[1]] = parents[e[1]] /\ e \in (1..row) \X (1..MaxParents)
        BY <4>1, <4>2, <2>3
      <4>4. e[1] < row \/ e[2] < pi
        BY <4>1, <4>2, <4>3, <2>4, <1>0
      <4> QED
        BY <4>1, <4>3, <4>4 DEF Edges
    <3> QED
      BY <3>1, <3>2
  <2>6. ASSUME NEW e \in Edges PROVE To(e)' = To(e) /\ e[1] # k
    <3>1. e[1] \in 1..row
      BY EdgeFacts, <1>0
    <3> QED
      BY <3>1, <2>3 DEF To
  <2> QED
    BY <2>5, <2>6
<1>10. \A e \in Edges : /\ e[1] \in Rows /\ e[1] \in Nat /\ e[1] < k /\ To(e) \in Rows /\ To(e) \in Nat
                        /\ e[1] < To(e) /\ e[2] \in Nat
                        /\ VerticalLane(e) \in Nat /\ Labelled(To(e)) /\ Busy(VerticalLane(e)) >= To(e)
  BY <1>0, EdgeFacts, EdgeLane DEF Rows
<1>11. \A e \in Edges : VerticalLane(e)' = IF e[2] > 1 /\ To(e) = k THEN lane ELSE VerticalLane(e)
  <2> SUFFICES ASSUME NEW e \in Edges
               PROVE  VerticalLane(e)' = IF e[2] > 1 /\ To(e) = k THEN lane ELSE VerticalLane(e)
    OBVIOUS
  <2>1. VerticalLane(e)' = shaToLane'[IF e[2] > 1 THEN To(e) ELSE e[1]]
    BY <1>9 DEF VerticalLane
  <2> QED
    BY <2>1, <1>5, <1>9, <1>10 DEF VerticalLane
\* A column that is busy below the commit is not the one it is placed in, unless it was pencilled
\* in there.
<1>12. ASSUME NEW l \in Nat, Busy(l) > k
       PROVE  l # lane \/ (Labelled(k) /\ lane = shaToLane[k])
  BY <1>2, <1>4, <1>12, <1>0
<1>13. LanesInv'
  <2>1. \A q \in Rows : q <= row' => Labelled(q)'
    BY <1>0, <1>6 DEF LanesInv, Rows
  <2>2. ASSUME NEW q \in Rows, Labelled(q)' PROVE Busy(shaToLane[q])' >= q
    <3>1. CASE q = k
      <4>1. shaToLane'[q] = lane
        BY <3>1, <1>5
      <4>2. \A l \in Nat : l = shaToLane'[q] => Busy(l)' >= k
        BY <4>1, <1>4
      <4> QED
        BY <4>1, <4>2, <3>1, <1>3, <1>2, <1>4 DEF Busy
    <3>2. CASE q # k
      <4>1. shaToLane'[q] = shaToLane[q] /\ Labelled(q) /\ shaToLane[q] \in Nat
        BY <3>2, <1>5, <1>6, <2>2, <1>0, OwnLane
      <4>2. Busy(shaToLane[q]) >= q
        BY <4>1, <1>0 DEF LanesInv
      <4>3. Busy(shaToLane[q])' = (IF shaToLane[q] \in DOMAIN busyUntil' THEN busyUntil'[shaToLane[q]] ELSE 0)
        BY <4>1 DEF Busy, Columns
      <4>4. PICK l \in Nat : l = shaToLane[q]
        BY <4>1
      <4>5. Busy(l)' >= Busy(l) /\ Busy(l) >= q /\ Busy(l) \in Nat /\ Busy(l)' \in Nat
        BY <4>2, <4>4, <1>4
      <4>6. Busy(l)' = IF l \in DOMAIN busyUntil' THEN busyUntil'[l] ELSE 0
        BY DEF Busy, Columns
      <4>7. q \in Nat
        BY <1>0 DEF Rows
      <4> QED
        BY <4>3, <4>4, <4>5, <4>6, <4>7
    <3> QED
      BY <3>1, <3>2
  <2>3. \A p, q \in Rows : (p > row' /\ q > row' /\ p # q /\ Labelled(p)' /\ Labelled(q)')
                              => shaToLane'[p] # shaToLane'[q]
    BY <1>0, <1>5, <1>6 DEF LanesInv, Rows
  <2>4. ASSUME NEW l \in Nat, l > maxLaneSeen' PROVE Busy(l)' = 0
    <3>1. l > maxLaneSeen /\ l # lane
      BY <2>4, <1>0, <1>1, <1>2 DEF AtLeast, TypeInv, NoLane
    <3> QED
      BY <3>1, <1>0, <1>4 DEF LanesInv
  <2> QED
    BY <2>1, <2>2, <2>3, <2>4 DEF LanesInv
\* The same columns, by what they are called now.
<1>14. \A e \in Edges : Busy(VerticalLane(e))' >= To(e)
  <2> SUFFICES ASSUME NEW e \in Edges PROVE Busy(VerticalLane(e))' >= To(e)
    OBVIOUS
  <2>1. PICK l \in Nat : l = IF e[2] > 1 /\ To(e) = k THEN lane ELSE VerticalLane(e)
    BY <1>2, <1>10
  <2>2. Busy(VerticalLane(e))' = IF l \in DOMAIN busyUntil' THEN busyUntil'[l] ELSE 0
    BY <2>1, <1>11 DEF Busy, Columns
  <2>3. Busy(l)' = IF l \in DOMAIN busyUntil' THEN busyUntil'[l] ELSE 0
    BY DEF Busy, Columns
  <2>4. Busy(l)' >= To(e)
    <3>1. CASE e[2] > 1 /\ To(e) = k
      BY <3>1, <2>1, <1>4
    <3>2. CASE ~(e[2] > 1 /\ To(e) = k)
      <4>1. l = VerticalLane(e) /\ Busy(VerticalLane(e)) >= To(e) /\ To(e) \in Nat
        BY <3>2, <2>1, <1>10
      <4>2. Busy(l) >= To(e)
        BY <4>1
      <4> QED
        BY <4>1, <4>2, <1>4
    <3> QED
      BY <3>1, <3>2
  <2> QED
    BY <2>2, <2>3, <2>4
\* A column that is busy beyond the new commit is not its own, unless it was.
<1>15. ASSUME NEW e \in Edges, To(e) > k, lane = VerticalLane(e)
       PROVE  Labelled(k) /\ lane = shaToLane[k]
  <2>1. Busy(lane) >= To(e)
    BY <1>15, <1>10
  <2> QED
    BY <2>1, <1>2, <1>4, <1>10, <1>15, <1>0
\* A merge from above to the commit: when it moved, its new column was idle since then.
<1>16. ASSUME NEW e \in Edges, e[2] > 1, To(e) = k, lane # shaToLane[k]
       PROVE  Busy(lane) < e[1]
  <2>1. mergeSpanFrom[k] \in 1..e[1]
    BY <1>16, <1>0 DEF EdgesInv
  <2>2. Labelled(k)
    BY <1>16, <1>10
  <2>3. Busy(lane) \in Nat /\ e[1] \in Nat
    BY <1>2, <1>4, <1>10
  <2>4. Busy(lane) < mergeSpanFrom[k]
    BY <2>1, <2>2, <1>16, <1>2
  <2> QED
    BY <2>1, <2>3, <2>4
<1>17. EdgesInv'
  <2>1. \A e \in Edges' : Labelled(To(e))' /\ Busy(VerticalLane(e))' >= To(e)'
    <3> SUFFICES ASSUME NEW e \in Edges PROVE Labelled(To(e))' /\ Busy(VerticalLane(e))' >= To(e)'
      BY <1>9
    <3>1. Labelled(To(e))' <=> shaToLane'[To(e)] # NoLane
      BY <1>9 DEF Labelled
    <3>2. shaToLane'[To(e)] # NoLane
      BY <1>10, <1>5, <1>6 DEF Labelled
    <3> QED
      BY <3>1, <3>2, <1>9, <1>14
  <2>2. \A e \in Edges', q \in Rows :
          (e[1] < q /\ q < To(e)' /\ Labelled(q)') => shaToLane'[q] # VerticalLane(e)'
    <3> SUFFICES ASSUME NEW e \in Edges, NEW q \in Rows, e[1] < q, q < To(e), Labelled(q)'
                 PROVE  shaToLane'[q] # VerticalLane(e)'
      BY <1>9
    <3>0. q \in Nat
      BY <1>0 DEF Rows
    <3>1. CASE q = k
      <4>1. shaToLane'[q] = lane /\ VerticalLane(e)' = VerticalLane(e) /\ To(e) > k
        BY <3>1, <1>5, <1>11, <1>10, <1>0
      <4>2. ASSUME lane = VerticalLane(e) PROVE FALSE
        <5>1. Labelled(k) /\ lane = shaToLane[k]
          BY <4>1, <4>2, <1>15
        <5> QED
          BY <5>1, <4>2, <3>1, <1>0 DEF EdgesInv
      <4> QED
        BY <4>1, <4>2
    <3>2. CASE q # k /\ ~(e[2] > 1 /\ To(e) = k)
      <4>1. shaToLane'[q] = shaToLane[q] /\ Labelled(q) /\ VerticalLane(e)' = VerticalLane(e)
        BY <3>2, <1>5, <1>6, <1>11
      <4> QED
        BY <4>1, <1>0 DEF EdgesInv
    <3>3. CASE q # k /\ e[2] > 1 /\ To(e) = k
      <4>1. shaToLane'[q] = shaToLane[q] /\ Labelled(q) /\ VerticalLane(e)' = lane
        BY <3>3, <1>5, <1>6, <1>11
      <4>2. CASE lane = shaToLane[k]
        <5>1. VerticalLane(e) = lane
          BY <4>2, <3>3 DEF VerticalLane
        <5> QED
          BY <5>1, <4>1, <1>0 DEF EdgesInv
      <4>3. CASE lane # shaToLane[k]
        <5>1. Busy(lane) < e[1]
          BY <4>3, <3>3, <1>16
        <5>2. Busy(shaToLane[q]) >= q
          BY <4>1, <1>0 DEF LanesInv
        <5>3. Busy(lane) \in Nat /\ e[1] \in Nat /\ e[1] < q
          BY <1>2, <1>4, <1>10
        <5>4. ASSUME shaToLane[q] = lane PROVE FALSE
          BY <5>1, <5>2, <5>3, <5>4, <3>0
        <5> QED
          BY <5>4, <4>1
      <4> QED
        BY <4>2, <4>3
    <3> QED
      BY <3>1, <3>2, <3>3
  <2>3. \A e \in Edges', q \in Rows :
          (To(e)' > row' /\ q > row' /\ q # To(e)' /\ Labelled(q)') => shaToLane'[q] # VerticalLane(e)'
    <3> SUFFICES ASSUME NEW e \in Edges, NEW q \in Rows, To(e) > k, q > k, q # To(e), Labelled(q)'
                 PROVE  shaToLane'[q] # VerticalLane(e)'
      BY <1>9, <1>0
    <3>1. shaToLane'[q] = shaToLane[q] /\ Labelled(q) /\ VerticalLane(e)' = VerticalLane(e)
      BY <1>5, <1>6, <1>11, <1>10, <1>0
    <3>2. q > row /\ To(e) > row
      BY <1>0, <1>10 DEF Rows
    <3> QED
      BY <3>1, <3>2, <1>0 DEF EdgesInv
  <2>4. \A e \in Edges' : (e[2] > 1 /\ To(e)' > row') => mergeSpanFrom'[To(e)'] \in 1..e[1]
    <3> SUFFICES ASSUME NEW e \in Edges, e[2] > 1, To(e) > k
                 PROVE  mergeSpanFrom[To(e)] \in 1..e[1]
      BY <1>9, <1>7, <1>0
    <3>1. To(e) > row
      BY <1>10, <1>0
    <3> QED
      BY <3>1, <1>0 DEF EdgesInv
  <2> QED
    BY <2>1, <2>2, <2>3, <2>4 DEF EdgesInv
<1>18. OwnInv'
  <2>1. shaToLane'[row'] = lane
    BY <1>0, <1>5
  <2>2. ASSUME NEW q \in Rows, q > k, Labelled(q)' PROVE shaToLane'[q] # lane
    <3>1. shaToLane'[q] = shaToLane[q] /\ Labelled(q) /\ q \in Nat /\ shaToLane[q] \in Nat
      BY <2>2, <1>5, <1>6, <1>0, OwnLane DEF Rows
    <3>2. Busy(shaToLane[q]) >= q
      BY <3>1, <1>0 DEF LanesInv
    <3>3. ASSUME shaToLane[q] = lane PROVE FALSE
      <4>1. Labelled(k) /\ lane = shaToLane[k]
        BY <3>1, <3>2, <3>3, <2>2, <1>2, <1>4, <1>0
      <4> QED
        BY <4>1, <3>1, <3>3, <2>2, <1>0 DEF LanesInv
    <3> QED
      BY <3>1, <3>3
  <2>3. ASSUME NEW e \in Edges, To(e) > k PROVE VerticalLane(e)' # lane
    <3>1. VerticalLane(e)' = VerticalLane(e)
      BY <2>3, <1>11, <1>10, <1>0
    <3>2. ASSUME lane = VerticalLane(e) PROVE FALSE
      <4>1. Labelled(k) /\ lane = shaToLane[k]
        BY <2>3, <3>2, <1>15
      <4> QED
        BY <4>1, <3>2, <2>3, <1>0, <1>10 DEF EdgesInv
    <3> QED
      BY <3>1, <3>2
  <2> QED
    BY <2>1, <2>2, <2>3, <1>0, <1>9 DEF OwnInv
<1>19. LinesAreTold'
  <2> SUFFICES ASSUME NEW e \in Edges, NEW e2 \in Edges, VerticalLane(e)' = VerticalLane(e2)',
                      e[1] < To(e2), e2[1] < To(e), e[1] # e2[1], To(e) # To(e2)
               PROVE  FALSE
    BY <1>9 DEF LinesAreTold
  <2> DEFINE Moves(e3) == e3[2] > 1 /\ To(e3) = k /\ lane # shaToLane[k]
  <2>1. \A e3 \in Edges : ~Moves(e3) => VerticalLane(e3)' = VerticalLane(e3)
    BY <1>11 DEF VerticalLane
  <2>2. \A e3 \in Edges : Moves(e3) => VerticalLane(e3)' = lane
    BY <1>11
  \* An edge in the column the commit moves to, against one that moves with it.
  <2>3. ASSUME NEW e3 \in Edges, NEW h \in Edges, Moves(e3), To(h) # k, VerticalLane(h) = lane,
               e3[1] < To(h)
        PROVE  FALSE
    <3>1. Busy(lane) < e3[1] /\ Busy(lane) >= To(h)
      BY <2>3, <1>16, <1>10
    <3>2. Busy(lane) \in Nat /\ e3[1] \in Nat /\ To(h) \in Nat /\ e3[1] < To(h)
      BY <2>3, <1>2, <1>4, <1>10
    <3> QED
      BY <3>1, <3>2
  <2>4. CASE ~Moves(e) /\ ~Moves(e2)
    <3>1. VerticalLane(e) = VerticalLane(e2)
      BY <2>4, <2>1
    <3> QED
      BY <3>1, <1>0 DEF LinesAreTold
  <2>5. CASE Moves(e) /\ ~Moves(e2)
    <3>1. VerticalLane(e2) = lane /\ To(e2) # k
      BY <2>5, <2>1, <2>2
    <3> QED
      BY <3>1, <2>5, <2>3
  <2>6. CASE ~Moves(e) /\ Moves(e2)
    <3>1. VerticalLane(e) = lane /\ To(e) # k
      BY <2>6, <2>1, <2>2
    <3> QED
      BY <3>1, <2>6, <2>3
  <2>7. CASE Moves(e) /\ Moves(e2)
    BY <2>7
  <2> QED
    BY <2>4, <2>5, <2>6, <2>7
<1> QED
  BY <1>8, <1>13, <1>17, <1>18, <1>19 DEF IInv

-----------------------------------------------------------------------------
(* Claiming a parent                                                        *)

\* The parent the sweep is at lies below the commit.
LEMMA NextParent ==
  ASSUME TypeInv, ~RowDone, parents[row][pi] # Outside
  PROVE  /\ row \in Rows /\ row \in Nat /\ pi \in Nat /\ pi \in DOMAIN parents[row]
         /\ parents[row][pi] \in Rows /\ parents[row][pi] > row
<1>1. row > 0 /\ ~(pi > Len(parents[row]))
  BY DEF RowDone
<1>2. row \in Rows /\ row \in Nat /\ pi \in Nat \ {0} /\ N \in Nat
  BY <1>1, SizeAssumption DEF TypeInv, Rows
<1>3. parents[row] \in Seq(0..N)
  BY <1>2 DEF TypeInv
<1>4. pi \in DOMAIN parents[row]
  BY <1>1, <1>2, <1>3
<1>5. parents[row][pi] \in 0..N
  BY <1>3, <1>4, Element
<1>6. row < parents[row][pi]
  BY <1>2, <1>4 DEF TypeInv
<1> QED
  BY <1>2, <1>4, <1>5, <1>6 DEF Rows

\* The edges after a parent was dealt with: one more, if it is loaded.
LEMMA EdgesGrow ==
  ASSUME TypeInv, row \in Rows, pi \in Nat, row' = row, pi' = pi + 1, parents' = parents,
         NEW e \in Edges'
  PROVE  e \in Edges \/ (e = <<row, pi>> /\ parents[row][pi] # Outside)
<1>1. /\ e \in (1..row) \X (1..MaxParents) /\ e[2] \in DOMAIN parents[e[1]]
      /\ parents[e[1]][e[2]] # Outside /\ (e[1] < row \/ e[2] < pi + 1)
  BY DEF Edges
<1>2. CASE e[1] < row \/ e[2] < pi
  BY <1>1, <1>2 DEF Edges
<1>3. CASE ~(e[1] < row \/ e[2] < pi)
  <2>1. e[1] \in 1..row /\ e[2] \in 1..MaxParents /\ e = <<e[1], e[2]>>
    BY <1>1
  <2>2. e[1] = row /\ e[2] = pi
    BY <1>1, <1>3, <2>1, SizeAssumption DEF Rows
  <2> QED
    BY <1>1, <2>1, <2>2
<1> QED
  BY <1>2, <1>3

\* The column a parent gets: the one it has, or one in which nothing is drawn or pencilled in below
\* the commit.
LEMMA ClaimedLane ==
  ASSUME IInv, ~RowDone, NEW p \in Rows, p > row, row \in Rows, NEW lane \in ParentLane(p)
  PROVE  /\ lane \in Nat
         /\ Labelled(p) => lane = shaToLane[p]
         /\ ~Labelled(p) /\ pi = 1 => lane = shaToLane[row]
         /\ ~Labelled(p) =>
              /\ \A q \in Rows : (q > row /\ Labelled(q)) => shaToLane[q] # lane
              /\ \A e \in Edges : To(e) > row => VerticalLane(e) # lane
<1>0. TypeInv /\ LanesInv /\ EdgesInv /\ OwnInv /\ row \in Nat /\ row > 0
  BY SizeAssumption DEF IInv, Rows
<1>1. CASE Labelled(p)
  <2>1. lane = shaToLane[p]
    BY <1>1 DEF ParentLane, Labelled
  <2> QED
    BY <1>0, <1>1, <2>1, OwnLane
<1>2. CASE ~Labelled(p) /\ pi = 1
  <2>1. lane = shaToLane[row]
    BY <1>2 DEF ParentLane, Labelled
  <2>2. Labelled(row)
    BY <1>0 DEF LanesInv
  <2>3. shaToLane[row] \in Nat
    BY <1>0, <2>2, OwnLane
  <2> QED
    BY <1>0, <1>2, <2>1, <2>3 DEF OwnInv
<1>3. CASE ~Labelled(p) /\ pi # 1
  <2>1. lane \in findFreeLane(row, usedLanes)
    BY <1>3 DEF ParentLane, Labelled
  <2>2. lane \in {0} \cup Columns \cup {c + 1 : c \in Columns} /\ Busy(lane) < row
    BY <2>1 DEF findFreeLane, isFree
  <2>3. \A c \in Columns : c \in Nat /\ c + 1 \in Nat
    BY <1>0 DEF TypeInv
  <2>4. lane \in Nat
    BY <2>2, <2>3
  <2>5. Busy(lane) \in Nat
    BY <1>0, <2>4, BusyType
  <2>6. ASSUME NEW q \in Rows, q > row, Labelled(q) PROVE shaToLane[q] # lane
    <3>1. Busy(shaToLane[q]) >= q /\ q \in Nat
      BY <2>6, <1>0, SizeAssumption DEF LanesInv, Rows
    <3> QED
      BY <3>1, <2>2, <2>5, <2>6, <1>0
  <2>7. ASSUME NEW e \in Edges, To(e) > row PROVE VerticalLane(e) # lane
    <3>1. Busy(VerticalLane(e)) >= To(e) /\ To(e) \in Nat
      BY <1>0, EdgeFacts, EdgeLane, SizeAssumption DEF Rows
    <3> QED
      BY <3>1, <2>2, <2>5, <2>7, <1>0
  <2> QED
    BY <1>3, <2>4, <2>6, <2>7
<1> QED
  BY <1>1, <1>2, <1>3

\* A parent is claimed: the edge to it is new, and its column was empty below the commit or is the
\* parent's already.
LEMMA ClaimKeeps ==
  ASSUME IInv, ClaimParent
  PROVE  IInv'
<1> DEFINE p == parents[row][pi]
<1>0. /\ TypeInv /\ LanesInv /\ EdgesInv /\ OwnInv /\ LinesAreTold /\ N \in Nat
      /\ row \in Rows /\ row \in Nat /\ row > 0 /\ pi \in Nat /\ pi > 0 /\ p \in Rows /\ p \in Nat /\ p > row
      /\ row' = row /\ pi' = pi + 1 /\ parents' = parents /\ pi \in DOMAIN parents[row] /\ p # Outside
      /\ ~RowDone
  <2>1. TypeInv /\ LanesInv /\ EdgesInv /\ OwnInv /\ LinesAreTold /\ N \in Nat
    BY SizeAssumption DEF IInv
  <2>2. ~RowDone /\ p # Outside /\ row' = row /\ pi' = pi + 1 /\ parents' = parents
    BY DEF ClaimParent
  <2>3. row \in Rows /\ row \in Nat /\ pi \in Nat /\ pi \in DOMAIN parents[row] /\ p \in Rows /\ p > row
    BY <2>1, <2>2, NextParent
  <2>4. row > 0 /\ p \in Nat /\ pi > 0
    BY <2>1, <2>3 DEF Rows, TypeInv
  <2> QED
    BY <2>1, <2>2, <2>3, <2>4
<1>1. PICK lane \in ParentLane(p) :
        /\ shaToLane' = [shaToLane EXCEPT ![p] = lane]
        /\ usedLanes' = usedLanes \cup {lane}
        /\ maxLaneSeen' = AtLeast(maxLaneSeen, lane)
        /\ busyUntil' = reserve(DrawnThrough(lane), p)
  BY DEF ClaimParent
<1> DEFINE own == shaToLane[row]
<1>2. Labelled(row) /\ own \in Nat
  <2>1. Labelled(row)
    BY <1>0 DEF LanesInv
  <2> QED
    BY <2>1, <1>0, OwnLane
<1>3. /\ lane \in Nat
      /\ Labelled(p) => lane = shaToLane[p]
      /\ ~Labelled(p) /\ pi = 1 => lane = own
      /\ ~Labelled(p) =>
           /\ \A q \in Rows : (q > row /\ Labelled(q)) => shaToLane[q] # lane
           /\ \A e \in Edges : To(e) > row => VerticalLane(e) # lane
  BY <1>0, <1>1, ClaimedLane
<1>4. DrawnThrough(lane) \in SUBSET Nat /\ lane \in DrawnThrough(lane)
      /\ (pi = 1 => own \in DrawnThrough(lane)) /\ DrawnThrough(lane) \subseteq {own, lane}
  BY <1>2, <1>3 DEF DrawnThrough
<1> HIDE DEF own, p
<1>5. /\ Columns' \subseteq Nat /\ \A l \in Columns' : busyUntil'[l] \in Nat
      /\ \A l \in Nat : Busy(l)' = IF l \in DrawnThrough(lane) /\ Busy(l) < p THEN p ELSE Busy(l)
  <2> DEFINE held == DrawnThrough(lane)
  <2>1. held \in SUBSET Nat /\ busyUntil' = reserve(held, p)
    BY <1>1, <1>4
  <2> HIDE DEF held
  <2>2. /\ Columns' \subseteq Nat /\ \A l \in Columns' : busyUntil'[l] \in Nat
        /\ \A l \in Nat : Busy(l)' = IF l \in held /\ Busy(l) < p THEN p ELSE Busy(l)
    BY <2>1, <1>0, ReserveBusy
  <2> QED
    BY <2>2 DEF held
<1>6. \A l \in Nat : /\ Busy(l) \in Nat /\ Busy(l)' \in Nat /\ Busy(l)' >= Busy(l)
                     /\ l = lane => Busy(l)' >= p
                     /\ pi = 1 /\ l = own => Busy(l)' >= p
                     /\ l # lane /\ l # own => Busy(l)' = Busy(l)
  <2> SUFFICES ASSUME NEW l \in Nat
               PROVE  /\ Busy(l) \in Nat /\ Busy(l)' \in Nat /\ Busy(l)' >= Busy(l)
                      /\ l = lane => Busy(l)' >= p
                      /\ pi = 1 /\ l = own => Busy(l)' >= p
                      /\ l # lane /\ l # own => Busy(l)' = Busy(l)
    OBVIOUS
  <2>1. Busy(l) \in Nat
    BY <1>0, BusyType
  <2>2. Busy(l)' = IF l \in DrawnThrough(lane) /\ Busy(l) < p THEN p ELSE Busy(l)
    BY <1>5
  <2> QED
    BY <2>1, <2>2, <1>0, <1>4
<1>7. /\ shaToLane \in [Rows -> Nat \cup {NoLane}]
      /\ \A q \in Rows : shaToLane'[q] = IF q = p THEN lane ELSE shaToLane[q]
      /\ \A q \in Rows : Labelled(q) => shaToLane'[q] = shaToLane[q]
      /\ \A q \in Rows : Labelled(q)' <=> (q = p \/ Labelled(q))
  <2>1. shaToLane \in [Rows -> Nat \cup {NoLane}]
    BY <1>0 DEF TypeInv
  <2>2. \A q \in Rows : shaToLane'[q] = IF q = p THEN lane ELSE shaToLane[q]
    BY <2>1, <1>1
  <2> QED
    BY <2>1, <2>2, <1>3 DEF Labelled, NoLane
<1>8. /\ mergeSpanFrom' = IF pi > 1 /\ mergeSpanFrom[p] = 0 THEN [mergeSpanFrom EXCEPT ![p] = row]
                          ELSE mergeSpanFrom
      /\ mergeSpanFrom \in [Rows -> 0..row] /\ stashes' = stashes
  BY <1>0 DEF ClaimParent, TypeInv, p
<1>9. TypeInv'
  <2>1. shaToLane' \in [Rows -> Nat \cup {NoLane}]
    BY <1>1, <1>3, <1>7, <1>0
  <2>2. mergeSpanFrom' \in [Rows -> 0..row']
    BY <1>0, <1>8
  <2>3. maxLaneSeen' \in Nat \cup {NoLane} /\ usedLanes' \subseteq Nat
    BY <1>0, <1>1, <1>3 DEF AtLeast, TypeInv
  <2>4. row' \in 0..N /\ pi' \in Nat \ {0}
    BY <1>0 DEF TypeInv
  <2> QED
    BY <2>1, <2>2, <2>3, <2>4, <1>0, <1>5 DEF TypeInv
\* A column by the name it has now.
<1>10. ASSUME NEW l \in Nat, NEW v, v = l PROVE (IF v \in DOMAIN busyUntil' THEN busyUntil'[v] ELSE 0) = Busy(l)'
  BY <1>10 DEF Busy, Columns
<1>11. LanesInv'
  <2>1. \A q \in Rows : q <= row' => Labelled(q)'
    BY <1>0, <1>7 DEF LanesInv
  <2>2. ASSUME NEW q \in Rows, Labelled(q)' PROVE Busy(shaToLane[q])' >= q
    <3>0. q \in Nat
      BY <1>0 DEF Rows
    <3>1. PICK l \in Nat : l = shaToLane'[q] /\ Busy(l)' >= q
      <4>1. CASE q = p
        BY <4>1, <1>3, <1>6, <1>7
      <4>2. CASE q # p
        <5>1. shaToLane'[q] = shaToLane[q] /\ Labelled(q) /\ shaToLane[q] \in Nat
          BY <4>2, <1>7, <2>2, <1>0, OwnLane
        <5>2. Busy(shaToLane[q]) >= q
          BY <5>1, <1>0 DEF LanesInv
        <5> QED
          BY <5>1, <5>2, <3>0, <1>6
      <4> QED
        BY <4>1, <4>2
    <3>2. Busy(shaToLane[q])' = IF l \in DOMAIN busyUntil' THEN busyUntil'[l] ELSE 0
      BY <3>1 DEF Busy, Columns
    <3> QED
      BY <3>1, <3>2, <1>10
  <2>3. ASSUME NEW q \in Rows, NEW r \in Rows, q > row, r > row, q # r, Labelled(q)', Labelled(r)'
        PROVE  shaToLane'[q] # shaToLane'[r]
    <3>1. CASE Labelled(q) /\ Labelled(r)
      BY <3>1, <2>3, <1>7, <1>0 DEF LanesInv
    <3>2. CASE ~Labelled(q) /\ Labelled(r)
      BY <3>2, <2>3, <1>3, <1>7
    <3>3. CASE Labelled(q) /\ ~Labelled(r)
      BY <3>3, <2>3, <1>3, <1>7
    <3>4. CASE ~Labelled(q) /\ ~Labelled(r)
      BY <3>4, <2>3, <1>7
    <3> QED
      BY <3>1, <3>2, <3>3, <3>4
  <2>4. ASSUME NEW l \in Nat, l > maxLaneSeen' PROVE Busy(l)' = 0
    <3>1. l > maxLaneSeen /\ l # lane
      BY <2>4, <1>0, <1>1, <1>3 DEF AtLeast, TypeInv, NoLane
    <3>2. Busy(own) >= row
      BY <1>0, <1>2 DEF LanesInv, own
    <3>3. l # own
      BY <3>1, <3>2, <1>0, <1>2 DEF LanesInv
    <3> QED
      BY <3>1, <3>3, <1>0, <1>6 DEF LanesInv
  <2> QED
    BY <2>1, <2>2, <2>3, <2>4, <1>0 DEF LanesInv
<1> PICK new : new = <<row, pi>>
  OBVIOUS
<1>12. \A e \in Edges : /\ e[1] \in Rows /\ e[1] \in Nat /\ e[1] <= row /\ To(e) \in Rows /\ To(e) \in Nat
                        /\ e[1] < To(e) /\ Labelled(e[1]) /\ Labelled(To(e))
                        /\ VerticalLane(e) \in Nat /\ Busy(VerticalLane(e)) >= To(e)
  BY <1>0, EdgeFacts, EdgeLane DEF Rows, LanesInv
<1>13. \A e \in Edges' : e \in Edges \/ e = new
  BY <1>0, EdgesGrow
<1>14. \A e \in Edges : To(e)' = To(e) /\ VerticalLane(e)' = VerticalLane(e)
  <2> SUFFICES ASSUME NEW e \in Edges PROVE To(e)' = To(e) /\ VerticalLane(e)' = VerticalLane(e)
    OBVIOUS
  <2>1. To(e)' = To(e)
    BY <1>0 DEF To
  <2>2. VerticalLane(e)' = shaToLane'[IF e[2] > 1 THEN To(e) ELSE e[1]]
    BY <2>1 DEF VerticalLane
  <2> QED
    BY <2>1, <2>2, <1>7, <1>12 DEF VerticalLane
<1>15. To(new)' = p /\ VerticalLane(new)' = (IF pi > 1 THEN lane ELSE own) /\ new[1] = row /\ new[2] = pi
  <2>1. To(new)' = p
    BY <1>0 DEF To, p
  <2> QED
    BY <2>1, <1>0, <1>7 DEF VerticalLane, own
\* The new edge's column, below the commit: nothing else ends there or waits there.
<1>16. ASSUME NEW q \in Rows, q > row, q # p, Labelled(q)' PROVE shaToLane'[q] # VerticalLane(new)'
  <2>1. Labelled(q) /\ shaToLane'[q] = shaToLane[q]
    BY <1>16, <1>7
  <2>2. CASE pi = 1
    BY <2>1, <2>2, <1>0, <1>15, <1>16 DEF OwnInv, own
  <2>3. CASE pi > 1 /\ Labelled(p)
    BY <2>1, <2>3, <1>0, <1>3, <1>15, <1>16 DEF LanesInv
  <2>4. CASE pi > 1 /\ ~Labelled(p)
    BY <2>1, <2>4, <1>3, <1>15, <1>16
  <2> QED
    BY <2>2, <2>3, <2>4, <1>0
<1>17. ASSUME NEW e \in Edges, To(e) > row, ~Labelled(p) \/ To(e) # p
       PROVE  lane # VerticalLane(e)
  BY <1>0, <1>3, <1>17 DEF EdgesInv
<1>18. ASSUME NEW e \in Edges, To(e) > row, e[1] # row, To(e) # p
       PROVE  VerticalLane(new)' # VerticalLane(e)
  <2>1. CASE pi = 1
    BY <2>1, <1>0, <1>15, <1>18 DEF OwnInv, own
  <2>2. CASE pi > 1
    BY <2>2, <1>15, <1>17, <1>18
  <2> QED
    BY <2>1, <2>2, <1>0
<1>19. EdgesInv'
  <2>1. ASSUME NEW e \in Edges' PROVE Labelled(To(e))' /\ Busy(VerticalLane(e))' >= To(e)'
    <3>1. PICK l \in Nat : l = VerticalLane(e)' /\ Busy(l)' >= To(e)'
      <4>1. CASE e \in Edges
        <5>1. Busy(VerticalLane(e)) >= To(e) /\ VerticalLane(e) \in Nat /\ To(e) \in Nat
          BY <4>1, <1>12
        <5> QED
          BY <4>1, <5>1, <1>6, <1>14
      <4>2. CASE e = new
        BY <4>2, <1>0, <1>2, <1>3, <1>6, <1>15
      <4> QED
        BY <4>1, <4>2, <1>13
    <3>2. Busy(VerticalLane(e))' = IF l \in DOMAIN busyUntil' THEN busyUntil'[l] ELSE 0
      BY <3>1 DEF Busy, Columns
    <3>3. shaToLane'[To(e)'] # NoLane
      <4>1. CASE e \in Edges
        BY <4>1, <1>12, <1>14, <1>7 DEF Labelled
      <4>2. CASE e = new
        BY <4>2, <1>15, <1>7, <1>3, <1>0 DEF NoLane
      <4> QED
        BY <4>1, <4>2, <1>13
    <3> QED
      BY <3>1, <3>2, <3>3, <1>10 DEF Labelled
  <2>2. ASSUME NEW e \in Edges', NEW q \in Rows, e[1] < q, q < To(e)', Labelled(q)'
        PROVE  shaToLane'[q] # VerticalLane(e)'
    <3>1. CASE e \in Edges
      <4>1. q < To(e) /\ VerticalLane(e)' = VerticalLane(e)
        BY <3>1, <2>2, <1>14
      <4>2. CASE Labelled(q)
        BY <3>1, <4>1, <4>2, <2>2, <1>7, <1>0 DEF EdgesInv
      <4>3. CASE ~Labelled(q)
        <5>1. q = p /\ shaToLane'[q] = lane
          BY <4>3, <2>2, <1>7
        <5>2. To(e) > row
          BY <5>1, <4>1, <3>1, <1>0, <1>12
        <5> QED
          BY <5>1, <5>2, <4>1, <4>3, <3>1, <1>17
      <4> QED
        BY <4>2, <4>3
    <3>2. CASE e = new
      <4>1. q > row /\ q # p
        BY <3>2, <2>2, <1>15, <1>0 DEF Rows
      <4> QED
        BY <4>1, <3>2, <2>2, <1>16
    <3> QED
      BY <3>1, <3>2, <1>13
  <2>3. ASSUME NEW e \in Edges', NEW q \in Rows, To(e)' > row, q > row, q # To(e)', Labelled(q)'
        PROVE  shaToLane'[q] # VerticalLane(e)'
    <3>1. CASE e \in Edges
      <4>1. To(e) > row /\ q # To(e) /\ VerticalLane(e)' = VerticalLane(e)
        BY <3>1, <2>3, <1>14
      <4>2. CASE Labelled(q)
        BY <3>1, <4>1, <4>2, <2>3, <1>7, <1>0 DEF EdgesInv
      <4>3. CASE ~Labelled(q)
        <5>1. q = p /\ shaToLane'[q] = lane
          BY <4>3, <2>3, <1>7
        <5> QED
          BY <5>1, <4>1, <4>3, <3>1, <1>17
      <4> QED
        BY <4>2, <4>3
    <3>2. CASE e = new
      BY <3>2, <2>3, <1>15, <1>16
    <3> QED
      BY <3>1, <3>2, <1>13
  <2>4. ASSUME NEW e \in Edges', e[2] > 1, To(e)' > row PROVE mergeSpanFrom'[To(e)'] \in 1..e[1]
    <3>1. CASE e \in Edges
      <4>1. mergeSpanFrom[To(e)] \in 1..e[1] /\ To(e) \in Rows /\ To(e)' = To(e)
        BY <3>1, <2>4, <1>0, <1>12, <1>14 DEF EdgesInv
      <4>2. mergeSpanFrom'[To(e)] = mergeSpanFrom[To(e)]
        BY <4>1, <1>8
      <4> QED
        BY <4>1, <4>2
    <3>2. CASE e = new
      <4>1. mergeSpanFrom[p] \in 0..row
        BY <1>0, <1>8
      <4>2. mergeSpanFrom'[p] = IF mergeSpanFrom[p] = 0 THEN row ELSE mergeSpanFrom[p]
        BY <3>2, <2>4, <1>0, <1>8, <1>15
      <4> QED
        BY <3>2, <4>1, <4>2, <1>0, <1>15
    <3> QED
      BY <3>1, <3>2, <1>13
  <2> QED
    BY <2>1, <2>2, <2>3, <2>4, <1>0 DEF EdgesInv
<1>20. OwnInv'
  BY <1>0 DEF OwnInv
<1>21. LinesAreTold'
  <2> SUFFICES ASSUME NEW e \in Edges', NEW e2 \in Edges', VerticalLane(e)' = VerticalLane(e2)',
                      e[1] < To(e2)', e2[1] < To(e)', e[1] # e2[1], To(e)' # To(e2)'
               PROVE  FALSE
    BY DEF LinesAreTold
  <2>1. CASE e \in Edges /\ e2 \in Edges
    BY <2>1, <1>0, <1>14 DEF LinesAreTold
  <2>2. CASE e = new /\ e2 \in Edges
    BY <2>2, <1>14, <1>15, <1>18
  <2>3. CASE e \in Edges /\ e2 = new
    BY <2>3, <1>14, <1>15, <1>18
  <2>4. CASE e = new /\ e2 = new
    BY <2>4
  <2> QED
    BY <2>1, <2>2, <2>3, <2>4, <1>13
<1> QED
  BY <1>9, <1>11, <1>19, <1>20, <1>21 DEF IInv

-----------------------------------------------------------------------------
(* The other steps                                                          *)

\* A parent that is not loaded adds no edge.
LEMMA SkipKeeps ==
  ASSUME IInv, SkipParent
  PROVE  IInv'
<1>0. /\ TypeInv /\ ~RowDone /\ row' = row /\ pi' = pi + 1 /\ parents' = parents
      /\ parents[row][pi] = Outside
      /\ UNCHANGED <<shaToLane, busyUntil, mergeSpanFrom, maxLaneSeen, usedLanes>>
  BY DEF IInv, SkipParent
<1>1. pi \in Nat \ {0} /\ row \in 0..N
  BY <1>0 DEF TypeInv
<1>2. row \in Rows
  BY <1>0, <1>1, SizeAssumption DEF RowDone, Rows
<1>3. Edges' = Edges
  <2>1. ASSUME NEW e \in Edges' PROVE e \in Edges
    BY <1>0, <1>1, <1>2, EdgesGrow
  <2>2. ASSUME NEW e \in Edges PROVE e \in Edges'
    <3>1. e \in (1..row) \X (1..MaxParents) /\ (e[1] < row \/ e[2] < pi)
      BY DEF Edges
    <3>2. e[1] < row' \/ e[2] < pi'
      <4>1. e[2] \in 1..MaxParents
        BY <3>1
      <4> QED
        BY <3>1, <4>1, <1>0, <1>1, SizeAssumption
    <3> QED
      BY <3>1, <3>2, <1>0 DEF Edges
  <2> QED
    BY <2>1, <2>2
<1>4. \A e : To(e)' = To(e) /\ VerticalLane(e)' = VerticalLane(e)
  BY <1>0 DEF To, VerticalLane
<1>5. \A l : Busy(l)' = Busy(l)
  BY <1>0 DEF Busy, Columns
<1>6. \A q : Labelled(q)' <=> Labelled(q)
  BY <1>0 DEF Labelled
<1>7. TypeInv'
  BY <1>0, <1>1 DEF TypeInv, Columns
<1>8. LanesInv'
  <2>1. \A q : Busy(shaToLane[q])' = Busy(shaToLane[q])
    BY <1>0 DEF Busy, Columns
  <2> QED
    BY <1>0, <1>5, <1>6, <2>1 DEF LanesInv, IInv
<1>9. EdgesInv'
  <2>1. \A e : Busy(VerticalLane(e))' = Busy(VerticalLane(e)) /\ (Labelled(To(e))' <=> Labelled(To(e)))
    BY <1>0, <1>4 DEF Busy, Columns, Labelled
  <2> QED
    BY <1>0, <1>3, <1>4, <1>6, <2>1 DEF EdgesInv, IInv
<1>10. OwnInv'
  BY <1>0, <1>1 DEF OwnInv
<1>11. LinesAreTold'
  BY <1>3, <1>4 DEF LinesAreTold, IInv
<1> QED
  BY <1>7, <1>8, <1>9, <1>10, <1>11 DEF IInv

\* A list of parents is one the sweep can take.
LEMMA ListsOfParents ==
  ASSUME NEW r \in Nat, NEW list \in ParentLists(r)
  PROVE  list \in Seq(0..N) /\ \A i \in DOMAIN list : list[i] = Outside \/ r < list[i]
<1>1. PICK n \in 0..MaxParents : list \in [1..n -> {Outside} \cup (r + 1)..N]
  BY DEF ParentLists
<1>2. n \in Nat
  BY SizeAssumption
<1>3. list \in [1..n -> 0..N]
  BY <1>1, SizeAssumption DEF Outside
<1>4. list \in Seq(0..N)
  BY <1>2, <1>3, SeqDef, Zenon
<1>5. DOMAIN list = 1..n
  BY <1>1
<1>6. \A i \in 1..n : list[i] = Outside \/ list[i] \in (r + 1)..N
  BY <1>1
<1> QED
  BY <1>4, <1>5, <1>6, SizeAssumption

\* The invariant holds when nothing is placed.
LEMMA InitInv == Init => IInv
<1> SUFFICES ASSUME Init PROVE IInv
  OBVIOUS
<1>1. TypeInv
  BY SizeAssumption DEF Init, TypeInv, Rows, Columns, NoLane
<1>2. \A l : Busy(l) = 0
  BY DEF Init, Busy, Columns
<1>3. Edges = {}
  BY DEF Init, Edges
<1>4. \A q \in Rows : ~Labelled(q) /\ q > row
  BY SizeAssumption DEF Init, Labelled, Rows
<1>5. LanesInv
  BY <1>2, <1>4, SizeAssumption DEF LanesInv, Rows, Init
<1> QED
  BY <1>1, <1>3, <1>5 DEF IInv, EdgesInv, OwnInv, LinesAreTold, Init

\* And at every step of the sweep.
LEMMA NextInv == IInv /\ [Next]_vars => IInv'
<1> SUFFICES ASSUME IInv, [Next]_vars PROVE IInv'
  OBVIOUS
<1>0. row \in 0..N /\ N \in Nat
  BY SizeAssumption DEF IInv, TypeInv
<1>1. CASE Commit
  <2>1. PICK list \in ParentLists(row + 1) : Place(list, FALSE)
    BY <1>1 DEF Commit
  <2>2. row + 1 \in Nat
    BY <1>0
  <2>3. list \in Seq(0..N) /\ \A i \in DOMAIN list : list[i] = Outside \/ row + 1 < list[i]
    BY <2>2, ListsOfParents
  <2> QED
    BY <2>1, <2>3, PlaceKeeps
<1>2. CASE Stash
  <2>1. PICK base \in (row + 2)..N : Place(<<base, Outside>>, TRUE)
    BY <1>2 DEF Stash
  <2> DEFINE list == <<base, Outside>>
  <2>2. list \in Seq(0..N) /\ \A i \in DOMAIN list : list[i] = Outside \/ row + 1 < list[i]
    BY <1>0 DEF Outside
  <2> HIDE DEF list
  <2>3. Place(list, TRUE)
    BY <2>1 DEF list
  <2> QED
    BY <2>2, <2>3, PlaceKeeps
<1>3. CASE SkipParent
  BY <1>3, SkipKeeps
<1>4. CASE ClaimParent
  BY <1>4, ClaimKeeps
<1>5. CASE UNCHANGED vars
  <2>1. /\ Edges' = Edges /\ \A e : To(e)' = To(e) /\ VerticalLane(e)' = VerticalLane(e)
        /\ \A l : Busy(l)' = Busy(l) /\ \A q : Labelled(q)' <=> Labelled(q)
    BY <1>5 DEF vars, Edges, To, VerticalLane, Busy, Columns, Labelled
  <2>2. /\ \A q : Busy(shaToLane[q])' = Busy(shaToLane[q])
        /\ \A e : Busy(VerticalLane(e))' = Busy(VerticalLane(e)) /\ (Labelled(To(e))' <=> Labelled(To(e)))
    BY <1>5, <2>1 DEF vars, Busy, Columns, Labelled
  <2>3. TypeInv'
    BY <1>5 DEF vars, IInv, TypeInv, Columns
  <2>4. LanesInv'
    BY <1>5, <2>1, <2>2 DEF vars, IInv, LanesInv
  <2>5. EdgesInv'
    BY <1>5, <2>1, <2>2 DEF vars, IInv, EdgesInv
  <2>6. OwnInv' /\ LinesAreTold'
    BY <1>5, <2>1 DEF vars, IInv, OwnInv, LinesAreTold
  <2> QED
    BY <2>3, <2>4, <2>5, <2>6 DEF IInv
<1> QED
  BY <1>1, <1>2, <1>3, <1>4, <1>5 DEF Next

-----------------------------------------------------------------------------
(* Theorems                                                                 *)

\* The strengthened invariant holds throughout the sweep.
LEMMA Invariant == Spec => []IInv
BY InitInv, NextInv, PTL DEF Spec

\* No line of the graph passes through a commit that is neither of its ends (graphLayout.ts:44-61),
\* for every history.
THEOREM NoFalseEdgesHolds == Spec => []NoFalseEdges
<1>1. IInv => NoFalseEdges
  <2> SUFFICES ASSUME IInv, NEW e \in Edges, NEW k \in 1..row, e[1] < k, k < To(e)
               PROVE  shaToLane[k] # VerticalLane(e)
    BY DEF NoFalseEdges
  <2>1. k \in Rows /\ k <= row
    BY SizeAssumption DEF IInv, TypeInv, Rows
  <2> QED
    BY <2>1 DEF IInv, LanesInv, EdgesInv
<1> QED
  BY <1>1, Invariant, PTL

\* Lines that share a column share an end (pass 2 of buildGraphLayout, drawn by GraphView), for
\* every history.
THEOREM LinesAreToldHolds == Spec => []LinesAreTold
<1>1. IInv => LinesAreTold
  BY DEF IInv
<1> QED
  BY <1>1, Invariant, PTL
=============================================================================
