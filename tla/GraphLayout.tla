----------------------------- MODULE GraphLayout -----------------------------
(***************************************************************************)
(* The commit graph: buildGraphLayout (Graph/graphLayout.ts) gives each commit *)
(* a lane in one sweep from the newest to the oldest; GraphView then draws an   *)
(* edge to each parent as a vertical line with one elbow.                     *)
(*                                                                         *)
(* The history is made up as the sweep meets it. A row is a commit, its parents *)
(* lie below it (git log --date-order) or outside the loaded window. A stash is *)
(* nobody's parent, and its second parent, the index, is not shown. The first   *)
(* row may be the uncommitted changes, whose parent is HEAD's commit. Colours   *)
(* follow the lanes and are left out.                                         *)
(***************************************************************************)
EXTENDS Integers, Sequences

CONSTANTS N,           \* rows
          MaxParents   \* of one commit

ASSUME SizeAssumption == N \in Nat /\ MaxParents \in Nat

Rows == 1..N
Outside == 0           \* a parent that is not loaded
NoLane == -1

VARIABLES row,           \* the commit the sweep is at, placed
          pi,            \* the parent it is at
          parents,       \* commits[row].parents, rows
          stashes,
          shaToLane,     \* final for the rows placed, pencilled in for those below
          busyUntil,     \* per column, the last row a line is drawn through; 0 for none
          mergeSpanFrom, \* the topmost row that reaches a commit as a second parent; 0 for none
          maxLaneSeen,
          usedLanes      \* the commit's own lane and those of the parents before

vars == <<row, pi, parents, stashes, shaToLane, busyUntil, mergeSpanFrom, maxLaneSeen, usedLanes>>

-----------------------------------------------------------------------------
(* Columns                                                                  *)

Columns == DOMAIN busyUntil
\* Those past the end are free.
Busy(lane) == IF lane \in Columns THEN busyUntil[lane] ELSE 0
isFree(lane, r) == Busy(lane) < r
\* The lowest one: a set of one lane.
findFreeLane(r, taken) ==
  {l \in {0} \cup Columns \cup {c + 1 : c \in Columns} :
     /\ l \notin taken /\ isFree(l, r)
     /\ \A k \in 0..(l - 1) : k \in taken \/ ~isFree(k, r)}

\* Every given column is held down to a row; columns are added on the right.
reserve(lanes, until) ==
  [l \in Columns \cup UNION {0..k : k \in lanes} |->
     IF l \in lanes /\ Busy(l) < until THEN until ELSE Busy(l)]
AtLeast(max, lane) == IF lane > max THEN lane ELSE max

\* Mutant: the line that reaches the commit from a merge above is forgotten.
SlidesLeft(lane, r) ==
  {l \in 0..lane : (\A k \in l..(lane - 1) : isFree(k, r)) /\ (l = 0 \/ ~isFree(l - 1, r))}
\* Compaction: the run of idle columns on the left; for a commit that was reached as a merge
\* parent, idle since the row of that merge.
Compacted(lane, r) ==
  LET Since == IF mergeSpanFrom[r] = 0 THEN r ELSE mergeSpanFrom[r]
  IN {l \in 0..lane : (\A k \in l..(lane - 1) : isFree(k, Since)) /\ (l = 0 \/ ~isFree(l - 1, Since))}

\* The lane of the commit at r, pencilled in or not.
LaneOf(r, stash) ==
  IF shaToLane[r] # NoLane
  THEN IF stash THEN {shaToLane[r]} ELSE Compacted(shaToLane[r], r)
  ELSE IF stash THEN {maxLaneSeen + 1} ELSE findFreeLane(r, {})

-----------------------------------------------------------------------------
(* The sweep                                                                *)

Init ==
  /\ row = 0 /\ pi = 1 /\ parents = [r \in Rows |-> <<>>] /\ stashes = {}
  /\ shaToLane = [r \in Rows |-> NoLane] /\ busyUntil = [l \in {} |-> 0]
  /\ mergeSpanFrom = [r \in Rows |-> 0] /\ maxLaneSeen = NoLane /\ usedLanes = {}

RowDone == row > 0 => pi > Len(parents[row])

Place(list, stash) ==
  /\ row < N /\ RowDone
  /\ row' = row + 1 /\ pi' = 1 /\ parents' = [parents EXCEPT ![row + 1] = list]
  /\ stashes' = IF stash THEN stashes \cup {row + 1} ELSE stashes
  /\ \E lane \in LaneOf(row + 1, stash) :
       /\ shaToLane' = [shaToLane EXCEPT ![row + 1] = lane]
       /\ busyUntil' = reserve({lane}, row + 1)
       /\ maxLaneSeen' = AtLeast(maxLaneSeen, lane)
       /\ usedLanes' = {lane}
  /\ UNCHANGED mergeSpanFrom

\* Nothing is drawn to a parent outside the window.
SkipParent ==
  /\ ~RowDone /\ parents[row][pi] = Outside /\ pi' = pi + 1
  /\ UNCHANGED <<row, parents, stashes, shaToLane, busyUntil, mergeSpanFrom, maxLaneSeen, usedLanes>>

\* Mutant: a fork's own column is free again at once.
FreesTheColumn(parentLane) == {parentLane}
\* The columns the edge to the parent is drawn through: for the first one, the commit's own too.
DrawnThrough(parentLane) == IF pi = 1 THEN {shaToLane[row], parentLane} ELSE {parentLane}

\* A parent keeps the lane it has; else the first continues in the commit's own.
ParentLane(p) ==
  IF shaToLane[p] # NoLane THEN {shaToLane[p]}
  ELSE IF pi = 1 THEN {shaToLane[row]} ELSE findFreeLane(row, usedLanes)

ClaimParent ==
  /\ ~RowDone /\ parents[row][pi] # Outside
  /\ LET p == parents[row][pi]
     IN /\ \E lane \in ParentLane(p) :
             /\ shaToLane' = [shaToLane EXCEPT ![p] = lane]
             /\ usedLanes' = usedLanes \cup {lane}
             /\ maxLaneSeen' = AtLeast(maxLaneSeen, lane)
             /\ busyUntil' = reserve(DrawnThrough(lane), p)
        /\ mergeSpanFrom' = IF pi > 1 /\ mergeSpanFrom[p] = 0 THEN [mergeSpanFrom EXCEPT ![p] = row]
                            ELSE mergeSpanFrom
  /\ pi' = pi + 1
  /\ UNCHANGED <<row, parents, stashes>>

\* What a commit's parents may be: different ones below it, some outside.
ParentLists(r) ==
  {list \in UNION {[1..n -> {Outside} \cup (r + 1)..N] : n \in 0..MaxParents} :
     \A i, j \in DOMAIN list : list[i] = list[j] => i = j \/ list[i] = Outside}
IsParent(r) == \E k \in 1..row : \E i \in DOMAIN parents[k] : parents[k][i] = r

Commit == \E list \in ParentLists(row + 1) : Place(list, FALSE)
Stash == \E base \in (row + 2)..N : ~IsParent(row + 1) /\ Place(<<base, Outside>>, TRUE)

Next == Commit \/ Stash \/ SkipParent \/ ClaimParent

Spec == Init /\ [][Next]_vars

-----------------------------------------------------------------------------
(* What is drawn (GraphView)                                                *)

\* An edge is a commit and the place of a parent in its list.
Edges == {e \in (1..row) \X (1..MaxParents) :
            /\ e[2] \in DOMAIN parents[e[1]] /\ parents[e[1]][e[2]] # Outside
            /\ e[1] < row \/ e[2] < pi}
To(e) == parents[e[1]][e[2]]
\* A merge goes across first and down in the parent's lane, a fork down in its own.
VerticalLane(e) == shaToLane[IF e[2] > 1 THEN To(e) ELSE e[1]]

\* "A lane is reserved for every row an edge actually draws through" (graphLayout.ts:48): however
\* commits move to the left after their children were placed, no line passes through a commit
\* that is neither of its ends. Said of the edges so far, it holds at every step of the sweep.
NoFalseEdges ==
  \A e \in Edges : \A k \in 1..row :
    (e[1] < k /\ k < To(e)) => shaToLane[k] # VerticalLane(e)

\* Two lines that share a column over some rows have an end in common: lines that lie on each
\* other never run between four different commits.
LinesAreTold ==
  \A e, f \in Edges :
    (VerticalLane(e) = VerticalLane(f) /\ e[1] < To(f) /\ f[1] < To(e))
      => e[1] = f[1] \/ To(e) = To(f)
=============================================================================
