------------------------------ MODULE HostProofs ------------------------------
(***************************************************************************)
(* Proofs about what a desktop keeps for its peers and its repositories: the *)
(* safety properties that MCHost checks, for every value of its constants.   *)
(* A step of MCHost is a step of one component and leaves the others alone,   *)
(* so each section shows that the component's own steps keep its invariant   *)
(* and ends in a theorem of SideBySide; what is shown of WorkingCopy, whose    *)
(* variables MCHost extends, is shown of its own specification.               *)
(*                                                                         *)
(* WorkingCopy: no command loses a piece of work, and an operation of the     *)
(* service that nobody disturbed gives back the tree and the branch it found. *)
(* Inv of WorkingCopy is inductive, and is cut in two. CopyRepo is of the     *)
(* repository alone, and every command keeps it. The rest is of the run that  *)
(* acts, whose step is followed from CopyFrom to CopyTo, action by action; a  *)
(* run that does not act is either untouched or no longer alone.             *)
(***************************************************************************)
EXTENDS MCHost, TLAPS, FiniteSetTheorems

\* What is shown of WorkingCopy's specification holds where it is one component among others.
LEMMA CopyIsOne == SideBySide => Spec
<1>1. Start => Init
  BY DEF Start
<1>2. [Step]_<<focus, vars, repositoryVars, treesVars, desktopVars, peersVars, deviceVars, clockVars, storeVars>> => [Next]_vars
  BY DEF Step
<1> QED
  BY <1>1, <1>2, PTL DEF SideBySide, Spec

----------------------------------------------------------------------------
\* The repository: every command keeps what it holds.

\* The repository: what its parts are, nothing lost, and what lies together.
CopyTypes ==
  /\ others \in 0..MaxOthers /\ content \in [Branches -> SUBSET Files] /\ head \in Branches
  /\ tree \in SUBSET Work /\ stash \in Seq(Entry) /\ paused \in Ops \cup {None}
  /\ unmerged \in SUBSET Files /\ aside \in SUBSET Work /\ owed \in SUBSET Work
CopyApart(t, a, s, p) ==
  /\ a # {} => p = "rebase"
  /\ OneEach(t \cup a)
  /\ \A i \in 1..Len(s) : OneEach(s[i].items)
CopyRepo == CopyTypes /\ NothingLost /\ CopyApart(tree, aside, stash, paused)

\* Inv, cut in the repository and the runs.
LEMMA CopyInv ==
  Inv <=> /\ CopyRepo /\ run \in [Runs -> RunRec]
          /\ \A r \in Runs : OneEach(run[r].had) /\ Shaped(r) /\ Alone(r)
BY DEF Inv, TypeOK, CopyRepo, CopyTypes, CopyApart, Undivided

\* A piece in a stash is in one of its entries.
LEMMA CopyItems ==
  ASSUME NEW s, NEW w
  PROVE  w \in ItemsOf(s) <=> \E i \in 1..Len(s) : w \in s[i].items
BY DEF ItemsOf

\* Where a piece is that is neither committed nor thrown away.
LEMMA CopyHeld ==
  ASSUME NEW w
  PROVE  w \in Held <=> w \in tree \/ w \in aside \/ \E i \in 1..Len(stash) : w \in stash[i].items
BY CopyItems DEF Held

\* An entry goes on top of the others, and with nothing to save there is none.
LEMMA CopyEntries ==
  ASSUME NEW items \in SUBSET Work, NEW by \in Runs \cup {User}, CopyTypes
  PROVE  /\ Entries(items, by) \o stash \in Seq(Entry)
         /\ items = {} => Entries(items, by) \o stash = stash
         /\ items # {} =>
              /\ Len(Entries(items, by) \o stash) = Len(stash) + 1
              /\ (Entries(items, by) \o stash)[1].base = content[head] \cap Occupied(items)
              /\ (Entries(items, by) \o stash)[1].items = items
              /\ (Entries(items, by) \o stash)[1].by = by
              /\ \A i \in 1..Len(stash) : (Entries(items, by) \o stash)[i + 1] = stash[i]
<1> DEFINE e == [base |-> content[head] \cap Occupied(items), items |-> items, by |-> by]
<1>1. e \in Entry
  BY DEF CopyTypes, Entry
<1>2. stash \in Seq(Entry)
  BY DEF CopyTypes
<1> HIDE DEF e
<1>3. CASE items = {}
  BY <1>2, <1>3 DEF Entries
<1>4. CASE items # {}
  <2>1. Entries(items, by) = <<e>>
    BY <1>4 DEF Entries, e
  <2> QED
    BY <1>1, <1>2, <1>4, <2>1 DEF e
<1> QED
  BY <1>3, <1>4

\* The same of the step that pushes.
LEMMA CopyPushed ==
  ASSUME NEW items \in SUBSET Work, NEW by \in Runs \cup {User}, CopyTypes, stash' = Entries(items, by) \o stash
  PROVE  /\ stash' \in Seq(Entry)
         /\ items = {} => stash' = stash
         /\ items # {} => /\ Len(stash') = Len(stash) + 1
                          /\ stash'[1].base = content[head] \cap Occupied(items)
                          /\ stash'[1].items = items /\ stash'[1].by = by
                          /\ \A i \in 1..Len(stash) : stash'[i + 1] = stash[i]
<1> DEFINE s2 == Entries(items, by) \o stash
<1>1. /\ s2 \in Seq(Entry)
      /\ items = {} => s2 = stash
      /\ items # {} => /\ Len(s2) = Len(stash) + 1
                       /\ s2[1].base = content[head] \cap Occupied(items) /\ s2[1].items = items /\ s2[1].by = by
                       /\ \A i \in 1..Len(stash) : s2[i + 1] = stash[i]
  BY CopyEntries
<1> HIDE DEF s2
<1> QED
  BY <1>1 DEF s2

\* Below a new entry the others keep their order.
LEMMA CopyShifted ==
  ASSUME NEW items, CopyTypes, stash' \in Seq(Entry),
         items = {} => stash' = stash,
         items # {} => /\ Len(stash') = Len(stash) + 1 /\ stash'[1].items = items
                       /\ \A i \in 1..Len(stash) : stash'[i + 1] = stash[i]
  PROVE  /\ \A i \in 1..Len(stash) : \E j \in 1..Len(stash') : stash'[j] = stash[i]
         /\ \A j \in 1..Len(stash') : stash'[j].items = items \/ \E i \in 1..Len(stash) : stash'[j] = stash[i]
<1>1. CASE items = {}
  BY <1>1
<1>2. CASE items # {}
  <2>a. stash \in Seq(Entry) /\ Len(stash) \in Nat
    BY DEF CopyTypes
  <2>1. ASSUME NEW i \in 1..Len(stash) PROVE \E j \in 1..Len(stash') : stash'[j] = stash[i]
    <3>1. i + 1 \in 1..Len(stash') /\ stash'[i + 1] = stash[i]
      BY <2>a, <1>2
    <3> QED
      BY <3>1
  <2>2. ASSUME NEW j \in 1..Len(stash') PROVE stash'[j].items = items \/ \E i \in 1..Len(stash) : stash'[j] = stash[i]
    <3>1. CASE j # 1
      <4>1. j - 1 \in 1..Len(stash) /\ stash'[j] = stash[j - 1]
        BY <3>1, <2>a, <1>2
      <4> QED
        BY <4>1
    <3> QED
      BY <1>2, <3>1
  <2> QED
    BY <2>1, <2>2
<1> QED
  BY <1>1, <1>2

\* A list of entries without one of them.
LEMMA CopyWithout ==
  ASSUME NEW s \in Seq(Entry), NEW i \in 1..Len(s)
  PROVE  /\ Without(s, i) \in Seq(Entry) /\ Len(Without(s, i)) = Len(s) - 1
         /\ \A j \in 1..Len(s) - 1 : Without(s, i)[j] = IF j < i THEN s[j] ELSE s[j + 1]
<1>1. Len(s) - 1 \in Nat
  OBVIOUS
<1>2. \A j \in 1..Len(s) - 1 : (IF j < i THEN s[j] ELSE s[j + 1]) \in Entry
  OBVIOUS
<1> QED
  BY <1>1, <1>2 DEF Without

\* git stash push.
LEMMA CopyPush ==
  ASSUME CopyRepo, NEW items \in SUBSET tree, NEW by \in Runs \cup {User}, Push(items, by),
         UNCHANGED <<content, head, paused, unmerged, aside, owed>>, others' \in 0..MaxOthers
  PROVE  CopyRepo'
<1>1. /\ tree' = tree \ items /\ stash' = Entries(items, by) \o stash
      /\ items \in SUBSET Work
  BY DEF Push, CopyRepo, CopyTypes
<1>a. stash \in Seq(Entry) /\ Len(stash) \in Nat
  BY DEF CopyRepo, CopyTypes
<1>b. /\ stash' \in Seq(Entry)
      /\ items = {} => stash' = stash
      /\ items # {} => /\ Len(stash') = Len(stash) + 1 /\ stash'[1].items = items
                       /\ \A i \in 1..Len(stash) : stash'[i + 1] = stash[i]
  BY <1>1, CopyPushed DEF CopyRepo
<1>2. CopyTypes'
  BY <1>1, <1>b DEF CopyRepo, CopyTypes
<1>3. \A i \in 1..Len(stash) : \E j \in 1..Len(stash') : stash'[j] = stash[i]
  <2>1. CASE items = {}
    BY <1>b, <2>1
  <2>2. CASE items # {}
    <3> SUFFICES ASSUME NEW i \in 1..Len(stash) PROVE \E j \in 1..Len(stash') : stash'[j] = stash[i]
      OBVIOUS
    <3>1. i + 1 \in 1..Len(stash') /\ stash'[i + 1] = stash[i]
      BY <1>a, <1>b, <2>2
    <3> QED
      BY <3>1
  <2> QED
    BY <2>1, <2>2
<1>4. items # {} => \E j \in 1..Len(stash') : stash'[j].items = items
  BY <1>a, <1>b
<1>5. Held \subseteq Held'
  <2>1. \A w : w \in Held' <=> w \in tree' \/ w \in aside' \/ \E k \in 1..Len(stash') : w \in stash'[k].items
    BY DEF Held, ItemsOf
  <2>2. \A w \in tree : w \in tree' \/ w \in items
    BY <1>1
  <2> QED
    BY <2>1, <2>2, <1>3, <1>4, CopyHeld
<1>6. \A j \in 1..Len(stash') : OneEach(stash'[j].items)
  <2>0. OneEach(items)
    BY DEF CopyRepo, CopyApart, OneEach
  <2>1. CASE items = {}
    BY <1>b, <2>1 DEF CopyRepo, CopyApart
  <2>2. CASE items # {}
    <3>1. stash \in Seq(Entry)
      BY DEF CopyRepo, CopyTypes
    <3>2. /\ Len(stash') = Len(stash) + 1 /\ stash'[1].items = items
          /\ \A i \in 1..Len(stash) : stash'[i + 1] = stash[i]
      BY <1>b, <2>2
    <3>3. \A i \in 1..Len(stash) : OneEach(stash[i].items)
      BY DEF CopyRepo, CopyApart
    <3> QED
      <4> SUFFICES ASSUME NEW j \in 1..Len(stash') PROVE OneEach(stash'[j].items)
        OBVIOUS
      <4>1. CASE j = 1
        BY <4>1, <3>2, <2>0
      <4>2. CASE j # 1
        <5>1. j - 1 \in 1..Len(stash) /\ stash'[j] = stash[j - 1]
          BY <4>2, <3>1, <3>2
        <5> QED
          BY <5>1, <3>3
      <4> QED
        BY <4>1, <4>2
  <2> QED
    BY <2>1, <2>2
<1>7. OneEach(tree' \cup aside')
  BY <1>1 DEF CopyRepo, CopyApart, OneEach
<1> QED
  BY <1>2, <1>5, <1>6, <1>7 DEF CopyRepo, NothingLost, CopyApart

\* git stash pop and apply.
LEMMA CopyReapply ==
  ASSUME CopyRepo, NEW i \in Nat \ {0}, NEW drop, Reapply(i, drop),
         UNCHANGED <<content, head, aside, owed>>, others' \in 0..MaxOthers
  PROVE  CopyRepo'
<1> USE DEF CopyRepo
<1>1. CASE UNCHANGED <<tree, stash, paused, unmerged>>
  BY <1>1 DEF CopyTypes, NothingLost, Held, CopyApart
<1>2. CASE ~UNCHANGED <<tree, stash, paused, unmerged>>
  <2> DEFINE e == stash[i]
             clash == InWay(e.items, e.base, content[head])
             exist == {w \in e.items \cap New : w \in clash \/ FileOf[w] \in Occupied(tree)}
  <2>1. /\ paused = None /\ ~(i > Len(stash)) /\ Occupied(tree) \cap Occupied(e.items \ New) = {}
        /\ tree' = tree \cup (e.items \ exist)
        /\ \/ /\ stash' = IF drop /\ exist = {} THEN Without(stash, i) ELSE stash
              /\ UNCHANGED <<paused, unmerged>>
           \/ /\ paused' = "stash" /\ unmerged' = Occupied(clash \ New) /\ UNCHANGED stash
    BY <1>2 DEF Reapply
  <2>2. i \in 1..Len(stash) /\ stash \in Seq(Entry) /\ e \in Entry
    BY <2>1 DEF CopyTypes
  <2>3. e.items \in SUBSET Work /\ exist \subseteq e.items /\ clash \subseteq e.items
    BY <2>2 DEF Entry, InWay
  <2>4. aside = {}
    BY <2>1, WorkAssumption DEF CopyApart, Ops
  <2>5. OneEach(tree')
    <3> SUFFICES ASSUME NEW v \in tree', NEW w \in tree', FileOf[v] = FileOf[w] PROVE v = w
      BY DEF OneEach
    <3>1. OneEach(tree) /\ OneEach(e.items)
      BY <2>2 DEF CopyApart, OneEach
    <3>2. ASSUME NEW a \in tree, NEW b \in e.items \ exist, FileOf[a] = FileOf[b] PROVE FALSE
      <4>1. FileOf[a] \in Occupied(tree)
        BY DEF Occupied
      <4>2. b \in New
        BY <3>2, <4>1, <2>1 DEF Occupied
      <4> QED
        BY <3>2, <4>1, <4>2
    <3> QED
      BY <3>1, <3>2, <2>1 DEF OneEach
  <2> HIDE DEF exist, clash
  <2>6. CASE stash' = stash
    <3>1. paused' \in Ops \cup {None} /\ unmerged' \in SUBSET Files
      BY <2>1, <2>3, WorkAssumption DEF CopyTypes, Ops, Occupied
    <3>2. CopyTypes'
      BY <2>6, <2>1, <2>3, <3>1 DEF CopyTypes
    <3>3. Held \subseteq Held'
      BY <2>6, <2>1 DEF Held
    <3> QED
      BY <3>2, <3>3, <2>4, <2>5, <2>6 DEF NothingLost, CopyApart
  <2>7. CASE stash' # stash
    <3>1. stash' = Without(stash, i) /\ exist = {} /\ UNCHANGED <<paused, unmerged>>
      BY <2>1, <2>7
    <3>2. /\ stash' \in Seq(Entry) /\ Len(stash') = Len(stash) - 1
          /\ \A j \in 1..Len(stash) - 1 : stash'[j] = IF j < i THEN stash[j] ELSE stash[j + 1]
      BY <3>1, <2>2, CopyWithout
    <3>3. CopyTypes'
      BY <3>1, <3>2, <2>1, <2>3 DEF CopyTypes
    <3>4. \A j \in 1..Len(stash) : j # i => \E k \in 1..Len(stash') : stash'[k] = stash[j]
      <4> SUFFICES ASSUME NEW j \in 1..Len(stash), j # i PROVE \E k \in 1..Len(stash') : stash'[k] = stash[j]
        OBVIOUS
      <4>1. CASE j < i
        BY <4>1, <3>2, <2>2
      <4>2. CASE j > i
        <5>1. j - 1 \in 1..Len(stash') /\ stash'[j - 1] = stash[j]
          BY <4>2, <3>2, <2>2
        <5> QED
          BY <5>1
      <4> QED
        BY <4>1, <4>2
    <3>5. Held \subseteq Held'
      <4>1. \A w : w \in Held' <=> w \in tree' \/ w \in aside' \/ \E k \in 1..Len(stash') : w \in stash'[k].items
        BY DEF Held, ItemsOf
      <4> QED
        BY <4>1, <3>1, <3>4, <2>1, CopyHeld
    <3>6. \A j \in 1..Len(stash') : OneEach(stash'[j].items)
      BY <3>2, <2>2 DEF CopyApart
    <3> QED
      BY <3>1, <3>3, <3>5, <3>6, <2>4, <2>5 DEF NothingLost, CopyApart
  <2> QED
    BY <2>6, <2>7
<1> QED
  BY <1>1, <1>2

\* A step that moves no piece of work.
LEMMA CopyMoves ==
  ASSUME CopyRepo, UNCHANGED <<tree, stash, aside, owed>>, others' \in 0..MaxOthers,
         content' \in [Branches -> SUBSET Files], head' \in Branches, paused' \in Ops \cup {None},
         unmerged' \in SUBSET Files, aside # {} => paused' = "rebase"
  PROVE  CopyRepo'
BY DEF CopyRepo, CopyTypes, NothingLost, Held, CopyApart

\* The other commands, those that stash and re-apply apart.
LEMMA CopyCommands ==
  ASSUME CopyRepo, others' \in 0..MaxOthers,
         \/ \E w \in Work : Edit(w) \/ Discard(w)
         \/ Commit \/ ResetHard \/ OperationAbort
  PROVE  CopyRepo'
<1> USE DEF CopyRepo
<1>h. \A w : w \in Held' <=> w \in tree' \/ w \in aside' \/ \E k \in 1..Len(stash') : w \in stash'[k].items
  BY DEF Held, ItemsOf
<1>1. ASSUME NEW w \in Work, Edit(w) PROVE CopyRepo'
  <2>1. /\ tree' = tree \cup {w} /\ owed' = owed \cup {w} /\ FileOf[w] \notin Occupied(tree) /\ paused = None
        /\ UNCHANGED <<content, head, stash, paused, unmerged, aside>>
    BY <1>1 DEF Edit
  <2>2. aside = {}
    BY <2>1, WorkAssumption DEF CopyApart, Ops
  <2>3. OneEach(tree' \cup aside')
    BY <2>1, <2>2 DEF CopyApart, OneEach, Occupied
  <2>4. Held' = Held \cup {w}
    BY <2>1 DEF Held
  <2> QED
    BY <2>1, <2>3, <2>4 DEF CopyTypes, NothingLost, CopyApart
<1>2. ASSUME NEW w \in Work, Discard(w) PROVE CopyRepo'
  <2>1. /\ tree' = tree \ {w} /\ owed' = owed \ ({w} \ Held')
        /\ UNCHANGED <<content, head, stash, paused, unmerged, aside>>
    BY <1>2 DEF Discard, Throws
  <2>2. Held \ {w} \subseteq Held'
    BY <2>1 DEF Held
  <2> QED
    BY <2>1, <2>2 DEF CopyTypes, NothingLost, CopyApart, OneEach
<1>3. CASE Commit
  <2>1. PICK S \in SUBSET tree : /\ tree' = tree \ S /\ owed' = owed \ S
                                 /\ content' = [content EXCEPT ![head] = @ \cup Occupied(S)]
    BY <1>3 DEF Commit
  <2>2. UNCHANGED <<head, stash, paused, unmerged, aside>>
    BY <1>3 DEF Commit
  <2>3. Occupied(S) \in SUBSET Files
    BY WorkAssumption DEF Occupied, CopyTypes
  <2>4. Held \ S \subseteq Held'
    BY <2>1, <2>2 DEF Held
  <2> QED
    BY <2>1, <2>2, <2>3, <2>4 DEF CopyTypes, NothingLost, CopyApart, OneEach
<1>4. CASE ResetHard
  <2>1. /\ \E X \in SUBSET Files : content' = [content EXCEPT ![head] = X]
        /\ tree' = Loose /\ paused' = (IF paused = "rebase" THEN paused ELSE None) /\ unmerged' = {}
        /\ UNCHANGED <<head, stash, aside>> /\ owed' = owed \ (Dirty \ Held')
    BY <1>4, WorkAssumption DEF ResetHard, Throws
  <2>2. Held \ Dirty \subseteq Held'
    BY <2>1 DEF Held, Loose, Dirty
  <2> QED
    BY <2>1, <2>2 DEF CopyTypes, NothingLost, CopyApart, OneEach, Loose
<1>5. CASE OperationAbort
  <2>1. /\ tree' = {w \in tree : w \in New \/ FileOf[w] \notin unmerged} \cup aside
        /\ paused' = None /\ unmerged' = {} /\ aside' = {} /\ UNCHANGED <<content, head, stash>>
        /\ owed' = owed \ (Dirty \ Held')
    BY <1>5 DEF OperationAbort, Throws
  <2>2. Held \ Dirty \subseteq Held'
    BY <2>1 DEF Held, Dirty
  <2> QED
    BY <2>1, <2>2 DEF CopyTypes, NothingLost, CopyApart, OneEach
<1> QED
  BY <1>1, <1>2, <1>3, <1>4, <1>5

\* What the other commands do with stashes.
LEMMA CopyStashes ==
  ASSUME CopyRepo, others' \in 0..MaxOthers, Stashes
  PROVE  CopyRepo'
<1>1. CASE StashSave
  <2>1. Push(tree, User) /\ UNCHANGED <<content, head, paused, unmerged, aside, owed>>
    BY <1>1 DEF StashSave
  <2> QED
    BY <2>1, CopyPush
<1>2. ASSUME NEW i \in 1..Len(stash), StashPop(i) \/ StashApply(i) PROVE CopyRepo'
  <2>1. i \in Nat \ {0} /\ UNCHANGED <<content, head, aside, owed>>
    <3>1. Len(stash) \in Nat
      BY DEF CopyRepo, CopyTypes
    <3>2. UNCHANGED <<content, head, aside, owed>>
      BY <1>2 DEF StashPop, StashApply
    <3> QED
      BY <3>1, <3>2
  <2>2. CASE StashPop(i)
    BY <2>1, <2>2, CopyReapply DEF StashPop
  <2>3. CASE StashApply(i)
    BY <2>1, <2>3, CopyReapply DEF StashApply
  <2> QED
    BY <1>2, <2>2, <2>3
<1>3. ASSUME NEW i \in 1..Len(stash), StashDrop(i) PROVE CopyRepo'
  <2>1. /\ stash' = Without(stash, i) /\ UNCHANGED <<content, head, tree, paused, unmerged, aside>>
        /\ owed' = owed \ (stash[i].items \ Held')
    BY <1>3 DEF StashDrop, Throws
  <2>2. /\ stash' \in Seq(Entry) /\ Len(stash') = Len(stash) - 1 /\ stash \in Seq(Entry)
        /\ \A j \in 1..Len(stash) - 1 : stash'[j] = IF j < i THEN stash[j] ELSE stash[j + 1]
    BY <2>1, CopyWithout DEF CopyRepo, CopyTypes
  <2>3. \A j \in 1..Len(stash) : j # i => \E k \in 1..Len(stash') : stash'[k] = stash[j]
    <3> SUFFICES ASSUME NEW j \in 1..Len(stash), j # i PROVE \E k \in 1..Len(stash') : stash'[k] = stash[j]
      OBVIOUS
    <3>1. CASE j < i
      BY <3>1, <2>2
    <3>2. CASE j > i
      <4>1. j - 1 \in 1..Len(stash') /\ stash'[j - 1] = stash[j]
        BY <3>2, <2>2
      <4> QED
        BY <4>1
    <3> QED
      BY <3>1, <3>2, <2>2
  <2>4. Held \ stash[i].items \subseteq Held'
    <3>1. \A w : w \in Held' <=> w \in tree' \/ w \in aside' \/ \E k \in 1..Len(stash') : w \in stash'[k].items
      BY DEF Held, ItemsOf
    <3> QED
      BY <3>1, <2>1, <2>3, CopyHeld
  <2>5. \A j \in 1..Len(stash') : OneEach(stash'[j].items)
    BY <2>2 DEF CopyRepo, CopyApart
  <2> QED
    BY <2>1, <2>2, <2>4, <2>5 DEF CopyRepo, CopyTypes, NothingLost, CopyApart
<1> QED
  BY <1>1, <1>2, <1>3 DEF Stashes

\* A rebase with --autostash, and the end of what git is stopped in.
LEMMA CopyRebase ==
  ASSUME CopyRepo, others' \in 0..MaxOthers, Rebase
  PROVE  CopyRepo'
<1>1. PICK X \in Commits :
        \/ /\ content' = [content EXCEPT ![head] = X]
           /\ \/ UNCHANGED <<stash, paused, unmerged>>
              \/ /\ stash' = Entries(Dirty, User) \o stash /\ paused' = "stash"
                 /\ unmerged' = Occupied(InWay(Dirty, content[head], X))
           /\ UNCHANGED <<tree, aside>>
        \/ /\ aside' = Dirty /\ tree' = Loose /\ paused' = "rebase" /\ UNCHANGED <<content, stash, unmerged>>
  BY DEF Rebase
<1>2. paused = None /\ UNCHANGED <<head, owed>> /\ X \in SUBSET Files
  BY WorkAssumption DEF Rebase
<1>3. aside = {}
  BY <1>2, WorkAssumption DEF CopyRepo, CopyApart, Ops
<1>4. CASE content' = [content EXCEPT ![head] = X] /\ UNCHANGED <<stash, paused, unmerged, tree, aside>>
  <2>1. content' \in [Branches -> SUBSET Files]
    BY <1>2, <1>4 DEF CopyRepo, CopyTypes
  <2> QED
    BY <1>2, <1>3, <1>4, <2>1, CopyMoves DEF CopyRepo, CopyTypes
<1>5. CASE /\ content' = [content EXCEPT ![head] = X] /\ stash' = Entries(Dirty, User) \o stash /\ paused' = "stash"
           /\ unmerged' = Occupied(InWay(Dirty, content[head], X)) /\ UNCHANGED <<tree, aside>>
  <2>a. Dirty \in SUBSET Work /\ User \in Runs \cup {User} /\ CopyTypes
    BY DEF Dirty, CopyRepo, CopyTypes
  <2>1. /\ stash' \in Seq(Entry)
        /\ Dirty = {} => stash' = stash
        /\ Dirty # {} => /\ Len(stash') = Len(stash) + 1 /\ stash'[1].items = Dirty
                         /\ \A i \in 1..Len(stash) : stash'[i + 1] = stash[i]
    BY <1>5, <2>a, CopyPushed
  <2>2. content' \in [Branches -> SUBSET Files] /\ unmerged' \in SUBSET Files /\ paused' \in Ops
    BY <1>2, <1>5, WorkAssumption DEF CopyRepo, CopyTypes, Occupied, InWay, Dirty, Ops
  <2>3. \A i \in 1..Len(stash) : \E j \in 1..Len(stash') : stash'[j] = stash[i]
    BY <2>a, <2>1, CopyShifted
  <2>4. Held \subseteq Held'
    <3>1. \A w : w \in Held' <=> w \in tree' \/ w \in aside' \/ \E k \in 1..Len(stash') : w \in stash'[k].items
      BY DEF Held, ItemsOf
    <3> QED
      BY <3>1, <1>5, <2>3, CopyHeld
  <2>5. \A j \in 1..Len(stash') : OneEach(stash'[j].items)
    <3>1. OneEach(Dirty)
      BY DEF CopyRepo, CopyApart, OneEach, Dirty
    <3> QED
      BY <2>a, <2>1, <3>1, CopyShifted DEF CopyRepo, CopyApart
  <2> QED
    BY <1>2, <1>3, <1>5, <2>1, <2>2, <2>4, <2>5 DEF CopyRepo, CopyTypes, NothingLost, CopyApart
<1>6. CASE aside' = Dirty /\ tree' = Loose /\ paused' = "rebase" /\ UNCHANGED <<content, stash, unmerged>>
  <2>1. tree' \cup aside' = tree
    BY <1>6 DEF Dirty, Loose
  <2>2. Held' = Held
    BY <2>1, <1>3, <1>6 DEF Held
  <2> QED
    BY <1>2, <1>3, <1>6, <2>1, <2>2 DEF CopyRepo, CopyTypes, NothingLost, CopyApart, Ops, Dirty, Loose
<1> QED
  BY <1>1, <1>4, <1>5, <1>6

\* When a paused operation ends, git puts back or stashes what it held.
LEMMA CopyContinue ==
  ASSUME CopyRepo, others' \in 0..MaxOthers, OperationContinue
  PROVE  CopyRepo'
<1>1. UNCHANGED <<head, owed>>
  BY DEF OperationContinue
<1>2. CASE UNCHANGED <<content, tree, stash, paused, unmerged, aside>>
  BY <1>1, <1>2 DEF CopyRepo, CopyTypes, NothingLost, CopyApart, Held
<1>3. CASE ~UNCHANGED <<content, tree, stash, paused, unmerged, aside>>
  <2>1. PICK X \in Commits :
          /\ IF paused = "stash" THEN UNCHANGED content ELSE content' = [content EXCEPT ![head] = X]
          /\ paused' = None /\ unmerged' = {} /\ aside' = {}
          /\ \/ tree' = tree \cup aside /\ UNCHANGED stash
             \/ aside # {} /\ stash' = Entries(aside, User) \o stash /\ UNCHANGED tree
    BY <1>3 DEF OperationContinue
  <2>2. content' \in [Branches -> SUBSET Files]
    BY <2>1, WorkAssumption DEF CopyRepo, CopyTypes
  <2>3. CASE tree' = tree \cup aside /\ UNCHANGED stash
    <3>1. Held' = Held
      BY <2>1, <2>3 DEF Held
    <3> QED
      BY <1>1, <2>1, <2>2, <2>3, <3>1 DEF CopyRepo, CopyTypes, NothingLost, CopyApart
  <2>4. CASE aside # {} /\ stash' = Entries(aside, User) \o stash /\ UNCHANGED tree
    <3>1. aside \in SUBSET Work /\ User \in Runs \cup {User} /\ CopyTypes
      BY DEF CopyRepo, CopyTypes
    <3>2. /\ stash' \in Seq(Entry) /\ Len(stash') = Len(stash) + 1 /\ stash'[1].items = aside
          /\ \A i \in 1..Len(stash) : stash'[i + 1] = stash[i]
      BY <2>4, <3>1, CopyPushed
    <3>3. /\ \A i \in 1..Len(stash) : \E j \in 1..Len(stash') : stash'[j] = stash[i]
          /\ \A j \in 1..Len(stash') : stash'[j].items = aside \/ \E i \in 1..Len(stash) : stash'[j] = stash[i]
      BY <2>4, <3>1, <3>2, CopyShifted
    <3>4. Held \subseteq Held'
      <4>1. \A w : w \in Held' <=> w \in tree' \/ w \in aside' \/ \E k \in 1..Len(stash') : w \in stash'[k].items
        BY DEF Held, ItemsOf
      <4>2. 1 \in 1..Len(stash')
        BY <3>1, <3>2 DEF CopyTypes
      <4>3. \A w \in aside : \E k \in 1..Len(stash') : w \in stash'[k].items
        BY <4>2, <3>2
      <4> QED
        <5> SUFFICES ASSUME NEW w \in Held PROVE w \in Held'
          OBVIOUS
        <5>1. CASE w \in tree
          BY <5>1, <4>1, <2>4
        <5>2. CASE w \in aside
          BY <5>2, <4>1, <4>3
        <5>3. ASSUME NEW i \in 1..Len(stash), w \in stash[i].items PROVE w \in Held'
          BY <5>3, <4>1, <3>3
        <5> QED
          BY <5>1, <5>2, <5>3, CopyHeld
    <3>5. \A j \in 1..Len(stash') : OneEach(stash'[j].items)
      <4>1. OneEach(aside)
        BY DEF CopyRepo, CopyApart, OneEach
      <4> QED
        BY <3>3, <4>1 DEF CopyRepo, CopyApart
    <3>6. OneEach(tree' \cup aside')
      BY <2>1, <2>4 DEF CopyRepo, CopyApart, OneEach
    <3> QED
      BY <1>1, <2>1, <2>2, <2>4, <3>2, <3>4, <3>5, <3>6 DEF CopyRepo, CopyTypes, NothingLost, CopyApart
  <2> QED
    BY <2>1, <2>3, <2>4
<1> QED
  BY <1>2, <1>3

\* A step of an operation of the service.
LEMMA CopyRuns ==
  ASSUME CopyRepo, NEW r \in Runs, run[r] \in RunRec, RunStep(r),
         run[r].pc \notin {"idle", "done"} => {run[r].target, run[r].from} \subseteq Branches
  PROVE  CopyRepo'
<1> DEFINE me == run[r]
<1>t. others \in 0..MaxOthers /\ CopyTypes
  BY DEF CopyRepo, CopyTypes
<1>0. CASE UNCHANGED repo
  BY <1>0 DEF repo, CopyRepo, CopyTypes, NothingLost, CopyApart, Held
<1>m. ASSUME UNCHANGED <<others, tree, stash, aside, owed, unmerged>>,
             content' \in [Branches -> SUBSET Files], head' \in Branches,
             paused' = paused \/ (paused = None /\ paused' \in Ops)
      PROVE  CopyRepo'
  <2>1. aside # {} => paused' = "rebase"
    BY <1>m, WorkAssumption DEF CopyRepo, CopyApart, Ops
  <2> QED
    BY <1>m, <2>1, CopyMoves DEF CopyRepo, CopyTypes
<1>1. CASE Try(r)
  <2>1. CASE UNCHANGED repo
    BY <2>1, <1>0
  <2>2. CASE ~UNCHANGED repo
    <3>1. /\ me.pc = "try" /\ others' = others /\ UNCHANGED <<tree, stash, unmerged, aside, owed>>
          /\ \/ me.kind = "checkout" /\ head' = me.target /\ UNCHANGED <<content, paused>>
             \/ me.kind # "checkout" /\ content' = [content EXCEPT ![head] = Goal(r)] /\ UNCHANGED <<head, paused>>
             \/ /\ me.kind # "checkout" /\ paused' \in PausesAs(me.kind) /\ UNCHANGED <<content, head>>
                /\ Refusal(content[head], Goal(r)) = None
      <4>1. UNCHANGED repo \/ (IF me.kind = "pullRebase" /\ paused = None /\ Dirty # {} THEN "dirty"
                               ELSE Refusal(content[head], Goal(r))) = None
        BY <1>1, Zenon DEF Try, Reads
      <4>2. Refusal(content[head], Goal(r)) = None
        BY <2>2, <4>1, WorkAssumption DEF Errors
      <4> QED
        BY <1>1, <2>2, <4>2, Zenon DEF Try, Goes, Reads, repo
    <3>2. me.kind # "checkout" => Goal(r) \in SUBSET Files
      BY DEF Goal, RunRec, FixKinds, CopyRepo, CopyTypes
    <3>3. PausesAs(me.kind) \subseteq Ops
      BY DEF PausesAs, Ops
    <3>4. Refusal(content[head], Goal(r)) = None => paused = None
      BY WorkAssumption DEF Refusal, Errors
    <3> QED
      BY <3>1, <3>2, <3>3, <3>4, <1>t, <1>m DEF CopyTypes
  <2> QED
    BY <2>1, <2>2
<1>2. CASE SetAside(r)
  <2> DEFINE items == IF me.err = "dirty" THEN Dirty ELSE Loose \cap me.blockers
  <2>1. CASE Push(items, r) /\ others' = others /\ UNCHANGED <<content, head, paused, unmerged, aside, owed>>
    <3>1. items \in SUBSET tree /\ r \in Runs \cup {User}
      BY DEF Dirty, Loose
    <3> QED
      BY <2>1, <3>1, <1>t, CopyPush
  <2> QED
    BY <1>0, <1>2, <2>1 DEF SetAside, Goes, Reads
<1>3. CASE Return(r) \/ Verify(r) \/ PopDone(r)
  BY <1>0, <1>3 DEF Return, Verify, PopDone, Reads
<1>4. CASE Pop(r)
  <2>1. Reapply(1, TRUE) /\ others' = others /\ UNCHANGED <<content, head, aside, owed>>
    BY <1>4 DEF Pop, Goes
  <2>2. 1 \in Nat \ {0}
    OBVIOUS
  <2> QED
    BY <2>1, <2>2, <1>t, CopyReapply, Zenon
<1>5. CASE StashAll(r)
  <2>1. CASE Push(tree, r) /\ others' = others /\ UNCHANGED <<content, head, paused, unmerged, aside, owed>>
    BY <2>1, <1>t, CopyPush
  <2> QED
    BY <1>0, <1>5, <2>1 DEF StashAll, Goes, Reads
<1>6. CASE CheckoutTarget(r)
  <2>1. CASE ~UNCHANGED repo
    <3>1. me.pc = "checkout" /\ others' = others /\ head' = me.target
          /\ UNCHANGED <<content, tree, stash, paused, unmerged, aside, owed>>
      BY <1>6, <2>1 DEF CheckoutTarget, Goes, Reads
    <3> QED
      BY <3>1, <1>t, <1>m DEF CopyTypes
  <2> QED
    BY <2>1, <1>0
<1>7. CASE MergeSource(r)
  <2> DEFINE goal == content[head] \cup content[me.from]
  <2>1. CASE ~UNCHANGED repo
    <3>1. /\ me.pc = "merge" /\ others' = others /\ UNCHANGED <<head, tree, stash, unmerged, aside, owed>>
          /\ Refusal(content[head], goal) = None
          /\ \/ content' = [content EXCEPT ![head] = goal] /\ UNCHANGED paused
             \/ paused' = "merge" /\ UNCHANGED content
      BY <1>7, <2>1 DEF MergeSource, Goes, Reads
    <3>2. paused = None
      BY <3>1, WorkAssumption DEF Refusal, Errors
    <3>3. goal \in SUBSET Files
      BY <3>1, <1>t DEF CopyTypes
    <3> QED
      BY <3>1, <3>2, <3>3, <1>t, <1>m DEF CopyTypes, Ops
  <2> QED
    BY <2>1, <1>0
<1>8. CASE RestoreBranch(r)
  <2>1. CASE ~UNCHANGED repo
    <3>1. me.pc = "restore-branch" /\ others' = others /\ head' = me.from
          /\ UNCHANGED <<content, tree, stash, paused, unmerged, aside, owed>>
      BY <1>8, <2>1 DEF RestoreBranch, Goes, Reads
    <3> QED
      BY <3>1, <1>t, <1>m DEF CopyTypes
  <2> QED
    BY <2>1, <1>0
<1> QED
  BY <1>1, <1>2, <1>3, <1>4, <1>5, <1>6, <1>7, <1>8 DEF RunStep

----------------------------------------------------------------------------
\* The records of the operations, and what a step makes of them.

\* The record of an operation, whoever acts.
CopyRec(m) ==
  /\ m \in RunRec /\ OneEach(m.had)
  /\ m.pc \notin {"idle", "done"} => {m.target, m.from} \subseteq Branches
  /\ m.pc \in {"try", "push", "return"} => m.kind \in FixKinds
  /\ m.pc \in {"set-aside", "checkout", "merge", "restore-branch"} => m.kind \notin FixKinds
  /\ m.pc \in {"pop", "verify"} /\ m.kind \in FixKinds => m.left \in 1..Len(m.stashes)
  /\ m.pc = "return" => m.left = Len(m.stashes)
  /\ m.pc = "push" => m.err \in {"dirty", "untracked"}
CopyUnstarted(m, r, s) == m.pc = "idle" => \A i \in 1..Len(s) : s[i].by # r

\* What is said of a run whoever acts is of its record and of the list.
LEMMA CopyShape ==
  ASSUME NEW r \in Runs
  PROVE  run[r] \in RunRec /\ OneEach(run[r].had) /\ Shaped(r) <=> CopyRec(run[r]) /\ CopyUnstarted(run[r], r, stash)
BY DEF Shaped, CopyRec, CopyUnstarted

\* A run that has not started, and one of no further interest.
LEMMA CopyIdle ==
  /\ Idle \in RunRec
  /\ Idle.had = {} /\ Idle.alone = TRUE /\ Idle.pc = "idle" /\ Idle.undo = FALSE /\ Idle.stashes = <<>>
  /\ Idle.locked = FALSE /\ Idle.stashed = FALSE
  /\ \A p \in {"idle", "done"} : CopyRec([Idle EXCEPT !.pc = p, !.alone = FALSE])
<1>1. Idle \in RunRec
  BY DEF Idle, RunRec, FixKinds
<1>2. /\ Idle.had = {} /\ Idle.pc = "idle" /\ Idle.stashes = <<>>
      /\ Idle.alone = TRUE /\ Idle.undo = FALSE /\ Idle.locked = FALSE /\ Idle.stashed = FALSE
  BY DEF Idle
<1>3. ASSUME NEW p \in {"idle", "done"} PROVE CopyRec([Idle EXCEPT !.pc = p, !.alone = FALSE])
  <2> DEFINE q == [Idle EXCEPT !.pc = p, !.alone = FALSE]
  <2>1. q \in RunRec /\ q.pc = p /\ q.had = {}
    BY <1>1, <1>2 DEF RunRec
  <2>2. CopyRec(q)
    <3> HIDE DEF q
    <3> QED
      BY <2>1 DEF CopyRec, OneEach
  <2> QED
    BY <2>2
<1> QED
  BY <1>1, <1>2, <1>3

\* A run that somebody else disturbed goes on where it is.
LEMMA CopyDisturbed ==
  ASSUME NEW m, CopyRec(m)
  PROVE  CopyRec(Disturbed(m)) /\ Disturbed(m).alone = FALSE /\ Disturbed(m).pc = m.pc
<1>1. CASE m.pc \in {"idle", "done"}
  <2>1. Disturbed(m) = [Idle EXCEPT !.pc = m.pc, !.alone = FALSE]
    BY <1>1 DEF Disturbed
  <2>2. [Idle EXCEPT !.pc = m.pc, !.alone = FALSE].pc = m.pc /\ [Idle EXCEPT !.pc = m.pc, !.alone = FALSE].alone = FALSE
    BY DEF Idle
  <2> QED
    BY <1>1, <2>1, <2>2, CopyIdle
<1>2. CASE m.pc \notin {"idle", "done"}
  <2> DEFINE q == [m EXCEPT !.alone = FALSE, !.had = {}]
  <2>1. Disturbed(m) = q
    BY <1>2 DEF Disturbed
  <2>2. /\ q \in RunRec /\ q.alone = FALSE /\ q.had = {} /\ q.pc = m.pc /\ q.target = m.target /\ q.from = m.from
        /\ q.kind = m.kind /\ q.left = m.left /\ q.stashes = m.stashes /\ q.err = m.err
    BY DEF CopyRec, RunRec
  <2> HIDE DEF q
  <2> QED
    BY <2>1, <2>2 DEF CopyRec, OneEach
<1> QED
  BY <1>1, <1>2

\* A record that a step leaves what it is an operation of.
CopySame(q, m) ==
  /\ q \in RunRec /\ q.kind = m.kind /\ q.target = m.target /\ q.from = m.from /\ q.had = m.had /\ q.alone = m.alone
CopyKept == {"dirty", "untracked", "all", None}

\* The records that the steps make of one: of an operation that is over,
LEMMA CopyEnds ==
  ASSUME NEW m \in RunRec, NEW ok \in BOOLEAN, NEW conflict \in BOOLEAN, NEW kept \in CopyKept
  PROVE  LET q == [m EXCEPT !.pc = "done", !.success = ok, !.conflict = conflict, !.kept = kept]
         IN CopySame(q, m) /\ q.pc = "done" /\ (conflict = TRUE => q.conflict = TRUE) /\ q.kept = kept /\ q.locked = m.locked
<1> DEFINE q == [m EXCEPT !.pc = "done", !.success = ok, !.conflict = conflict, !.kept = kept]
<1>1. CopySame(q, m)
  <2> DEFINE a == [m EXCEPT !.pc = "done"]
             b == [a EXCEPT !.success = ok]
             c == [b EXCEPT !.conflict = conflict]
  <2>1. CopySame(a, m)
    BY DEF RunRec, CopySame
  <2>2. ASSUME NEW x, CopySame(x, m) PROVE CopySame([x EXCEPT !.success = ok], m)
    BY <2>2 DEF RunRec, CopySame
  <2>3. ASSUME NEW x, CopySame(x, m) PROVE CopySame([x EXCEPT !.conflict = conflict], m)
    BY <2>3 DEF RunRec, CopySame
  <2>4. ASSUME NEW x, CopySame(x, m) PROVE CopySame([x EXCEPT !.kept = kept], m)
    BY <2>4 DEF RunRec, CopySame, CopyKept
  <2>5. q = [c EXCEPT !.kept = kept]
    OBVIOUS
  <2> HIDE DEF q, a, b, c
  <2>6. CopySame(b, m)
    BY <2>1, <2>2 DEF b
  <2>7. CopySame(c, m)
    BY <2>6, <2>3 DEF c
  <2> QED
    BY <2>5, <2>7, <2>4
<1>2. q.pc = "done" /\ q.kept = kept /\ q.locked = m.locked
  BY DEF RunRec
<1>3. conflict = TRUE => q.conflict = TRUE
  BY DEF RunRec
<1> QED
  BY <1>1, <1>2, <1>3

\* ... that puts back what it stashed,
LEMMA CopyUndoes ==
  ASSUME NEW m \in RunRec
  PROVE  LET q == [m EXCEPT !.pc = "pop", !.undo = TRUE, !.left = Len(m.stashes)]
         IN /\ CopySame(q, m) /\ q.pc = "pop" /\ q.undo = TRUE /\ q.left = Len(m.stashes) /\ q.stashes = m.stashes
            /\ q.locked = m.locked
<1>1. Len(m.stashes) \in Nat
  BY DEF RunRec
<1> QED
  BY <1>1 DEF RunRec, CopySame

\* ... that went through,
LEMMA CopyWent ==
  ASSUME NEW m \in RunRec
  PROVE  LET q == [m EXCEPT !.pc = "return", !.success = TRUE, !.left = Len(m.stashes)]
         IN /\ CopySame(q, m) /\ q.pc = "return" /\ q.undo = m.undo /\ q.left = Len(m.stashes) /\ q.stashes = m.stashes
            /\ q.locked = m.locked
<1>1. Len(m.stashes) \in Nat
  BY DEF RunRec
<1> QED
  BY <1>1 DEF RunRec, CopySame

\* ... that has stashed once more,
LEMMA CopyAppends ==
  ASSUME NEW m \in RunRec, m.err \in {"dirty", "untracked"}
  PROVE  LET q == [m EXCEPT !.pc = "try", !.stashes = Append(m.stashes, m.err)]
         IN /\ CopySame(q, m) /\ q.pc = "try" /\ q.undo = m.undo /\ q.locked = m.locked
            /\ Len(q.stashes) = Len(m.stashes) + 1
<1>1. Append(m.stashes, m.err) \in Seq({"dirty", "untracked"}) /\ Len(Append(m.stashes, m.err)) = Len(m.stashes) + 1
  BY DEF RunRec
<1> HIDE DEF Append
<1> QED
  BY <1>1 DEF RunRec, CopySame

\* ... whose stash command failed,
LEMMA CopyLocks ==
  ASSUME NEW m \in RunRec, NEW p \in {"restore-branch", "done"}
  PROVE  LET q == [m EXCEPT !.locked = TRUE, !.pc = p]
         IN CopySame(q, m) /\ q.pc = p /\ q.locked = TRUE /\ q.stashed = m.stashed
BY DEF RunRec, CopySame

\* ... that goes on,
LEMMA CopyGoes ==
  ASSUME NEW m \in RunRec, NEW p \in {"pop", "merge", "restore-branch", "done"}
  PROVE  LET q == [m EXCEPT !.pc = p]
         IN /\ CopySame(q, m) /\ q.pc = p /\ q.locked = m.locked /\ q.stashed = m.stashed /\ q.undo = m.undo
            /\ q.left = m.left /\ q.stashes = m.stashes /\ q.before = m.before
BY DEF RunRec, CopySame

\* ... that has popped,
LEMMA CopyPops ==
  ASSUME NEW m \in RunRec, NEW k \in Nat
  PROVE  LET q == [m EXCEPT !.pc = "verify", !.before = k]
         IN /\ CopySame(q, m) /\ q.pc = "verify" /\ q.locked = m.locked /\ q.stashed = m.stashed /\ q.undo = m.undo
            /\ q.left = m.left /\ q.stashes = m.stashes /\ q.before = k
BY DEF RunRec, CopySame

\* ... that has more to pop,
LEMMA CopyMore ==
  ASSUME NEW m \in RunRec, m.left > 1
  PROVE  LET q == [m EXCEPT !.pc = "pop", !.left = m.left - 1]
         IN /\ CopySame(q, m) /\ q.pc = "pop" /\ q.locked = m.locked /\ q.undo = m.undo
            /\ q.left = m.left - 1 /\ q.stashes = m.stashes
<1>1. m.left - 1 \in Nat
  BY DEF RunRec
<1> QED
  BY <1>1 DEF RunRec, CopySame

\* ... that has put everything aside,
LEMMA CopyStashed ==
  ASSUME NEW m \in RunRec
  PROVE  LET q == [m EXCEPT !.pc = "checkout", !.stashed = TRUE]
         IN CopySame(q, m) /\ q.pc = "checkout" /\ q.locked = m.locked /\ q.stashed = TRUE
BY DEF RunRec, CopySame

\* ... whose outcome is noted.
LEMMA CopySucceeds ==
  ASSUME NEW m \in RunRec, NEW b \in BOOLEAN
  PROVE  LET q == [m EXCEPT !.success = b]
         IN CopySame(q, m) /\ q.pc = m.pc /\ q.locked = m.locked /\ q.stashed = m.stashed
BY DEF RunRec, CopySame

----------------------------------------------------------------------------
\* What a run that is alone has set aside.

\* Mine, Based, Fixing and Merging, of a record and a repository given.
CopyMine(r, h, k, s, t) ==
  /\ k <= Len(s)
  /\ \A i \in 1..Len(s) : s[i].by = r <=> i <= k
  /\ \A w \in Work : w \in h <=> w \in t \/ \E i \in 1..k : w \in s[i].items
  /\ \A i \in 1..k : /\ t \cap s[i].items = {}
                     /\ \A j \in 1..i - 1 : s[i].items \cap s[j].items = {}
CopyBased(k, c, s) == \A i \in 1..k : s[i].base = c \cap Occupied(s[i].items)
CopyBlocking(m, t) == IF m.err = "dirty" THEN t \ New ELSE (t \cap New) \cap m.blockers
CopyFixing(r, m, c, s, t, p) ==
  /\ m.pc \in {"try", "push"} => /\ CopyMine(r, m.had, Len(m.stashes), s, t) /\ CopyBased(Len(m.stashes), c, s)
                                 /\ (Len(m.stashes) # 0 => p = None)
  /\ m.pc = "push" => p = None /\ CopyBlocking(m, t) # {}
  /\ m.pc \in {"try", "push", "return"} => m.undo = FALSE
  /\ m.pc = "return" => CopyMine(r, m.had, Len(m.stashes), s, t) /\ p = None
  /\ m.pc = "pop" => /\ CopyMine(r, m.had, m.left, s, t) /\ p = None
                     /\ m.undo = TRUE => CopyBased(m.left, c, s)
  /\ m.pc = "verify" =>
       \/ /\ CopyMine(r, m.had, m.left - 1, s, t) /\ Len(s) = m.before - 1 /\ p = None
          /\ m.undo = TRUE => CopyBased(m.left - 1, c, s)
       \/ m.undo = FALSE /\ Len(s) = m.before
  /\ m.pc = "done" /\ m.conflict = FALSE /\ m.kept = None /\ p = None => CopyMine(r, m.had, 0, s, t)
CopyMerging(r, m, C, hd, s, t, p) ==
  /\ m.pc # "done" => m.target # m.from
  /\ m.pc = "set-aside" => CopyMine(r, m.had, 0, s, t) /\ m.stashed = FALSE /\ hd = m.from /\ t # {}
  /\ m.pc \in {"checkout", "merge", "restore-branch", "pop"} =>
       /\ CopyMine(r, m.had, IF m.stashed = TRUE THEN 1 ELSE 0, s, t)
       /\ CopyBased(IF m.stashed = TRUE THEN 1 ELSE 0, C[m.from], s)
       /\ t = {}
  /\ m.pc = "checkout" => hd = m.from
  /\ m.pc = "merge" => hd = m.target
  /\ m.pc = "pop" => m.stashed = TRUE /\ (p = None => hd = m.from)
  /\ m.pc \in {"verify", "done"} /\ p = None => CopyMine(r, m.had, 0, s, t) /\ hd = m.from
CopyLocked(m) == m.locked = TRUE => m.pc = "done" \/ (m.pc = "restore-branch" /\ m.stashed = FALSE)
CopyAlone(r, m, C, hd, s, t, p) ==
  m.alone = TRUE /\ m.pc # "idle" =>
    /\ CopyLocked(m)
    /\ m.locked = FALSE /\ m.kind \in FixKinds => CopyFixing(r, m, C[hd], s, t, p)
    /\ m.locked = FALSE /\ m.kind = "into" => CopyMerging(r, m, C, hd, s, t, p)

\* The invariant of a run that is alone, of its record and the repository given, before a step
LEMMA CopyAloneIs ==
  ASSUME NEW r \in Runs
  PROVE  Alone(r) <=> CopyAlone(r, run[r], content, head, stash, tree, paused)
<1>1. \A k : Mine(r, k) <=> CopyMine(r, run[r].had, k, stash, tree)
  BY DEF Mine, CopyMine
<1>2. \A k, X : Based(k, X) <=> CopyBased(k, X, stash)
  BY DEF Based, CopyBased
<1>3. \A m : Blocking(m) = CopyBlocking(m, tree)
  BY DEF Blocking, CopyBlocking, Dirty, Loose
<1>4. Fixing(r) <=> CopyFixing(r, run[r], content[head], stash, tree, paused)
  BY <1>1, <1>2, <1>3, Zenon DEF Fixing, CopyFixing
<1>5. Merging(r) <=> CopyMerging(r, run[r], content, head, stash, tree, paused)
  BY <1>1, <1>2, Zenon DEF Merging, CopyMerging
<1> QED
  BY <1>4, <1>5, Zenon DEF Alone, CopyAlone, CopyLocked

\* ... and after it.
LEMMA CopyAloneNext ==
  ASSUME NEW r \in Runs
  PROVE  Alone(r)' <=> CopyAlone(r, run'[r], content', head', stash', tree', paused')
<1>1. \A k : Mine(r, k)' <=> CopyMine(r, run'[r].had, k, stash', tree')
  BY DEF Mine, CopyMine
<1>2. \A k, X : Based(k, X)' <=> CopyBased(k, X, stash')
  BY DEF Based, CopyBased
<1>3. \A m : Blocking(m)' = CopyBlocking(m, tree')
  BY DEF Blocking, CopyBlocking, Dirty, Loose
<1>4. Fixing(r)' <=> CopyFixing(r, run'[r], content'[head'], stash', tree', paused')
  BY <1>1, <1>2, <1>3, Zenon DEF Fixing, CopyFixing
<1>5. Merging(r)' <=> CopyMerging(r, run'[r], content', head', stash', tree', paused')
  BY <1>1, <1>2, Zenon DEF Merging, CopyMerging
<1> QED
  BY <1>4, <1>5, Zenon DEF Alone, CopyAlone, CopyLocked

\* With no entry of its own, a run has set nothing aside.
LEMMA CopyNoneMine ==
  ASSUME NEW r, NEW s \in Seq(Entry), NEW t, \A i \in 1..Len(s) : s[i].by # r
  PROVE  CopyMine(r, t, 0, s, t) /\ \A c : CopyBased(0, c, s)
BY DEF CopyMine, CopyBased

\* A push of some of its work is the newest of its own.
LEMMA CopyMinePush ==
  ASSUME CopyTypes, NEW r \in Runs, NEW h, NEW k \in Nat, CopyMine(r, h, k, stash, tree), NEW items \in SUBSET tree,
         items # {}, stash' = Entries(items, r) \o stash, tree' = tree \ items
  PROVE  /\ CopyMine(r, h, k + 1, stash', tree')
         /\ CopyBased(k, content[head], stash) => CopyBased(k + 1, content[head], stash')
<1>a. items \in SUBSET Work /\ r \in Runs \cup {User} /\ stash \in Seq(Entry) /\ Len(stash) \in Nat
  BY DEF CopyTypes
<1>1. /\ stash' \in Seq(Entry) /\ Len(stash') = Len(stash) + 1
      /\ stash'[1].base = content[head] \cap Occupied(items) /\ stash'[1].items = items /\ stash'[1].by = r
      /\ \A i \in 1..Len(stash) : stash'[i + 1] = stash[i]
  BY <1>a, CopyPushed
<1>2. ASSUME NEW i \in 1..Len(stash'), i # 1
      PROVE  i - 1 \in 1..Len(stash) /\ stash'[i] = stash[i - 1]
  BY <1>a, <1>1, <1>2
<1>3. \A i \in 1..Len(stash') : stash'[i].by = r <=> i <= k + 1
  <2> SUFFICES ASSUME NEW i \in 1..Len(stash') PROVE stash'[i].by = r <=> i <= k + 1
    OBVIOUS
  <2>1. CASE i = 1
    BY <2>1, <1>1
  <2>2. CASE i # 1
    BY <2>2, <1>2, <1>1, <1>a DEF CopyMine
  <2> QED
    BY <2>1, <2>2
<1>4. ASSUME NEW w \in Work PROVE w \in h <=> w \in tree' \/ \E i \in 1..k + 1 : w \in stash'[i].items
  <2>1. w \in h <=> w \in tree \/ \E i \in 1..k : w \in stash[i].items
    BY DEF CopyMine
  <2>2. ASSUME NEW i \in 1..k, w \in stash[i].items PROVE \E j \in 1..k + 1 : w \in stash'[j].items
    <3>1. i + 1 \in 1..k + 1 /\ stash'[i + 1] = stash[i]
      BY <1>1, <1>a DEF CopyMine
    <3> QED
      BY <3>1, <2>2
  <2>3. ASSUME NEW i \in 1..k + 1, w \in stash'[i].items PROVE w \in items \/ \E j \in 1..k : w \in stash[j].items
    <3>1. CASE i = 1
      BY <3>1, <2>3, <1>1
    <3>2. CASE i # 1
      <4>1. i - 1 \in 1..k /\ stash'[i] = stash[i - 1]
        BY <3>2, <1>2, <1>1, <1>a DEF CopyMine
      <4> QED
        BY <4>1, <2>3
    <3> QED
      BY <3>1, <3>2
  <2>4. w \in items => \E j \in 1..k + 1 : w \in stash'[j].items
    <3>1. 1 \in 1..k + 1
      OBVIOUS
    <3> QED
      BY <3>1, <1>1
  <2> QED
    BY <2>1, <2>2, <2>3, <2>4
<1>5. ASSUME NEW i \in 1..k + 1
      PROVE  tree' \cap stash'[i].items = {} /\ \A j \in 1..i - 1 : stash'[i].items \cap stash'[j].items = {}
  <2>1. CASE i = 1
    BY <2>1, <1>1
  <2>2. CASE i # 1
    <3>1. i - 1 \in 1..k /\ stash'[i] = stash[i - 1]
      BY <2>2, <1>2, <1>1, <1>a DEF CopyMine
    <3>2. tree \cap stash'[i].items = {}
      BY <3>1 DEF CopyMine
    <3>3. ASSUME NEW j \in 1..i - 1 PROVE stash'[i].items \cap stash'[j].items = {}
      <4>1. CASE j = 1
        BY <4>1, <3>2, <1>1
      <4>2. CASE j # 1
        <5>1. j - 1 \in 1..(i - 1) - 1 /\ stash'[j] = stash[j - 1]
          BY <4>2, <1>2, <1>1, <1>a, <3>1 DEF CopyMine
        <5> QED
          BY <5>1, <3>1 DEF CopyMine
      <4> QED
        BY <4>1, <4>2
    <3> QED
      BY <3>2, <3>3
  <2> QED
    BY <2>1, <2>2
<1>6. ASSUME CopyBased(k, content[head], stash), NEW i \in 1..k + 1
      PROVE  stash'[i].base = content[head] \cap Occupied(stash'[i].items)
  <2>1. CASE i = 1
    BY <2>1, <1>1
  <2>2. CASE i # 1
    <3>1. i - 1 \in 1..k /\ stash'[i] = stash[i - 1]
      BY <2>2, <1>2, <1>1, <1>a DEF CopyMine
    <3> QED
      BY <3>1, <1>6 DEF CopyBased
  <2> QED
    BY <2>1, <2>2
<1>7. k + 1 <= Len(stash')
  BY <1>1, <1>a DEF CopyMine
<1> QED
  BY <1>3, <1>4, <1>5, <1>6, <1>7 DEF CopyMine, CopyBased

\* A pop that takes the newest entry whole gives back what was set aside last.
LEMMA CopyMinePop ==
  ASSUME NEW s \in Seq(Entry), NEW t \in SUBSET Work, NEW r, NEW h, NEW k \in Nat \ {0}, CopyMine(r, h, k, s, t)
  PROVE  /\ CopyMine(r, h, k - 1, Without(s, 1), t \cup s[1].items)
         /\ \A c : CopyBased(k, c, s) => CopyBased(k - 1, c, Without(s, 1))
         /\ Len(Without(s, 1)) = Len(s) - 1
<1> DEFINE u == Without(s, 1)
<1>a. 1 \in 1..Len(s) /\ Len(s) \in Nat
  BY DEF CopyMine
<1>1. u \in Seq(Entry) /\ Len(u) = Len(s) - 1 /\ \A j \in 1..Len(s) - 1 : u[j] = s[j + 1]
  BY <1>a, CopyWithout
<1> HIDE DEF u
<1>2. \A i \in 1..Len(u) : u[i].by = r <=> i <= k - 1
  BY <1>1, <1>a DEF CopyMine
<1>3. ASSUME NEW w \in Work PROVE w \in h <=> w \in t \cup s[1].items \/ \E i \in 1..k - 1 : w \in u[i].items
  <2>1. w \in h <=> w \in t \/ \E i \in 1..k : w \in s[i].items
    BY DEF CopyMine
  <2>2. ASSUME NEW i \in 1..k, w \in s[i].items PROVE w \in s[1].items \/ \E j \in 1..k - 1 : w \in u[j].items
    <3>1. CASE i # 1
      <4>1. i - 1 \in 1..k - 1 /\ u[i - 1] = s[i]
        BY <3>1, <1>1, <1>a DEF CopyMine
      <4> QED
        BY <4>1, <2>2
    <3> QED
      BY <2>2, <3>1
  <2>3. ASSUME NEW i \in 1..k - 1, w \in u[i].items PROVE \E j \in 1..k : w \in s[j].items
    <3>1. i + 1 \in 1..k /\ u[i] = s[i + 1]
      BY <1>1, <1>a DEF CopyMine
    <3> QED
      BY <3>1, <2>3
  <2>4. w \in s[1].items => \E j \in 1..k : w \in s[j].items
    <3>1. 1 \in 1..k
      OBVIOUS
    <3> QED
      BY <3>1
  <2> QED
    BY <2>1, <2>2, <2>3, <2>4
<1>4. ASSUME NEW i \in 1..k - 1
      PROVE  (t \cup s[1].items) \cap u[i].items = {} /\ \A j \in 1..i - 1 : u[i].items \cap u[j].items = {}
  <2>1. i + 1 \in 1..k /\ u[i] = s[i + 1] /\ 1 \in 1..(i + 1) - 1
    BY <1>1, <1>a DEF CopyMine
  <2>2. t \cap u[i].items = {} /\ u[i].items \cap s[1].items = {}
    BY <2>1 DEF CopyMine
  <2>3. ASSUME NEW j \in 1..i - 1 PROVE u[i].items \cap u[j].items = {}
    <3>1. j + 1 \in 1..(i + 1) - 1 /\ u[j] = s[j + 1]
      BY <1>1, <1>a, <2>1 DEF CopyMine
    <3> QED
      BY <3>1, <2>1 DEF CopyMine
  <2> QED
    BY <2>2, <2>3
<1>5. ASSUME NEW c, CopyBased(k, c, s), NEW i \in 1..k - 1 PROVE u[i].base = c \cap Occupied(u[i].items)
  <2>1. i + 1 \in 1..k /\ u[i] = s[i + 1]
    BY <1>1, <1>a DEF CopyMine
  <2> QED
    BY <2>1, <1>5 DEF CopyBased
<1>6. k - 1 <= Len(u)
  BY <1>1, <1>a DEF CopyMine
<1>7. CopyMine(r, h, k - 1, u, t \cup s[1].items) /\ \A c : CopyBased(k, c, s) => CopyBased(k - 1, c, u)
  BY <1>2, <1>3, <1>4, <1>5, <1>6 DEF CopyMine, CopyBased
<1> QED
  BY <1>1, <1>7 DEF u

\* Where the branch is as it was, what a run set aside last applies whole.
LEMMA CopyApplies ==
  ASSUME CopyTypes, NEW r \in Runs, NEW h, OneEach(h), h \in SUBSET Work, NEW k \in Nat \ {0}, CopyMine(r, h, k, stash, tree),
         CopyBased(k, content[head], stash), paused = None, Reapply(1, TRUE)
  PROVE  tree' = tree \cup stash[1].items /\ stash' = Without(stash, 1) /\ paused' = None
<1> DEFINE e == stash[1]
           clash == InWay(e.items, e.base, content[head])
           exist == {w \in e.items \cap New : w \in clash \/ FileOf[w] \in Occupied(tree)}
<1>a. 1 \in 1..Len(stash) /\ 1 \in 1..k /\ stash \in Seq(Entry) /\ Len(stash) \in Nat
  BY DEF CopyMine, CopyTypes
<1>b. e.items \in SUBSET Work /\ tree \cap e.items = {} /\ e.base = content[head] \cap Occupied(e.items)
  <2>1. e \in Entry
    BY <1>a
  <2>2. e.items \in SUBSET Work
    BY <2>1 DEF Entry
  <2>3. tree \cap e.items = {}
    BY <1>a DEF CopyMine
  <2>4. e.base = content[head] \cap Occupied(e.items)
    BY <1>a DEF CopyBased
  <2> QED
    BY <2>2, <2>3, <2>4
<1>c. tree \subseteq h /\ e.items \subseteq h
  BY <1>a, <1>b DEF CopyMine, CopyTypes
<1>1. Occupied(tree) \cap Occupied(e.items) = {}
  BY <1>b, <1>c DEF Occupied, OneEach
<1>2. clash = {}
  BY <1>b DEF InWay, Diff, Occupied
<1>3. exist = {}
  <2> SUFFICES ASSUME NEW w \in e.items, w \in clash \/ FileOf[w] \in Occupied(tree) PROVE FALSE
    OBVIOUS
  <2>1. FileOf[w] \in Occupied(e.items)
    BY DEF Occupied
  <2> HIDE DEF clash
  <2> QED
    BY <2>1, <1>1, <1>2
<1>4. ~(1 > Len(stash)) /\ Occupied(tree) \cap Occupied(e.items \ New) = {}
  <2>1. Occupied(e.items \ New) \subseteq Occupied(e.items)
    BY DEF Occupied
  <2>2. ~(1 > Len(stash))
    BY <1>a
  <2> HIDE DEF e
  <2>3. Occupied(tree) \cap Occupied(e.items \ New) = {}
    BY <1>1, <2>1
  <2> QED
    BY <2>2, <2>3 DEF e
<1>5. /\ tree' = tree \cup (e.items \ exist)
      /\ \/ /\ stash' = IF TRUE /\ exist = {} THEN Without(stash, 1) ELSE stash
            /\ UNCHANGED <<paused, unmerged>>
         \/ clash \ New # {}
  BY <1>4 DEF Reapply
<1> HIDE DEF e, clash, exist
<1>6. /\ tree' = tree \cup e.items
      /\ stash' = Without(stash, 1) /\ UNCHANGED paused
  BY <1>2, <1>3, <1>5
<1> QED
  BY <1>6 DEF e

----------------------------------------------------------------------------
\* The run that acts.

\* The acting run: what its record and the repository are before and after.
CopyTo(r) ==
  /\ CopyRec(run'[r]) /\ run'[r].pc # "idle"
  /\ CopyAlone(r, run'[r], content', head', stash', tree', paused')
CopyFrom(r) ==
  /\ CopyRepo /\ run \in [Runs -> RunRec] /\ CopyRec(run[r]) /\ CopyUnstarted(run[r], r, stash)
  /\ CopyAlone(r, run[r], content, head, stash, tree, paused)

\* What is to be shown of a step of an operation that is fixed automatically, and what is known before.
LEMMA CopyFromFix ==
  ASSUME NEW r \in Runs, CopyFrom(r), NEW m, m = run[r], m.pc \in {"try", "push", "return", "pop", "verify"}, m.kind \in FixKinds
  PROVE  /\ m \in RunRec /\ Len(m.stashes) \in Nat /\ OneEach(m.had) /\ m.had \in SUBSET Work /\ {m.target, m.from} \subseteq Branches
         /\ m.pc \in {"pop", "verify"} => m.left \in 1..Len(m.stashes)
         /\ m.pc = "return" => m.left = Len(m.stashes)
         /\ m.pc = "push" => m.err \in {"dirty", "untracked"}
         /\ m.alone = TRUE => m.locked = FALSE /\ CopyFixing(r, m, content[head], stash, tree, paused)
<1>1. CopyRec(m) /\ CopyAlone(r, m, content, head, stash, tree, paused)
  BY DEF CopyFrom
<1>2. m \in RunRec /\ m.locked \in BOOLEAN
  BY <1>1 DEF CopyRec, RunRec
<1>3. m.alone = TRUE => m.locked = FALSE
  BY <1>1, <1>2 DEF CopyAlone, CopyLocked
<1>4. Len(m.stashes) \in Nat /\ m.had \in SUBSET Work
  BY <1>2 DEF RunRec
<1> QED
  BY <1>1, <1>2, <1>3, <1>4 DEF CopyAlone, CopyRec

\* ... and what suffices of the record after the step.
LEMMA CopyToFix ==
  ASSUME NEW r \in Runs, CopyFrom(r), NEW m, m = run[r], m.pc \notin {"idle", "done"}, m.kind \in FixKinds,
         NEW q, q = run'[r], CopySame(q, m),
         q.pc \in {"try", "push", "return", "pop", "verify", "done"},
         q.pc \in {"pop", "verify"} => q.left \in 1..Len(q.stashes),
         q.pc = "return" => q.left = Len(q.stashes),
         q.pc = "push" => q.err \in {"dirty", "untracked"},
         q.alone = TRUE /\ q.locked = TRUE => q.pc = "done",
         q.alone = TRUE /\ q.locked = FALSE => CopyFixing(r, q, content'[head'], stash', tree', paused')
  PROVE  CopyTo(r)
<1>1. CopyRec(m)
  BY DEF CopyFrom
<1>2. CopyRec(q)
  BY <1>1 DEF CopyRec, CopySame
<1>3. q.kind # "into"
  BY DEF CopySame, FixKinds
<1>4. CopyAlone(r, q, content', head', stash', tree', paused')
  BY <1>3 DEF CopyAlone, CopyLocked
<1> QED
  BY <1>2, <1>4 DEF CopyTo

\* An operation that failed for good.
LEMMA CopyUnfixable ==
  ASSUME NEW r \in Runs, CopyFrom(r), run[r].pc = "try", UNCHANGED repo, run'[r] = Unfixable(r)
  PROVE  CopyTo(r)
<1>0. PICK m : m = run[r]
  OBVIOUS
<1>1. PICK q : q = run'[r]
  OBVIOUS
<1>2. m.pc = "try" /\ m.kind \in FixKinds
  BY <1>0 DEF CopyFrom, CopyRec
<1>3. /\ m \in RunRec /\ Len(m.stashes) \in Nat
      /\ m.alone = TRUE => m.locked = FALSE /\ CopyFixing(r, m, content[head], stash, tree, paused)
  BY <1>0, <1>2, CopyFromFix
<1>4. m.alone = TRUE => /\ CopyMine(r, m.had, Len(m.stashes), stash, tree) /\ CopyBased(Len(m.stashes), content[head], stash)
                        /\ (Len(m.stashes) # 0 => paused = None) /\ m.locked = FALSE
  BY <1>2, <1>3 DEF CopyFixing
<1>5. content'[head'] = content[head] /\ stash' = stash /\ tree' = tree /\ paused' = paused
  BY DEF repo
<1>6. CASE m.stashes = <<>>
  <2>1. q = [m EXCEPT !.pc = "done", !.success = FALSE, !.conflict = FALSE, !.kept = None]
    BY <1>0, <1>1, <1>6 DEF Unfixable, Ended
  <2>2. CopySame(q, m) /\ q.pc = "done"
    BY <2>1, <1>3, CopyEnds, Zenon DEF CopyKept
  <2>3. q.alone = TRUE => CopyMine(r, q.had, 0, stash, tree)
    BY <2>2, <1>4, <1>6 DEF CopySame
  <2>4. q.alone = TRUE => CopyFixing(r, q, content'[head'], stash', tree', paused')
    BY <2>2, <2>3, <1>5 DEF CopyFixing
  <2> QED
    BY <1>0, <1>1, <1>2, <2>2, <2>4, CopyToFix
<1>7. CASE m.stashes # <<>>
  <2>1. q = [m EXCEPT !.pc = "pop", !.undo = TRUE, !.left = Len(m.stashes)]
    BY <1>0, <1>1, <1>7 DEF Unfixable
  <2>2. /\ CopySame(q, m) /\ q.pc = "pop" /\ q.undo = TRUE /\ q.left = Len(m.stashes) /\ q.stashes = m.stashes
        /\ q.locked = m.locked
    BY <2>1, <1>3, CopyUndoes
  <2>3. Len(m.stashes) # 0
    BY <1>7, <1>3 DEF RunRec
  <2>4. q.alone = TRUE => CopyFixing(r, q, content'[head'], stash', tree', paused')
    BY <2>2, <2>3, <1>4, <1>5 DEF CopyFixing, CopySame
  <2>5. q.left \in 1..Len(q.stashes)
    BY <2>2, <2>3, <1>3
  <2>6. m.locked = FALSE \/ m.alone # TRUE
    BY <1>4
  <2>7. ~(q.alone = TRUE /\ q.locked = TRUE)
    BY <2>2, <2>6 DEF CopySame
  <2> QED
    BY <1>0, <1>1, <1>2, <2>2, <2>4, <2>5, <2>7, CopyToFix
<1> QED
  BY <1>6, <1>7

\* What a step makes of the runs.
LEMMA CopyReads ==
  ASSUME NEW r \in Runs, run \in [Runs -> RunRec], NEW next, Reads(r, next)
  PROVE  run'[r] = next /\ UNCHANGED repo /\ \A o \in Runs : o # r => run'[o] = run[o]
BY DEF Reads

\* ... when it changes the repository.
LEMMA CopyGoesOn ==
  ASSUME NEW r \in Runs, NEW next, Goes(r, next)
  PROVE  run'[r] = next /\ others' = others /\ \A o \in Runs : o # r => run'[o] = Disturbed(run[o])
BY DEF Goes

\* Why git refuses.
LEMMA CopyRefusal ==
  ASSUME NEW X, NEW Y
  PROVE  /\ Refusal(X, Y) = None => paused = None
         /\ Refusal(X, Y) = "dirty" => paused = None /\ Dirty # {}
         /\ Refusal(X, Y) = "untracked" => paused = None /\ InWay(Loose, X, Y) # {}
         /\ Refusal(X, Y) \in {"dirty", "untracked", "in-progress", None}
<1>1. None \notin {"dirty", "untracked", "in-progress"}
  BY WorkAssumption DEF Errors
<1>2. InWay(Dirty, X, Y) # {} => Dirty # {}
  BY DEF InWay
<1> QED
  BY <1>1, <1>2 DEF Refusal

\* What is kept is named after the last stash.
LEMMA CopyLast ==
  ASSUME NEW m \in RunRec
  PROVE  LastOf(m.stashes) \in CopyKept
<1>1. m.stashes \in Seq({"dirty", "untracked"})
  BY DEF RunRec
<1>2. m.stashes # <<>> => Len(m.stashes) \in 1..Len(m.stashes)
  BY <1>1
<1> QED
  BY <1>1, <1>2 DEF LastOf, CopyKept

\* An operation that ends on conflicts names what it kept.
LEMMA CopyStops ==
  ASSUME NEW r \in Runs, CopyFrom(r), run[r].pc = "try", run'[r] = Ended(r, FALSE, TRUE, LastOf(run[r].stashes))
  PROVE  CopyTo(r)
<1>0. PICK m : m = run[r]
  OBVIOUS
<1>1. PICK q : q = run'[r]
  OBVIOUS
<1>2. m.pc = "try" /\ m.kind \in FixKinds
  BY <1>0 DEF CopyFrom, CopyRec
<1>3. m \in RunRec
  BY <1>0, <1>2, CopyFromFix
<1>4. q = [m EXCEPT !.pc = "done", !.success = FALSE, !.conflict = TRUE, !.kept = LastOf(m.stashes)]
  BY <1>0, <1>1 DEF Ended
<1>5. CopySame(q, m) /\ q.pc = "done" /\ q.conflict = TRUE
  BY <1>3, <1>4, CopyEnds, CopyLast, Zenon
<1>6. CopyFixing(r, q, content'[head'], stash', tree', paused')
  BY <1>5 DEF CopyFixing
<1> QED
  BY <1>0, <1>1, <1>2, <1>5, <1>6, CopyToFix

\* One attempt at the operation.
LEMMA CopyTry ==
  ASSUME NEW r \in Runs, CopyFrom(r), Try(r)
  PROVE  CopyTo(r)
<1> DEFINE why == IF run[r].kind = "pullRebase" /\ paused = None /\ Dirty # {} THEN "dirty"
                  ELSE Refusal(content[head], Goal(r))
           push == [run[r] EXCEPT !.pc = "push", !.err = why, !.blockers = InWay(Loose, content[head], Goal(r))]
<1>0. PICK m : m = run[r]
  OBVIOUS
<1>1. PICK q : q = run'[r]
  OBVIOUS
<1>2. m.pc = "try" /\ m.kind \in FixKinds /\ run \in [Runs -> RunRec]
  BY <1>0 DEF CopyFrom, CopyRec, Try
<1>3. /\ m \in RunRec /\ Len(m.stashes) \in Nat
      /\ m.alone = TRUE => m.locked = FALSE /\ CopyFixing(r, m, content[head], stash, tree, paused)
  BY <1>0, <1>2, CopyFromFix
<1>4. m.alone = TRUE => /\ CopyMine(r, m.had, Len(m.stashes), stash, tree) /\ CopyBased(Len(m.stashes), content[head], stash)
                        /\ (Len(m.stashes) # 0 => paused = None) /\ m.locked = FALSE /\ m.undo = FALSE
  BY <1>2, <1>3 DEF CopyFixing
<1>5. \/ /\ why = None /\ UNCHANGED <<tree, stash, paused, unmerged, aside, owed>>
         /\ Goes(r, [run[r] EXCEPT !.pc = "return", !.success = TRUE, !.left = Len(run[r].stashes)])
      \/ Goes(r, Ended(r, FALSE, TRUE, LastOf(run[r].stashes)))
      \/ Reads(r, Unfixable(r))
      \/ Reads(r, Ended(r, FALSE, TRUE, LastOf(run[r].stashes)))
      \/ why \in {"dirty", "untracked"} /\ Reads(r, push)
  <2> HIDE DEF push
  <2> QED
    BY Zenon DEF Try, push
<1>6. CASE /\ why = None /\ UNCHANGED <<tree, stash, paused, unmerged, aside, owed>>
           /\ Goes(r, [run[r] EXCEPT !.pc = "return", !.success = TRUE, !.left = Len(run[r].stashes)])
  <2>1. q = [m EXCEPT !.pc = "return", !.success = TRUE, !.left = Len(m.stashes)]
    BY <1>0, <1>1, <1>6, CopyGoesOn
  <2>2. /\ CopySame(q, m) /\ q.pc = "return" /\ q.undo = m.undo /\ q.left = Len(m.stashes) /\ q.stashes = m.stashes
        /\ q.locked = m.locked
    BY <2>1, <1>3, CopyWent
  <2>3. paused = None /\ stash' = stash /\ tree' = tree /\ paused' = paused
    BY <1>6, CopyRefusal, WorkAssumption DEF Errors
  <2>4. q.alone = TRUE => CopyFixing(r, q, content'[head'], stash', tree', paused')
    BY <2>2, <2>3, <1>4 DEF CopyFixing, CopySame
  <2>5. ~(q.alone = TRUE /\ q.locked = TRUE)
    BY <2>2, <1>4 DEF CopySame
  <2> QED
    BY <1>0, <1>1, <1>2, <2>2, <2>4, <2>5, CopyToFix
<1>7. CASE Goes(r, Ended(r, FALSE, TRUE, LastOf(run[r].stashes))) \/ Reads(r, Ended(r, FALSE, TRUE, LastOf(run[r].stashes)))
  BY <1>0, <1>2, <1>7, CopyStops, CopyGoesOn, CopyReads
<1>8. CASE Reads(r, Unfixable(r))
  BY <1>0, <1>2, <1>8, CopyReads, CopyUnfixable
<1>9. CASE why \in {"dirty", "untracked"} /\ Reads(r, push)
  <2>1. q = [m EXCEPT !.pc = "push", !.err = why, !.blockers = InWay(Loose, content[head], Goal(r))] /\ UNCHANGED repo
    BY <1>0, <1>1, <1>2, <1>9, CopyReads
  <2>2. InWay(Loose, content[head], Goal(r)) \in SUBSET Work
    BY DEF InWay, Loose, CopyFrom, CopyRepo, CopyTypes
  <2>3. /\ CopySame(q, m) /\ q.pc = "push" /\ q.undo = m.undo /\ q.err = why /\ q.blockers = InWay(Loose, content[head], Goal(r))
        /\ q.stashes = m.stashes /\ q.locked = m.locked
    <3>1. PICK b : b = InWay(Loose, content[head], Goal(r))
      OBVIOUS
    <3>2. PICK y : y = why
      OBVIOUS
    <3> HIDE DEF why, push
    <3>3. b \in SUBSET Work /\ y \in {"dirty", "untracked"}
      BY <2>2, <1>9, <3>1, <3>2
    <3>4. q = [m EXCEPT !.pc = "push", !.err = y, !.blockers = b]
      BY <2>1, <3>1, <3>2
    <3>5. CopySame(q, m) /\ q.pc = "push" /\ q.undo = m.undo /\ q.err = y /\ q.blockers = b
          /\ q.stashes = m.stashes /\ q.locked = m.locked
      BY <3>3, <3>4, <1>3 DEF RunRec, CopySame, Errors
    <3> QED
      BY <3>1, <3>2, <3>5
  <2>4. paused = None /\ CopyBlocking(q, tree) # {}
    <3>1. CASE why = "dirty"
      BY <3>1, <2>3, CopyRefusal DEF CopyBlocking, Dirty
    <3>2. CASE why = "untracked"
      <4>1. Refusal(content[head], Goal(r)) = "untracked"
        BY <3>2
      <4>2. paused = None /\ InWay(Loose, content[head], Goal(r)) # {}
        BY <4>1, CopyRefusal
      <4>3. q.err # "dirty" /\ q.blockers = InWay(Loose, content[head], Goal(r))
        BY <3>2, <2>3
      <4> QED
        BY <4>2, <4>3 DEF CopyBlocking, InWay, Loose
    <3> QED
      BY <1>9, <3>1, <3>2
  <2>5. content'[head'] = content[head] /\ stash' = stash /\ tree' = tree /\ paused' = paused
    BY <2>1 DEF repo
  <2>6. q.alone = TRUE => CopyFixing(r, q, content'[head'], stash', tree', paused')
    <3> HIDE DEF why, push
    <3> QED
      BY <2>3, <2>4, <2>5, <1>4 DEF CopyFixing, CopySame
  <2>7. ~(q.alone = TRUE /\ q.locked = TRUE)
    BY <2>3, <1>4 DEF CopySame
  <2>8. q.err \in {"dirty", "untracked"}
    BY <2>3, <1>9
  <2> HIDE DEF why
  <2> QED
    BY <1>0, <1>1, <1>2, <2>3, <2>6, <2>7, <2>8, CopyToFix
<1> HIDE DEF why, push
<1> QED
  BY <1>5, <1>6, <1>7, <1>8, <1>9

\* An operation that ends with nothing of its own left, or that names what it kept.
LEMMA CopyFinal ==
  ASSUME NEW r \in Runs, CopyFrom(r), run[r].pc \in {"try", "push", "return", "pop", "verify"}, run[r].kind \in FixKinds,
         NEW ok \in BOOLEAN, NEW conflict \in BOOLEAN, NEW kept \in CopyKept,
         run'[r] = Ended(r, ok, conflict, kept),
         run[r].alone = TRUE /\ kept = None => CopyMine(r, run[r].had, 0, stash', tree')
  PROVE  CopyTo(r)
<1>0. PICK m : m = run[r]
  OBVIOUS
<1>1. PICK q : q = run'[r]
  OBVIOUS
<1>2. m.pc \in {"try", "push", "return", "pop", "verify"} /\ m.kind \in FixKinds
  BY <1>0
<1>3. m \in RunRec
  BY <1>0, <1>2, CopyFromFix
<1>4. q = [m EXCEPT !.pc = "done", !.success = ok, !.conflict = conflict, !.kept = kept]
  BY <1>0, <1>1 DEF Ended
<1>5. CopySame(q, m) /\ q.pc = "done" /\ q.kept = kept
  <2> DEFINE x == [m EXCEPT !.pc = "done", !.success = ok, !.conflict = conflict, !.kept = kept]
  <2>1. CopySame(x, m) /\ x.pc = "done" /\ x.kept = kept
    <3>1. CopySame(x, m)
      BY <1>3, CopyEnds, Zenon
    <3>2. x.pc = "done" /\ x.kept = kept
      BY <1>3 DEF RunRec
    <3> QED
      BY <3>1, <3>2
  <2> QED
    BY <1>4, <2>1, Zenon
<1>6. q.alone = TRUE => CopyFixing(r, q, content'[head'], stash', tree', paused')
  BY <1>0, <1>5 DEF CopyFixing, CopySame
<1> QED
  BY <1>0, <1>1, <1>2, <1>5, <1>6, CopyToFix

\* One stash of what is in the way.
LEMMA CopySetAside ==
  ASSUME NEW r \in Runs, CopyFrom(r), SetAside(r)
  PROVE  CopyTo(r)
<1> DEFINE items == IF run[r].err = "dirty" THEN Dirty ELSE Loose \cap run[r].blockers
<1>0. PICK m : m = run[r]
  OBVIOUS
<1>1. PICK q : q = run'[r]
  OBVIOUS
<1>2. m.pc = "push" /\ m.kind \in FixKinds /\ run \in [Runs -> RunRec]
  BY <1>0 DEF CopyFrom, CopyRec, SetAside
<1>3. /\ m \in RunRec /\ Len(m.stashes) \in Nat /\ m.err \in {"dirty", "untracked"}
      /\ m.alone = TRUE => m.locked = FALSE /\ CopyFixing(r, m, content[head], stash, tree, paused)
  BY <1>0, <1>2, CopyFromFix
<1>4. m.alone = TRUE => /\ CopyMine(r, m.had, Len(m.stashes), stash, tree) /\ CopyBased(Len(m.stashes), content[head], stash)
                        /\ CopyBlocking(m, tree) # {} /\ m.locked = FALSE /\ m.undo = FALSE
  BY <1>2, <1>3 DEF CopyFixing
<1>5. items = CopyBlocking(m, tree)
  BY <1>0 DEF CopyBlocking, Dirty, Loose
<1>6. items \in SUBSET tree
  BY DEF Dirty, Loose
<1>7. CASE /\ Push(items, r) /\ UNCHANGED <<content, head, paused, unmerged, aside, owed>>
           /\ Goes(r, [run[r] EXCEPT !.pc = "try", !.stashes = Append(run[r].stashes, run[r].err)])
  <2>1. q = [m EXCEPT !.pc = "try", !.stashes = Append(m.stashes, m.err)]
    BY <1>0, <1>1, <1>7, CopyGoesOn
  <2>2. CopySame(q, m) /\ q.pc = "try" /\ q.undo = m.undo /\ q.locked = m.locked /\ Len(q.stashes) = Len(m.stashes) + 1
    BY <2>1, <1>3, CopyAppends
  <2>3. paused = None /\ tree' = tree \ items /\ stash' = Entries(items, r) \o stash
    BY <1>7 DEF Push
  <2>4. paused' = None /\ content'[head'] = content[head]
    BY <1>7, <2>3
  <2>5. m.alone = TRUE => /\ CopyMine(r, m.had, Len(m.stashes) + 1, stash', tree')
                          /\ CopyBased(Len(m.stashes) + 1, content[head], stash')
    <3> HIDE DEF items
    <3>1. CopyTypes
      BY DEF CopyFrom, CopyRepo
    <3> QED
      BY <3>1, <2>3, <1>3, <1>4, <1>5, <1>6, CopyMinePush
  <2>6. q.alone = TRUE => CopyFixing(r, q, content'[head'], stash', tree', paused')
    BY <2>2, <2>4, <2>5, <1>4 DEF CopyFixing, CopySame
  <2>7. ~(q.alone = TRUE /\ q.locked = TRUE)
    BY <2>2, <1>4 DEF CopySame
  <2> QED
    BY <1>0, <1>1, <1>2, <2>2, <2>6, <2>7, CopyToFix
<1>8. CASE Reads(r, [Ended(r, FALSE, FALSE, None) EXCEPT !.locked = TRUE])
  <2> DEFINE e == [m EXCEPT !.pc = "done", !.success = FALSE, !.conflict = FALSE, !.kept = None]
  <2>1. q = [e EXCEPT !.locked = TRUE]
    BY <1>0, <1>1, <1>2, <1>8, CopyReads DEF Ended
  <2>2. CopySame(e, m) /\ e.pc = "done"
    BY <1>3, CopyEnds, Zenon DEF CopyKept
  <2> HIDE DEF e
  <2>3. CopySame(q, m) /\ q.pc = "done" /\ q.locked = TRUE
    BY <2>1, <2>2 DEF CopySame, RunRec
  <2> QED
    BY <1>0, <1>1, <1>2, <2>3, CopyToFix
<1> QED
  BY <1>7, <1>8 DEF SetAside

\* The operation succeeded.
LEMMA CopyReturn ==
  ASSUME NEW r \in Runs, CopyFrom(r), Return(r)
  PROVE  CopyTo(r)
<1>0. PICK m : m = run[r]
  OBVIOUS
<1>1. PICK q : q = run'[r]
  OBVIOUS
<1>2. m.pc = "return" /\ m.kind \in FixKinds /\ run \in [Runs -> RunRec]
  BY <1>0 DEF CopyFrom, CopyRec, Return
<1>3. /\ m \in RunRec /\ Len(m.stashes) \in Nat /\ m.left = Len(m.stashes)
      /\ m.alone = TRUE => m.locked = FALSE /\ CopyFixing(r, m, content[head], stash, tree, paused)
  BY <1>0, <1>2, CopyFromFix
<1>4. m.alone = TRUE => /\ CopyMine(r, m.had, Len(m.stashes), stash, tree) /\ paused = None
                        /\ m.locked = FALSE /\ m.undo = FALSE
  BY <1>2, <1>3 DEF CopyFixing
<1>5. UNCHANGED repo /\ run'[r] = (IF run[r].stashes = <<>> THEN Ended(r, TRUE, FALSE, None)
                                   ELSE IF run[r].kind = "checkout" THEN Ended(r, TRUE, FALSE, LastOf(run[r].stashes))
                                   ELSE [run[r] EXCEPT !.pc = "pop"])
  BY <1>2, CopyReads, Zenon DEF Return
<1>6. content'[head'] = content[head] /\ stash' = stash /\ tree' = tree /\ paused' = paused
  BY <1>5 DEF repo
<1>7. CASE m.stashes = <<>>
  <2>1. run'[r] = Ended(r, TRUE, FALSE, None)
    BY <1>0, <1>5, <1>7
  <2>2. run[r].alone = TRUE => CopyMine(r, run[r].had, 0, stash', tree')
    BY <1>0, <1>4, <1>6, <1>7
  <2> QED
    BY <1>0, <1>2, <2>1, <2>2, CopyFinal, Zenon DEF CopyKept
<1>8. CASE m.stashes # <<>> /\ m.kind = "checkout"
  <2>1. run'[r] = Ended(r, TRUE, FALSE, LastOf(run[r].stashes))
    BY <1>0, <1>5, <1>8
  <2>2. LastOf(m.stashes) # None
    <3>1. m.stashes \in Seq({"dirty", "untracked"})
      BY <1>3 DEF RunRec
    <3>2. m.stashes[Len(m.stashes)] \in {"dirty", "untracked"}
      BY <3>1, <1>8
    <3>3. None \notin {"dirty", "untracked"}
      BY WorkAssumption DEF Errors
    <3> QED
      BY <3>2, <3>3, <1>8 DEF LastOf
  <2> QED
    BY <1>0, <1>2, <1>3, <2>1, <2>2, CopyFinal, CopyLast, Zenon
<1>9. CASE m.stashes # <<>> /\ m.kind # "checkout"
  <2>1. q = [m EXCEPT !.pc = "pop"]
    BY <1>0, <1>1, <1>5, <1>9
  <2>2. CopySame(q, m) /\ q.pc = "pop" /\ q.locked = m.locked /\ q.undo = m.undo /\ q.left = m.left /\ q.stashes = m.stashes
    BY <2>1, <1>3, CopyGoes
  <2>3. Len(m.stashes) # 0
    BY <1>9, <1>3 DEF RunRec
  <2>4. q.alone = TRUE => CopyFixing(r, q, content'[head'], stash', tree', paused')
    BY <2>2, <1>3, <1>4, <1>6 DEF CopyFixing, CopySame
  <2>5. ~(q.alone = TRUE /\ q.locked = TRUE)
    BY <2>2, <1>4 DEF CopySame
  <2>6. q.left \in 1..Len(q.stashes)
    BY <2>2, <2>3, <1>3
  <2> QED
    BY <1>0, <1>1, <1>2, <2>2, <2>4, <2>5, <2>6, CopyToFix
<1> QED
  BY <1>7, <1>8, <1>9

\* A pop takes the newest entry off whole, or leaves the list as it was.
LEMMA CopyTakes ==
  ASSUME Reapply(1, TRUE)
  PROVE  \/ tree' = tree \cup stash[1].items /\ stash' = Without(stash, 1) /\ UNCHANGED paused
         \/ stash' = stash
BY DEF Reapply

\* One pop of an operation that is fixed automatically.
LEMMA CopyPopFix ==
  ASSUME NEW r \in Runs, CopyFrom(r), Pop(r), run[r].kind \in FixKinds
  PROVE  CopyTo(r)
<1>0. PICK m : m = run[r]
  OBVIOUS
<1>1. PICK q : q = run'[r]
  OBVIOUS
<1>2. m.pc = "pop" /\ m.kind \in FixKinds
  BY <1>0 DEF Pop
<1>3. /\ m \in RunRec /\ Len(m.stashes) \in Nat /\ m.left \in 1..Len(m.stashes) /\ OneEach(m.had) /\ m.had \in SUBSET Work
      /\ m.alone = TRUE => m.locked = FALSE /\ CopyFixing(r, m, content[head], stash, tree, paused)
  BY <1>0, <1>2, CopyFromFix
<1>4. m.alone = TRUE => /\ CopyMine(r, m.had, m.left, stash, tree) /\ paused = None /\ m.locked = FALSE
                        /\ m.undo = TRUE => CopyBased(m.left, content[head], stash)
  BY <1>2, <1>3 DEF CopyFixing
<1>5. CopyTypes /\ Len(stash) \in Nat /\ stash \in Seq(Entry) /\ tree \in SUBSET Work
  BY DEF CopyFrom, CopyRepo, CopyTypes
<1>6. Reapply(1, TRUE) /\ content'[head'] = content[head] /\ q = [m EXCEPT !.pc = "verify", !.before = Len(stash)]
  BY <1>0, <1>1, CopyGoesOn DEF Pop
<1>7. /\ CopySame(q, m) /\ q.pc = "verify" /\ q.locked = m.locked /\ q.undo = m.undo
      /\ q.left = m.left /\ q.stashes = m.stashes /\ q.before = Len(stash)
  BY <1>3, <1>5, <1>6, CopyPops
<1>8. m.undo = TRUE \/ m.undo = FALSE
  BY <1>3 DEF RunRec
<1>9. ASSUME m.alone = TRUE, tree' = tree \cup stash[1].items, stash' = Without(stash, 1), paused' = None
      PROVE  CopyFixing(r, q, content'[head'], stash', tree', paused')
  <2>1. m.left \in Nat \ {0}
    BY <1>3
  <2>2. /\ CopyMine(r, m.had, m.left - 1, stash', tree')
        /\ CopyBased(m.left, content[head], stash) => CopyBased(m.left - 1, content[head], stash')
        /\ Len(stash') = Len(stash) - 1
    BY <1>4, <1>5, <1>9, <2>1, CopyMinePop
  <2> QED
    BY <1>4, <1>6, <1>7, <1>9, <2>2 DEF CopyFixing, CopySame
<1>10. ASSUME m.alone = TRUE PROVE CopyFixing(r, q, content'[head'], stash', tree', paused')
  <2>1. CASE m.undo = TRUE
    <3>1. tree' = tree \cup stash[1].items /\ stash' = Without(stash, 1) /\ paused' = None
      <4>1. m.left \in Nat \ {0}
        BY <1>3
      <4> QED
        BY <1>3, <1>4, <1>5, <1>6, <1>10, <2>1, <4>1, CopyApplies
    <3> QED
      BY <1>9, <1>10, <3>1
  <2>2. CASE m.undo = FALSE
    <3>1. CASE stash' = stash
      BY <2>2, <3>1, <1>7 DEF CopyFixing
    <3>2. CASE tree' = tree \cup stash[1].items /\ stash' = Without(stash, 1) /\ UNCHANGED paused
      BY <3>2, <1>4, <1>9, <1>10
    <3> QED
      BY <3>1, <3>2, <1>6, CopyTakes
  <2> QED
    BY <1>8, <2>1, <2>2
<1>11. q.alone = TRUE => CopyFixing(r, q, content'[head'], stash', tree', paused')
  BY <1>7, <1>10 DEF CopySame
<1>12. ~(q.alone = TRUE /\ q.locked = TRUE) /\ q.left \in 1..Len(q.stashes)
  BY <1>3, <1>4, <1>7 DEF CopySame
<1> QED
  BY <1>0, <1>1, <1>2, <1>7, <1>11, <1>12, CopyToFix

\* What became of the pop.
LEMMA CopyVerify ==
  ASSUME NEW r \in Runs, CopyFrom(r), Verify(r)
  PROVE  CopyTo(r)
<1> DEFINE applied == paused # "stash" /\ Len(stash) < run[r].before
<1>0. PICK m : m = run[r]
  OBVIOUS
<1>1. PICK q : q = run'[r]
  OBVIOUS
<1>2. m.pc = "verify" /\ m.kind \in FixKinds /\ run \in [Runs -> RunRec]
  BY <1>0 DEF Verify, CopyFrom
<1>3. /\ m \in RunRec /\ Len(m.stashes) \in Nat /\ m.left \in 1..Len(m.stashes)
      /\ m.alone = TRUE => m.locked = FALSE /\ CopyFixing(r, m, content[head], stash, tree, paused)
  BY <1>0, <1>2, CopyFromFix
<1>4. m.alone = TRUE =>
        /\ m.locked = FALSE
        /\ \/ /\ CopyMine(r, m.had, m.left - 1, stash, tree) /\ Len(stash) = m.before - 1 /\ paused = None
              /\ m.undo = TRUE => CopyBased(m.left - 1, content[head], stash)
           \/ m.undo = FALSE /\ Len(stash) = m.before
  BY <1>2, <1>3 DEF CopyFixing
<1>5. m.before \in Nat /\ m.undo \in BOOLEAN /\ Len(stash) \in Nat
  <2>1. m.undo \in BOOLEAN
    BY <1>3 DEF RunRec
  <2>2. m.before \in Nat
    BY <1>3 DEF RunRec
  <2>3. Len(stash) \in Nat
    BY DEF CopyFrom, CopyRepo, CopyTypes
  <2> QED
    BY <2>1, <2>2, <2>3
<1>6. \/ applied /\ run[r].left > 1 /\ Reads(r, [run[r] EXCEPT !.pc = "pop", !.left = run[r].left - 1])
      \/ applied /\ run[r].left <= 1 /\ Reads(r, Ended(r, ~run[r].undo, FALSE, None))
      \/ ~applied /\ Reads(r, Ended(r, ~run[r].undo, paused = "stash" /\ ~run[r].undo,
                                    IF run[r].undo THEN None ELSE run[r].stashes[run[r].left]))
  BY DEF Verify
<1>7. ASSUME UNCHANGED repo
      PROVE  content'[head'] = content[head] /\ stash' = stash /\ tree' = tree /\ paused' = paused
  BY <1>7 DEF repo
<1>8. CASE applied /\ run[r].left > 1 /\ Reads(r, [run[r] EXCEPT !.pc = "pop", !.left = run[r].left - 1])
  <2>1. q = [m EXCEPT !.pc = "pop", !.left = m.left - 1] /\ UNCHANGED repo
    BY <1>0, <1>1, <1>2, <1>8, CopyReads
  <2>2. m.left > 1 /\ Len(stash) < m.before
    BY <1>0, <1>8
  <2>3. /\ CopySame(q, m) /\ q.pc = "pop" /\ q.locked = m.locked /\ q.undo = m.undo
        /\ q.left = m.left - 1 /\ q.stashes = m.stashes
    BY <1>3, <2>1, <2>2, CopyMore
  <2>4. m.alone = TRUE => /\ CopyMine(r, m.had, m.left - 1, stash, tree) /\ paused = None
                          /\ m.undo = TRUE => CopyBased(m.left - 1, content[head], stash)
    BY <1>4, <1>5, <2>2
  <2>5. q.alone = TRUE => CopyFixing(r, q, content'[head'], stash', tree', paused')
    BY <1>7, <2>1, <2>3, <2>4 DEF CopyFixing, CopySame
  <2>6. ~(q.alone = TRUE /\ q.locked = TRUE) /\ q.left \in 1..Len(q.stashes)
    BY <1>3, <1>4, <2>2, <2>3 DEF CopySame
  <2> QED
    BY <1>0, <1>1, <1>2, <2>3, <2>5, <2>6, CopyToFix
<1>9. CASE applied /\ run[r].left <= 1 /\ Reads(r, Ended(r, ~run[r].undo, FALSE, None))
  <2>1. run'[r] = Ended(r, ~run[r].undo, FALSE, None) /\ UNCHANGED repo
    BY <1>2, <1>9, CopyReads
  <2>2. m.left = 1 /\ Len(stash) < m.before
    BY <1>0, <1>3, <1>9
  <2>3. m.alone = TRUE => CopyMine(r, m.had, 0, stash, tree)
    BY <1>4, <1>5, <2>2
  <2>4. run[r].alone = TRUE => CopyMine(r, run[r].had, 0, stash', tree')
    BY <1>0, <1>7, <2>1, <2>3
  <2> QED
    BY <1>0, <1>2, <2>1, <2>4, CopyFinal, Zenon DEF CopyKept
<1>10. CASE ~applied /\ Reads(r, Ended(r, ~run[r].undo, paused = "stash" /\ ~run[r].undo,
                                      IF run[r].undo THEN None ELSE run[r].stashes[run[r].left]))
  <2> DEFINE kept == IF run[r].undo THEN None ELSE run[r].stashes[run[r].left]
  <2>1. run'[r] = Ended(r, ~run[r].undo, paused = "stash" /\ ~run[r].undo, kept) /\ UNCHANGED repo
    BY <1>2, <1>10, CopyReads, Zenon
  <2>2. m.stashes[m.left] \in {"dirty", "untracked"}
    BY <1>3 DEF RunRec
  <2>3. kept \in CopyKept
    BY <1>0, <2>2, Zenon DEF CopyKept
  <2>4. m.alone = TRUE => m.undo = FALSE
    <3>1. paused # "stash" => ~(Len(stash) < m.before)
      BY <1>0, <1>10
    <3>2. paused = None => paused # "stash"
      BY WorkAssumption DEF Ops
    <3> QED
      BY <1>4, <1>5, <3>1, <3>2
  <2>5. None \notin {"dirty", "untracked"}
    BY WorkAssumption DEF Errors
  <2>6. run[r].alone = TRUE => kept # None
    <3>1. m.undo = FALSE => kept = m.stashes[m.left]
      BY <1>0, Zenon
    <3> QED
      BY <1>0, <2>2, <2>4, <2>5, <3>1, Zenon
  <2> HIDE DEF kept
  <2>7. (~run[r].undo) \in BOOLEAN /\ (paused = "stash" /\ ~run[r].undo) \in BOOLEAN
    OBVIOUS
  <2> QED
    BY <1>0, <1>2, <2>1, <2>3, <2>6, <2>7, CopyFinal, Zenon
<1> HIDE DEF applied
<1> QED
  BY <1>6, <1>8, <1>9, <1>10

\* The same of the operations that put everything aside, and move the branch.
LEMMA CopyFromInto ==
  ASSUME NEW r \in Runs, CopyFrom(r), NEW m, m = run[r], m.kind \notin FixKinds,
         m.pc \in {"set-aside", "checkout", "merge", "restore-branch", "pop", "verify"}
  PROVE  /\ m \in RunRec /\ OneEach(m.had) /\ m.had \in SUBSET Work /\ {m.target, m.from} \subseteq Branches
         /\ m.stashed \in BOOLEAN /\ m.locked \in BOOLEAN
         /\ m.alone = TRUE => m.locked = FALSE \/ (m.pc = "restore-branch" /\ m.stashed = FALSE)
         /\ m.alone = TRUE /\ m.locked = FALSE /\ m.kind = "into" => CopyMerging(r, m, content, head, stash, tree, paused)
<1>1. CopyRec(m) /\ CopyAlone(r, m, content, head, stash, tree, paused)
  BY DEF CopyFrom
<1>2. m \in RunRec /\ m.locked \in BOOLEAN
  BY <1>1 DEF CopyRec, RunRec
<1>3. m.stashed \in BOOLEAN
  BY <1>2 DEF RunRec
<1>4. m.had \in SUBSET Work
  BY <1>2 DEF RunRec
<1>5. m.alone = TRUE => m.locked = FALSE \/ (m.pc = "restore-branch" /\ m.stashed = FALSE)
  BY <1>1, <1>2 DEF CopyAlone, CopyLocked
<1> QED
  BY <1>1, <1>2, <1>3, <1>4, <1>5 DEF CopyAlone, CopyRec

\* ... and what suffices of the record after the step.
LEMMA CopyToInto ==
  ASSUME NEW r \in Runs, CopyFrom(r), NEW m, m = run[r], m.pc \notin {"idle", "done"}, m.kind \notin FixKinds,
         NEW q, q = run'[r], CopySame(q, m),
         q.pc \in {"checkout", "merge", "restore-branch", "pop", "verify", "done"},
         q.alone = TRUE => CopyLocked(q),
         q.alone = TRUE /\ q.locked = FALSE /\ q.kind = "into" => CopyMerging(r, q, content', head', stash', tree', paused')
  PROVE  CopyTo(r)
<1>1. CopyRec(m)
  BY DEF CopyFrom
<1>2. CopyRec(q)
  BY <1>1 DEF CopyRec, CopySame
<1>3. q.kind \notin FixKinds
  BY DEF CopySame
<1>4. CopyAlone(r, q, content', head', stash', tree', paused')
  BY <1>3 DEF CopyAlone
<1> QED
  BY <1>2, <1>4 DEF CopyTo

\* Everything is stashed, or the stash fails.
LEMMA CopyStashAll ==
  ASSUME NEW r \in Runs, CopyFrom(r), StashAll(r)
  PROVE  CopyTo(r)
<1>0. PICK m : m = run[r]
  OBVIOUS
<1>1. PICK q : q = run'[r]
  OBVIOUS
<1>2. m.pc = "set-aside" /\ m.kind \notin FixKinds /\ run \in [Runs -> RunRec]
  BY <1>0 DEF CopyFrom, CopyRec, StashAll
<1>3. /\ m \in RunRec /\ m.had \in SUBSET Work /\ {m.target, m.from} \subseteq Branches
      /\ m.alone = TRUE => m.locked = FALSE
      /\ m.alone = TRUE /\ m.locked = FALSE /\ m.kind = "into" => CopyMerging(r, m, content, head, stash, tree, paused)
  BY <1>0, <1>2, CopyFromInto
<1>4. m.alone = TRUE /\ m.kind = "into" =>
        /\ CopyMine(r, m.had, 0, stash, tree) /\ m.stashed = FALSE /\ head = m.from /\ m.target # m.from /\ tree # {}
  BY <1>2, <1>3 DEF CopyMerging
<1>5. \/ /\ Push(tree, r) /\ UNCHANGED <<content, head, paused, unmerged, aside, owed>>
         /\ Goes(r, [run[r] EXCEPT !.pc = "checkout", !.stashed = TRUE])
      \/ Reads(r, [run[r] EXCEPT !.locked = TRUE, !.pc = IF run[r].kind = "into" THEN "restore-branch" ELSE "done"])
  BY DEF StashAll
<1>6. CASE /\ Push(tree, r) /\ UNCHANGED <<content, head, paused, unmerged, aside, owed>>
           /\ Goes(r, [run[r] EXCEPT !.pc = "checkout", !.stashed = TRUE])
  <2>1. q = [m EXCEPT !.pc = "checkout", !.stashed = TRUE]
    BY <1>0, <1>1, <1>6, CopyGoesOn
  <2>2. CopySame(q, m) /\ q.pc = "checkout" /\ q.locked = m.locked /\ q.stashed = TRUE
    BY <2>1, <1>3, CopyStashed
  <2>3. stash' = Entries(tree, r) \o stash /\ tree' = tree \ tree /\ content' = content /\ head' = head
    BY <1>6 DEF Push
  <2>4. ASSUME m.alone = TRUE, m.kind = "into"
        PROVE  /\ CopyMine(r, m.had, 1, stash', tree') /\ CopyBased(1, content[m.from], stash')
    <3>1. CopyTypes /\ 0 \in Nat /\ tree \in SUBSET tree /\ 0 + 1 = 1
      BY DEF CopyFrom, CopyRepo
    <3>2. CopyBased(0, content[head], stash)
      BY DEF CopyBased
    <3>3. CopyMine(r, m.had, 0 + 1, stash', tree') /\ CopyBased(0 + 1, content[head], stash')
      BY <1>4, <2>3, <2>4, <3>1, <3>2, CopyMinePush
    <3> QED
      BY <1>4, <2>4, <3>1, <3>3
  <2>5. q.alone = TRUE /\ q.kind = "into" => CopyMerging(r, q, content', head', stash', tree', paused')
    BY <2>2, <2>3, <2>4, <1>4 DEF CopyMerging, CopySame
  <2>6. q.alone = TRUE => CopyLocked(q)
    BY <2>2, <1>3 DEF CopyLocked, CopySame
  <2> QED
    BY <1>0, <1>1, <1>2, <2>2, <2>5, <2>6, CopyToInto
<1>7. CASE Reads(r, [run[r] EXCEPT !.locked = TRUE, !.pc = IF run[r].kind = "into" THEN "restore-branch" ELSE "done"])
  <2>0. PICK p : p = IF m.kind = "into" THEN "restore-branch" ELSE "done"
    OBVIOUS
  <2>1. q = [m EXCEPT !.locked = TRUE, !.pc = p]
    BY <1>0, <1>1, <1>2, <1>7, <2>0, CopyReads
  <2>2. p \in {"restore-branch", "done"} /\ (p = "restore-branch" => m.kind = "into")
    BY <2>0
  <2>3. CopySame(q, m) /\ q.pc = p /\ q.locked = TRUE /\ q.stashed = m.stashed
    BY <2>1, <2>2, <1>3, CopyLocks
  <2>4. q.alone = TRUE => CopyLocked(q)
    BY <2>2, <2>3, <1>4 DEF CopyLocked, CopySame
  <2> QED
    BY <1>0, <1>1, <1>2, <2>2, <2>3, <2>4, CopyToInto
<1> QED
  BY <1>5, <1>6, <1>7

\* The target is checked out, or it is refused.
LEMMA CopyCheckout ==
  ASSUME NEW r \in Runs, CopyFrom(r), CheckoutTarget(r)
  PROVE  CopyTo(r)
<1> DEFINE there == [run[r] EXCEPT !.success = (run[r].kind = "switch")]
<1>0. PICK m : m = run[r]
  OBVIOUS
<1>1. PICK q : q = run'[r]
  OBVIOUS
<1>2. m.pc = "checkout" /\ m.kind \notin FixKinds /\ run \in [Runs -> RunRec]
  BY <1>0 DEF CopyFrom, CopyRec, CheckoutTarget
<1>3. /\ m \in RunRec /\ m.stashed \in BOOLEAN
      /\ m.alone = TRUE => m.locked = FALSE
      /\ m.alone = TRUE /\ m.locked = FALSE /\ m.kind = "into" => CopyMerging(r, m, content, head, stash, tree, paused)
  BY <1>0, <1>2, CopyFromInto
<1>4. m.alone = TRUE /\ m.kind = "into" =>
        /\ CopyMine(r, m.had, IF m.stashed = TRUE THEN 1 ELSE 0, stash, tree)
        /\ CopyBased(IF m.stashed = TRUE THEN 1 ELSE 0, content[m.from], stash)
        /\ head = m.from /\ m.target # m.from /\ tree = {}
  BY <1>2, <1>3 DEF CopyMerging
<1>5. \/ /\ head' = run[r].target /\ UNCHANGED <<content, tree, stash, paused>>
         /\ Goes(r, IF run[r].kind = "into" THEN [there EXCEPT !.pc = "merge"]
                    ELSE [there EXCEPT !.pc = "done", !.kept = "all"])
      \/ Reads(r, IF run[r].kind = "into" THEN [run[r] EXCEPT !.pc = "restore-branch"] ELSE Finish(run[r]))
  BY DEF CheckoutTarget
<1>6. CASE /\ head' = run[r].target /\ UNCHANGED <<content, tree, stash, paused>>
           /\ Goes(r, IF run[r].kind = "into" THEN [there EXCEPT !.pc = "merge"]
                      ELSE [there EXCEPT !.pc = "done", !.kept = "all"])
  <2>1. PICK x : x = [m EXCEPT !.success = (m.kind = "switch")]
    OBVIOUS
  <2>2. q = IF m.kind = "into" THEN [x EXCEPT !.pc = "merge"] ELSE [x EXCEPT !.pc = "done", !.kept = "all"]
    BY <1>0, <1>1, <1>6, <2>1, CopyGoesOn
  <2>3. CopySame(x, m) /\ x.pc = m.pc /\ x.locked = m.locked /\ x.stashed = m.stashed
    <3>1. (m.kind = "switch") \in BOOLEAN
      OBVIOUS
    <3> QED
      BY <3>1, <2>1, <1>3 DEF RunRec, CopySame
  <2>4. CopySame(q, m) /\ q.locked = m.locked /\ q.stashed = m.stashed /\ q.pc = IF m.kind = "into" THEN "merge" ELSE "done"
    <3>1. CASE m.kind = "into"
      BY <2>2, <2>3, <3>1 DEF RunRec, CopySame
    <3>2. CASE m.kind # "into"
      BY <2>2, <2>3, <3>2 DEF RunRec, CopySame
    <3> QED
      BY <3>1, <3>2
  <2>5. q.alone = TRUE /\ q.kind = "into" => CopyMerging(r, q, content', head', stash', tree', paused')
    BY <1>0, <1>4, <1>6, <2>4 DEF CopyMerging, CopySame
  <2>6. q.alone = TRUE => CopyLocked(q)
    BY <2>4, <1>3 DEF CopyLocked, CopySame
  <2> QED
    BY <1>0, <1>1, <1>2, <2>4, <2>5, <2>6, CopyToInto
<1>7. CASE Reads(r, IF run[r].kind = "into" THEN [run[r] EXCEPT !.pc = "restore-branch"] ELSE Finish(run[r]))
  <2>1. PICK p : p = IF m.kind = "into" THEN "restore-branch" ELSE IF m.stashed THEN "pop" ELSE "done"
    OBVIOUS
  <2>2. q = [m EXCEPT !.pc = p] /\ UNCHANGED repo
    BY <1>0, <1>1, <1>2, <1>7, <2>1, CopyReads DEF Finish
  <2>3. p \in {"pop", "merge", "restore-branch", "done"} /\ (m.kind = "into" => p = "restore-branch")
    BY <2>1
  <2>4. CopySame(q, m) /\ q.pc = p /\ q.locked = m.locked /\ q.stashed = m.stashed
    BY <2>2, <2>3, <1>3, CopyGoes
  <2>5. content' = content /\ head' = head /\ stash' = stash /\ tree' = tree /\ paused' = paused
    BY <2>2 DEF repo
  <2>6. q.alone = TRUE /\ q.kind = "into" => CopyMerging(r, q, content', head', stash', tree', paused')
    BY <1>4, <2>3, <2>4, <2>5 DEF CopyMerging, CopySame
  <2>7. q.alone = TRUE => CopyLocked(q)
    BY <2>4, <1>3 DEF CopyLocked, CopySame
  <2> QED
    BY <1>0, <1>1, <1>2, <2>3, <2>4, <2>6, <2>7, CopyToInto
<1> HIDE DEF there
<1> QED
  BY <1>5, <1>6, <1>7

\* The source is merged, stops on conflicts or is refused.
LEMMA CopyMerge ==
  ASSUME NEW r \in Runs, CopyFrom(r), MergeSource(r)
  PROVE  CopyTo(r)
<1> DEFINE goal == content[head] \cup content[run[r].from]
<1>0. PICK m : m = run[r]
  OBVIOUS
<1>1. PICK q : q = run'[r]
  OBVIOUS
<1>2. m.pc = "merge" /\ m.kind \notin FixKinds /\ run \in [Runs -> RunRec]
  BY <1>0 DEF CopyFrom, CopyRec, MergeSource
<1>3. /\ m \in RunRec /\ m.from \in Branches
      /\ m.alone = TRUE => m.locked = FALSE
      /\ m.alone = TRUE /\ m.locked = FALSE /\ m.kind = "into" => CopyMerging(r, m, content, head, stash, tree, paused)
  BY <1>0, <1>2, CopyFromInto
<1>4. m.alone = TRUE /\ m.kind = "into" =>
        /\ CopyMine(r, m.had, IF m.stashed = TRUE THEN 1 ELSE 0, stash, tree)
        /\ CopyBased(IF m.stashed = TRUE THEN 1 ELSE 0, content[m.from], stash)
        /\ head = m.target /\ m.target # m.from /\ tree = {}
  BY <1>2, <1>3 DEF CopyMerging
<1>5. \/ /\ content' = [content EXCEPT ![head] = goal] /\ UNCHANGED <<tree, stash>>
         /\ Goes(r, [run[r] EXCEPT !.pc = "restore-branch", !.success = TRUE])
      \/ /\ UNCHANGED <<content, tree, stash>>
         /\ Goes(r, [run[r] EXCEPT !.pc = "restore-branch"])
      \/ Reads(r, [run[r] EXCEPT !.pc = "restore-branch"])
  BY DEF MergeSource
<1>6. /\ CopySame(q, m) /\ q.pc = "restore-branch" /\ q.locked = m.locked /\ q.stashed = m.stashed
      /\ tree' = tree /\ stash' = stash
      /\ content' = content \/ content' = [content EXCEPT ![head] = goal]
  <2>1. CASE /\ content' = [content EXCEPT ![head] = goal] /\ UNCHANGED <<tree, stash>>
             /\ Goes(r, [run[r] EXCEPT !.pc = "restore-branch", !.success = TRUE])
    <3>1. q = [m EXCEPT !.pc = "restore-branch", !.success = TRUE]
      BY <1>0, <1>1, <2>1, CopyGoesOn
    <3>2. CopySame(q, m) /\ q.pc = "restore-branch" /\ q.locked = m.locked /\ q.stashed = m.stashed
      BY <3>1, <1>3 DEF CopySame, RunRec
    <3> HIDE DEF goal
    <3> QED
      BY <2>1, <3>2
  <2>2. CASE UNCHANGED <<content, tree, stash>> /\ Goes(r, [run[r] EXCEPT !.pc = "restore-branch"])
    <3>1. q = [m EXCEPT !.pc = "restore-branch"]
      BY <1>0, <1>1, <2>2, CopyGoesOn
    <3> QED
      BY <2>2, <3>1, <1>3, CopyGoes
  <2>3. CASE Reads(r, [run[r] EXCEPT !.pc = "restore-branch"])
    <3>1. q = [m EXCEPT !.pc = "restore-branch"] /\ UNCHANGED repo
      BY <1>0, <1>1, <1>2, <2>3, CopyReads
    <3>2. UNCHANGED <<content, tree, stash>>
      BY <3>1 DEF repo
    <3> QED
      BY <3>1, <3>2, <1>3, CopyGoes
  <2> HIDE DEF goal
  <2> QED
    BY <1>5, <2>1, <2>2, <2>3
<1>7. m.alone = TRUE /\ m.kind = "into" => content'[m.from] = content[m.from]
  BY <1>3, <1>4, <1>6 DEF CopyFrom, CopyRepo, CopyTypes
<1>8. q.alone = TRUE /\ q.kind = "into" => CopyMerging(r, q, content', head', stash', tree', paused')
  <2> HIDE DEF goal
  <2> QED
    BY <1>4, <1>6, <1>7 DEF CopyMerging, CopySame
<1>9. q.alone = TRUE => CopyLocked(q)
  BY <1>3, <1>6 DEF CopyLocked, CopySame
<1> QED
  BY <1>0, <1>1, <1>2, <1>6, <1>8, <1>9, CopyToInto

\* A clean tree is in nobody's way.
LEMMA CopyClean ==
  ASSUME NEW X, NEW Y, tree = {}, Refusal(X, Y) # None
  PROVE  paused # None
BY DEF Refusal, InWay, Dirty, Loose

\* The original branch is checked out, or the conflicts are in the way.
LEMMA CopyRestore ==
  ASSUME NEW r \in Runs, CopyFrom(r), RestoreBranch(r)
  PROVE  CopyTo(r)
<1>0. PICK m : m = run[r]
  OBVIOUS
<1>1. PICK q : q = run'[r]
  OBVIOUS
<1>2. m.pc = "restore-branch" /\ m.kind \notin FixKinds /\ run \in [Runs -> RunRec]
  BY <1>0 DEF CopyFrom, CopyRec, RestoreBranch
<1>3. /\ m \in RunRec /\ m.stashed \in BOOLEAN /\ m.locked \in BOOLEAN
      /\ m.alone = TRUE => m.locked = FALSE \/ m.stashed = FALSE
      /\ m.alone = TRUE /\ m.locked = FALSE /\ m.kind = "into" => CopyMerging(r, m, content, head, stash, tree, paused)
  BY <1>0, <1>2, CopyFromInto
<1>4. m.alone = TRUE /\ m.locked = FALSE /\ m.kind = "into" =>
        /\ CopyMine(r, m.had, IF m.stashed = TRUE THEN 1 ELSE 0, stash, tree)
        /\ CopyBased(IF m.stashed = TRUE THEN 1 ELSE 0, content[m.from], stash)
        /\ m.target # m.from /\ tree = {}
  BY <1>2, <1>3 DEF CopyMerging
<1>5. PICK x : x = [m EXCEPT !.success = FALSE]
  OBVIOUS
<1>6. \/ /\ Refusal(content[head], content[run[r].from]) = None /\ head' = run[r].from
         /\ UNCHANGED <<content, tree, stash, paused>> /\ Goes(r, Finish(run[r]))
      \/ Refusal(content[head], content[run[r].from]) # None /\ Reads(r, Finish([run[r] EXCEPT !.success = FALSE]))
  BY DEF RestoreBranch
<1>7. /\ content' = content /\ tree' = tree /\ stash' = stash /\ paused' = paused
      /\ q = Finish(m) \/ q = Finish(x)
      /\ head' = m.from \/ Refusal(content[head], content[m.from]) # None
  <2>1. CASE /\ Refusal(content[head], content[run[r].from]) = None /\ head' = run[r].from
             /\ UNCHANGED <<content, tree, stash, paused>> /\ Goes(r, Finish(run[r]))
    BY <1>0, <1>1, <2>1, CopyGoesOn
  <2>2. CASE Refusal(content[head], content[run[r].from]) # None /\ Reads(r, Finish([run[r] EXCEPT !.success = FALSE]))
    <3>1. q = Finish(x) /\ UNCHANGED repo
      BY <1>0, <1>1, <1>2, <1>5, <2>2, CopyReads
    <3>2. UNCHANGED <<content, tree, stash, paused>>
      BY <3>1 DEF repo
    <3> QED
      BY <1>0, <2>2, <3>1, <3>2
  <2> QED
    BY <1>6, <2>1, <2>2
<1>8. PICK p : p = IF m.stashed = TRUE THEN "pop" ELSE "done"
  OBVIOUS
<1>9. CopySame(q, m) /\ q.pc = p /\ q.locked = m.locked /\ q.stashed = m.stashed
  <2>1. CopySame(x, m) /\ x.locked = m.locked /\ x.stashed = m.stashed
    BY <1>3, <1>5 DEF CopySame, RunRec
  <2>2. ASSUME NEW y, CopySame(y, m), y.locked = m.locked, y.stashed = m.stashed, q = Finish(y)
        PROVE  CopySame(q, m) /\ q.pc = p /\ q.locked = m.locked /\ q.stashed = m.stashed
    <3>1. q = [y EXCEPT !.pc = p]
      BY <2>2, <1>3, <1>8 DEF Finish
    <3>2. p \in {"pop", "merge", "restore-branch", "done"} /\ y \in RunRec
      BY <1>8, <2>2 DEF CopySame
    <3>3. CopySame(q, y) /\ q.pc = p /\ q.locked = y.locked /\ q.stashed = y.stashed
      BY <3>1, <3>2, CopyGoes
    <3> QED
      BY <2>2, <3>3 DEF CopySame
  <2>3. CopySame(m, m)
    BY <1>3 DEF CopySame
  <2> QED
    BY <1>7, <2>1, <2>2, <2>3
<1>10. m.alone = TRUE /\ m.locked = FALSE /\ m.kind = "into" /\ paused = None => head' = m.from
  BY <1>4, <1>7, CopyClean
<1>11. q.alone = TRUE /\ q.locked = FALSE /\ q.kind = "into" => CopyMerging(r, q, content', head', stash', tree', paused')
  BY <1>4, <1>7, <1>8, <1>9, <1>10 DEF CopyMerging, CopySame
<1>12. q.alone = TRUE => CopyLocked(q)
  BY <1>3, <1>8, <1>9 DEF CopyLocked, CopySame
<1>13. p \in {"pop", "done"}
  BY <1>8
<1> QED
  BY <1>0, <1>1, <1>2, <1>9, <1>11, <1>12, <1>13, CopyToInto

\* The pop of the merge.
LEMMA CopyPopInto ==
  ASSUME NEW r \in Runs, CopyFrom(r), Pop(r), run[r].kind \notin FixKinds
  PROVE  CopyTo(r)
<1>0. PICK m : m = run[r]
  OBVIOUS
<1>1. PICK q : q = run'[r]
  OBVIOUS
<1>2. m.pc = "pop" /\ m.kind \notin FixKinds
  BY <1>0 DEF Pop
<1>3. /\ m \in RunRec /\ OneEach(m.had) /\ m.had \in SUBSET Work
      /\ m.alone = TRUE => m.locked = FALSE
      /\ m.alone = TRUE /\ m.locked = FALSE /\ m.kind = "into" => CopyMerging(r, m, content, head, stash, tree, paused)
  BY <1>0, <1>2, CopyFromInto
<1>4. m.alone = TRUE /\ m.kind = "into" =>
        /\ CopyMine(r, m.had, 1, stash, tree) /\ CopyBased(1, content[m.from], stash)
        /\ m.target # m.from /\ (paused = None => head = m.from)
  BY <1>2, <1>3 DEF CopyMerging
<1>5. CopyTypes /\ Len(stash) \in Nat /\ stash \in Seq(Entry) /\ tree \in SUBSET Work
  BY DEF CopyFrom, CopyRepo, CopyTypes
<1>6. Reapply(1, TRUE) /\ head' = head /\ q = [m EXCEPT !.pc = "verify", !.before = Len(stash)]
  BY <1>0, <1>1, CopyGoesOn DEF Pop
<1>7. CopySame(q, m) /\ q.pc = "verify" /\ q.locked = m.locked
  BY <1>3, <1>5, <1>6, CopyPops
<1>8. ASSUME m.alone = TRUE, m.kind = "into", paused' = None PROVE CopyMine(r, m.had, 0, stash', tree') /\ head' = m.from
  <2>1. paused = None
    BY <1>6, <1>8 DEF Reapply
  <2>2. 1 \in Nat \ {0} /\ 1 - 1 = 0
    OBVIOUS
  <2>3. tree' = tree \cup stash[1].items /\ stash' = Without(stash, 1)
    BY <1>3, <1>4, <1>5, <1>6, <1>8, <2>1, <2>2, CopyApplies
  <2>4. CopyMine(r, m.had, 1 - 1, stash', tree')
    BY <1>4, <1>5, <1>8, <2>2, <2>3, CopyMinePop
  <2> QED
    BY <1>4, <1>6, <1>8, <2>1, <2>2, <2>4
<1>9. q.alone = TRUE /\ q.kind = "into" => CopyMerging(r, q, content', head', stash', tree', paused')
  BY <1>4, <1>7, <1>8 DEF CopyMerging, CopySame
<1>10. q.alone = TRUE => CopyLocked(q)
  BY <1>3, <1>7 DEF CopyLocked, CopySame
<1> QED
  BY <1>0, <1>1, <1>2, <1>7, <1>9, <1>10, CopyToInto

\* ... and the end of it.
LEMMA CopyPopDone ==
  ASSUME NEW r \in Runs, CopyFrom(r), PopDone(r)
  PROVE  CopyTo(r)
<1>0. PICK m : m = run[r]
  OBVIOUS
<1>1. PICK q : q = run'[r]
  OBVIOUS
<1>2. m.pc = "verify" /\ m.kind \notin FixKinds /\ run \in [Runs -> RunRec]
  BY <1>0 DEF CopyFrom, PopDone
<1>3. /\ m \in RunRec
      /\ m.alone = TRUE => m.locked = FALSE
      /\ m.alone = TRUE /\ m.locked = FALSE /\ m.kind = "into" => CopyMerging(r, m, content, head, stash, tree, paused)
  BY <1>0, <1>2, CopyFromInto
<1>4. m.alone = TRUE /\ m.kind = "into" => (paused = None => CopyMine(r, m.had, 0, stash, tree) /\ head = m.from)
  BY <1>2, <1>3 DEF CopyMerging
<1>5. q = [m EXCEPT !.pc = "done"] /\ UNCHANGED repo
  BY <1>0, <1>1, <1>2, CopyReads DEF PopDone
<1>6. CopySame(q, m) /\ q.pc = "done"
  BY <1>3, <1>5, CopyGoes
<1>7. content' = content /\ head' = head /\ stash' = stash /\ tree' = tree /\ paused' = paused
  BY <1>5 DEF repo
<1>8. q.alone = TRUE /\ q.kind = "into" => CopyMerging(r, q, content', head', stash', tree', paused')
  BY <1>4, <1>6, <1>7 DEF CopyMerging, CopySame
<1>9. q.alone = TRUE => CopyLocked(q)
  BY <1>6 DEF CopyLocked
<1> QED
  BY <1>0, <1>1, <1>2, <1>6, <1>8, <1>9, CopyToInto

\* An operation that starts finds the tree and the branch as they are.
LEMMA CopyStarts ==
  ASSUME NEW r \in Runs, CopyFrom(r), run[r].pc = "idle", UNCHANGED repo, NEW q, q = run'[r],
         q \in RunRec, q.had = tree, q.from = head, q.target \in Branches, q.stashes = <<>>, q.locked = FALSE,
         \/ q.pc = "try" /\ q.kind \in FixKinds /\ q.undo = FALSE
         \/ /\ q.pc = (IF tree = {} THEN "checkout" ELSE "set-aside") /\ q.kind = "into"
            /\ q.target # head /\ q.stashed = FALSE
         \/ q.pc = "set-aside" /\ q.kind = "switch"
  PROVE  CopyTo(r)
<1>1. OneEach(tree) /\ stash \in Seq(Entry) /\ head \in Branches
  BY DEF CopyFrom, CopyRepo, CopyApart, CopyTypes, OneEach
<1>2. CopyRec(q)
  BY <1>1 DEF CopyRec, FixKinds
<1>3. CopyMine(r, tree, 0, stash, tree) /\ \A c : CopyBased(0, c, stash)
  BY <1>1, CopyNoneMine DEF CopyFrom, CopyUnstarted
<1>4. content' = content /\ head' = head /\ stash' = stash /\ tree' = tree /\ paused' = paused
  BY DEF repo
<1>5. Len(q.stashes) = 0
  OBVIOUS
<1>6. q.kind \in FixKinds => CopyFixing(r, q, content'[head'], stash', tree', paused')
  BY <1>3, <1>4, <1>5 DEF CopyFixing, FixKinds
<1>7. q.kind = "into" => CopyMerging(r, q, content', head', stash', tree', paused')
  BY <1>3, <1>4 DEF CopyMerging, FixKinds
<1> QED
  BY <1>2, <1>6, <1>7 DEF CopyTo, CopyAlone, CopyLocked

CopyStart(r) == StartInto(r) \/ StartSwitch(r) \/ \E k \in FixKinds : StartFix(r, k)

\* Every start is one.
LEMMA CopyStarted ==
  ASSUME NEW r \in Runs, CopyFrom(r), CopyStart(r)
  PROVE  CopyTo(r) /\ UNCHANGED repo /\ \A o \in Runs : o # r => run'[o] = run[o]
<1>0. PICK q : q = run'[r]
  OBVIOUS
<1>1. run[r].pc = "idle" /\ run \in [Runs -> RunRec] /\ tree \in SUBSET Work /\ head \in Branches
  BY DEF CopyStart, CopyFrom, CopyRepo, CopyTypes, StartInto, StartSwitch, StartFix
<1>2. Idle \in RunRec /\ Idle.undo = FALSE /\ Idle.stashes = <<>> /\ Idle.locked = FALSE /\ Idle.stashed = FALSE
  BY CopyIdle
<1>3. ASSUME NEW k \in FixKinds, StartFix(r, k) PROVE CopyTo(r) /\ UNCHANGED repo /\ \A o \in Runs : o # r => run'[o] = run[o]
  <2>1. PICK t \in Branches, s \in SUBSET Files, on \in BOOLEAN :
          Reads(r, [Idle EXCEPT !.pc = "try", !.kind = k, !.target = t, !.src = s, !.enabled = on, !.had = tree, !.from = head])
    BY <1>1, <1>3, WorkAssumption DEF StartFix
  <2>2. /\ q = [Idle EXCEPT !.pc = "try", !.kind = k, !.target = t, !.src = s, !.enabled = on, !.had = tree, !.from = head]
        /\ UNCHANGED repo /\ \A o \in Runs : o # r => run'[o] = run[o]
    BY <1>0, <1>1, <2>1, CopyReads
  <2>3. PICK i : i = [Idle EXCEPT !.enabled = on]
    OBVIOUS
  <2>4. i \in RunRec /\ i.undo = FALSE /\ i.stashes = <<>> /\ i.locked = FALSE
    BY <1>2, <2>3 DEF RunRec
  <2>5. q = [i EXCEPT !.pc = "try", !.kind = k, !.target = t, !.src = s, !.had = tree, !.from = head]
    BY <2>2, <2>3, <1>2 DEF RunRec
  <2>6. /\ q \in RunRec /\ q.pc = "try" /\ q.kind = k /\ q.target = t /\ q.had = tree /\ q.from = head
        /\ q.undo = FALSE /\ q.stashes = <<>> /\ q.locked = FALSE
    BY <1>1, <2>4, <2>5 DEF RunRec
  <2> QED
    BY <1>0, <1>1, <2>2, <2>6, CopyStarts
<1>4. CASE StartInto(r)
  <2>1. PICK t \in Branches \ {head} :
          Reads(r, [Idle EXCEPT !.pc = IF tree = {} THEN "checkout" ELSE "set-aside",
                      !.kind = "into", !.target = t, !.had = tree, !.from = head])
    BY <1>4 DEF StartInto
  <2>2. PICK p : p = IF tree = {} THEN "checkout" ELSE "set-aside"
    OBVIOUS
  <2>3. /\ q = [Idle EXCEPT !.pc = p, !.kind = "into", !.target = t, !.had = tree, !.from = head]
        /\ UNCHANGED repo /\ \A o \in Runs : o # r => run'[o] = run[o]
    BY <1>0, <1>1, <2>1, <2>2, CopyReads
  <2>4. p \in {"checkout", "set-aside"}
    BY <2>2
  <2>5. /\ q \in RunRec /\ q.pc = p /\ q.kind = "into" /\ q.target = t /\ q.had = tree /\ q.from = head
        /\ q.stashes = <<>> /\ q.locked = FALSE /\ q.stashed = FALSE
    BY <1>1, <1>2, <2>3, <2>4 DEF RunRec
  <2> QED
    BY <1>0, <1>1, <2>2, <2>3, <2>5, CopyStarts
<1>5. CASE StartSwitch(r)
  <2>1. PICK t \in Branches \ {head} :
          Reads(r, [Idle EXCEPT !.pc = "set-aside", !.kind = "switch", !.target = t, !.had = tree, !.from = head])
    BY <1>5 DEF StartSwitch
  <2>2. /\ q = [Idle EXCEPT !.pc = "set-aside", !.kind = "switch", !.target = t, !.had = tree, !.from = head]
        /\ UNCHANGED repo /\ \A o \in Runs : o # r => run'[o] = run[o]
    BY <1>0, <1>1, <2>1, CopyReads
  <2>3. /\ q \in RunRec /\ q.pc = "set-aside" /\ q.kind = "switch" /\ q.target = t /\ q.had = tree /\ q.from = head
        /\ q.stashes = <<>> /\ q.locked = FALSE
    BY <1>1, <1>2, <2>2 DEF RunRec
  <2> QED
    BY <1>0, <1>1, <2>2, <2>3, CopyStarts
<1> QED
  BY <1>3, <1>4, <1>5 DEF CopyStart

\* A step of a run that has started.
LEMMA CopyActs ==
  ASSUME NEW r \in Runs, CopyFrom(r), RunStep(r)
  PROVE  CopyTo(r)
<1>1. CASE Pop(r)
  BY <1>1, CopyPopFix, CopyPopInto
<1> QED
  BY <1>1, CopyTry, CopySetAside, CopyReturn, CopyVerify, CopyStashAll, CopyCheckout, CopyMerge, CopyRestore, CopyPopDone
  DEF RunStep

\* What a step of one run does to the others: nothing, or they are no longer alone.
LEMMA CopyElse ==
  ASSUME NEW r \in Runs, run \in [Runs -> RunRec], RunStep(r)
  PROVE  /\ \/ UNCHANGED repo /\ \A o \in Runs : o # r => run'[o] = run[o]
            \/ others' = others /\ \A o \in Runs : o # r => run'[o] = Disturbed(run[o])
         /\ run' = [o \in Runs |-> run'[o]]
<1> DEFINE function == run' = [o \in Runs |-> run'[o]]
           quiet == UNCHANGED repo /\ (\A o \in Runs : o # r => run'[o] = run[o]) /\ function
           loud == others' = others /\ (\A o \in Runs : o # r => run'[o] = Disturbed(run[o])) /\ function
<1>1. ASSUME NEW x, Reads(r, x) PROVE quiet
  <2>1. function
    BY <1>1 DEF Reads
  <2> HIDE DEF function
  <2> QED
    BY <1>1, <2>1, CopyReads
<1>2. ASSUME NEW x, Goes(r, x) PROVE loud
  <2>1. function
    BY <1>2 DEF Goes
  <2> HIDE DEF function
  <2> QED
    BY <1>2, <2>1, CopyGoesOn
<1> SUFFICES quiet \/ loud
  OBVIOUS
<1> HIDE DEF quiet, loud
<1>3. CASE Try(r)
  BY <1>1, <1>2, <1>3, Zenon DEF Try
<1>4. CASE SetAside(r) \/ Return(r) \/ Pop(r)
  BY <1>1, <1>2, <1>4, Zenon DEF SetAside, Return, Pop
<1>5. CASE Verify(r) \/ PopDone(r)
  BY <1>1, <1>2, <1>5, Zenon DEF Verify, PopDone
<1>6. CASE StashAll(r) \/ CheckoutTarget(r)
  BY <1>1, <1>2, <1>6, Zenon DEF StashAll, CheckoutTarget
<1>7. CASE MergeSource(r) \/ RestoreBranch(r)
  BY <1>1, <1>2, <1>7, Zenon DEF MergeSource, RestoreBranch
<1> QED
  BY <1>3, <1>4, <1>5, <1>6, <1>7 DEF RunStep

----------------------------------------------------------------------------
\* The runs that do not act.

\* Who made the entries of the list.
CopyMadeBy(by) == \A j \in 1..Len(stash') : stash'[j].by = by \/ \E i \in 1..Len(stash) : stash'[j] = stash[i]

\* A push adds an entry of who pushes,
LEMMA CopyMadePush ==
  ASSUME NEW items \in SUBSET Work, NEW by \in Runs \cup {User}, CopyTypes, stash' = Entries(items, by) \o stash
  PROVE  CopyMadeBy(by)
<1>a. stash \in Seq(Entry) /\ Len(stash) \in Nat
  BY DEF CopyTypes
<1>1. /\ items = {} => stash' = stash
      /\ items # {} => /\ Len(stash') = Len(stash) + 1 /\ stash'[1].by = by
                       /\ \A i \in 1..Len(stash) : stash'[i + 1] = stash[i]
  BY CopyPushed
<1>2. CASE items = {}
  BY <1>1, <1>2 DEF CopyMadeBy
<1>3. CASE items # {}
  <2> SUFFICES ASSUME NEW j \in 1..Len(stash') PROVE stash'[j].by = by \/ \E i \in 1..Len(stash) : stash'[j] = stash[i]
    BY DEF CopyMadeBy
  <2>1. CASE j = 1
    BY <2>1, <1>1, <1>3
  <2>2. CASE j # 1
    <3>1. j - 1 \in 1..Len(stash) /\ stash'[j] = stash[j - 1]
      BY <2>2, <1>a, <1>1, <1>3
    <3> QED
      BY <3>1
  <2> QED
    BY <2>1, <2>2
<1> QED
  BY <1>2, <1>3

\* ... a drop and a pop add none.
LEMMA CopyMadeWithout ==
  ASSUME CopyTypes, NEW i \in 1..Len(stash), stash' = Without(stash, i), NEW by
  PROVE  CopyMadeBy(by)
<1>1. /\ stash \in Seq(Entry) /\ Len(stash') = Len(stash) - 1
      /\ \A j \in 1..Len(stash) - 1 : stash'[j] = IF j < i THEN stash[j] ELSE stash[j + 1]
  BY CopyWithout DEF CopyTypes
<1> SUFFICES ASSUME NEW j \in 1..Len(stash') PROVE \E k \in 1..Len(stash) : stash'[j] = stash[k]
  BY DEF CopyMadeBy
<1>2. CASE j < i
  BY <1>1, <1>2
<1>3. CASE ~(j < i)
  <2>1. j + 1 \in 1..Len(stash) /\ stash'[j] = stash[j + 1]
    BY <1>1, <1>3
  <2> QED
    BY <2>1
<1> QED
  BY <1>2, <1>3

\* A pop or an apply, of any entry.
LEMMA CopyMadeReapply ==
  ASSUME CopyTypes, NEW i \in Nat \ {0}, NEW drop, Reapply(i, drop), NEW by
  PROVE  CopyMadeBy(by)
<1>1. stash' = stash \/ (stash' = Without(stash, i) /\ ~(i > Len(stash)))
  BY DEF Reapply
<1>2. CASE stash' = stash
  BY <1>2 DEF CopyMadeBy
<1>3. CASE stash' = Without(stash, i) /\ ~(i > Len(stash))
  <2>1. i \in 1..Len(stash)
    BY <1>3 DEF CopyTypes
  <2> QED
    BY <1>3, <2>1, CopyMadeWithout
<1> QED
  BY <1>1, <1>2, <1>3

\* The entries a run adds are its own,
LEMMA CopyMadeRun ==
  ASSUME CopyTypes, NEW r \in Runs, RunStep(r)
  PROVE  CopyMadeBy(r)
<1>1. CASE stash' = stash
  BY <1>1 DEF CopyMadeBy
<1>2. CASE SetAside(r)
  <2>1. stash' = stash \/ \E items \in SUBSET tree : stash' = Entries(items, r) \o stash
    <3> DEFINE items == IF run[r].err = "dirty" THEN Dirty ELSE Loose \cap run[r].blockers
    <3>1. items \in SUBSET tree
      BY DEF Dirty, Loose
    <3>2. Push(items, r) \/ UNCHANGED repo
      BY <1>2 DEF SetAside, Reads
    <3>3. UNCHANGED repo => stash' = stash
      BY DEF repo
    <3> HIDE DEF items
    <3> QED
      BY <3>1, <3>2, <3>3 DEF Push
  <2> QED
    BY <2>1, <1>1, CopyMadePush DEF CopyTypes
<1>3. CASE StashAll(r)
  <2>1. Push(tree, r) \/ UNCHANGED repo
    BY <1>3 DEF StashAll, Reads
  <2>2. UNCHANGED repo => stash' = stash
    BY DEF repo
  <2> QED
    BY <2>1, <2>2, <1>1, CopyMadePush DEF CopyTypes, Push
<1>4. CASE Pop(r)
  <2>1. Reapply(1, TRUE)
    BY <1>4 DEF Pop
  <2>2. 1 \in Nat \ {0}
    OBVIOUS
  <2> QED
    BY <2>1, <2>2, CopyMadeReapply
<1>5. CASE Try(r) \/ Return(r) \/ Verify(r) \/ PopDone(r)
  <2>1. stash' = stash
    BY <1>5, Zenon DEF Try, Return, Verify, PopDone, Reads, repo
  <2> QED
    BY <2>1, <1>1
<1>6. CASE CheckoutTarget(r) \/ MergeSource(r) \/ RestoreBranch(r)
  <2>1. stash' = stash
    BY <1>6, Zenon DEF CheckoutTarget, MergeSource, RestoreBranch, Reads, repo
  <2> QED
    BY <2>1, <1>1
<1> QED
  BY <1>2, <1>3, <1>4, <1>5, <1>6 DEF RunStep

\* ... and those of everyone else are nobody's run.
LEMMA CopyMadeOthers ==
  ASSUME CopyTypes, Others \/ Rebase \/ ResetHard
  PROVE  CopyMadeBy(User)
<1>1. CASE stash' = stash
  BY <1>1 DEF CopyMadeBy
<1>2. CASE StashSave
  BY <1>2, CopyMadePush DEF StashSave, Push, CopyTypes
<1>3. ASSUME NEW i \in 1..Len(stash), StashPop(i) \/ StashApply(i) PROVE CopyMadeBy(User)
  <2>1. i \in Nat \ {0}
    BY DEF CopyTypes
  <2> QED
    BY <1>3, <2>1, CopyMadeReapply DEF StashPop, StashApply
<1>4. ASSUME NEW i \in 1..Len(stash), StashDrop(i) PROVE CopyMadeBy(User)
  BY <1>4, CopyMadeWithout DEF StashDrop
<1>5. CASE Rebase
  <2>1. stash' = stash \/ stash' = Entries(Dirty, User) \o stash
    BY <1>5 DEF Rebase
  <2>2. Dirty \in SUBSET Work
    BY DEF Dirty, CopyTypes
  <2> QED
    BY <2>1, <2>2, <1>1, CopyMadePush
<1>6. CASE OperationContinue
  <2>1. stash' = stash \/ stash' = Entries(aside, User) \o stash
    BY <1>6 DEF OperationContinue
  <2> QED
    BY <2>1, <1>1, CopyMadePush DEF CopyTypes
<1>7. CASE OperationAbort \/ Commit \/ ResetHard \/ \E w \in Work : Edit(w) \/ Discard(w)
  <2>1. stash' = stash
    BY <1>7 DEF OperationAbort, Commit, ResetHard, Edit, Discard
  <2> QED
    BY <2>1, <1>1
<1> QED
  BY <1>2, <1>3, <1>4, <1>5, <1>6, <1>7 DEF Others, Stashes, Operation

\* What one step does to a run that does not take it.
CopyOther(o) == CopyRec(run'[o]) /\ CopyUnstarted(run'[o], o, stash') /\ Alone(o)'

\* A run that another step disturbed,
LEMMA CopyBystander ==
  ASSUME CopyTypes, NEW o \in Runs, CopyRec(run[o]), CopyUnstarted(run[o], o, stash),
         run'[o] = Disturbed(run[o]), NEW by, by # o, CopyMadeBy(by)
  PROVE  CopyOther(o)
<1>1. PICK q : q = run'[o]
  OBVIOUS
<1>2. CopyRec(q) /\ q.alone = FALSE /\ q.pc = run[o].pc
  BY <1>1, CopyDisturbed
<1>3. CopyUnstarted(q, o, stash')
  BY <1>2 DEF CopyUnstarted, CopyMadeBy
<1>4. CopyAlone(o, q, content', head', stash', tree', paused')
  BY <1>2 DEF CopyAlone
<1> QED
  BY <1>1, <1>2, <1>3, <1>4, CopyAloneNext DEF CopyOther

\* ... one that a step left alone,
LEMMA CopyUntouched ==
  ASSUME NEW o \in Runs, CopyRec(run[o]), CopyUnstarted(run[o], o, stash), Alone(o), UNCHANGED repo, run'[o] = run[o]
  PROVE  CopyOther(o)
<1>1. content' = content /\ head' = head /\ stash' = stash /\ tree' = tree /\ paused' = paused
  BY DEF repo
<1>2. CopyAlone(o, run'[o], content', head', stash', tree', paused')
  BY <1>1, CopyAloneIs
<1>3. Alone(o)'
  BY <1>2, CopyAloneNext
<1> QED
  BY <1>1, <1>3 DEF CopyOther

\* ... and the one that took it.
LEMMA CopyActor ==
  ASSUME NEW r \in Runs, CopyTo(r)
  PROVE  CopyOther(r)
BY CopyAloneNext DEF CopyTo, CopyOther, CopyUnstarted

\* Inv, record by record.
LEMMA CopyInvIs ==
  Inv <=> /\ CopyRepo /\ run \in [Runs -> RunRec]
          /\ \A r \in Runs : CopyRec(run[r]) /\ CopyUnstarted(run[r], r, stash) /\ Alone(r)
BY CopyInv, CopyShape DEF CopyRec

\* The same after a step.
LEMMA CopyInvNext ==
  ASSUME CopyRepo', run' \in [Runs -> RunRec], \A r \in Runs : CopyOther(r)
  PROVE  Inv'
<1>1. \A r \in Runs : Shaped(r)' /\ OneEach(run'[r].had) /\ Alone(r)'
  BY DEF CopyOther, CopyRec, CopyUnstarted, Shaped
<1> QED
  BY <1>1 DEF Inv, TypeOK, CopyRepo, CopyTypes, CopyApart, Undivided

----------------------------------------------------------------------------
\* The invariant, and what follows from it.

\* At first there is nothing to lose.
LEMMA CopyInit == Init => Inv
<1> SUFFICES ASSUME Init PROVE Inv
  OBVIOUS
<1>1. CopyTypes
  <2>1. content \in [Branches -> SUBSET Files] /\ head \in Branches /\ tree \in SUBSET Work
    BY WorkAssumption DEF Init
  <2>2. stash \in Seq(Entry)
    BY DEF Init
  <2>3. others \in 0..MaxOthers /\ paused \in Ops \cup {None} /\ unmerged \in SUBSET Files
    BY WorkAssumption DEF Init
  <2>4. aside \in SUBSET Work /\ owed \in SUBSET Work
    BY DEF Init
  <2> QED
    BY <2>1, <2>2, <2>3, <2>4 DEF CopyTypes
<1>2. CopyRepo
  BY <1>1 DEF Init, CopyRepo, NothingLost, Held, CopyApart, OneEach
<1>3. ASSUME NEW r \in Runs PROVE CopyRec(run[r]) /\ CopyUnstarted(run[r], r, stash) /\ Alone(r)
  <2>1. run[r] = Idle /\ stash = <<>>
    BY DEF Init
  <2>2. Idle \in RunRec /\ Idle.had = {} /\ Idle.pc = "idle"
    BY CopyIdle
  <2>3. CopyRec(Idle)
    BY <2>2 DEF CopyRec, OneEach
  <2>4. Alone(r)
    BY <2>1, <2>2 DEF Alone
  <2> QED
    BY <2>1, <2>3, <2>4 DEF CopyUnstarted
<1>4. run \in [Runs -> RunRec]
  BY CopyIdle DEF Init
<1> QED
  BY <1>2, <1>3, <1>4, CopyInvIs

\* An operation of the service starts.
LEMMA CopyByStart ==
  ASSUME Inv, NEW r \in Runs, CopyStart(r)
  PROVE  Inv'
<1>1. /\ CopyRepo /\ run \in [Runs -> RunRec]
      /\ \A o \in Runs : CopyRec(run[o]) /\ CopyUnstarted(run[o], o, stash) /\ Alone(o)
  BY CopyInvIs
<1>2. CopyFrom(r)
  BY <1>1, CopyAloneIs DEF CopyFrom
<1>3. CopyTo(r) /\ UNCHANGED repo /\ \A o \in Runs : o # r => run'[o] = run[o]
  BY <1>2, CopyStarted
<1>4. \A o \in Runs : CopyOther(o)
  BY <1>1, <1>3, CopyUntouched, CopyActor
<1>5. CopyRepo'
  BY <1>1, <1>3 DEF repo, CopyRepo, CopyTypes, NothingLost, CopyApart, Held
<1>6. run' = [o \in Runs |-> run'[o]]
  BY <1>1 DEF CopyStart, StartFix, StartInto, StartSwitch, Reads
<1>7. \A o \in Runs : run'[o] \in RunRec
  BY <1>4 DEF CopyOther, CopyRec
<1>8. run' \in [Runs -> RunRec]
  BY <1>6, <1>7
<1> QED
  BY <1>4, <1>5, <1>8, CopyInvNext

\* A step of a run that has started.
LEMMA CopyByRun ==
  ASSUME Inv, NEW r \in Runs, RunStep(r)
  PROVE  Inv'
<1>1. /\ CopyRepo /\ run \in [Runs -> RunRec]
      /\ \A o \in Runs : CopyRec(run[o]) /\ CopyUnstarted(run[o], o, stash) /\ Alone(o)
  BY CopyInvIs
<1>2. CopyFrom(r)
  BY <1>1, CopyAloneIs DEF CopyFrom
<1>3. CopyTo(r)
  BY <1>2, CopyActs
<1>4. /\ \/ UNCHANGED repo /\ \A o \in Runs : o # r => run'[o] = run[o]
         \/ others' = others /\ \A o \in Runs : o # r => run'[o] = Disturbed(run[o])
      /\ run' = [o \in Runs |-> run'[o]]
  BY <1>1, CopyElse
<1>5. CopyMadeBy(r) /\ CopyTypes
  BY <1>1, CopyMadeRun DEF CopyRepo
<1>6. \A o \in Runs : CopyOther(o)
  BY <1>1, <1>3, <1>4, <1>5, CopyUntouched, CopyBystander, CopyActor
<1>7. CopyRepo'
  BY <1>1, CopyRuns DEF CopyRec
<1>8. \A o \in Runs : run'[o] \in RunRec
  BY <1>6 DEF CopyOther, CopyRec
<1>9. run' \in [Runs -> RunRec]
  BY <1>4, <1>8
<1> QED
  BY <1>6, <1>7, <1>9, CopyInvNext

\* A command of everyone else.
LEMMA CopyByOthers ==
  ASSUME Inv, Others \/ Rebase \/ ResetHard
  PROVE  Inv'
<1>1. /\ CopyRepo /\ run \in [Runs -> RunRec]
      /\ \A o \in Runs : CopyRec(run[o]) /\ CopyUnstarted(run[o], o, stash) /\ Alone(o)
  BY CopyInvIs
<1>2. Disturbs
  BY DEF Others, Rebase, ResetHard, Edit, Discard, Commit, Stashes, StashSave, StashPop, StashApply, StashDrop,
         Operation, OperationContinue, OperationAbort
<1>3. others' \in 0..MaxOthers /\ run' = [o \in Runs |-> Disturbed(run[o])]
  BY <1>1, <1>2, WorkAssumption DEF Disturbs, CopyRepo, CopyTypes
<1>4. CopyRepo'
  BY <1>1, <1>3, CopyCommands, CopyStashes, CopyRebase, CopyContinue DEF Others, Operation
<1>5. CopyMadeBy(User) /\ CopyTypes
  BY <1>1, CopyMadeOthers DEF CopyRepo
<1>6. \A o \in Runs : CopyOther(o)
  <2> SUFFICES ASSUME NEW o \in Runs PROVE CopyOther(o)
    OBVIOUS
  <2>1. run'[o] = Disturbed(run[o]) /\ User # o
    BY <1>3, WorkAssumption
  <2> QED
    BY <1>1, <1>5, <2>1, CopyBystander
<1>7. \A o \in Runs : run'[o] \in RunRec
  BY <1>6 DEF CopyOther, CopyRec
<1>8. run' \in [Runs -> RunRec]
  BY <1>3, <1>7
<1> QED
  BY <1>4, <1>6, <1>8, CopyInvNext

\* Inv is inductive.
LEMMA CopyStep == Inv /\ [Next]_vars => Inv'
<1> SUFFICES ASSUME Inv, [Next]_vars PROVE Inv'
  OBVIOUS
<1>1. CASE UNCHANGED vars
  <2>1. UNCHANGED repo /\ run' = run
    BY <1>1 DEF vars, repo
  <2>2. /\ CopyRepo /\ run \in [Runs -> RunRec]
        /\ \A o \in Runs : CopyRec(run[o]) /\ CopyUnstarted(run[o], o, stash) /\ Alone(o)
    BY CopyInvIs
  <2>3. \A o \in Runs : CopyOther(o)
    BY <2>1, <2>2, CopyUntouched
  <2>4. CopyRepo'
    BY <2>1, <2>2 DEF repo, CopyRepo, CopyTypes, NothingLost, CopyApart, Held
  <2> QED
    BY <2>1, <2>2, <2>3, <2>4, CopyInvNext
<1>2. CASE Next
  <2>1. \/ \E r \in Runs : CopyStart(r) \/ RunStep(r)
        \/ Others \/ Rebase \/ ResetHard
    BY <1>2 DEF Next, CommitMenu, CopyStart, FixKinds
  <2> QED
    BY <2>1, CopyByStart, CopyByRun, CopyByOthers
<1> QED
  BY <1>1, <1>2

\* An operation that is over and was alone gave back what it found.
LEMMA CopyGivesBack == Inv => NothingLost /\ GivesBackTheTree
<1> SUFFICES ASSUME Inv PROVE NothingLost /\ GivesBackTheTree
  OBVIOUS
<1>1. NothingLost
  BY DEF Inv
<1>2. ASSUME NEW r \in Runs, Undisturbed(r), ~run[r].conflict, run[r].kept = None, paused = None, run[r].kind # "switch"
      PROVE  /\ tree = run[r].had /\ (run[r].kind = "into" => head = run[r].from)
             /\ \A i \in 1..Len(stash) : stash[i].by # r
  <2>0. PICK m : m = run[r]
    OBVIOUS
  <2>1. CopyRec(m) /\ CopyAlone(r, m, content, head, stash, tree, paused) /\ CopyTypes
    BY <2>0, CopyInvIs, CopyAloneIs DEF CopyRepo
  <2>2. m \in RunRec /\ m.kind \in FixKinds \cup {"into", "switch"}
    BY <2>1 DEF CopyRec, RunRec
  <2>3. m.alone = TRUE
    <3>1. m.alone \in BOOLEAN
      BY <2>2 DEF RunRec
    <3> QED
      BY <1>2, <2>0, <3>1 DEF Undisturbed
  <2>4. m.locked = FALSE
    <3>1. m.locked \in BOOLEAN
      BY <2>2 DEF RunRec
    <3> QED
      BY <1>2, <2>0, <3>1 DEF Undisturbed
  <2>5. m.conflict = FALSE
    <3>1. m.conflict \in BOOLEAN
      BY <2>2 DEF RunRec
    <3> QED
      BY <1>2, <2>0, <3>1
  <2>6. m.pc = "done" /\ m.kept = None /\ m.kind # "switch"
    BY <1>2, <2>0 DEF Undisturbed
  <2>7. CopyMine(r, m.had, 0, stash, tree) /\ (m.kind = "into" => head = m.from)
    <3>1. CASE m.kind \in FixKinds
      BY <1>2, <2>1, <2>3, <2>4, <2>5, <2>6, <3>1 DEF CopyAlone, CopyFixing, FixKinds
    <3>2. CASE m.kind = "into"
      BY <1>2, <2>1, <2>3, <2>4, <2>6, <3>2 DEF CopyAlone, CopyMerging
    <3> QED
      BY <2>2, <2>6, <3>1, <3>2
  <2>8. m.had \in SUBSET Work
    BY <2>2 DEF RunRec
  <2>9. tree = m.had
    <3>1. \A w \in Work : w \in m.had <=> w \in tree \/ \E i \in 1..0 : w \in stash[i].items
      BY <2>7 DEF CopyMine
    <3>2. tree \in SUBSET Work
      BY <2>1 DEF CopyTypes
    <3> QED
      BY <2>8, <3>1, <3>2
  <2>10. \A i \in 1..Len(stash) : stash[i].by # r
    BY <2>7 DEF CopyMine
  <2> QED
    BY <2>0, <2>7, <2>9, <2>10
<1> QED
  BY <1>1, <1>2 DEF GivesBackTheTree

\* Inv always holds.
LEMMA CopyHolds == Spec => []Inv
BY CopyInit, CopyStep, PTL DEF Spec

\* NothingLost, for every set of pieces, of branches and of operations.
THEOREM NothingIsLost == Spec => []NothingLost
BY CopyHolds, CopyGivesBack, PTL

\* GivesBackTheTree, likewise.
THEOREM GivesBack == Spec => []GivesBackTheTree
BY CopyHolds, CopyGivesBack, PTL

\* What a run that is alone is about to pop is its own.
LEMMA CopyOwn ==
  ASSUME Inv, NEW r \in Runs, run[r].pc = "pop", run[r].alone, run[r].kind # "switch"
  PROVE  stash # <<>> /\ stash[1].by = r
<1>0. PICK m : m = run[r]
  OBVIOUS
<1>1. CopyRec(m) /\ CopyAlone(r, m, content, head, stash, tree, paused) /\ CopyTypes
  BY <1>0, CopyInvIs, CopyAloneIs DEF CopyRepo
<1>2. m \in RunRec /\ m.kind \in FixKinds \cup {"into", "switch"} /\ m.pc = "pop" /\ m.kind # "switch"
  BY <1>0, <1>1 DEF CopyRec, RunRec
<1>3. m.alone = TRUE
  <2>1. m.alone \in BOOLEAN
    BY <1>2 DEF RunRec
  <2> QED
    BY <1>0, <2>1
<1>4. m.locked = FALSE
  <2>1. m.locked \in BOOLEAN
    BY <1>2 DEF RunRec
  <2> QED
    BY <1>1, <1>2, <1>3, <2>1 DEF CopyAlone, CopyLocked
<1>5. stash \in Seq(Entry) /\ Len(stash) \in Nat
  BY <1>1 DEF CopyTypes
<1>6. \E k \in Nat \ {0} : CopyMine(r, m.had, k, stash, tree)
  <2>1. CASE m.kind \in FixKinds
    <3>1. m.left \in Nat \ {0}
      <4>1. Len(m.stashes) \in Nat
        BY <1>2 DEF RunRec
      <4> QED
        BY <1>1, <1>2, <2>1, <4>1 DEF CopyRec
    <3>2. CopyMine(r, m.had, m.left, stash, tree)
      BY <1>1, <1>2, <1>3, <1>4, <2>1 DEF CopyAlone, CopyFixing, FixKinds
    <3> QED
      BY <3>1, <3>2
  <2>2. CASE m.kind = "into"
    <3>1. CopyMine(r, m.had, 1, stash, tree)
      BY <1>1, <1>2, <1>3, <1>4, <2>2 DEF CopyAlone, CopyMerging
    <3> QED
      BY <3>1
  <2> QED
    BY <1>2, <2>1, <2>2
<1>7. PICK k \in Nat \ {0} : CopyMine(r, m.had, k, stash, tree)
  BY <1>6
<1>8. 1 \in 1..Len(stash) /\ 1 <= k
  BY <1>5, <1>7 DEF CopyMine
<1>9. stash[1].by = r
  BY <1>7, <1>8 DEF CopyMine
<1> QED
  BY <1>8, <1>9

\* PopsItsOwn: the entry an undisturbed operation pops is always one it pushed.
THEOREM PopsOwn == Spec => PopsItsOwn
<1> DEFINE own == \A r \in Runs :
                    run[r].pc = "pop" /\ run'[r].pc = "verify" /\ run[r].alone /\ run[r].kind # "switch" =>
                      stash # <<>> /\ stash[1].by = r
<1>1. Inv => [own]_vars
  BY CopyOwn
<1> QED
  BY <1>1, CopyHolds, PTL DEF PopsItsOwn

----------------------------------------------------------------------------
\* The store of devices and of the certificate.

\* What is left of a program after its first step, and what that step is.
LEMMA StorePrograms ==
  ASSUME todo \in Store!Programs, todo # <<>>
  PROVE  LET s == Head(todo) IN
         /\ Tail(todo) \in Store!Programs
         /\ \A i \in DOMAIN Tail(todo) : \E j \in DOMAIN todo : Tail(todo)[i] = todo[j]
         /\ 1 \in DOMAIN todo /\ s = todo[1]
         /\ \/ s = Store!Load /\ todo = <<Store!Load>> /\ Tail(todo) = <<>>
            \/ s = Store!Unlink("key") /\ Tail(todo) = <<Store!Unlink("cert"), Store!Load>>
            \/ s = Store!Unlink("cert") /\ Tail(todo) = <<Store!Load>>
            \/ /\ \E file \in Store!FileNames : s \in {Store!Open(file), Store!Fill(file)}
               /\ \A i \in DOMAIN todo : todo[i].op \notin {"unlink", "load"}
<1> DEFINE Kept(q) ==
         /\ Tail(q) \in Store!Programs
         /\ \A i \in DOMAIN Tail(q) : \E j \in DOMAIN q : Tail(q)[i] = q[j]
         /\ 1 \in DOMAIN q /\ Head(q) = q[1]
         /\ \/ Head(q) = Store!Load /\ q = <<Store!Load>> /\ Tail(q) = <<>>
            \/ Head(q) = Store!Unlink("key") /\ Tail(q) = <<Store!Unlink("cert"), Store!Load>>
            \/ Head(q) = Store!Unlink("cert") /\ Tail(q) = <<Store!Load>>
            \/ /\ \E file \in Store!FileNames : Head(q) \in {Store!Open(file), Store!Fill(file)}
               /\ \A i \in DOMAIN q : q[i].op \notin {"unlink", "load"}
<1>1. \A file \in Store!FileNames : Kept(<<Store!Open(file), Store!Fill(file)>>)
  BY DEF Store!Programs, Store!FileNames, Store!Open, Store!Fill
<1>2. \A file \in Store!FileNames : Kept(<<Store!Fill(file)>>)
  BY DEF Store!Programs, Store!FileNames, Store!Fill
<1>3. Kept(Store!WriteTls) /\ Kept(<<Store!Fill("key"), Store!Open("cert"), Store!Fill("cert")>>)
  BY DEF Store!Programs, Store!FileNames, Store!Open, Store!Fill, Store!WriteTls, Store!Write
<1>4. Kept(<<Store!Load>>) /\ Kept(<<Store!Unlink("cert"), Store!Load>>)
       /\ Kept(<<Store!Unlink("key"), Store!Unlink("cert"), Store!Load>>)
  BY DEF Store!Programs, Store!Load, Store!Unlink
<1>5. Tail(Store!WriteTls) = <<Store!Fill("key"), Store!Open("cert"), Store!Fill("cert")>>
  BY DEF Store!WriteTls
<1> HIDE DEF Kept
<1>6. Kept(todo)
  BY <1>1, <1>2, <1>3, <1>4, <1>5 DEF Store!Programs, Store!Write
<1> QED
  BY <1>6 DEF Kept

\* Where the list of devices stands in a program.
LEMMA StoreShapes ==
  ASSUME NEW q \in Store!Programs, q # <<>>
  PROVE  /\ Tail(q) # Store!Write("paired")
         /\ Tail(q) = <<Store!Fill("paired")>> => q = Store!Write("paired")
         /\ Head(q).file = "paired" => q \in {Store!Write("paired"), <<Store!Fill("paired")>>}
         /\ Head(q) = Store!Open("paired") => q = Store!Write("paired")
         /\ Head(q) = Store!Fill("paired") => q = <<Store!Fill("paired")>>
<1> DEFINE Kept(p) ==
         /\ Tail(p) # Store!Write("paired")
         /\ Tail(p) = <<Store!Fill("paired")>> => p = Store!Write("paired")
         /\ Head(p).file = "paired" => p \in {Store!Write("paired"), <<Store!Fill("paired")>>}
         /\ Head(p) = Store!Open("paired") => p = Store!Write("paired")
         /\ Head(p) = Store!Fill("paired") => p = <<Store!Fill("paired")>>
<1>1. ASSUME NEW e \in Store!FileNames PROVE Kept(<<Store!Open(e), Store!Fill(e)>>)
  BY DEF Store!Open, Store!Fill, Store!Write
<1>2. ASSUME NEW e \in Store!FileNames PROVE Kept(<<Store!Fill(e)>>)
  BY DEF Store!Open, Store!Fill, Store!Write
<1>3. Kept(Store!WriteTls)
  BY DEF Store!Open, Store!Fill, Store!WriteTls, Store!Write
<1>4. Kept(<<Store!Fill("key"), Store!Open("cert"), Store!Fill("cert")>>)
  BY DEF Store!Open, Store!Fill, Store!Write
<1>5. Kept(<<Store!Load>>)
  BY DEF Store!Load, Store!Open, Store!Fill, Store!Write
<1>6. Kept(<<Store!Unlink("cert"), Store!Load>>)
  BY DEF Store!Load, Store!Unlink, Store!Open, Store!Fill, Store!Write
<1>7. Kept(<<Store!Unlink("key"), Store!Unlink("cert"), Store!Load>>)
  BY DEF Store!Load, Store!Unlink, Store!Open, Store!Fill, Store!Write
<1>8. Tail(Store!WriteTls) = <<Store!Fill("key"), Store!Open("cert"), Store!Fill("cert")>>
  BY DEF Store!WriteTls
<1> HIDE DEF Kept
<1>9. Kept(q)
  BY <1>1, <1>2, <1>3, <1>4, <1>5, <1>6, <1>7, <1>8 DEF Store!Programs, Store!Write
<1> QED
  BY <1>9 DEF Kept

\* The calls are made with a whole program, which writes the pair only after a load.
LEMMA StoreCallPrograms ==
  /\ <<>> \in Store!Programs /\ ~Store!FillsTls(<<>>) /\ ~Store!Removes(<<>>)
  /\ Store!WriteTls \in Store!Programs /\ ~Store!Removes(Store!WriteTls)
  /\ <<Store!Load>> \in Store!Programs /\ ~Store!FillsTls(<<Store!Load>>) /\ Store!Removes(<<Store!Load>>)
  /\ \A file \in Store!FileNames : Store!Write(file) \in Store!Programs /\ ~Store!Removes(Store!Write(file))
  /\ \A file \in {"identity", "paired", "known"} : ~Store!FillsTls(Store!Write(file))
  /\ LET q == <<Store!Unlink("key"), Store!Unlink("cert"), Store!Load>>
     IN q \in Store!Programs /\ ~Store!FillsTls(q) /\ Store!Removes(q)
<1> USE DEF Store!FillsTls, Store!Removes, Store!Open, Store!Fill, Store!WriteTls, Store!Write, Store!Load, Store!Unlink
<1>1. ~Store!FillsTls(<<>>) /\ ~Store!Removes(<<>>) /\ ~Store!Removes(Store!WriteTls)
  OBVIOUS
<1>2. ~Store!FillsTls(<<Store!Load>>) /\ Store!Removes(<<Store!Load>>)
  OBVIOUS
<1>3. \A file \in Store!FileNames : ~Store!Removes(Store!Write(file))
  OBVIOUS
<1>4. \A file \in {"identity", "paired", "known"} : ~Store!FillsTls(Store!Write(file))
  OBVIOUS
<1>5. LET q == <<Store!Unlink("key"), Store!Unlink("cert"), Store!Load>> IN ~Store!FillsTls(q)
  OBVIOUS
<1>6. LET q == <<Store!Unlink("key"), Store!Unlink("cert"), Store!Load>> IN Store!Removes(q)
  <2> DEFINE q == <<Store!Unlink("key"), Store!Unlink("cert"), Store!Load>>
  <2>1. 1 \in DOMAIN q /\ q[1].op = "unlink"
    OBVIOUS
  <2> QED
    BY <2>1
<1> QED
  BY <1>1, <1>2, <1>3, <1>4, <1>5, <1>6 DEF Store!Programs

\* The first step of a program, and what it says of the rest.
LEMMA StoreHeads ==
  ASSUME todo \in Store!Programs, todo # <<>>
  PROVE  LET s == Head(todo) IN
         /\ \/ s = Store!Load /\ s.op = "load" /\ todo = <<Store!Load>> /\ Tail(todo) = <<>>
            \/ s.op = "unlink" /\ s.file \in {"key", "cert"}
            \/ s.op = "open" /\ s.file \in Store!FileNames
            \/ s.op = "fill" /\ s.file \in Store!FileNames
         /\ s.op = "fill" /\ s.file \in {"key", "cert"} => Store!FillsTls(todo)
         /\ Tail(todo) \in Store!Programs
         /\ Store!FillsTls(Tail(todo)) => Store!FillsTls(todo)
         /\ Store!Removes(Tail(todo)) => Store!Removes(todo)
         /\ s.op \in {"open", "fill"} => ~Store!Removes(todo)
<1> DEFINE s == Head(todo)
<1>1. s.op = "fill" /\ s.file \in {"key", "cert"} => Store!FillsTls(todo)
  BY StorePrograms DEF Store!FillsTls
<1>2. Store!FillsTls(Tail(todo)) => Store!FillsTls(todo)
  BY StorePrograms DEF Store!FillsTls
<1>3. Store!Removes(Tail(todo)) => Store!Removes(todo)
  BY StorePrograms DEF Store!Removes
<1>4. Store!Load.op = "load" /\ Store!Unlink("key").op = "unlink" /\ Store!Unlink("cert").op = "unlink"
      /\ Store!Unlink("key").file = "key" /\ Store!Unlink("cert").file = "cert"
  BY DEF Store!Load, Store!Unlink
<1>5. \A e \in Store!FileNames : Store!Open(e).op = "open" /\ Store!Fill(e).op = "fill"
      /\ Store!Open(e).file = e /\ Store!Fill(e).file = e
  BY DEF Store!Open, Store!Fill
<1>6. s.op \in {"open", "fill"} => ~Store!Removes(todo)
  BY StorePrograms, <1>4 DEF Store!Removes
<1> QED
  BY StorePrograms, <1>1, <1>2, <1>3, <1>4, <1>5, <1>6

\* The calls that are under way, and what is left of each, stay what the handlers make of them.
LEMMA StoreCallsStep ==
  ASSUME Store!CallsAreOfTheProcess, [Store!Next]_storeVars
  PROVE  Store!CallsAreOfTheProcess'
<1> USE DEF Store!past, Store!bounds, Store!memory
<1> DEFINE Pair(t, m) == t \in [key : 1..m, cert : 1..m] /\ t.key = t.cert
           Good(q, m, v, d, u, c, t) ==
             /\ q \in Store!Programs /\ m \in Nat /\ v \in 0..m /\ Store!FileNames \subseteq DOMAIN d
             /\ u \in BOOLEAN /\ (~u => c = None)
             /\ c = None => q = <<>>
             /\ c # None => c.before \in 0..m
             /\ t # None => Pair(t, m)
             /\ Store!FillsTls(q) => Pair(t, m)
             /\ \A e \in {"key", "cert"} : d[e] \notin {Absent, Torn} => d[e] \in 1..m
<1>a. Good(todo, serials, void, disk, up, calling, tls)
  BY DEF Store!CallsAreOfTheProcess, Store!Readable, Store!HasTls
<1>b. SUFFICES Good(todo', serials', void', disk', up', calling', tls')
  BY DEF Store!CallsAreOfTheProcess, Store!Readable, Store!HasTls
<1>c. ASSUME calling' # None, calling'.before = serials,
             todo' \in Store!Programs, ~Store!FillsTls(todo'),
             serials' \in {serials, serials + 1}, UNCHANGED <<disk, void>>, up' = TRUE, tls' \in {tls, None}
      PROVE  Good(todo', serials', void', disk', up', calling', tls')
  <2>2. serials' \in Nat /\ serials \in 0..serials' /\ 1..serials \subseteq 1..serials' /\ void' \in 0..serials'
    BY <1>a, <1>c
  <2>3. tls' # None => Pair(tls', serials')
    BY <1>a, <1>c, <2>2
  <2> QED
    BY <1>a, <1>c, <2>2, <2>3
<1>d. calling' \in [name : Store!CallNames, of : Devices \cup {None}, before : Nat] => calling' # None
  BY StoreAssumption
<1>e. serials \in Nat
  BY <1>a
<1>1. CASE Store!Start
  <2>1. /\ todo' = Store!Write("identity") /\ serials' \in {serials, serials + 1} /\ void' = void /\ disk' = disk
        /\ up' = TRUE /\ calling' = [name |-> "new", of |-> None, before |-> serials] /\ tls' = tls
    BY <1>1, <1>a DEF Store!Start
  <2>2. ~Store!FillsTls(todo') /\ todo' \in Store!Programs
    BY <2>1, StoreCallPrograms DEF Store!FileNames
  <2>3. calling' # None /\ calling'.before = serials
    <3>1. calling' \in [name : Store!CallNames, of : Devices \cup {None}, before : Nat]
      BY <2>1, <1>e DEF Store!CallNames
    <3> QED
      BY <2>1, <3>1, <1>d
  <2> QED
    BY <2>1, <2>2, <2>3, <1>c
<1>2. CASE Store!Crash
  BY <1>2, <1>a, StoreCallPrograms DEF Store!Crash
<1>3. CASE Store!Step
  <2> DEFINE s == Head(todo)
  <2>a. todo # <<>> /\ UNCHANGED <<up, calling, void>>
    BY <1>3 DEF Store!Step
  <2>b. calling # None
    BY <2>a, <1>a
  <2>h. /\ \/ s = Store!Load /\ s.op = "load" /\ todo = <<Store!Load>> /\ Tail(todo) = <<>>
           \/ s.op = "unlink" /\ s.file \in {"key", "cert"}
           \/ s.op = "open" /\ s.file \in Store!FileNames
           \/ s.op = "fill" /\ s.file \in Store!FileNames
        /\ s.op = "fill" /\ s.file \in {"key", "cert"} => Store!FillsTls(todo)
        /\ Tail(todo) \in Store!Programs
        /\ Store!FillsTls(Tail(todo)) => Store!FillsTls(todo)
    BY <1>a, <2>a, StoreHeads
  <2>1. CASE s.op = "load" /\ Store!LoadTls
    <3>1. CASE /\ Store!Readable("key") /\ Store!Readable("cert")
               /\ Store!validateIdentity(disk["key"], disk["cert"])
      <4>1. /\ tls' = [key |-> disk["key"], cert |-> disk["cert"]] /\ todo' = <<>> /\ UNCHANGED <<serials, disk>>
            /\ disk["key"] = disk["cert"]
        BY <2>1, <2>h, <3>1 DEF Store!LoadTls, Store!validateIdentity
      <4>2. Pair(tls', serials')
        BY <4>1, <3>1, <1>a DEF Store!Readable
      <4> QED
        BY <4>1, <4>2, <1>a, <2>a, StoreCallPrograms
    <3>2. CASE ~(/\ Store!Readable("key") /\ Store!Readable("cert")
                 /\ Store!validateIdentity(disk["key"], disk["cert"]))
      <4>1. /\ serials' = serials + 1 /\ tls' = [key |-> serials', cert |-> serials'] /\ todo' = Store!WriteTls
            /\ disk' = disk
        BY <2>1, <3>2 DEF Store!LoadTls
      <4>2. serials' \in Nat /\ 0..serials \subseteq 0..serials' /\ 1..serials \subseteq 1..serials'
            /\ Pair(tls', serials')
        BY <4>1, <1>a
      <4> QED
        BY <4>1, <4>2, <1>a, <2>a, <2>b, StoreCallPrograms
    <3> QED
      BY <3>1, <3>2
  <2>2. CASE s.op # "load" /\ Store!Works(s)
    <3>1. /\ todo' = Tail(todo) /\ UNCHANGED <<tls, serials>>
          /\ disk' = [disk EXCEPT ![s.file] =
               CASE s.op = "unlink" -> Absent [] s.op = "open" -> Torn [] s.op = "fill" -> Store!Value(s.file)]
      BY <2>2 DEF Store!Works
    <3>2. Store!FileNames \subseteq DOMAIN disk'
      BY <3>1, <1>a
    <3>3. ASSUME NEW e \in {"key", "cert"}, disk'[e] \notin {Absent, Torn}
          PROVE  disk'[e] \in 1..serials
      <4>1. CASE e # s.file
        BY <4>1, <3>3, <3>1, <1>a DEF Store!FileNames
      <4>2. CASE e = s.file
        <5>1. s.op = "fill" /\ disk'[e] = Store!Value(e)
          BY <4>2, <3>3, <3>1, <2>h, <2>2, <1>a DEF Store!FileNames
        <5>2. Store!Value(e) = tls.key
          BY DEF Store!Value
        <5> QED
          BY <5>1, <5>2, <4>2, <2>h, <1>a
      <4> QED
        BY <4>1, <4>2
    <3> QED
      BY <3>1, <3>2, <3>3, <1>a, <2>a, <2>b, <2>h
  <2>3. CASE s.op # "load" /\ Store!Fails(s)
    BY <2>3, <1>a, <2>a, <2>b, <2>h, StoreCallPrograms DEF Store!Fails
  <2> QED
    BY <1>3, <2>1, <2>2, <2>3 DEF Store!Step
<1>4. CASE Store!Returns
  BY <1>4, <1>a DEF Store!Returns
<1>5. CASE Store!Ages
  BY <1>5, <1>a DEF Store!Ages
<1>6. ASSUME NEW e \in Devices, Store!addPaired(e) \/ Store!revokePaired(e)
      PROVE  Good(todo', serials', void', disk', up', calling', tls')
  <2>1. todo' \in {<<>>, Store!Write("paired")}
    BY <1>6 DEF Store!addPaired, Store!revokePaired
  <2>2. ~Store!FillsTls(todo') /\ todo' \in Store!Programs
    BY <2>1, StoreCallPrograms DEF Store!FileNames
  <2>3. calling' # None /\ calling'.before = serials
    <3>1. CASE Store!addPaired(e)
      <4>1. calling' = [name |-> "addPaired", of |-> e, before |-> serials]
        BY <3>1 DEF Store!addPaired, Store!Call
      <4>2. calling' \in [name : Store!CallNames, of : Devices \cup {None}, before : Nat]
        BY <4>1, <1>e DEF Store!CallNames
      <4> QED
        BY <4>1, <4>2, <1>d
    <3>2. CASE Store!revokePaired(e)
      <4>1. calling' = [name |-> "revokePaired", of |-> e, before |-> serials]
        BY <3>2 DEF Store!revokePaired, Store!Call
      <4>2. calling' \in [name : Store!CallNames, of : Devices \cup {None}, before : Nat]
        BY <4>1, <1>e DEF Store!CallNames
      <4> QED
        BY <4>1, <4>2, <1>d
    <3> QED
      BY <1>6, <3>1, <3>2
  <2>4. UNCHANGED <<disk, void, serials, tls>> /\ up' = TRUE
    BY <1>6 DEF Store!addPaired, Store!revokePaired, Store!Call
  <2> QED
    BY <2>2, <2>3, <2>4, <1>c
<1>7. ASSUME NEW e \in Devices, Store!upsertKnown(e) \/ Store!forgetKnown(e)
      PROVE  Good(todo', serials', void', disk', up', calling', tls')
  <2>1. todo' \in {<<>>, Store!Write("known")}
    BY <1>7 DEF Store!upsertKnown, Store!forgetKnown
  <2>2. ~Store!FillsTls(todo') /\ todo' \in Store!Programs
    BY <2>1, StoreCallPrograms DEF Store!FileNames
  <2>3. calling' # None /\ calling'.before = serials
    <3>1. CASE Store!upsertKnown(e)
      <4>1. calling' = [name |-> "upsertKnown", of |-> e, before |-> serials]
        BY <3>1 DEF Store!upsertKnown, Store!Call
      <4>2. calling' \in [name : Store!CallNames, of : Devices \cup {None}, before : Nat]
        BY <4>1, <1>e DEF Store!CallNames
      <4> QED
        BY <4>1, <4>2, <1>d
    <3>2. CASE Store!forgetKnown(e)
      <4>1. calling' = [name |-> "forgetKnown", of |-> e, before |-> serials]
        BY <3>2 DEF Store!forgetKnown, Store!Call
      <4>2. calling' \in [name : Store!CallNames, of : Devices \cup {None}, before : Nat]
        BY <4>1, <1>e DEF Store!CallNames
      <4> QED
        BY <4>1, <4>2, <1>d
    <3> QED
      BY <1>7, <3>1, <3>2
  <2>4. UNCHANGED <<disk, void, serials, tls>> /\ up' = TRUE
    BY <1>7 DEF Store!upsertKnown, Store!forgetKnown, Store!Call
  <2> QED
    BY <2>2, <2>3, <2>4, <1>c
<1>8. CASE Store!getRelayToken
  <2>1. /\ todo' = Store!Write("identity") /\ serials' \in {serials, serials + 1} /\ UNCHANGED <<disk, void, tls>>
        /\ up' = TRUE /\ calling' = [name |-> "getRelayToken", of |-> None, before |-> serials]
    BY <1>8, <1>a DEF Store!getRelayToken, Store!Call
  <2>2. ~Store!FillsTls(todo') /\ todo' \in Store!Programs
    BY <2>1, StoreCallPrograms DEF Store!FileNames
  <2>3. calling' # None /\ calling'.before = serials
    <3>1. calling' \in [name : Store!CallNames, of : Devices \cup {None}, before : Nat]
      BY <2>1, <1>e DEF Store!CallNames
    <3> QED
      BY <2>1, <3>1, <1>d
  <2> QED
    BY <2>1, <2>2, <2>3, <1>c
<1>9. CASE Store!getTls
  <2>1. /\ todo' = <<Store!Load>> /\ UNCHANGED <<disk, void, tls, serials>>
        /\ up' = TRUE /\ calling' = [name |-> "getTls", of |-> None, before |-> serials]
    BY <1>9, <1>a DEF Store!getTls, Store!Call
  <2>3. calling' # None /\ calling'.before = serials
    <3>1. calling' \in [name : Store!CallNames, of : Devices \cup {None}, before : Nat]
      BY <2>1, <1>e DEF Store!CallNames
    <3> QED
      BY <2>1, <3>1, <1>d
  <2> QED
    BY <2>1, <2>3, <1>c, StoreCallPrograms
<1>10. CASE Store!rotateTls
  <2>1. /\ todo' = <<Store!Unlink("key"), Store!Unlink("cert"), Store!Load>> /\ UNCHANGED <<disk, void, serials>>
        /\ tls' = None /\ up' = TRUE /\ calling' = [name |-> "rotateTls", of |-> None, before |-> serials]
    BY <1>10, <1>a DEF Store!rotateTls, Store!Call
  <2>3. calling' # None /\ calling'.before = serials
    <3>1. calling' \in [name : Store!CallNames, of : Devices \cup {None}, before : Nat]
      BY <2>1, <1>e DEF Store!CallNames
    <3> QED
      BY <2>1, <3>1, <1>d
  <2> QED
    BY <2>1, <2>3, <1>c, StoreCallPrograms
<1>11. CASE UNCHANGED storeVars
  BY <1>11, <1>a DEF storeVars
<1> QED
  BY <1>1, <1>2, <1>3, <1>4, <1>5, <1>6, <1>7, <1>8, <1>9, <1>10, <1>11
  DEF Store!Next, Store!Device, Store!Peer

\* A removal is followed by what still removes or reads the pair.
LEMMA StoreRemovals ==
  /\ Store!Removes(<<Store!Unlink("cert"), Store!Load>>)
  /\ <<Store!Unlink("cert"), Store!Load>> # <<Store!Load>>
  /\ <<Store!Unlink("key"), Store!Unlink("cert"), Store!Load>>
       \notin {<<Store!Unlink("cert"), Store!Load>>, <<Store!Load>>}
<1>1. Store!Removes(<<Store!Unlink("cert"), Store!Load>>)
  <2> DEFINE q == <<Store!Unlink("cert"), Store!Load>>
  <2>1. 1 \in DOMAIN q /\ q[1].op = "unlink"
    BY DEF Store!Unlink
  <2> QED
    BY <2>1 DEF Store!Removes
<1> QED
  BY <1>1

\* The first step of a program that removes a file of the pair.
LEMMA StoreUnlinks ==
  ASSUME todo \in Store!Programs, todo # <<>>, Head(todo).op = "unlink"
  PROVE  \/ Head(todo).file = "key" /\ Tail(todo) = <<Store!Unlink("cert"), Store!Load>>
         \/ Head(todo).file = "cert" /\ Tail(todo) = <<Store!Load>> /\ todo = <<Store!Unlink("cert"), Store!Load>>
<1> DEFINE Kept(p) ==
      Head(p).op = "unlink" =>
         \/ Head(p).file = "key" /\ Tail(p) = <<Store!Unlink("cert"), Store!Load>>
         \/ Head(p).file = "cert" /\ Tail(p) = <<Store!Load>> /\ p = <<Store!Unlink("cert"), Store!Load>>
<1>1. ASSUME NEW e \in Store!FileNames PROVE Kept(<<Store!Open(e), Store!Fill(e)>>)
  BY DEF Store!Open
<1>2. ASSUME NEW e \in Store!FileNames PROVE Kept(<<Store!Fill(e)>>)
  BY DEF Store!Fill
<1>3. Kept(Store!WriteTls) /\ Kept(<<Store!Fill("key"), Store!Open("cert"), Store!Fill("cert")>>)
  BY DEF Store!Open, Store!Fill, Store!WriteTls
<1>4. Kept(<<Store!Load>>)
  BY DEF Store!Load
<1>5. Kept(<<Store!Unlink("cert"), Store!Load>>)
  BY DEF Store!Unlink
<1>6. Kept(<<Store!Unlink("key"), Store!Unlink("cert"), Store!Load>>)
  BY DEF Store!Unlink
<1>7. Tail(Store!WriteTls) = <<Store!Fill("key"), Store!Open("cert"), Store!Fill("cert")>>
  BY DEF Store!WriteTls
<1> HIDE DEF Kept
<1>8. Kept(todo)
  BY <1>1, <1>2, <1>3, <1>4, <1>5, <1>6, <1>7 DEF Store!Programs, Store!Write
<1> QED
  BY <1>8 DEF Kept

\* A pair made before an answered rotation is neither served nor kept past the next load.
LEMMA StoreRotation ==
  ASSUME Store!CallsAreOfTheProcess, Store!NoneIsLeft, [Store!Next]_storeVars, "unlink" \notin failedSteps'
  PROVE  Store!NoneIsLeft'
<1> USE DEF Store!past, Store!bounds, Store!memory
<1> DEFINE Pair(t, m) == t \in [key : 1..m, cert : 1..m] /\ t.key = t.cert
           Safe(d, e) == d[e] \in {Absent, Torn}
           Above(d, v) == \A e \in {"key", "cert"} : ~Safe(d, e) => d[e] > v
           Left(q, v, d, c, t) ==
             /\ Above(d, v)
             /\ t # None => t.cert > v
             /\ c # None /\ c.name = "rotateTls" =>
                  /\ q \in {<<Store!Unlink("cert"), Store!Load>>, <<Store!Load>>} => Safe(d, "key")
                  /\ q = <<Store!Load>> => Safe(d, "cert")
                  /\ ~Store!Removes(q) => (t # None => t.cert > c.before) /\ Above(d, c.before)
<1>a. /\ todo \in Store!Programs /\ serials \in Nat /\ void \in 0..serials /\ Store!FileNames \subseteq DOMAIN disk
      /\ calling # None => calling.before \in 0..serials
      /\ calling = None => todo = <<>>
      /\ tls # None => Pair(tls, serials)
      /\ Store!FillsTls(todo) => Pair(tls, serials)
      /\ \A e \in {"key", "cert"} : ~Safe(disk, e) => disk[e] \in 1..serials
  BY DEF Store!CallsAreOfTheProcess, Store!Readable, Store!HasTls
<1>p. \A m \in Nat : Pair(None, m) => FALSE
  BY StoreAssumption
<1>b. Left(todo, void, disk, calling, tls)
  BY <1>a DEF Store!NoneIsLeft, Store!Readable, Store!HasTls, Store!Rotating
<1>n. serials' \in Nat
  BY StoreCallsStep DEF Store!CallsAreOfTheProcess
<1>c. SUFFICES Left(todo', void', disk', calling', tls')
  BY <1>p, <1>n DEF Store!NoneIsLeft, Store!Readable, Store!HasTls, Store!Rotating
<1>d. ASSUME UNCHANGED <<disk, void>>, tls' \in {tls, None},
             calling'.name # "rotateTls" \/ calling' = None
      PROVE  Left(todo', void', disk', calling', tls')
  BY <1>b, <1>d
<1>1. CASE Store!Start
  BY <1>1, <1>d DEF Store!Start
<1>2. CASE Store!Crash
  BY <1>2, <1>d DEF Store!Crash
<1>3. CASE Store!Step
  <2> DEFINE s == Head(todo)
             Rot == calling # None /\ calling.name = "rotateTls"
  <2>a. todo # <<>> /\ UNCHANGED <<up, calling, void>>
    BY <1>3 DEF Store!Step
  <2>h. /\ \/ s = Store!Load /\ s.op = "load" /\ todo = <<Store!Load>> /\ Tail(todo) = <<>>
           \/ s.op = "unlink" /\ s.file \in {"key", "cert"}
           \/ s.op = "open" /\ s.file \in Store!FileNames
           \/ s.op = "fill" /\ s.file \in Store!FileNames
        /\ s.op = "fill" /\ s.file \in {"key", "cert"} => Store!FillsTls(todo)
        /\ Store!Removes(Tail(todo)) => Store!Removes(todo)
        /\ s.op \in {"open", "fill"} => ~Store!Removes(todo)
    BY <1>a, <2>a, StoreHeads
  <2>1. CASE s.op = "load" /\ Store!LoadTls
    <3>1. todo = <<Store!Load>> /\ disk' = disk
      BY <2>1, <2>h DEF Store!LoadTls
    <3>2. CASE /\ Store!Readable("key") /\ Store!Readable("cert")
               /\ Store!validateIdentity(disk["key"], disk["cert"])
      <4>1. tls' = [key |-> disk["key"], cert |-> disk["cert"]]
        BY <2>1, <3>2 DEF Store!LoadTls
      <4>2. ~Rot
        BY <3>1, <3>2, <1>b DEF Store!Readable
      <4>3. disk["cert"] > void
        BY <3>2, <1>b DEF Store!Readable
      <4> QED
        BY <4>1, <4>2, <4>3, <3>1, <2>a, <1>b
    <3>3. CASE ~(/\ Store!Readable("key") /\ Store!Readable("cert")
                 /\ Store!validateIdentity(disk["key"], disk["cert"]))
      <4>1. serials' = serials + 1 /\ tls' = [key |-> serials', cert |-> serials'] /\ todo' = Store!WriteTls
        BY <2>1, <3>3 DEF Store!LoadTls
      <4>2. tls'.cert = serials + 1
        BY <4>1
      <4>3. tls'.cert > void /\ (Rot => tls'.cert > calling.before)
        BY <4>2, <1>a
      <4>4. todo' \notin {<<Store!Unlink("cert"), Store!Load>>, <<Store!Load>>}
        BY <4>1, StoreCallPrograms, StoreRemovals
      <4>5. Rot => Above(disk, calling.before)
        BY <3>1, <1>b
      <4> QED
        BY <4>3, <4>4, <4>5, <3>1, <2>a, <1>b
    <3> QED
      BY <3>2, <3>3
  <2>2. CASE s.op # "load" /\ Store!Works(s)
    <3>1. /\ todo' = Tail(todo) /\ UNCHANGED <<tls, serials>>
          /\ disk' = [disk EXCEPT ![s.file] =
               CASE s.op = "unlink" -> Absent [] s.op = "open" -> Torn [] s.op = "fill" -> Store!Value(s.file)]
      BY <2>2 DEF Store!Works
    <3>2. ASSUME NEW e \in {"key", "cert"}, e # s.file
          PROVE  disk'[e] = disk[e]
      BY <3>1, <3>2, <1>a DEF Store!FileNames
    <3>3. CASE s.op = "unlink"
      <4>1. disk'[s.file] = Absent
        BY <3>1, <3>3, <2>h, <1>a DEF Store!FileNames
      <4>2. \A v : Above(disk, v) => Above(disk', v)
        BY <4>1, <3>2, <2>h, <3>3
      <4>3. CASE s.file = "key" /\ Tail(todo) = <<Store!Unlink("cert"), Store!Load>>
        BY <4>1, <4>2, <4>3, <3>1, <2>a, <1>b, StoreRemovals
      <4>4. CASE /\ s.file = "cert" /\ Tail(todo) = <<Store!Load>>
                 /\ todo = <<Store!Unlink("cert"), Store!Load>>
        <5>1. disk'["key"] = disk["key"]
          BY <3>2, <4>4
        <5> QED
          BY <4>1, <4>2, <4>4, <5>1, <3>1, <2>a, <1>b, StoreCallPrograms
      <4> QED
        BY <4>3, <4>4, <3>3, <1>a, <2>a, StoreUnlinks
    <3>4. CASE s.op \in {"open", "fill"}
      <4>1. ~Store!Removes(todo') /\ ~Store!Removes(todo)
        BY <3>4, <3>1, <2>h
      <4>2. todo' \notin {<<Store!Unlink("cert"), Store!Load>>, <<Store!Load>>}
        BY <4>1, StoreCallPrograms, StoreRemovals
      <4>3. ASSUME NEW v, Above(disk, v), tls # None => tls.cert > v
            PROVE  Above(disk', v)
        <5>1. ASSUME NEW e \in {"key", "cert"}, ~Safe(disk', e), e = s.file
              PROVE  disk'[e] > v
          <6>1. s.op = "fill" /\ disk'[e] = Store!Value(e)
            BY <5>1, <3>1, <3>4, <1>a DEF Store!FileNames
          <6>2. disk'[e] = tls.key /\ Store!FillsTls(todo)
            BY <6>1, <5>1, <2>h DEF Store!Value
          <6>3. Pair(tls, serials) /\ tls # None
            BY <6>2, <1>a, <1>p
          <6> QED
            BY <6>2, <6>3, <4>3
        <5> QED
          BY <5>1, <3>2, <4>3
      <4>4. Above(disk', void) /\ (Rot => Above(disk', calling.before))
        BY <4>1, <4>3, <1>b
      <4> QED
        BY <4>1, <4>2, <4>4, <3>1, <2>a, <1>b
    <3> QED
      BY <3>3, <3>4, <2>2, <2>h
  <2>3. CASE s.op # "load" /\ Store!Fails(s)
    <3>1. s.op # "unlink"
      BY <2>3 DEF Store!Fails
    <3>2. todo' = <<>> /\ UNCHANGED <<disk, tls>> /\ ~Store!Removes(todo)
      BY <2>3, <3>1, <2>h DEF Store!Fails
    <3> QED
      BY <3>2, <2>a, <1>b
  <2> QED
    BY <1>3, <2>1, <2>2, <2>3 DEF Store!Step
<1>4. CASE Store!Returns
  <2>1. /\ calling # None /\ todo = <<>> /\ calling' = None /\ UNCHANGED <<disk, tls>>
        /\ void' = IF calling.name = "rotateTls" THEN calling.before ELSE void
    BY <1>4 DEF Store!Returns
  <2> QED
    BY <2>1, <1>b, StoreCallPrograms
<1>5. CASE Store!Ages
  BY <1>5, <1>b DEF Store!Ages
<1>6. ASSUME NEW e \in Devices, Store!addPaired(e) \/ Store!revokePaired(e)
      PROVE  Left(todo', void', disk', calling', tls')
  BY <1>6, <1>d DEF Store!addPaired, Store!revokePaired, Store!Call
<1>7. ASSUME NEW e \in Devices, Store!upsertKnown(e) \/ Store!forgetKnown(e)
      PROVE  Left(todo', void', disk', calling', tls')
  BY <1>7, <1>d DEF Store!upsertKnown, Store!forgetKnown, Store!Call
<1>8. CASE Store!getRelayToken
  BY <1>8, <1>d DEF Store!getRelayToken, Store!Call
<1>9. CASE Store!getTls
  BY <1>9, <1>d DEF Store!getTls, Store!Call
<1>10. CASE Store!rotateTls
  <2>1. /\ todo' = <<Store!Unlink("key"), Store!Unlink("cert"), Store!Load>> /\ UNCHANGED <<disk, void>>
        /\ tls' = None
    BY <1>10 DEF Store!rotateTls, Store!Call
  <2> QED
    BY <2>1, <1>b, StoreCallPrograms, StoreRemovals
<1>11. CASE UNCHANGED storeVars
  BY <1>11, <1>b DEF storeVars
<1> QED
  BY <1>1, <1>2, <1>3, <1>4, <1>5, <1>6, <1>7, <1>8, <1>9, <1>10, <1>11
  DEF Store!Next, Store!Device, Store!Peer

\* What writes the list of devices, and what does not.
LEMMA StoreListPrograms ==
  LET WP == Store!Write("paired")
      FP == <<Store!Fill("paired")>>
  IN /\ WP # FP /\ WP # <<>> /\ FP # <<>> /\ Tail(WP) = FP /\ Tail(FP) = <<>>
     /\ Head(WP) = Store!Open("paired") /\ Head(FP) = Store!Fill("paired")
     /\ {Store!Write("identity"), Store!Write("known"), <<Store!Load>>, Store!WriteTls,
         <<Store!Unlink("key"), Store!Unlink("cert"), Store!Load>>} \cap {WP, FP} = {}
<1>1. Store!Write("identity") \notin {Store!Write("paired"), <<Store!Fill("paired")>>}
  BY DEF Store!Write, Store!Open, Store!Fill
<1>2. Store!Write("known") \notin {Store!Write("paired"), <<Store!Fill("paired")>>}
  BY DEF Store!Write, Store!Open, Store!Fill
<1>3. <<Store!Load>> \notin {Store!Write("paired"), <<Store!Fill("paired")>>}
  BY DEF Store!Write, Store!Open, Store!Fill, Store!Load
<1>4. Store!WriteTls \notin {Store!Write("paired"), <<Store!Fill("paired")>>}
  BY DEF Store!Write, Store!WriteTls, Store!Open, Store!Fill
<1>5. <<Store!Unlink("key"), Store!Unlink("cert"), Store!Load>> \notin {Store!Write("paired"), <<Store!Fill("paired")>>}
  BY DEF Store!Write
<1>6. /\ Store!Write("paired") # <<Store!Fill("paired")>> /\ Store!Write("paired") # <<>>
      /\ <<Store!Fill("paired")>> # <<>>
      /\ Tail(Store!Write("paired")) = <<Store!Fill("paired")>> /\ Tail(<<Store!Fill("paired")>>) = <<>>
      /\ Head(Store!Write("paired")) = Store!Open("paired") /\ Head(<<Store!Fill("paired")>>) = Store!Fill("paired")
  BY DEF Store!Write
<1> QED
  BY <1>1, <1>2, <1>3, <1>4, <1>5, <1>6

\* A device revoked stays out of every list that is written, stored or loaded.
LEMMA StoreRevocation ==
  ASSUME Store!CallsAreOfTheProcess, Store!ListIsWritten, [Store!Next]_storeVars, "open" \notin failedSteps'
  PROVE  Store!ListIsWritten'
<1> USE DEF Store!past, Store!bounds, Store!memory
<1> DEFINE WP == Store!Write("paired")
           FP == <<Store!Fill("paired")>>
           Gone(d) == d["paired"] \in {Absent, Torn}
           Listed(q, d, p, r, u, c) ==
             /\ p \cap r = {}
             /\ ~Gone(d) => d["paired"] \cap r = {}
             /\ q = FP => Gone(d)
             /\ u /\ q # WP /\ ~Gone(d) => d["paired"] = p
             /\ c # None /\ c.name = "revokePaired" => c.of \notin p /\ q \in {WP, FP, <<>>}
<1>a. /\ todo \in Store!Programs /\ Store!FileNames \subseteq DOMAIN disk
      /\ up \in BOOLEAN /\ (~up => calling = None)
      /\ calling = None => todo = <<>>
  BY DEF Store!CallsAreOfTheProcess
<1>b. Listed(todo, disk, paired, revoked, up, calling)
  BY DEF Store!ListIsWritten, Store!Readable, Store!Revoking
<1>c. SUFFICES Listed(todo', disk', paired', revoked', up', calling')
  BY DEF Store!ListIsWritten, Store!Readable, Store!Revoking
<1>w. /\ WP # FP /\ WP # <<>> /\ FP # <<>> /\ Tail(WP) = FP /\ Tail(FP) = <<>>
      /\ Head(WP) = Store!Open("paired") /\ Head(FP) = Store!Fill("paired")
      /\ {Store!Write("identity"), Store!Write("known"), <<Store!Load>>, Store!WriteTls,
         <<Store!Unlink("key"), Store!Unlink("cert"), Store!Load>>} \cap {WP, FP} = {}
  BY StoreListPrograms
<1> HIDE DEF WP, FP
<1>d. ASSUME UNCHANGED <<disk, paired, revoked, up>>, calling = None,
             todo' \notin {WP, FP}, calling'.name # "revokePaired"
      PROVE  Listed(todo', disk', paired', revoked', up', calling')
  BY <1>a, <1>b, <1>d, <1>w
<1>1. CASE Store!Start
  <2>1. /\ UNCHANGED <<disk, revoked>> /\ todo' = Store!Write("identity")
        /\ paired' = IF ~Gone(disk) THEN disk["paired"] ELSE {}
        /\ calling'.name = "new"
    BY <1>1 DEF Store!Start, Store!Readable
  <2> QED
    BY <2>1, <1>b, <1>w
<1>2. CASE Store!Crash
  BY <1>2, <1>b, <1>w DEF Store!Crash
<1>3. CASE Store!Step
  <2> DEFINE s == Head(todo)
             Revokes == calling # None /\ calling.name = "revokePaired"
  <2>a. todo # <<>> /\ UNCHANGED <<up, calling, paired, revoked>>
    BY <1>3 DEF Store!Step
  <2>h. \/ s = Store!Load /\ s.op = "load" /\ todo = <<Store!Load>> /\ Tail(todo) = <<>>
        \/ s.op = "unlink" /\ s.file \in {"key", "cert"}
        \/ s.op = "open" /\ s.file \in Store!FileNames
        \/ s.op = "fill" /\ s.file \in Store!FileNames
    BY <1>a, <2>a, StoreHeads
  <2>i. /\ Tail(todo) # WP
        /\ Tail(todo) = FP => todo = WP
        /\ s.file = "paired" => todo \in {WP, FP}
    BY <1>a, <2>a, StoreShapes DEF WP, FP
  <2>j. /\ Store!Open("paired").op = "open" /\ Store!Open("paired").file = "paired"
        /\ Store!Fill("paired").op = "fill" /\ Store!Fill("paired").file = "paired"
    BY DEF Store!Open, Store!Fill
  <2>1. CASE s.op = "load" /\ Store!LoadTls
    <3>1. todo = <<Store!Load>> /\ disk' = disk /\ todo' \in {<<>>, Store!WriteTls}
      BY <2>1, <2>h DEF Store!LoadTls
    <3> QED
      BY <3>1, <2>a, <1>b, <1>w
  <2>2. CASE s.op # "load" /\ Store!Works(s)
    <3>1. /\ todo' = Tail(todo)
          /\ disk' = [disk EXCEPT ![s.file] =
               CASE s.op = "unlink" -> Absent [] s.op = "open" -> Torn [] s.op = "fill" -> Store!Value(s.file)]
      BY <2>2 DEF Store!Works
    <3>2. CASE s.file = "paired"
      <4>1. CASE todo = WP
        <5>1. disk'["paired"] = Torn
          BY <4>1, <3>1, <3>2, <2>j, <1>a, <1>w DEF Store!FileNames
        <5> QED
          BY <5>1, <4>1, <3>1, <2>a, <1>b, <1>w
      <4>2. CASE todo = FP
        <5>1. disk'["paired"] = paired
          BY <4>2, <3>1, <3>2, <2>j, <1>a, <1>w DEF Store!FileNames, Store!Value
        <5> QED
          BY <5>1, <4>2, <3>1, <2>a, <1>b, <1>w
      <4> QED
        BY <3>2, <2>i, <4>1, <4>2
    <3>3. CASE s.file # "paired"
      <4>1. disk'["paired"] = disk["paired"]
        BY <3>1, <3>3, <1>a DEF Store!FileNames
      <4>2. todo \notin {WP, FP}
        BY <3>3, <2>j, <1>w
      <4> QED
        BY <4>1, <4>2, <3>1, <2>a, <2>i, <1>b
    <3> QED
      BY <3>2, <3>3
  <2>3. CASE s.op # "load" /\ Store!Fails(s)
    <3>1. s.op # "open" /\ disk' = disk /\ todo' \in {<<>>, Tail(todo)}
      BY <2>3 DEF Store!Fails
    <3>2. todo # WP
      BY <3>1, <2>j, <1>w
    <3>3. CASE todo = FP
      BY <3>1, <3>3, <2>a, <1>b, <1>w
    <3>4. CASE todo # FP
      BY <3>1, <3>2, <3>4, <2>a, <2>i, <1>b, <1>w
    <3> QED
      BY <3>3, <3>4
  <2> QED
    BY <1>3, <2>1, <2>2, <2>3 DEF Store!Step
<1>4. CASE Store!Returns
  <2>1. /\ calling # None /\ todo = <<>> /\ calling' = None /\ UNCHANGED <<disk, todo, paired, up>>
        /\ revoked' = IF calling.name = "revokePaired" THEN revoked \cup {calling.of} ELSE revoked
    BY <1>4 DEF Store!Returns
  <2>2. up
    BY <2>1, <1>a
  <2> QED
    BY <2>1, <2>2, <1>b, <1>w
<1>5. CASE Store!Ages
  BY <1>5, <1>b DEF Store!Ages
<1>6. ASSUME NEW e \in Devices, Store!addPaired(e)
      PROVE  Listed(todo', disk', paired', revoked', up', calling')
  <2>1. /\ disk' = disk /\ paired' = paired \cup {e} /\ revoked' = revoked \ {e} /\ todo' = WP
        /\ calling'.name = "addPaired"
    BY <1>6 DEF Store!addPaired, Store!Call, WP
  <2> QED
    BY <2>1, <1>b, <1>w
<1>7. ASSUME NEW e \in Devices, Store!revokePaired(e)
      PROVE  Listed(todo', disk', paired', revoked', up', calling')
  <2>1. /\ disk' = disk /\ paired' = paired \ {e} /\ revoked' = revoked /\ up' = up
        /\ todo' = IF e \in paired THEN WP ELSE <<>>
        /\ calling'.of = e /\ calling = None
    BY <1>7 DEF Store!revokePaired, Store!Call, WP
  <2> QED
    BY <2>1, <1>a, <1>b, <1>w
<1>8. ASSUME NEW e \in Devices, Store!upsertKnown(e) \/ Store!forgetKnown(e)
      PROVE  Listed(todo', disk', paired', revoked', up', calling')
  <2>1. todo' \in {<<>>, Store!Write("known")}
    BY <1>8 DEF Store!upsertKnown, Store!forgetKnown
  <2>2. UNCHANGED <<disk, paired, revoked, up>> /\ calling = None /\ calling'.name # "revokePaired"
    BY <1>8 DEF Store!upsertKnown, Store!forgetKnown, Store!Call
  <2> QED
    BY <2>1, <2>2, <1>d, <1>w
<1>9. CASE Store!getRelayToken
  <2>1. UNCHANGED <<disk, paired, revoked, up>> /\ calling = None /\ calling'.name # "revokePaired"
        /\ todo' = Store!Write("identity")
    BY <1>9 DEF Store!getRelayToken, Store!Call
  <2> QED
    BY <2>1, <1>d, <1>w
<1>10. CASE Store!getTls
  <2>1. UNCHANGED <<disk, paired, revoked, up>> /\ calling = None /\ calling'.name # "revokePaired"
        /\ todo' = <<Store!Load>>
    BY <1>10 DEF Store!getTls, Store!Call
  <2> QED
    BY <2>1, <1>d, <1>w
<1>11. CASE Store!rotateTls
  <2>1. UNCHANGED <<disk, paired, revoked, up>> /\ calling = None /\ calling'.name # "revokePaired"
        /\ todo' = <<Store!Unlink("key"), Store!Unlink("cert"), Store!Load>>
    BY <1>11 DEF Store!rotateTls, Store!Call
  <2> QED
    BY <2>1, <1>d, <1>w
<1>12. CASE UNCHANGED storeVars
  BY <1>12, <1>b DEF storeVars
<1> QED
  BY <1>1, <1>2, <1>3, <1>4, <1>5, <1>6, <1>7, <1>8, <1>9, <1>10, <1>11, <1>12
  DEF Store!Next, Store!Device, Store!Peer

\* The suite moves the store by its own steps.
LEMMA StoreMoves ==
  [Step]_<<focus, vars, repositoryVars, treesVars, desktopVars, peersVars, deviceVars, clockVars, storeVars>>
    => [Store!Next]_storeVars
BY DEF Step

\* The steps that failed are remembered.
LEMMA StoreFailures ==
  ASSUME [Store!Next]_storeVars
  PROVE  failedSteps \subseteq failedSteps'
BY DEF storeVars, Store!Next, Store!Start, Store!Crash, Store!Step, Store!LoadTls, Store!Works, Store!Fails,
       Store!Returns, Store!Ages, Store!Device, Store!Peer, Store!addPaired, Store!revokePaired, Store!upsertKnown,
       Store!forgetKnown, Store!getRelayToken, Store!getTls, Store!rotateTls, Store!Call, Store!past, Store!bounds

\* An empty store is as the invariant says.
LEMMA StoreInit ==
  Store!Init => Store!Inv
<1> SUFFICES ASSUME Store!Init PROVE Store!Inv
  OBVIOUS
<1> USE DEF Store!Init
<1>1. Store!CallsAreOfTheProcess
  <2>1. up \in BOOLEAN /\ calling = None /\ tls = None
    OBVIOUS
  <2>2. todo = <<>> /\ todo \in Store!Programs /\ ~Store!FillsTls(todo)
    BY StoreCallPrograms
  <2>3. serials \in Nat /\ void \in 0..serials
    OBVIOUS
  <2>4. Store!FileNames \subseteq DOMAIN disk /\ \A e \in {"key", "cert"} : ~Store!Readable(e)
    BY DEF Store!Readable, Store!FileNames
  <2> QED
    BY <2>1, <2>2, <2>3, <2>4 DEF Store!CallsAreOfTheProcess
<1>2. Store!NoneIsLeft
  BY StoreAssumption DEF Store!NoneIsLeft, Store!Readable, Store!FileNames, Store!Rotating, Store!HasTls
<1>3. Store!ListIsWritten
  BY StoreListPrograms DEF Store!ListIsWritten, Store!Readable, Store!FileNames, Store!Revoking
<1> QED
  BY <1>1, <1>2, <1>3 DEF Store!Inv

\* Every step of the store keeps the invariant.
LEMMA StoreStep ==
  ASSUME Store!Inv, [Store!Next]_storeVars
  PROVE  Store!Inv'
<1>1. Store!CallsAreOfTheProcess'
  BY StoreCallsStep DEF Store!Inv
<1>2. "unlink" \notin failedSteps' => Store!NoneIsLeft'
  BY StoreFailures, StoreRotation DEF Store!Inv
<1>3. "open" \notin failedSteps' => Store!ListIsWritten'
  BY StoreFailures, StoreRevocation DEF Store!Inv
<1> QED
  BY <1>1, <1>2, <1>3 DEF Store!Inv

\* What the invariant says of pins, of revoked devices and of the pair served.
LEMMA StoreHolds ==
  Store!Inv => PinBreaks /\ Store!RevokedStaysOut /\ Store!ServedIsAPair
BY DEF Store!Inv, Store!NoneIsLeft, Store!ListIsWritten, Store!CallsAreOfTheProcess, PinBreaks, Store!PinBreaks,
       Store!RevokedStaysOut, Store!ServedIsAPair, Store!HasTls

\* The invariant of the store, for every set of devices and any number of calls, faults and starts.
THEOREM StoreInvariant == SideBySide => []Store!Inv
<1>1. Start => Store!Inv
  BY StoreInit DEF Start
<1>2. Store!Inv /\ [Step]_<<focus, vars, repositoryVars, treesVars, desktopVars, peersVars, deviceVars, clockVars,
                            storeVars>> => Store!Inv'
  BY StoreMoves, StoreStep
<1> QED
  BY <1>1, <1>2, PTL DEF SideBySide

\* PinBreaks: no certificate made before an answered rotation is served after it, in this run or the next.
THEOREM PinsBreak == SideBySide => []PinBreaks
BY StoreInvariant, StoreHolds, PTL

\* A revoked device stays out, and what is served is a key and a certificate that belong together.
THEOREM RevokedDevicesStayOut == SideBySide => [](Store!RevokedStaysOut /\ Store!ServedIsAPair)
BY StoreInvariant, StoreHolds, PTL

----------------------------------------------------------------------------
\* The debounce of pushed events.

\* A callback that has run has told, one that is to run is due within the debounce.
LEMMA ClockStep ==
  ASSUME Clock!TimersRun, [Clock!Next]_clockVars
  PROVE  Clock!TimersRun'
<1> DEFINE Fires(b, d) == b \in BOOLEAN /\ (b <=> d # None)
           Soon(time, l, d, u) ==
             /\ {time, l} \subseteq Int /\ l <= time /\ {d, u} \subseteq Int \cup {None}
             /\ d # None => d <= time + DEBOUNCE
             /\ u # None => u <= time /\ d # None /\ d <= u + DEBOUNCE
<1>a. Fires(timers, due)
  BY DEF Clock!TimersRun
<1>b. Soon(now, lastSent, due, untold)
  BY DEF Clock!TimersRun
<1>c. SUFFICES Fires(timers', due') /\ Soon(now', lastSent', due', untold')
  BY DEF Clock!TimersRun
<1> USE ClockAssumption DEF Clock!pairing, Clock!push
<1>1. CASE Clock!notify
  <2>1. CASE now - lastSent >= DEBOUNCE
    <3>1. UNCHANGED <<now, timers, due>> /\ lastSent' = now /\ untold' = None
      BY <1>1, <2>1 DEF Clock!notify, Clock!fire
    <3> QED
      BY <3>1, <1>a, <1>b
  <2>2. CASE ~(now - lastSent >= DEBOUNCE)
    <3>1. UNCHANGED <<now, lastSent>> /\ untold' = IF untold = None THEN now ELSE untold
      BY <1>1, <2>2 DEF Clock!notify
    <3>2. CASE timers
      <4>1. UNCHANGED <<timers, due>> /\ due # None
        BY <1>1, <2>2, <3>2, <1>a DEF Clock!notify
      <4>2. Fires(timers', due')
        BY <4>1, <1>a
      <4>3. Soon(now', lastSent', due', untold')
        BY <4>1, <3>1, <1>b
      <4> QED
        BY <4>2, <4>3
    <3>3. CASE ~timers
      <4>1. timers' = TRUE /\ due' = lastSent + DEBOUNCE
        BY <1>1, <2>2, <3>3 DEF Clock!notify
      <4>2. due' # None
        BY <4>1, <1>b
      <4>3. Fires(timers', due')
        BY <4>1, <4>2, Zenon
      <4>4. due' = lastSent + DEBOUNCE
        BY <4>1, Zenon
      <4>6. due = None
        BY <1>a, <3>3, Zenon
      <4>5. Soon(now', lastSent', due', untold')
        BY <4>4, <4>6, <3>1, <1>b
      <4> QED
        BY <4>3, <4>5
    <3> QED
      BY <3>2, <3>3
  <2> QED
    BY <2>1, <2>2
<1>2. CASE Clock!Trailing
  <2>1. timers' = FALSE /\ due' = None
    BY <1>2 DEF Clock!Trailing, Clock!TakesTheTimer
  <2>2. due' = None /\ untold' = None /\ lastSent' = now /\ now' = now
    BY <1>2 DEF Clock!Trailing, Clock!fire
  <2>3. Fires(timers', due')
    BY <2>1, Zenon
  <2>4. Soon(now', lastSent', due', untold')
    BY <2>2, <1>b
  <2> QED
    BY <2>3, <2>4
<1>3. CASE \/ Clock!OptIn \/ \E s \in Subscriptions \cup {None} : Clock!subscribePush(s)
           \/ Clock!handlePair \/ Clock!recordFailure \/ Clock!regenerateCode
  <2>1. UNCHANGED <<now, lastSent, timers, due, untold>>
    BY <1>3 DEF Clock!OptIn, Clock!subscribePush, Clock!handlePair, Clock!recordFailure, Clock!regenerateCode
  <2> QED
    BY <2>1, <1>a, <1>b
<1>4. CASE Clock!Tick
  <2>1. now' = now + 1 /\ UNCHANGED <<lastSent, timers, due, untold>>
    BY <1>4 DEF Clock!Tick
  <2> QED
    BY <2>1, <1>a, <1>b
<1>5. CASE UNCHANGED clockVars
  BY <1>5, <1>a, <1>b DEF clockVars
<1> QED
  BY <1>1, <1>2, <1>3, <1>4, <1>5 DEF Clock!Next

\* NothingIsLeftUntold, for every debounce and every number of subscriptions.
THEOREM NothingLeftUntold == SideBySide => []NothingIsLeftUntold
<1>1. Start => Clock!TimersRun
  <2> SUFFICES ASSUME Clock!Init PROVE Clock!TimersRun
    BY DEF Start
  <2>1. timers = FALSE /\ due = None
    BY DEF Clock!Init
  <2>2. timers \in BOOLEAN /\ (timers <=> due # None)
    BY <2>1, Zenon
  <2>3. now = DEBOUNCE /\ lastSent = 0 /\ due = None /\ untold = None
    BY DEF Clock!Init
  <2> QED
    BY <2>2, <2>3, ClockAssumption DEF Clock!TimersRun
<1>2. Clock!TimersRun /\ [Step]_<<focus, vars, repositoryVars, treesVars, desktopVars, peersVars, deviceVars, clockVars,
                                storeVars>> => Clock!TimersRun'
  <2>1. [Step]_<<focus, vars, repositoryVars, treesVars, desktopVars, peersVars, deviceVars, clockVars, storeVars>>
          => [Clock!Next]_clockVars
    BY DEF Step
  <2> QED
    BY <2>1, ClockStep
<1>3. Clock!TimersRun => NothingIsLeftUntold
  BY DEF Clock!TimersRun, NothingIsLeftUntold, Clock!NothingIsLeftUntold
<1> QED
  BY <1>1, <1>2, <1>3, PTL DEF SideBySide

----------------------------------------------------------------------------
\* The lock of the pairing limiter.

\* One more failure: it is a new one, and those of this moment are one more.
LEMMA LimiterRecords ==
  ASSUME Clock!FailuresAreCounted
  PROVE  LET R == Clock!recent(failures)
             F == Clock!Failure
         IN /\ F \notin failures /\ IsFiniteSet(R) /\ R \subseteq failures
            /\ F = [at |-> F.at, nth |-> F.nth] /\ F.at = now
            /\ {y \in R \cup {F} : y.at = now} = {y \in failures : y.at = now} \cup {F}
            /\ F.nth = Cardinality({y \in failures : y.at = now}) /\ F.nth \in Nat
            /\ Cardinality({y \in R \cup {F} : y.at = now}) = F.nth + 1
<1> DEFINE R == Clock!recent(failures)
           F == Clock!Failure
           Now == {y \in failures : y.at = now}
<1>1. (\A S : Clock!Cardinality(S) = Cardinality(S)) /\ (\A S : Clock!IsFiniteSet(S) <=> IsFiniteSet(S))
  BY DEF Clock!Cardinality, Cardinality, Clock!IsFiniteSet, IsFiniteSet
<1>2. /\ IsFiniteSet(failures) /\ now \in Int
      /\ \A x \in failures : x.at \in Int /\ x.at <= now
      /\ \A x \in failures : x.at = now => x.nth \in Int /\ x.nth < Cardinality(Now)
  BY <1>1 DEF Clock!FailuresAreCounted
<1>3. IsFiniteSet(Now) /\ IsFiniteSet(R) /\ R \subseteq failures
  BY <1>2, FS_Subset DEF Clock!recent
<1>4. Cardinality(Now) \in Nat
  BY <1>3, FS_CardinalityType
<1>5. F = [at |-> now, nth |-> Cardinality(Now)]
  BY <1>1 DEF Clock!Failure
<1>6. F.at = now /\ F.nth = Cardinality(Now)
  BY <1>5
<1>7. F \notin failures
  BY <1>2, <1>4, <1>6
<1>8. {y \in R \cup {F} : y.at = now} = Now \cup {F}
  BY <1>2, <1>6, LimiterAssumption DEF Clock!recent
<1>9. Cardinality(Now \cup {F}) = Cardinality(Now) + 1
  BY <1>3, <1>7, FS_AddElement
<1> QED
  BY <1>3, <1>4, <1>5, <1>6, <1>7, <1>8, <1>9

\* Every failure, every new code and every tick leaves the uncounted failures to a lock.
LEMMA LimiterStep ==
  ASSUME Clock!FailuresAreCounted, [Clock!Next]_clockVars
  PROVE  Clock!FailuresAreCounted'
<1> DEFINE R == Clock!recent(failures)
           A == Clock!recent(attempts)
           F == Clock!Failure
<1>1. (\A S : Clock!Cardinality(S) = Cardinality(S)) /\ (\A S : Clock!IsFiniteSet(S) <=> IsFiniteSet(S))
  BY DEF Clock!Cardinality, Cardinality, Clock!IsFiniteSet, IsFiniteSet
<1>2. /\ now \in Int /\ lockedUntil \in Int /\ lockout \in Int /\ lockout >= WINDOW
      /\ IsFiniteSet(failures) /\ attempts \subseteq failures
      /\ \A x \in failures : x = [at |-> x.at, nth |-> x.nth] /\ x.at \in Int /\ x.at <= now
      /\ \A x \in failures : x.at = now => x.nth \in Int /\ x.nth < Cardinality({y \in failures : y.at = now})
      /\ \A x \in failures \ attempts : x.at + WINDOW <= lockedUntil
      /\ Cardinality(attempts) < MAX_ATTEMPTS
  BY <1>1 DEF Clock!FailuresAreCounted
<1>3. SUFFICES
        /\ now' \in Int /\ lockedUntil' \in Int /\ lockout' \in Int /\ lockout' >= WINDOW
        /\ IsFiniteSet(failures') /\ attempts' \subseteq failures'
        /\ \A x \in failures' : x = [at |-> x.at, nth |-> x.nth] /\ x.at \in Int /\ x.at <= now'
        /\ \A x \in failures' : x.at = now' => x.nth \in Int /\ x.nth < Cardinality({y \in failures' : y.at = now'})
        /\ \A x \in failures' \ attempts' : x.at + WINDOW <= lockedUntil'
        /\ Cardinality(attempts') < MAX_ATTEMPTS
  BY <1>1 DEF Clock!FailuresAreCounted
<1>4. ASSUME NEW t \in Int, t >= WINDOW PROVE Clock!Capped(t) \in Int /\ Clock!Capped(t) >= WINDOW
  BY <1>4, LimiterAssumption DEF Clock!Capped
<1>5. CASE \/ Clock!notify \/ Clock!Trailing \/ Clock!OptIn \/ \E s \in Subscriptions \cup {None} : Clock!subscribePush(s)
           \/ Clock!handlePair \/ UNCHANGED clockVars
  <2>1. UNCHANGED <<now, attempts, lockedUntil, lockout, failures>>
    BY <1>5 DEF Clock!notify, Clock!Trailing, Clock!OptIn, Clock!subscribePush, Clock!handlePair, Clock!pairing, clockVars
  <2> QED
    BY <2>1, <1>2
<1>6. CASE Clock!recordFailure
  <2>1. /\ now' = now /\ failures' = R \cup {F}
        /\ IF Cardinality(A) + 1 >= MAX_ATTEMPTS
           THEN lockedUntil' = now + lockout /\ lockout' = Clock!Capped(2 * lockout) /\ attempts' = {}
           ELSE attempts' = A \cup {F} /\ UNCHANGED <<lockedUntil, lockout>>
    BY <1>1, <1>6 DEF Clock!recordFailure, Clock!InWindow
  <2>2. /\ F \notin failures /\ IsFiniteSet(R) /\ R \subseteq failures
        /\ F = [at |-> F.at, nth |-> F.nth] /\ F.at = now
        /\ {y \in R \cup {F} : y.at = now} = {y \in failures : y.at = now} \cup {F}
        /\ F.nth = Cardinality({y \in failures : y.at = now}) /\ F.nth \in Nat
        /\ Cardinality({y \in R \cup {F} : y.at = now}) = F.nth + 1
    BY LimiterRecords
  <2>3. A \subseteq R /\ A \subseteq attempts /\ \A x \in R \ A : x \notin attempts
    BY <1>2 DEF Clock!recent
  <2> HIDE DEF R, A, F
  <2>4. IsFiniteSet(failures')
    BY <2>1, <2>2, FS_AddElement
  <2>5. \A x \in failures' : x = [at |-> x.at, nth |-> x.nth] /\ x.at \in Int /\ x.at <= now'
    BY <1>2, <2>1, <2>2
  <2>6. \A x \in failures' : x.at = now' => x.nth \in Int /\ x.nth < Cardinality({y \in failures' : y.at = now'})
    BY <1>2, <2>1, <2>2
  <2>7. CASE Cardinality(A) + 1 >= MAX_ATTEMPTS
    <3>1. lockedUntil' = now + lockout /\ lockout' = Clock!Capped(2 * lockout) /\ attempts' = {}
      BY <2>1, <2>7
    <3>2. lockout' \in Int /\ lockout' >= WINDOW /\ lockedUntil' \in Int
      BY <3>1, <1>2, <1>4, LimiterAssumption
    <3>3. \A x \in failures' : x.at + WINDOW <= lockedUntil'
      BY <2>5, <2>1, <3>1, <1>2, LimiterAssumption
    <3>4. Cardinality(attempts') < MAX_ATTEMPTS
      BY <3>1, FS_EmptySet, LimiterAssumption
    <3> QED
      BY <3>1, <3>2, <3>3, <3>4, <2>1, <2>4, <2>5, <2>6, <1>2
  <2>8. CASE ~(Cardinality(A) + 1 >= MAX_ATTEMPTS)
    <3>1. attempts' = A \cup {F} /\ UNCHANGED <<lockedUntil, lockout>>
      BY <2>1, <2>8
    <3>2. IsFiniteSet(A) /\ F \notin A
      BY <2>2, <2>3, FS_Subset
    <3>3. Cardinality(attempts') = Cardinality(A) + 1 /\ Cardinality(A) \in Nat
      BY <3>1, <3>2, FS_AddElement, FS_CardinalityType
    <3>4. Cardinality(attempts') < MAX_ATTEMPTS
      BY <3>3, <2>8, LimiterAssumption
    <3>5. \A x \in failures' \ attempts' : x.at + WINDOW <= lockedUntil'
      BY <3>1, <2>1, <2>2, <2>3, <1>2
    <3>6. attempts' \subseteq failures'
      BY <3>1, <2>1, <2>3
    <3> QED
      BY <3>1, <3>4, <3>5, <3>6, <2>1, <2>4, <2>5, <2>6, <1>2
  <2> QED
    BY <2>7, <2>8
<1>7. CASE Clock!regenerateCode
  <2>1. now' = now /\ attempts' = {} /\ lockedUntil' = 0 /\ lockout' = Clock!Capped(LOCKOUT) /\ failures' = {}
    BY <1>7 DEF Clock!regenerateCode, Clock!reset
  <2>2. lockout' \in Int /\ lockout' >= WINDOW
    BY <2>1, <1>4, LimiterAssumption
  <2> QED
    BY <2>1, <2>2, <1>2, FS_EmptySet, LimiterAssumption
<1>8. CASE Clock!Tick
  <2>1. now' = now + 1 /\ UNCHANGED <<attempts, lockedUntil, lockout, failures>>
    BY <1>8 DEF Clock!Tick, Clock!pairing
  <2> QED
    BY <2>1, <1>2
<1> QED
  BY <1>5, <1>6, <1>7, <1>8 DEF Clock!Next

\* What is not locked counts all failures of the window.
LEMMA LimiterHolds ==
  ASSUME Clock!FailuresAreCounted
  PROVE  Clock!FailuresLockOut
<1>1. (\A S : Clock!Cardinality(S) = Cardinality(S)) /\ (\A S : Clock!IsFiniteSet(S) <=> IsFiniteSet(S))
  BY DEF Clock!Cardinality, Cardinality, Clock!IsFiniteSet, IsFiniteSet
<1>2. /\ now \in Int /\ lockedUntil \in Int
      /\ IsFiniteSet(failures) /\ attempts \subseteq failures
      /\ \A x \in failures : x.at \in Int
      /\ \A x \in failures \ attempts : x.at + WINDOW <= lockedUntil
      /\ Cardinality(attempts) < MAX_ATTEMPTS
  BY <1>1 DEF Clock!FailuresAreCounted
<1>3. SUFFICES ASSUME ~(now < lockedUntil) PROVE Cardinality(Clock!recent(failures)) < MAX_ATTEMPTS
  BY <1>1 DEF Clock!FailuresLockOut, Clock!isLocked
<1>4. Clock!recent(failures) \subseteq attempts
  BY <1>2, <1>3, LimiterAssumption DEF Clock!recent
<1>5. IsFiniteSet(attempts)
  BY <1>2, FS_Subset
<1>6. /\ Cardinality(Clock!recent(failures)) <= Cardinality(attempts)
      /\ Cardinality(Clock!recent(failures)) \in Nat /\ Cardinality(attempts) \in Nat
  BY <1>4, <1>5, FS_Subset, FS_CardinalityType
<1> QED
  BY <1>2, <1>6, LimiterAssumption

\* FailuresLockOut, for every limit, window and length of a lock.
THEOREM LockedOut == SideBySide => []FailuresLockOut
<1>1. Start => Clock!FailuresAreCounted
  <2> SUFFICES ASSUME Clock!Init PROVE Clock!FailuresAreCounted
    BY DEF Start
  <2>1. /\ now = DEBOUNCE /\ attempts = {} /\ failures = {} /\ lockedUntil = 0 /\ lockout = Clock!Capped(LOCKOUT)
    BY DEF Clock!Init
  <2>2. lockout \in Int /\ lockout >= WINDOW
    BY <2>1, LimiterAssumption DEF Clock!Capped
  <2>3. Clock!Cardinality({}) = 0 /\ Clock!IsFiniteSet({})
    BY FS_EmptySet DEF Clock!Cardinality, Cardinality, Clock!IsFiniteSet, IsFiniteSet
  <2> QED
    BY <2>1, <2>2, <2>3, ClockAssumption, LimiterAssumption DEF Clock!FailuresAreCounted
<1>2. Clock!FailuresAreCounted /\ [Step]_<<focus, vars, repositoryVars, treesVars, desktopVars, peersVars, deviceVars,
                                        clockVars, storeVars>> => Clock!FailuresAreCounted'
  <2>1. [Step]_<<focus, vars, repositoryVars, treesVars, desktopVars, peersVars, deviceVars, clockVars, storeVars>>
          => [Clock!Next]_clockVars
    BY DEF Step
  <2> QED
    BY <2>1, LimiterStep
<1>3. Clock!FailuresAreCounted => FailuresLockOut
  BY LimiterHolds DEF FailuresLockOut
<1> QED
  BY <1>1, <1>2, <1>3, PTL DEF SideBySide

----------------------------------------------------------------------------
\* The worktrees dialog.

\* A removal as the dialog and the menu make it.
TreesJobs == [path : Paths \cup {MainTree}, force : BOOLEAN, by : {"dialog", "menu", "gone"}]

\* Once the dialog is gone no removal is its own.
LEMMA TreesOrphans ==
  ASSUME NEW js, \A j \in js : j \in TreesJobs
  PROVE  /\ \A j \in Trees!Orphaned(js) : j \in TreesJobs
         /\ {j \in Trees!Orphaned(js) : j.by = "dialog"} = {}
<1>1. ASSUME NEW j \in js
      PROVE  LET k == IF j.by = "dialog" THEN [j EXCEPT !.by = "gone"] ELSE j IN k \in TreesJobs /\ k.by # "dialog"
  BY DEF TreesJobs
<1> QED
  BY <1>1 DEF Trees!Orphaned

\* Every step of the dialog keeps its removal the one it shows.
LEMMA TreesStep ==
  ASSUME Trees!RemovalIsShown, [Trees!Next]_treesVars
  PROVE  Trees!RemovalIsShown'
<1> DEFINE OwnOf(js) == {j \in js : j.by = "dialog"}
           AfterOf(ls) == {l \in ls : l.by = "remove"}
           One(S) == \A x, y \in S : x = y
           ReadsOne(ls) == \A l \in ls : l.by \in {"mount", "add", "remove"} /\ l = [by |-> l.by, answer |-> l.answer]
           Some == Paths \cup {MainTree, None}
           Shown(o, js, ls, rm, cf) ==
             /\ \A j \in js : j \in TreesJobs
             /\ ReadsOne(ls)
             /\ cf \in Some
             /\ ~o => OwnOf(js) = {} /\ ls = {}
             /\ o => /\ One(OwnOf(js)) /\ One(AfterOf(ls)) /\ (OwnOf(js) = {} \/ AfterOf(ls) = {})
                     /\ \A j \in OwnOf(js) : j.path = rm
                     /\ rm = None <=> OwnOf(js) \cup AfterOf(ls) = {}
                     /\ cf # None => rm = None
<1>a. /\ Shown(dialogOpen, jobs, loads, removing, confirmForce)
      /\ dialogOpen \in BOOLEAN /\ pending \in Some
  BY DEF Trees!RemovalIsShown, Trees!Own, Trees!After, Trees!AtMostOne, TreesJobs
<1>p. pending' \in Some
  <2>1. \/ UNCHANGED pending \/ pending' = None
        \/ \E j \in jobs : pending' = j.path
    BY DEF Trees!Next, Trees!OpenDialog, Trees!CloseDialog, Trees!handleForceRemove, Trees!Cancel, Trees!ConfirmForce,
           Trees!DeclineForce, Trees!getWorktrees, Trees!load, Trees!Removed, Trees!handleRemove, Trees!handleSwitch,
           Trees!RemoveFromMenu, Trees!Works, Trees!handleAdd, treesVars
  <2>2. \A j \in TreesJobs : j.path \in Some
    BY DEF TreesJobs
  <2> QED
    BY <2>1, <2>2, <1>a
<1>b. SUFFICES Shown(dialogOpen', jobs', loads', removing', confirmForce') /\ dialogOpen' \in BOOLEAN
  BY <1>p DEF Trees!RemovalIsShown, Trees!Own, Trees!After, Trees!AtMostOne, TreesJobs
<1>c. /\ \A j \in Trees!Orphaned(jobs) : j \in TreesJobs
      /\ OwnOf(Trees!Orphaned(jobs)) = {}
  BY <1>a, TreesOrphans
<1>l. \A k \in {"mount", "add", "remove"} :
        /\ Trees!Load(k).by = k /\ ReadsOne({Trees!Load(k)})
        /\ k # "remove" => AfterOf({Trees!Load(k)}) = {}
  BY DEF Trees!Load
<1> USE DEF Trees!git, Trees!dialog
<1>1. CASE Trees!OpenDialog
  <2>1. /\ ~dialogOpen /\ dialogOpen' = TRUE /\ loads' = {Trees!Load("mount")} /\ removing' = None
        /\ confirmForce' = None /\ jobs' = jobs
    BY <1>1 DEF Trees!OpenDialog
  <2> QED
    BY <2>1, <1>a, <1>l
<1>2. CASE Trees!CloseDialog
  <2>1. dialogOpen' = FALSE /\ loads' = {} /\ jobs' = Trees!Orphaned(jobs) /\ confirmForce' = confirmForce
    BY <1>2 DEF Trees!CloseDialog
  <2> QED
    BY <2>1, <1>a, <1>c
<1>3. ASSUME NEW l \in loads, Trees!getWorktrees(l)
      PROVE  Shown(dialogOpen', jobs', loads', removing', confirmForce') /\ dialogOpen' \in BOOLEAN
  <2> DEFINE k == [l EXCEPT !.answer = Trees!linked]
  <2>1. loads' = (loads \ {l}) \cup {k} /\ UNCHANGED <<dialogOpen, jobs, removing, confirmForce>>
    BY <1>3 DEF Trees!getWorktrees
  <2>2. k.by = l.by /\ k = [by |-> k.by, answer |-> k.answer]
    <3>1. l = [by |-> l.by, answer |-> l.answer]
      BY <1>a
    <3>2. PICK a, b : l = [by |-> a, answer |-> b]
      BY <3>1
    <3> QED
      BY <3>2
  <2> HIDE DEF k
  <2>3. ReadsOne(loads')
    BY <2>1, <2>2, <1>a
  <2>4. dialogOpen
    BY <1>a
  <2>5. AfterOf(loads') = {} <=> AfterOf(loads) = {}
    BY <2>1, <2>2
  <2>6. One(AfterOf(loads'))
    BY <2>1, <2>2, <2>4, <1>a
  <2> QED
    BY <2>1, <2>3, <2>4, <2>5, <2>6, <1>a
<1>4. ASSUME NEW l \in loads, Trees!load(l)
      PROVE  Shown(dialogOpen', jobs', loads', removing', confirmForce') /\ dialogOpen' \in BOOLEAN
  <2>1. loads' = loads \ {l} /\ removing' = (IF l.by = "remove" THEN None ELSE removing)
        /\ UNCHANGED <<dialogOpen, jobs, confirmForce>>
    BY <1>4 DEF Trees!load
  <2>2. dialogOpen
    BY <1>a
  <2>3. CASE l.by = "remove"
    <3>1. AfterOf(loads) = {l} /\ OwnOf(jobs) = {}
      BY <2>2, <2>3, <1>a
    <3>2. AfterOf(loads') = {}
      BY <2>1, <3>1
    <3> QED
      BY <2>1, <2>2, <2>3, <3>1, <3>2, <1>a
  <2>4. CASE l.by # "remove"
    <3>1. AfterOf(loads') = AfterOf(loads)
      BY <2>1, <2>4
    <3> QED
      BY <2>1, <2>2, <2>4, <3>1, <1>a
  <2> QED
    BY <2>3, <2>4
<1>5. ASSUME NEW p \in Paths \cup {MainTree}, NEW b \in Branches, Trees!handleAdd(p, b)
      PROVE  Shown(dialogOpen', jobs', loads', removing', confirmForce') /\ dialogOpen' \in BOOLEAN
  <2>1. /\ dialogOpen /\ loads' \in {loads, loads \cup {Trees!Load("add")}}
        /\ UNCHANGED <<dialogOpen, jobs, removing, confirmForce>>
    BY <1>5 DEF Trees!handleAdd
  <2>2. AfterOf(loads') = AfterOf(loads) /\ ReadsOne(loads')
    BY <2>1, <1>a, <1>l
  <2> QED
    BY <2>1, <2>2, <1>a
<1>6. ASSUME NEW p \in Paths \cup {MainTree}, Trees!handleRemove(p)
      PROVE  Shown(dialogOpen', jobs', loads', removing', confirmForce') /\ dialogOpen' \in BOOLEAN
  <2> DEFINE j == [path |-> p, force |-> FALSE, by |-> "dialog"]
  <2>1. /\ dialogOpen /\ removing = None /\ confirmForce' = None /\ removing' = p
        /\ jobs' = jobs \cup {j} /\ UNCHANGED <<dialogOpen, loads>>
    BY <1>6 DEF Trees!handleRemove, Trees!PromptAfter
  <2>2. j \in TreesJobs /\ j.by = "dialog" /\ j.path = p
    BY DEF TreesJobs
  <2> HIDE DEF j
  <2>3. OwnOf(jobs') = {j} /\ AfterOf(loads) = {}
    BY <2>1, <2>2, <1>a
  <2>4. p # None
    BY TreesAssumption
  <2> QED
    BY <2>1, <2>2, <2>3, <2>4, <1>a
<1>7. CASE Trees!handleForceRemove
  <2> DEFINE j == [path |-> confirmForce, force |-> TRUE, by |-> "dialog"]
  <2>1. /\ dialogOpen /\ confirmForce # None /\ confirmForce' = None /\ removing' = confirmForce
        /\ jobs' = jobs \cup {j} /\ UNCHANGED <<dialogOpen, loads>>
    BY <1>7 DEF Trees!handleForceRemove
  <2>2. j \in TreesJobs /\ j.by = "dialog" /\ j.path = confirmForce
    BY <2>1, <1>a DEF TreesJobs
  <2> HIDE DEF j
  <2>3. OwnOf(jobs') = {j} /\ AfterOf(loads) = {}
    BY <2>1, <2>2, <1>a
  <2> QED
    BY <2>1, <2>2, <2>3, <1>a
<1>8. CASE Trees!Cancel
  BY <1>8, <1>a DEF Trees!Cancel
<1>9. ASSUME NEW p \in Paths \cup {MainTree}, Trees!handleSwitch(p)
      PROVE  Shown(dialogOpen', jobs', loads', removing', confirmForce') /\ dialogOpen' \in BOOLEAN
  <2>1. /\ UNCHANGED confirmForce
        /\ \/ dialogOpen' = FALSE /\ loads' = {} /\ jobs' = Trees!Orphaned(jobs)
           \/ UNCHANGED <<dialogOpen, loads, jobs, removing>>
    BY <1>9 DEF Trees!handleSwitch
  <2>2. CASE dialogOpen' = FALSE /\ loads' = {} /\ jobs' = Trees!Orphaned(jobs)
    BY <2>1, <2>2, <1>a, <1>c
  <2>3. CASE UNCHANGED <<dialogOpen, loads, jobs, removing>>
    BY <2>1, <2>3, <1>a
  <2> QED
    BY <2>1, <2>2, <2>3
<1>10. ASSUME NEW p, p \in Paths \cup {MainTree}, NEW fc \in BOOLEAN,
              jobs' = jobs \cup {[path |-> p, force |-> fc, by |-> "menu"]},
              UNCHANGED <<dialogOpen, loads, removing, confirmForce>>
      PROVE  Shown(dialogOpen', jobs', loads', removing', confirmForce') /\ dialogOpen' \in BOOLEAN
  <2> DEFINE j == [path |-> p, force |-> fc, by |-> "menu"]
  <2>1. j \in TreesJobs /\ j.by = "menu"
    BY <1>10 DEF TreesJobs
  <2>2. OwnOf(jobs') = OwnOf(jobs)
    BY <2>1, <1>10
  <2> QED
    BY <2>1, <2>2, <1>10, <1>a
<1>11. ASSUME NEW p \in Paths \cup {MainTree}, Trees!RemoveFromMenu(p)
      PROVE  Shown(dialogOpen', jobs', loads', removing', confirmForce') /\ dialogOpen' \in BOOLEAN
  <2>1. /\ jobs' = jobs \cup {[path |-> p, force |-> FALSE, by |-> "menu"]}
        /\ UNCHANGED <<dialogOpen, loads, removing, confirmForce>>
    BY <1>11 DEF Trees!RemoveFromMenu
  <2> QED
    BY <2>1, <1>10
<1>12. CASE Trees!DeclineForce \/ \E p \in Paths \cup {MainTree} : Trees!Works(p)
  <2>1. UNCHANGED <<dialogOpen, loads, removing, confirmForce, jobs>>
    BY <1>12 DEF Trees!DeclineForce, Trees!Works
  <2> QED
    BY <2>1, <1>a
<1>13. CASE Trees!ConfirmForce
  <2>1. /\ jobs' = jobs \cup {[path |-> pending, force |-> TRUE, by |-> "menu"]}
        /\ UNCHANGED <<dialogOpen, loads, removing, confirmForce>> /\ pending # None
    BY <1>13 DEF Trees!ConfirmForce
  <2>2. PICK p \in Paths \cup {MainTree} : p = pending
    BY <2>1, <1>a
  <2> QED
    BY <2>1, <2>2, <1>10
<1>14. ASSUME NEW j \in jobs, Trees!Removed(j)
      PROVE  Shown(dialogOpen', jobs', loads', removing', confirmForce') /\ dialogOpen' \in BOOLEAN
  <2> DEFINE ok == ~Trees!Refuses(j.path, j.force)
             menuAsks == j.by = "menu" /\ ~ok /\ ~j.force
  <2>1. CASE j.by = "dialog"
    <3>1. /\ jobs' = jobs \ {j} /\ dialogOpen' = dialogOpen
          /\ \/ loads' = loads \cup {Trees!Load("remove")} /\ UNCHANGED <<removing, confirmForce>>
             \/ removing' = None /\ confirmForce' = j.path /\ loads' = loads
      BY <1>14, <2>1 DEF Trees!Removed
    <3>2. dialogOpen /\ OwnOf(jobs) = {j} /\ AfterOf(loads) = {} /\ j.path = removing /\ removing # None
      BY <2>1, <1>a
    <3>3. OwnOf(jobs') = {}
      BY <3>1, <3>2
    <3>4. j.path \in Some
      BY <1>a DEF TreesJobs
    <3>5. CASE loads' = loads \cup {Trees!Load("remove")} /\ UNCHANGED <<removing, confirmForce>>
      <4>1. AfterOf(loads') = {Trees!Load("remove")} /\ ReadsOne(loads')
        BY <3>2, <3>5, <1>a, <1>l
      <4> QED
        BY <4>1, <3>1, <3>2, <3>3, <3>5, <1>a
    <3>6. CASE removing' = None /\ confirmForce' = j.path /\ loads' = loads
      BY <3>1, <3>2, <3>3, <3>4, <3>6, <1>a
    <3> QED
      BY <3>1, <3>5, <3>6
  <2>2. CASE j.by # "dialog" /\ menuAsks
    <3>1. jobs' = Trees!Orphaned(jobs \ {j}) /\ dialogOpen' = FALSE /\ loads' = {} /\ UNCHANGED confirmForce
      BY <1>14, <2>2 DEF Trees!Removed
    <3>2. /\ \A k \in Trees!Orphaned(jobs \ {j}) : k \in TreesJobs
          /\ OwnOf(Trees!Orphaned(jobs \ {j})) = {}
      BY <1>a, TreesOrphans
    <3> QED
      BY <3>1, <3>2, <1>a
  <2>3. CASE j.by # "dialog" /\ ~menuAsks
    <3>1. jobs' = jobs \ {j} /\ UNCHANGED <<dialogOpen, loads, removing, confirmForce>>
      BY <1>14, <2>3 DEF Trees!Removed
    <3>2. OwnOf(jobs') = OwnOf(jobs)
      BY <3>1, <2>3
    <3> QED
      BY <3>1, <3>2, <1>a
  <2> QED
    BY <2>1, <2>2, <2>3
<1>15. CASE UNCHANGED treesVars
  BY <1>15, <1>a DEF treesVars
<1> QED
  BY <1>1, <1>2, <1>3, <1>4, <1>5, <1>6, <1>7, <1>8, <1>9, <1>11, <1>12, <1>13, <1>14, <1>15 DEF Trees!Next

\* A set in which all elements are the same has one at most.
LEMMA TreesOne ==
  ASSUME NEW S, \A x, y \in S : x = y
  PROVE  Cardinality(S) \in {0, 1} /\ (Cardinality(S) = 0 <=> S = {})
<1>1. CASE S = {}
  BY <1>1, FS_EmptySet
<1>2. CASE S # {}
  <2>1. PICK x : S = {x}
    BY <1>2
  <2>2. Cardinality(S) = 1
    BY <2>1, FS_Singleton
  <2> QED
    BY <2>2, <1>2
<1> QED
  BY <1>1, <1>2

\* The removal that is shown is the only one.
LEMMA TreesHolds ==
  Trees!RemovalIsShown => OneRemovalAtATime
<1> SUFFICES ASSUME Trees!RemovalIsShown, dialogOpen PROVE Trees!OneRemovalAtATime
  BY DEF OneRemovalAtATime, Trees!OneRemovalAtATime
<1>1. /\ Cardinality(Trees!Own) \in {0, 1} /\ (Cardinality(Trees!Own) = 0 <=> Trees!Own = {})
      /\ Cardinality(Trees!After) \in {0, 1} /\ (Cardinality(Trees!After) = 0 <=> Trees!After = {})
  BY TreesOne DEF Trees!RemovalIsShown, Trees!AtMostOne
<1>2. Cardinality(Trees!Own) + Cardinality(Trees!After) <= 1
  BY <1>1 DEF Trees!RemovalIsShown
<1>3. {j.path : j \in Trees!Own} \subseteq {removing}
  BY DEF Trees!RemovalIsShown
<1>4. Trees!Own \cup Trees!After = {} => removing = None
  BY DEF Trees!RemovalIsShown
<1>5. /\ Cardinality({j \in jobs : j.by = "dialog"}) + Cardinality({l \in loads : l.by = "remove"}) <= 1
      /\ {j.path : j \in {j \in jobs : j.by = "dialog"}} \subseteq {removing}
      /\ {j \in jobs : j.by = "dialog"} \cup {l \in loads : l.by = "remove"} = {} => removing = None
  BY <1>2, <1>3, <1>4 DEF Trees!Own, Trees!After
<1>6. \A S : Trees!Cardinality(S) = Cardinality(S)
  BY DEF Trees!Cardinality, Cardinality
<1> QED
  BY <1>5, <1>6 DEF Trees!OneRemovalAtATime

\* OneRemovalAtATime, for every set of paths and of branches.
THEOREM OneRemoval == SideBySide => []OneRemovalAtATime
<1>1. Start => Trees!RemovalIsShown
  <2> SUFFICES ASSUME Trees!Init PROVE Trees!RemovalIsShown
    BY DEF Start
  <2>1. dialogOpen = FALSE /\ loads = {} /\ removing = None /\ confirmForce = None /\ pending = None /\ jobs = {}
    BY DEF Trees!Init
  <2> QED
    BY <2>1 DEF Trees!RemovalIsShown, Trees!Own, Trees!After
<1>2. Trees!RemovalIsShown /\ [Step]_<<focus, vars, repositoryVars, treesVars, desktopVars, peersVars, deviceVars,
                                       clockVars, storeVars>> => Trees!RemovalIsShown'
  <2>1. [Step]_<<focus, vars, repositoryVars, treesVars, desktopVars, peersVars, deviceVars, clockVars, storeVars>>
          => [Trees!Next]_treesVars
    BY DEF Step
  <2> QED
    BY <2>1, TreesStep
<1> QED
  BY <1>1, <1>2, TreesHolds, PTL DEF SideBySide

----------------------------------------------------------------------------
\* The calls of a paired device.

\* A request that is as the invariant says.
DeviceSays(ro, h, recs, ch, r) ==
  /\ r \in Device!Requests /\ r.of <= ch
  /\ r.barred \subseteq Device!Bars(ro, h, recs[r.of], r.method)
  /\ "owner" \in r.barred => recs[r.of].readOnly = TRUE
  /\ r.barred # {} => r.stage \in {"received", "answered"}

DeviceHost ==
  /\ readOnly \in BOOLEAN /\ held \in BOOLEAN /\ choices \in 0..MaxChanges
  /\ records \in [0..MaxChanges -> [readOnly : BOOLEAN, scopes : SUBSET WRITE_METHODS]]
  /\ current \in 1..choices \cup {None}
  /\ current # None /\ held = TRUE => records[current].readOnly = TRUE
DeviceRequests ==
  /\ rpcs \in [Ids -> Device!Requests \cup {None}]
  /\ \A i \in Ids : rpcs[i] # None => DeviceSays(readOnly, held, records, choices, rpcs[i])

\* The invariant of the calls, request by request.
LEMMA DeviceInv ==
  Device!Inv <=> DeviceHost /\ DeviceRequests
BY DEF Device!Inv, DeviceHost, DeviceRequests, DeviceSays, Device!Live, Device!Device

\* A step of one call that leaves the host as it is.
LEMMA DeviceOne ==
  ASSUME DeviceRequests, NEW i \in Ids, NEW r \in Device!Requests \cup {None},
         rpcs' = [rpcs EXCEPT ![i] = r],
         UNCHANGED <<readOnly, held, records, choices>>,
         r # None => DeviceSays(readOnly, held, records, choices, r)
  PROVE  DeviceRequests'
<1>1. rpcs' \in [Ids -> Device!Requests \cup {None}]
  BY DEF DeviceRequests
<1>2. ASSUME NEW j \in Ids, rpcs'[j] # None
      PROVE  DeviceSays(readOnly, held, records, choices, rpcs'[j])
  BY <1>2 DEF DeviceRequests
<1> QED
  BY <1>1, <1>2 DEF DeviceRequests, DeviceSays

\* A request that is barred is not admitted.
LEMMA DeviceAdmits ==
  ASSUME DeviceHost, NEW r \in Device!Requests, DeviceSays(readOnly, held, records, choices, r),
         Device!Admitted(records[r.of], r.method)
  PROVE  r.barred = {}
<1> SUFFICES ASSUME r.barred # {} PROVE FALSE
  OBVIOUS
<1>1. r.method \in WRITE_METHODS /\ Device!methodAccess(r.method) = "write"
  BY DeviceAssumption DEF DeviceSays, Device!Bars, Device!methodAccess
<1>2. readOnly # TRUE /\ (records[r.of].readOnly = TRUE => r.method \in records[r.of].scopes)
  BY <1>1 DEF Device!Admitted, Device!scoped, DeviceHost
<1>3. CASE "host" \in r.barred
  BY <1>2, <1>3 DEF DeviceSays, Device!Bars, DeviceHost
<1>4. CASE "owner" \in r.barred
  BY <1>2, <1>4 DEF DeviceSays, Device!Bars, DeviceHost
<1>5. r.barred \subseteq {"host", "owner"}
  BY DEF Device!Requests
<1> QED
  BY <1>3, <1>4, <1>5

\* What the owner does keeps the record in the store as the owner chose, and a record that is read-only
\* stays so unless the owner takes that back.
LEMMA DeviceOwner ==
  ASSUME DeviceHost, Device!Owner
  PROVE  /\ DeviceHost' /\ choices <= choices'
         /\ \A o \in 0..choices : records[o].readOnly = TRUE /\ held' = TRUE => records'[o].readOnly = TRUE
<1> USE DeviceAssumption
<1>a. choices < MaxChanges /\ choices' = choices + 1 /\ choices \in Nat /\ choices' \in 0..MaxChanges
  BY DEF Device!Owner, DeviceHost
<1>b. current \in 1..choices' \cup {None} /\ choices' \in 1..choices'
  BY <1>a DEF DeviceHost
<1>1. ASSUME NEW v \in BOOLEAN, Device!addPaired(v)
      PROVE  /\ DeviceHost'
             /\ \A o \in 0..choices : records[o].readOnly = TRUE /\ held' = TRUE => records'[o].readOnly = TRUE
  <2> DEFINE kept == Device!Kept(current, v)
  <2>1. kept \in BOOLEAN
    BY <1>a DEF Device!Kept, DeviceHost
  <2>2. [readOnly |-> kept, scopes |-> {}] \in [readOnly : BOOLEAN, scopes : SUBSET WRITE_METHODS]
    BY <2>1
  <2>3. /\ records' = [records EXCEPT ![choices'] = [readOnly |-> kept, scopes |-> {}]]
        /\ current' = choices' /\ held' = (IF current = None THEN v ELSE held) /\ readOnly' = readOnly
    BY <1>1 DEF Device!addPaired
  <2>4. records' \in [0..MaxChanges -> [readOnly : BOOLEAN, scopes : SUBSET WRITE_METHODS]]
    BY <2>2, <2>3 DEF DeviceHost
  <2>5. records'[choices'].readOnly = kept /\ \A o \in 0..choices : records'[o] = records[o]
    BY <2>3, <1>a DEF DeviceHost
  <2>6. held' \in BOOLEAN /\ (held' = TRUE => kept = TRUE)
    BY <2>3 DEF Device!Kept, DeviceHost
  <2> QED
    BY <1>a, <1>b, <2>3, <2>4, <2>5, <2>6 DEF DeviceHost
<1>2. ASSUME NEW v \in BOOLEAN, Device!setPairedReadOnly(v)
      PROVE  /\ DeviceHost'
             /\ \A o \in 0..choices : records[o].readOnly = TRUE /\ held' = TRUE => records'[o].readOnly = TRUE
  <2>1. /\ current # None /\ held' = v /\ UNCHANGED <<readOnly, current>>
        /\ records' = [records EXCEPT ![current] = [records[current] EXCEPT !.readOnly = v]]
    BY <1>2 DEF Device!setPairedReadOnly
  <2>2. current \in 0..MaxChanges
    BY <2>1, <1>a DEF DeviceHost
  <2>3. LET q == [records[current] EXCEPT !.readOnly = v]
        IN q \in [readOnly : BOOLEAN, scopes : SUBSET WRITE_METHODS] /\ q.readOnly = v
    <3>1. records[current] \in [readOnly : BOOLEAN, scopes : SUBSET WRITE_METHODS]
      BY <2>2 DEF DeviceHost
    <3> QED
      BY <3>1
  <2>4. records' \in [0..MaxChanges -> [readOnly : BOOLEAN, scopes : SUBSET WRITE_METHODS]]
    BY <2>1, <2>3 DEF DeviceHost
  <2>5. records'[current].readOnly = v /\ \A o \in 0..choices : o # current => records'[o] = records[o]
    BY <2>1, <2>2, <2>3, <1>a DEF DeviceHost
  <2> QED
    BY <1>a, <1>b, <2>1, <2>4, <2>5 DEF DeviceHost
<1>3. ASSUME NEW s \in SUBSET WRITE_METHODS, Device!setPairedScopes(s)
      PROVE  /\ DeviceHost'
             /\ \A o \in 0..choices : records[o].readOnly = TRUE /\ held' = TRUE => records'[o].readOnly = TRUE
  <2>1. /\ current # None /\ UNCHANGED <<readOnly, current, held>>
        /\ records' = [records EXCEPT ![current] = [records[current] EXCEPT !.scopes = s]]
    BY <1>3 DEF Device!setPairedScopes
  <2>2. current \in 0..MaxChanges
    BY <2>1, <1>a DEF DeviceHost
  <2>3. LET q == [records[current] EXCEPT !.scopes = s]
        IN q \in [readOnly : BOOLEAN, scopes : SUBSET WRITE_METHODS] /\ q.readOnly = records[current].readOnly
    <3>1. records[current] \in [readOnly : BOOLEAN, scopes : SUBSET WRITE_METHODS]
      BY <2>2 DEF DeviceHost
    <3> QED
      BY <3>1
  <2>4. records' \in [0..MaxChanges -> [readOnly : BOOLEAN, scopes : SUBSET WRITE_METHODS]]
    BY <2>1, <2>3 DEF DeviceHost
  <2>5. /\ records'[current].readOnly = records[current].readOnly
        /\ \A o \in 0..choices : o # current => records'[o] = records[o]
    BY <2>1, <2>2, <2>3, <1>a DEF DeviceHost
  <2> QED
    BY <1>a, <1>b, <2>1, <2>4, <2>5 DEF DeviceHost
<1>4. CASE Device!revokePaired
  <2>1. UNCHANGED <<readOnly, records>> /\ current' = None /\ held' = FALSE
    BY <1>4 DEF Device!revokePaired
  <2>2. held' \in BOOLEAN /\ held' # TRUE
    BY <2>1, Zenon
  <2>3. UNCHANGED <<readOnly, records>> /\ current' = None
    BY <2>1, Zenon
  <2> QED
    BY <1>a, <2>2, <2>3 DEF DeviceHost
<1>5. CASE Device!setServer
  <2>1. UNCHANGED <<records, current, held>> /\ readOnly' \in BOOLEAN
    BY <1>5 DEF Device!setServer, DeviceHost
  <2> QED
    BY <1>a, <1>b, <2>1 DEF DeviceHost
<1>6. CASE Device!Expire \/ Device!Unshare
  <2>1. UNCHANGED <<readOnly, records, current, held>>
    BY <1>6 DEF Device!Expire, Device!Unshare
  <2> QED
    BY <1>a, <1>b, <2>1 DEF DeviceHost
<1> DEFINE Kept == /\ DeviceHost'
                   /\ \A o \in 0..choices : records[o].readOnly = TRUE /\ held' = TRUE => records'[o].readOnly = TRUE
<1>7. \/ \E v \in BOOLEAN : Device!addPaired(v) \/ Device!setPairedReadOnly(v)
      \/ \E s \in SUBSET WRITE_METHODS : Device!setPairedScopes(s)
      \/ Device!revokePaired \/ Device!setServer \/ Device!Expire \/ Device!Unshare
  BY Zenon DEF Device!Owner
<1>8. Kept
  <2> HIDE DEF Kept
  <2>1. /\ \A v \in BOOLEAN : Device!addPaired(v) \/ Device!setPairedReadOnly(v) => Kept
        /\ \A s \in SUBSET WRITE_METHODS : Device!setPairedScopes(s) => Kept
        /\ Device!revokePaired \/ Device!setServer \/ Device!Expire \/ Device!Unshare => Kept
    BY <1>1, <1>2, <1>3, <1>4, <1>5, <1>6, Zenon DEF Kept
  <2> QED
    BY <2>1, <1>7, Zenon
<1> QED
  BY <1>a, <1>8

\* Every step of a call, of the owner and of the host keeps what a request was barred for.
LEMMA DeviceStep ==
  ASSUME Device!Inv, [Device!Next]_deviceVars
  PROVE  Device!Inv'
<1>a. DeviceHost /\ DeviceRequests
  BY DeviceInv
<1>b. SUFFICES DeviceHost' /\ DeviceRequests'
  BY DeviceInv, PTL
<1>c. UNCHANGED <<readOnly, held, choices, records, current>> => DeviceHost'
  BY <1>a DEF DeviceHost
<1>1. CASE Device!Owner
  <2>0. DeviceHost' /\ choices <= choices'
        /\ \A o \in 0..choices : records[o].readOnly = TRUE /\ held' = TRUE => records'[o].readOnly = TRUE
    BY <1>1, <1>a, DeviceOwner, Zenon
  <2>1. DeviceHost' /\ choices <= choices' /\ choices \in Int /\ choices' \in Int
        /\ \A o \in 0..choices : records[o].readOnly = TRUE /\ held' = TRUE => records'[o].readOnly = TRUE
    BY <2>0, <1>a DEF DeviceHost
  <2>2. rpcs' = [i \in Ids |-> IF rpcs[i] # None
                               THEN [rpcs[i] EXCEPT !.barred =
                                       rpcs[i].barred \cap Device!Bars(readOnly', held', records'[rpcs[i].of], rpcs[i].method)]
                               ELSE None]
    BY <1>1 DEF Device!Owner, Device!Live
  <2>3. ASSUME NEW i \in Ids, rpcs[i] # None
        PROVE  rpcs'[i] \in Device!Requests /\ DeviceSays(readOnly', held', records', choices', rpcs'[i])
    <3> DEFINE b == rpcs[i].barred \cap Device!Bars(readOnly', held', records'[rpcs[i].of], rpcs[i].method)
               q == [rpcs[i] EXCEPT !.barred = b]
    <3>1. rpcs[i] \in Device!Requests /\ DeviceSays(readOnly, held, records, choices, rpcs[i])
      BY <2>3, <1>a DEF DeviceRequests
    <3>2. b \in SUBSET {"host", "owner"}
      BY <3>1 DEF Device!Requests
    <3>3. rpcs'[i] = q
      BY <2>2, <2>3
    <3>4. /\ q \in Device!Requests /\ q.of = rpcs[i].of /\ q.barred = b /\ q.method = rpcs[i].method
          /\ q.stage = rpcs[i].stage
      BY <3>1, <3>2 DEF Device!Requests
    <3> HIDE DEF q
    <3>5. rpcs[i].of \in 0..choices
      BY <3>1 DEF DeviceSays, Device!Requests
    <3>6. "owner" \in b => records'[rpcs[i].of].readOnly = TRUE
      <4> SUFFICES ASSUME "owner" \in b PROVE records'[rpcs[i].of].readOnly = TRUE
        OBVIOUS
      <4>1. held' = TRUE
        BY <2>1 DEF Device!Bars, DeviceHost
      <4>2. records[rpcs[i].of].readOnly = TRUE
        BY <3>1 DEF DeviceSays
      <4> QED
        BY <4>1, <4>2, <3>5, <2>1
    <3>7. b # {} => rpcs[i].stage \in {"received", "answered"}
      BY <3>1 DEF DeviceSays
    <3>8. rpcs[i].of <= choices'
      BY <3>5, <2>1
    <3> QED
      BY <3>3, <3>4, <3>6, <3>7, <3>8 DEF DeviceSays
  <2>4. rpcs' \in [Ids -> Device!Requests \cup {None}]
    BY <2>2, <2>3
  <2>5. \A i \in Ids : rpcs'[i] # None => DeviceSays(readOnly', held', records', choices', rpcs'[i])
    BY <2>2, <2>3
  <2> QED
    BY <2>1, <2>4, <2>5 DEF DeviceRequests, DeviceSays
<1>2. ASSUME NEW i \in Ids,
             \/ \E m \in Device!Methods, fc \in BOOLEAN : Device!rpc(i, m, fc)
             \/ Device!Told(i) \/ Device!handle(i) \/ Device!handleRpc(i) \/ Device!resolveRepo(i) \/ Device!Ends(i)
             \/ Device!withTimeout(i)
      PROVE  DeviceHost' /\ DeviceRequests'
  <2> DEFINE Answers == {None, "nobody", "unauthorized", "refused", "ended", "failed"}
             r == rpcs[i]
  <2>a. UNCHANGED <<readOnly, held, choices, records, current>>
    BY <1>2 DEF Device!rpc, Device!Told, Device!handle, Device!handleRpc, Device!resolveRepo, Device!Ends,
                Device!withTimeout, Device!host
  <2>b. rpcs \in [Ids -> Device!Requests \cup {None}]
        /\ (r # None => r \in Device!Requests /\ DeviceSays(readOnly, held, records, choices, r))
    BY <1>a DEF DeviceRequests
  <2>c. DeviceHost'
    BY <2>a, <1>c
  <2>d. SUFFICES \E q \in Device!Requests \cup {None} :
                   /\ rpcs' = [rpcs EXCEPT ![i] = q]
                   /\ q # None => DeviceSays(readOnly, held, records, choices, q)
    BY <1>a, <2>a, <2>c, DeviceOne
  <2>e. ASSUME r # None, NEW a \in Answers, rpcs' = [rpcs EXCEPT ![i].stage = "answered", ![i].answer = a]
        PROVE  \E q \in Device!Requests \cup {None} :
                   /\ rpcs' = [rpcs EXCEPT ![i] = q]
                   /\ q # None => DeviceSays(readOnly, held, records, choices, q)
    <3> DEFINE q == [r EXCEPT !.stage = "answered", !.answer = a]
    <3>1. rpcs' = [rpcs EXCEPT ![i] = q]
      BY <2>b, <2>e
    <3>2. q \in Device!Requests /\ q.of = r.of /\ q.barred = r.barred /\ q.method = r.method /\ q.stage = "answered"
      BY <2>b, <2>e DEF Device!Requests
    <3> HIDE DEF q
    <3>3. DeviceSays(readOnly, held, records, choices, q)
      BY <3>2, <2>b, <2>e DEF DeviceSays
    <3> QED
      BY <3>1, <3>2, <3>3
  <2>1. ASSUME NEW m \in Device!Methods, NEW fc \in BOOLEAN, Device!rpc(i, m, fc)
        PROVE  \E q \in Device!Requests \cup {None} :
                   /\ rpcs' = [rpcs EXCEPT ![i] = q]
                   /\ q # None => DeviceSays(readOnly, held, records, choices, q)
    <3> DEFINE q == [method |-> m, force |-> fc, of |-> 0, barred |-> {}, stage |-> "sent", answer |-> None]
    <3>1. rpcs' = [rpcs EXCEPT ![i] = q]
      BY <2>1 DEF Device!rpc
    <3>2. q \in Device!Requests /\ q.barred = {} /\ q.of = 0
      BY DeviceAssumption DEF Device!Requests
    <3> HIDE DEF q
    <3>3. DeviceSays(readOnly, held, records, choices, q)
      BY <3>2, <1>a DEF DeviceSays, DeviceHost
    <3> QED
      BY <3>1, <3>2, <3>3
  <2>2. CASE Device!Told(i)
    <3> DEFINE q == IF r.stage = "running" THEN [r EXCEPT !.answer = "nobody"] ELSE None
    <3>1. r # None /\ rpcs' = [rpcs EXCEPT ![i] = q]
      BY <2>2 DEF Device!Told, Device!Live
    <3>2. CASE r.stage = "running"
      <4>1. /\ q \in Device!Requests /\ q.of = r.of /\ q.barred = r.barred /\ q.method = r.method
            /\ q.stage = r.stage
        BY <3>1, <3>2, <2>b DEF Device!Requests
      <4> HIDE DEF q
      <4>2. DeviceSays(readOnly, held, records, choices, q)
        BY <4>1, <3>1, <2>b DEF DeviceSays
      <4> QED
        BY <3>1, <4>1, <4>2
    <3>3. CASE r.stage # "running"
      BY <3>1, <3>3
    <3> QED
      BY <3>2, <3>3
  <2>3. CASE Device!handle(i)
    <3> DEFINE b == Device!Bars(readOnly, held, records[current], r.method)
               q == [r EXCEPT !.stage = "received", !.of = current, !.barred = b]
    <3>1. CASE current = None \/ expired
      BY <2>3, <3>1, <2>e DEF Device!handle, Device!At, Device!Live, Device!Answered
    <3>2. CASE ~(current = None \/ expired)
      <4>1. r # None /\ rpcs' = [rpcs EXCEPT ![i].stage = "received", ![i].of = current, ![i].barred = b]
        BY <2>3, <3>2 DEF Device!handle, Device!At, Device!Live
      <4>2. rpcs' = [rpcs EXCEPT ![i] = q]
        BY <4>1, <2>b
      <4>3. current \in 0..MaxChanges /\ current <= choices /\ b \in SUBSET {"host", "owner"}
        BY <3>2, <1>a, DeviceAssumption DEF DeviceHost, Device!Bars
      <4>4. q \in Device!Requests /\ q.of = current /\ q.barred = b /\ q.method = r.method /\ q.stage = "received"
        BY <4>1, <4>3, <2>b DEF Device!Requests
      <4> HIDE DEF q
      <4>5. "owner" \in b => records[current].readOnly = TRUE
        BY <3>2, <1>a DEF Device!Bars, DeviceHost
      <4>6. DeviceSays(readOnly, held, records, choices, q)
        BY <4>3, <4>4, <4>5 DEF DeviceSays
      <4> QED
        BY <4>2, <4>4, <4>6
    <3> QED
      BY <3>1, <3>2
  <2>4. CASE Device!handleRpc(i)
    <3> DEFINE fc == r.force /\ ~Device!scoped(records[r.of], r.method)
               q == [r EXCEPT !.stage = "resolving", !.force = fc]
    <3>1. r # None
      BY <2>4 DEF Device!handleRpc, Device!At, Device!Live
    <3>2. CASE ~Device!Admitted(records[r.of], r.method)
      BY <2>4, <3>1, <3>2, <2>e DEF Device!handleRpc, Device!Answered, Device!Device
    <3>3. CASE Device!Admitted(records[r.of], r.method)
      <4>1. rpcs' = [rpcs EXCEPT ![i].stage = "resolving", ![i].force = fc]
        BY <2>4, <3>3, <2>b, <3>1 DEF Device!handleRpc, Device!Device
      <4>2. rpcs' = [rpcs EXCEPT ![i] = q]
        BY <4>1, <2>b
      <4>3. fc \in BOOLEAN
        OBVIOUS
      <4>4. q \in Device!Requests /\ q.of = r.of /\ q.barred = r.barred /\ q.method = r.method /\ q.stage = "resolving"
        BY <3>1, <4>3, <2>b DEF Device!Requests
      <4> HIDE DEF q
      <4>5. r.barred = {}
        BY <3>1, <3>3, <2>b, <1>a, DeviceAdmits
      <4>6. DeviceSays(readOnly, held, records, choices, q)
        BY <4>4, <4>5, <3>1, <2>b DEF DeviceSays
      <4> QED
        BY <4>2, <4>4, <4>6
    <3> QED
      BY <3>2, <3>3
  <2>5. CASE Device!resolveRepo(i)
    <3> DEFINE q == [r EXCEPT !.stage = "running"]
    <3>1. r # None /\ r.stage = "resolving"
      BY <2>5 DEF Device!resolveRepo, Device!At, Device!Live
    <3>2. CASE ~shared
      BY <2>5, <3>1, <3>2, <2>e DEF Device!resolveRepo, Device!Answered
    <3>3. CASE shared
      <4>1. rpcs' = [rpcs EXCEPT ![i] = q]
        BY <2>5, <3>3 DEF Device!resolveRepo
      <4>2. q \in Device!Requests /\ q.of = r.of /\ q.barred = r.barred /\ q.method = r.method /\ q.stage = "running"
        BY <3>1, <2>b DEF Device!Requests
      <4> HIDE DEF q
      <4>3. DeviceSays(readOnly, held, records, choices, q)
        BY <4>2, <3>1, <2>b DEF DeviceSays
      <4> QED
        BY <4>1, <4>2, <4>3
    <3> QED
      BY <3>2, <3>3
  <2>6. CASE Device!Ends(i)
    <3>1. r # None
      BY <2>6 DEF Device!Ends, Device!At, Device!Live
    <3>2. CASE r.answer = "nobody"
      BY <2>6, <3>2 DEF Device!Ends
    <3>3. CASE r.answer # "nobody"
      BY <2>6, <3>1, <3>3, <2>e DEF Device!Ends, Device!Answered
    <3> QED
      BY <3>2, <3>3
  <2>7. CASE Device!withTimeout(i)
    <3> DEFINE q == [r EXCEPT !.answer = "failed"]
    <3>1. r # None /\ rpcs' = [rpcs EXCEPT ![i] = q]
      BY <2>7 DEF Device!withTimeout, Device!At, Device!Live
    <3>2. q \in Device!Requests /\ q.of = r.of /\ q.barred = r.barred /\ q.method = r.method /\ q.stage = r.stage
      BY <3>1, <2>b DEF Device!Requests
    <3> HIDE DEF q
    <3>3. DeviceSays(readOnly, held, records, choices, q)
      BY <3>2, <3>1, <2>b DEF DeviceSays
    <3> QED
      BY <3>1, <3>2, <3>3
  <2> QED
    BY <1>2, <2>1, <2>2, <2>3, <2>4, <2>5, <2>6, <2>7
<1>3. CASE UNCHANGED deviceVars
  BY <1>3, <1>a DEF deviceVars, DeviceHost, DeviceRequests, DeviceSays
<1> QED
  BY <1>1, <1>2, <1>3 DEF Device!Next

\* OwnersChoiceHolds, for every set of methods and of calls, and every number of changes.
THEOREM OwnersChoice == SideBySide => []OwnersChoiceHolds
<1>1. Start => Device!Inv
  <2> SUFFICES ASSUME Device!Init PROVE Device!Inv
    BY DEF Start
  <2>1. DeviceHost
    <3>1. current = None /\ held = FALSE /\ readOnly \in BOOLEAN /\ choices = 0
          /\ records = [m \in 0..MaxChanges |-> [readOnly |-> FALSE, scopes |-> {}]]
      BY DEF Device!Init
    <3>2. held \in BOOLEAN /\ current \in 1..choices \cup {None} /\ ~(current # None)
      BY <3>1, Zenon
    <3>3. choices \in 0..MaxChanges
          /\ records \in [0..MaxChanges -> [readOnly : BOOLEAN, scopes : SUBSET WRITE_METHODS]]
      BY <3>1, DeviceAssumption
    <3> QED
      BY <3>1, <3>2, <3>3, Zenon DEF DeviceHost
  <2>2. DeviceRequests
    BY DEF Device!Init, DeviceRequests
  <2> QED
    BY <2>1, <2>2, DeviceInv
<1>2. Device!Inv /\ [Step]_<<focus, vars, repositoryVars, treesVars, desktopVars, peersVars, deviceVars, clockVars,
                             storeVars>> => Device!Inv'
  <2>1. [Step]_<<focus, vars, repositoryVars, treesVars, desktopVars, peersVars, deviceVars, clockVars, storeVars>>
          => [Device!Next]_deviceVars
    BY DEF Step
  <2> QED
    BY <2>1, DeviceStep
<1>3. Device!Inv => OwnersChoiceHolds
  BY DEF Device!Inv, OwnersChoiceHolds, Device!OwnersChoiceHolds
<1> QED
  BY <1>1, <1>2, <1>3, PTL DEF SideBySide

----------------------------------------------------------------------------
\* Branches, fetches and pushes.

\* What the refs reach, ref by ref.
LEMMA RepositoryAll ==
  ASSUME NEW refs, NEW S
  PROVE  Repository!All(refs) \subseteq S <=> \A r \in DOMAIN refs : refs[r] \subseteq S
BY DEF Repository!All

\* What one ref reaches is among what all of them reach.
LEMMA RepositoryReaches ==
  ASSUME NEW refs
  PROVE  \A r \in DOMAIN refs : refs[r] \subseteq Repository!All(refs)
BY DEF Repository!All

\* The refs of the clone and of the remote, and what the app waits for.
RepositoryTypes ==
  /\ DOMAIN local = Branches /\ DOMAIN tracking = Branches /\ DOMAIN remote = Branches
  /\ DOMAIN upstream = Branches /\ DOMAIN tags = TagNames /\ DOMAIN remoteTags = TagNames
  /\ checkedOut \in Branches
  /\ \A b \in Branches : upstream[b] \in Branches \cup {None}
  /\ op # None /\ op.kind = "push -u" => op.name \in Branches
RepositoryKnown ==
  /\ \A b \in Branches : local[b] \subseteq listed /\ tracking[b] \subseteq listed
  /\ \A t \in TagNames : tags[t] \subseteq listed
  /\ pushedOver \subseteq listed

\* What a clone knows of the refs, part by part.
LEMMA RepositoryInv ==
  Repository!RefsAreKnown <=> RepositoryTypes /\ RepositoryKnown
<1>1. RepositoryTypes => (Repository!All(local) \subseteq listed <=> \A b \in Branches : local[b] \subseteq listed)
  BY RepositoryAll DEF RepositoryTypes
<1>2. RepositoryTypes => (Repository!All(tracking) \subseteq listed <=> \A b \in Branches : tracking[b] \subseteq listed)
  BY RepositoryAll DEF RepositoryTypes
<1>3. RepositoryTypes => (Repository!All(tags) \subseteq listed <=> \A t \in TagNames : tags[t] \subseteq listed)
  BY RepositoryAll DEF RepositoryTypes
<1>4. Repository!RefsAreKnown <=> /\ RepositoryTypes /\ pushedOver \subseteq listed
                                  /\ Repository!All(local) \subseteq listed
                                  /\ Repository!All(tracking) \subseteq listed
                                  /\ Repository!All(tags) \subseteq listed
  BY DEF Repository!RefsAreKnown, RepositoryTypes, Repository!Idle
<1> QED
  BY <1>1, <1>2, <1>3, <1>4 DEF RepositoryKnown

\* What a fetch brings is known, what was known still is.
LEMMA RepositoryFetches ==
  ASSUME RepositoryTypes, RepositoryKnown, NEW track, NEW new, DOMAIN track = Branches,
         Repository!FetchesThen(track, new)
  PROVE  /\ tracking' = track /\ DOMAIN tags' = TagNames
         /\ listed \subseteq listed' /\ new \subseteq listed'
         /\ \A b \in Branches : track[b] \subseteq listed'
         /\ \A t \in TagNames : tags'[t] \subseteq listed'
<1>1. listed' = (listed \cup Repository!All(track)) \cup new /\ tracking' = track
      /\ tags' = Repository!Followed(listed \cup Repository!All(track))
  BY DEF Repository!FetchesThen
<1>2. \A b \in Branches : track[b] \subseteq Repository!All(track)
  BY RepositoryReaches
<1>3. \A t \in TagNames : tags'[t] = tags[t] \/ tags'[t] \subseteq listed \cup Repository!All(track)
  BY <1>1 DEF Repository!Followed
<1>4. DOMAIN tags' = TagNames
  BY <1>1 DEF Repository!Followed
<1> QED
  BY <1>1, <1>2, <1>3, <1>4 DEF RepositoryKnown

\* Every command keeps what the clone knows, and a push takes away only what it knows.
LEMMA RepositoryStep ==
  ASSUME RepositoryTypes, RepositoryKnown, [Repository!Next]_repositoryVars
  PROVE  RepositoryTypes' /\ RepositoryKnown'
<1> USE DEF RepositoryTypes, RepositoryKnown, Repository!clone, Repository!far, Repository!history
<1>1. CASE Repository!fetch
  <2>1. DOMAIN remote = Branches /\ Repository!FetchesThen(remote, {}) /\ UNCHANGED <<local, checkedOut, upstream, remote, remoteTags, op, pushedOver>>
    BY <1>1 DEF Repository!fetch, Repository!Fetches
  <2> QED
    BY <2>1, RepositoryFetches
<1>2. ASSUME NEW mode, Repository!pull(mode)
      PROVE  RepositoryTypes' /\ RepositoryKnown'
  <2> DEFINE theirs == IF upstream[checkedOut] = None THEN {} ELSE remote[upstream[checkedOut]]
             ours == local[checkedOut]
  <2>1. UNCHANGED <<checkedOut, upstream, remote, remoteTags, op, pushedOver>>
    BY <1>2 DEF Repository!pull
  <2> DEFINE Brings(new) == /\ Repository!FetchesThen(remote, new)
                            /\ \/ local' = local
                               \/ \E h : /\ local' = [local EXCEPT ![checkedOut] = h]
                                         /\ h \subseteq (ours \cup theirs) \cup new
             copies == commits + 1 .. commits + Repository!Cardinality(ours \ theirs)
  <2>a. \/ Repository!FetchesThen(remote, {}) /\ local' = [local EXCEPT ![checkedOut] = theirs]
        \/ Repository!FetchesThen(remote, {}) /\ local' = local
        \/ /\ Repository!FetchesThen(remote, {commits + 1})
           /\ local' = [local EXCEPT ![checkedOut] = (ours \cup theirs) \cup {commits + 1}]
        \/ Repository!FetchesThen(remote, copies) /\ local' = [local EXCEPT ![checkedOut] = theirs \cup copies]
    BY <1>2, Zenon DEF Repository!pull, Repository!Fetches
  <2>b. theirs \subseteq (ours \cup theirs) \cup {} /\ theirs \cup copies \subseteq (ours \cup theirs) \cup copies
    BY Zenon
  <2>c. Brings({}) \/ Brings({commits + 1}) \/ Brings(copies)
    <3> HIDE DEF copies, ours, theirs
    <3> QED
      BY <2>a, <2>b
  <2>2. \E new : Brings(new)
    <3> HIDE DEF Brings
    <3> QED
      BY <2>c
  <2>3. PICK new : /\ Repository!FetchesThen(remote, new)
                   /\ \/ local' = local
                      \/ \E h : local' = [local EXCEPT ![checkedOut] = h] /\ h \subseteq (ours \cup theirs) \cup new
    BY <2>2
  <2>4. /\ tracking' = remote /\ DOMAIN tags' = TagNames
        /\ listed \subseteq listed' /\ new \subseteq listed'
        /\ \A b \in Branches : remote[b] \subseteq listed'
        /\ \A t \in TagNames : tags'[t] \subseteq listed'
    BY <2>3, RepositoryFetches
  <2>5. ours \subseteq listed' /\ theirs \subseteq listed'
    BY <2>4
  <2>6. DOMAIN local' = Branches /\ \A b \in Branches : local'[b] \subseteq listed'
    BY <2>3, <2>4, <2>5
  <2> QED
    BY <2>1, <2>4, <2>6
<1>3. ASSUME NEW b \in Branches, Repository!fastForwardBranch(b)
      PROVE  RepositoryTypes' /\ RepositoryKnown'
  <2> DEFINE from == IF upstream[b] = None THEN b ELSE upstream[b]
  <2>1. from \in Branches
    OBVIOUS
  <2> HIDE DEF from
  <2>2. /\ Repository!FetchesThen([tracking EXCEPT ![from] = remote[from]], {})
        /\ local' = local \/ local' = [local EXCEPT ![b] = remote[from]]
        /\ UNCHANGED <<checkedOut, upstream, remote, remoteTags, op, pushedOver>>
    BY <1>3 DEF Repository!fastForwardBranch, Repository!Fetches, from
  <2> DEFINE track == [tracking EXCEPT ![from] = remote[from]]
  <2>3. DOMAIN track = Branches /\ track[from] = remote[from]
    BY <2>1
  <2> HIDE DEF track
  <2>4. /\ tracking' = track /\ DOMAIN tags' = TagNames
        /\ listed \subseteq listed'
        /\ \A c \in Branches : track[c] \subseteq listed'
        /\ \A t \in TagNames : tags'[t] \subseteq listed'
    BY <2>2, <2>3, RepositoryFetches DEF track
  <2>5. remote[from] \subseteq listed'
    BY <2>1, <2>3, <2>4
  <2>6. DOMAIN local' = Branches /\ \A c \in Branches : local'[c] \subseteq listed'
    BY <2>2, <2>4, <2>5
  <2> QED
    BY <2>2, <2>3, <2>4, <2>6
<1>4. ASSUME NEW b \in Branches, NEW fc, Repository!Sends(b, fc), UNCHANGED <<local, checkedOut, tags, remoteTags, listed>>,
             DOMAIN upstream' = Branches, \A c \in Branches : upstream'[c] \in Branches \cup {None},
             op' = None \/ op' = op \/ op'.kind = "no upstream"
      PROVE  RepositoryTypes' /\ RepositoryKnown'
  BY <1>4 DEF Repository!Sends, Repository!Accepted
<1>5. ASSUME NEW fc, Repository!push(fc)
      PROVE  RepositoryTypes' /\ RepositoryKnown'
  <2>1. CASE Repository!Sends(checkedOut, fc) /\ op' = op
    BY <2>1, <1>4, <1>5 DEF Repository!push
  <2>2. CASE /\ op' = Repository!Op("no upstream", None, fc, local[checkedOut])
             /\ UNCHANGED <<remote, tracking, pushed, pushedOver>>
    BY <2>2, <1>5 DEF Repository!push, Repository!Op
  <2> QED
    <3>1. \/ Repository!Sends(checkedOut, fc) /\ op' = op
          \/ /\ op' = Repository!Op("no upstream", None, fc, local[checkedOut])
             /\ UNCHANGED <<remote, tracking, pushed, pushedOver>>
      BY <1>5 DEF Repository!push
    <3> QED
      BY <2>1, <2>2, <3>1
<1>6. CASE Repository!PushReadsStatus
  BY <1>6 DEF Repository!PushReadsStatus, Repository!Op
<1>7. CASE Repository!PushSetsUpstream
  <2>1. op.name \in Branches /\ op' = None /\ UNCHANGED <<local, checkedOut, tags, remoteTags, listed>>
    BY <1>7 DEF Repository!PushSetsUpstream, Repository!Idle
  <2>2. DOMAIN upstream' = Branches /\ \A c \in Branches : upstream'[c] \in Branches \cup {None}
    BY <1>7, <2>1 DEF Repository!PushSetsUpstream
  <2> QED
    BY <2>1, <2>2, <1>4, <1>7 DEF Repository!PushSetsUpstream
<1>8. CASE Repository!pushForReview
  BY <1>8 DEF Repository!pushForReview
<1>9. ASSUME NEW b \in Branches, Repository!deleteRemoteBranch(b)
      PROVE  RepositoryTypes' /\ RepositoryKnown'
  BY <1>9 DEF Repository!deleteRemoteBranch
<1>10. ASSUME NEW b \in Branches, NEW at, at \subseteq listed, Repository!createBranch(b, at)
      PROVE  RepositoryTypes' /\ RepositoryKnown'
  BY <1>10 DEF Repository!createBranch
<1>11. ASSUME NEW b \in Branches, Repository!handleCheckout(b)
      PROVE  RepositoryTypes' /\ RepositoryKnown'
  BY <1>11 DEF Repository!handleCheckout
<1>12. ASSUME NEW b \in Branches, NEW dst \in Branches, Repository!renameBranch(b, dst)
      PROVE  RepositoryTypes' /\ RepositoryKnown'
  BY <1>12 DEF Repository!renameBranch
<1>13. ASSUME NEW b \in Branches, Repository!deleteBranch(b)
      PROVE  RepositoryTypes' /\ RepositoryKnown'
  <2>1. UNCHANGED <<checkedOut, tracking, tags, remote, remoteTags, listed, pushedOver>>
        /\ \/ Repository!Removes(b) /\ op' = op
           \/ op' = Repository!Op("confirm-delete-branch", b, TRUE, local[b]) /\ UNCHANGED <<local, upstream>>
    BY <1>13, Zenon DEF Repository!deleteBranch
  <2>2. CASE Repository!Removes(b) /\ op' = op
    BY <2>1, <2>2 DEF Repository!Removes
  <2>3. CASE op' = Repository!Op("confirm-delete-branch", b, TRUE, local[b]) /\ UNCHANGED <<local, upstream>>
    BY <2>1, <2>3 DEF Repository!Op
  <2> QED
    BY <2>1, <2>2, <2>3
<1>14. ASSUME NEW yes \in BOOLEAN, Repository!ConfirmDelete(yes)
      PROVE  RepositoryTypes' /\ RepositoryKnown'
  BY <1>14 DEF Repository!ConfirmDelete, Repository!Removes
<1>15. CASE Repository!commit
  BY <1>15 DEF Repository!commit
<1>16. CASE Repository!amendCommit
  BY <1>16 DEF Repository!amendCommit
<1>17. ASSUME NEW t \in TagNames, NEW at, at \subseteq listed, Repository!createTag(t, at)
      PROVE  RepositoryTypes' /\ RepositoryKnown'
  BY <1>17 DEF Repository!createTag
<1>18. ASSUME NEW t \in TagNames, NEW dst \in TagNames, Repository!renameTag(t, dst)
      PROVE  RepositoryTypes' /\ RepositoryKnown'
  BY <1>18 DEF Repository!renameTag, Repository!Op
<1>19. ASSUME NEW t \in TagNames, Repository!deleteTag(t) \/ Repository!pushTag(t) \/ Repository!deleteRemoteTag(t)
      PROVE  RepositoryTypes' /\ RepositoryKnown'
  <2>1. CASE Repository!deleteTag(t)
    BY <2>1 DEF Repository!deleteTag
  <2>2. CASE Repository!pushTag(t)
    BY <2>2 DEF Repository!pushTag
  <2>3. CASE Repository!deleteRemoteTag(t)
    <3>1. op' = None \/ op' = Repository!Op("listed tag", t, FALSE, tags[t])
      BY <2>3 DEF Repository!deleteRemoteTag
    <3>2. op' # None => op'.kind # "push -u"
      <4>1. CASE op' = Repository!Op("listed tag", t, FALSE, tags[t])
        <5>1. op'.kind = "listed tag"
          BY <4>1 DEF Repository!Op
        <5> QED
          BY <5>1
      <4> QED
        BY <3>1, <4>1
    <3> QED
      BY <2>3, <3>2 DEF Repository!deleteRemoteTag
  <2> QED
    BY <1>19, <2>1, <2>2, <2>3
<1>20. CASE Repository!RenameDropsOld \/ Repository!DeletesListedTag
  BY <1>20 DEF Repository!RenameDropsOld, Repository!DeletesListedTag
<1>21. ASSUME NEW b \in Branches, Repository!createRef(b)
      PROVE  RepositoryTypes' /\ RepositoryKnown'
  BY <1>21 DEF Repository!createRef, Repository!Op
<1>22. CASE Repository!syncCreatedGerritRef
  <2> DEFINE b == op.name
             track == [tracking EXCEPT ![b] = remote[b]]
  <2>1. UNCHANGED <<local, checkedOut, remote, remoteTags, pushedOver>> /\ op' = None
        /\ upstream' \in {upstream, [upstream EXCEPT ![b] = b]}
    BY <1>22 DEF Repository!syncCreatedGerritRef
  <2>2. DOMAIN upstream' = Branches /\ \A c \in Branches : upstream'[c] \in Branches \cup {None}
    BY <2>1
  <2>3. CASE Repository!FetchesThen(track, {})
    <3>1. DOMAIN track = Branches
      OBVIOUS
    <3> HIDE DEF track
    <3>2. /\ tracking' = track /\ DOMAIN tags' = TagNames
          /\ listed \subseteq listed'
          /\ \A c \in Branches : track[c] \subseteq listed'
          /\ \A t \in TagNames : tags'[t] \subseteq listed'
      BY <3>1, <2>3, RepositoryFetches
    <3> QED
      BY <2>1, <2>2, <3>1, <3>2
  <2>4. CASE UNCHANGED <<tracking, tags, upstream, listed>>
    BY <2>1, <2>4
  <2> QED
    BY <2>3, <2>4, <1>22 DEF Repository!syncCreatedGerritRef, Repository!Fetches
<1>23. ASSUME NEW b \in Branches, Repository!OtherPushes(b) \/ Repository!OtherDeletes(b)
      PROVE  RepositoryTypes' /\ RepositoryKnown'
  BY <1>23 DEF Repository!OtherPushes, Repository!OtherDeletes
<1>24. CASE UNCHANGED repositoryVars
  BY <1>24 DEF repositoryVars
<1>25. \A b \in Branches : local[b] \subseteq listed /\ tracking[b] \subseteq listed
  OBVIOUS
<1>26. \A u \in TagNames : tags[u] \subseteq listed
  OBVIOUS
<1> DEFINE Kept == RepositoryTypes' /\ RepositoryKnown'
<1>27. /\ \A mode : Repository!pull(mode) => Kept
       /\ \A fc : Repository!push(fc) => Kept
       /\ \A b \in Branches : (\/ Repository!fastForwardBranch(b) \/ Repository!deleteRemoteBranch(b)
                              \/ Repository!handleCheckout(b) \/ Repository!deleteBranch(b) \/ Repository!createRef(b)
                              \/ Repository!OtherPushes(b) \/ Repository!OtherDeletes(b)) => Kept
       /\ \A b, dst \in Branches : Repository!renameBranch(b, dst) => Kept
       /\ \A b \in Branches : \A at : at \subseteq listed /\ Repository!createBranch(b, at) => Kept
       /\ \A t \in TagNames : \A at : at \subseteq listed /\ Repository!createTag(t, at) => Kept
       /\ \A t, dst \in TagNames : Repository!renameTag(t, dst) => Kept
       /\ \A t \in TagNames : Repository!deleteTag(t) \/ Repository!pushTag(t) \/ Repository!deleteRemoteTag(t) => Kept
       /\ \A yes \in BOOLEAN : Repository!ConfirmDelete(yes) => Kept
  BY <1>2, <1>3, <1>5, <1>9, <1>10, <1>11, <1>12, <1>13, <1>14, <1>17, <1>18, <1>19, <1>21, <1>23, Zenon
<1>28. ASSUME \/ Repository!fetch \/ Repository!PushReadsStatus \/ Repository!PushSetsUpstream \/ Repository!pushForReview
              \/ Repository!commit \/ Repository!amendCommit \/ Repository!RenameDropsOld \/ Repository!DeletesListedTag
              \/ Repository!syncCreatedGerritRef \/ UNCHANGED repositoryVars
       PROVE  Kept
  BY <1>28, <1>1, <1>6, <1>7, <1>8, <1>15, <1>16, <1>20, <1>22, <1>24, Zenon
<1> HIDE DEF Kept, RepositoryTypes, RepositoryKnown
<1>29. ASSUME NEW b \in Branches, Repository!BranchMenu(b) \/ Repository!CommitMenu(local[b]) \/ Repository!CommitMenu(tracking[b])
       PROVE  Kept
  BY <1>29, <1>25, <1>27, Zenon DEF Repository!BranchMenu, Repository!CommitMenu
<1>30. ASSUME NEW u \in TagNames, Repository!TagMenu(u)
       PROVE  Kept
  BY <1>30, <1>26, <1>27, Zenon DEF Repository!TagMenu, Repository!TagRequests
<1>31. ASSUME Repository!Toolbar PROVE Kept
  <2>1. local[checkedOut] \subseteq listed
    BY DEF RepositoryTypes, RepositoryKnown
  <2> QED
    BY <1>31, <2>1, <1>27, <1>28, Zenon DEF Repository!Toolbar
<1>32. ASSUME Repository!PullMenu \/ Repository!PushMenu \/ Repository!DivergedPrompt PROVE Kept
  BY <1>32, <1>27, Zenon DEF Repository!PullMenu, Repository!PushMenu, Repository!DivergedPrompt
<1>33. ASSUME Repository!Continues PROVE Kept
  BY <1>33, <1>27, <1>28, Zenon DEF Repository!Continues
<1>34. ASSUME Repository!Commands PROVE Kept
  BY <1>34, <1>27, <1>28, <1>29, <1>30, <1>31, <1>32, Zenon DEF Repository!Commands
<1>35. Kept
  BY <1>28, <1>33, <1>34, Zenon DEF Repository!Next
<1> QED
  BY <1>35, Zenon DEF Kept

\* PushesOverTheKnown, for every set of branches, of tags and of commits.
THEOREM PushesOverKnown == SideBySide => []PushesOverTheKnown
<1>1. Start => Repository!RefsAreKnown
  <2> SUFFICES ASSUME Repository!Init PROVE RepositoryTypes /\ RepositoryKnown
    BY RepositoryInv DEF Start
  <2> QED
    BY RepositoryAssumption DEF Repository!Init, RepositoryTypes, RepositoryKnown
<1>2. Repository!RefsAreKnown /\ [Step]_<<focus, vars, repositoryVars, treesVars, desktopVars, peersVars, deviceVars,
                                          clockVars, storeVars>> => Repository!RefsAreKnown'
  <2>1. [Step]_<<focus, vars, repositoryVars, treesVars, desktopVars, peersVars, deviceVars, clockVars, storeVars>>
          => [Repository!Next]_repositoryVars
    BY DEF Step
  <2>2. (RepositoryTypes /\ RepositoryKnown)' => Repository!RefsAreKnown'
    BY RepositoryInv, PTL
  <2> QED
    BY <2>1, <2>2, RepositoryInv, RepositoryStep
<1>3. Repository!RefsAreKnown => PushesOverTheKnown
  BY DEF Repository!RefsAreKnown, PushesOverTheKnown, Repository!PushesOverTheKnown
<1> QED
  BY <1>1, <1>2, <1>3, PTL DEF SideBySide

----------------------------------------------------------------------------
\* Sharing on and off.

\* The settings are those the server listens, announces and links by.
DesktopIdle(fail) ==
  /\ bound = {server} \ {None}
  /\ server # None => settings.enabled = TRUE
  /\ settings.enabled = TRUE => server # None \/ fail = TRUE
  /\ beacon = (IF server = None THEN None ELSE Desktop!beaconPayload(settings, server))
  /\ link = (IF server = None THEN None ELSE settings.relayUrl)
DesktopStarts == server = None /\ bound = {} /\ beacon = None /\ link = None /\ settings.enabled = TRUE
DesktopOne == opening \subseteq [left : SUBSET Ports, call : Nat] /\ \A o, q \in opening : o = q

\* The invariant of sharing, at rest and while a start is under way.
LEMMA DesktopInv ==
  Desktop!OneStart <=>
    /\ sets \in Nat /\ overlapped \in BOOLEAN /\ failed \in BOOLEAN
    /\ opening \subseteq [left : SUBSET Ports, call : Nat]
    /\ overlapped = FALSE =>
         /\ DesktopOne
         /\ opening # {} => DesktopStarts
         /\ opening = {} => DesktopIdle(failed)
BY DEF Desktop!OneStart, DesktopOne, DesktopStarts, DesktopIdle

\* A call of setServer while nothing is under way leaves the server at rest on the new settings or starts it.
LEMMA DesktopSets ==
  ASSUME NEW patch \in Desktop!Patches, Desktop!setServer(patch), sets \in Nat, failed \in BOOLEAN,
         opening = {}, DesktopIdle(failed)
  PROVE  /\ DesktopOne'
         /\ opening' # {} => DesktopStarts'
         /\ opening' = {} => DesktopIdle(failed)'
<1> DEFINE s == Desktop!updateSettings(settings, patch)
           o == [left |-> {p \in Ports : p >= s.port /\ p <= s.port + PORT_SEARCH_SPAN}, call |-> sets]
<1>1. settings' = s /\ failed' = failed
  BY DEF Desktop!setServer
<1>2. o \in [left : SUBSET Ports, call : Nat]
  OBVIOUS
<1>a. Desktop!startServer(s) => opening' = {o}
  BY DEF Desktop!startServer
<1> HIDE DEF s, o
<1>3. CASE ~settings'.enabled /\ server # None /\ Desktop!stopServer /\ UNCHANGED opening
  <2>1. server' = None /\ bound' = {} /\ link' = None /\ beacon' = None /\ opening' = {} /\ settings'.enabled # TRUE
    BY <1>3 DEF Desktop!stopServer, DesktopIdle
  <2> QED
    BY <2>1 DEF DesktopIdle, DesktopOne
<1>4. CASE settings'.enabled /\ server # None /\ Desktop!stopServer /\ Desktop!startServer(settings')
  <2>1. server' = None /\ bound' = {} /\ link' = None /\ beacon' = None
    BY <1>4 DEF Desktop!stopServer, DesktopIdle
  <2>2. opening' = {o}
    BY <1>4, <1>1, <1>a
  <2>3. settings'.enabled = TRUE
    BY <1>4, <1>1
  <2> QED
    BY <2>1, <2>2, <2>3, <1>2 DEF DesktopOne, DesktopStarts
<1>5. CASE /\ settings'.enabled /\ server = None
           /\ Desktop!startServer(settings')
           /\ UNCHANGED <<server, bound, beacon, link>>
  <2>1. server' = None /\ bound' = {} /\ link' = None /\ beacon' = None
    BY <1>5 DEF DesktopIdle
  <2>2. opening' = {o}
    BY <1>5, <1>1, <1>a
  <2>3. settings'.enabled = TRUE
    BY <1>5
  <2> QED
    BY <2>1, <2>2, <2>3, <1>2 DEF DesktopOne, DesktopStarts
<1>6. CASE /\ settings'.enabled /\ server # None
           /\ beacon' = Desktop!beaconPayload(settings', server)
           /\ link' = Desktop!applyRelayLink(settings', TRUE)
           /\ UNCHANGED <<server, bound, opening>>
  <2>1. server' = server /\ bound' = bound /\ link' = settings'.relayUrl /\ opening' = {}
    BY <1>6 DEF Desktop!applyRelayLink
  <2>2. settings'.enabled = TRUE
    BY <1>6
  <2> QED
    BY <2>1, <2>2, <1>6 DEF DesktopOne, DesktopIdle, Desktop!beaconPayload
<1>7. CASE ~settings'.enabled /\ server = None /\ link' = None /\ UNCHANGED <<server, bound, opening, beacon>>
  <2>1. settings'.enabled # TRUE
    BY <1>7
  <2> QED
    BY <2>1, <1>7 DEF DesktopOne, DesktopIdle
<1> QED
  BY <1>3, <1>4, <1>5, <1>6, <1>7 DEF Desktop!setServer

\* A start under way ends with the server on a port, or with the failure noted.
LEMMA DesktopTries ==
  ASSUME NEW o \in opening, Desktop!Tried(o) \/ Desktop!NoPort(o), DesktopOne, DesktopStarts
  PROVE  /\ DesktopOne'
         /\ opening' # {} => DesktopStarts'
         /\ opening' = {} => DesktopIdle(failed)'
         /\ failed' \in {failed, TRUE, FALSE}
<1>1. opening = {o} /\ o \in [left : SUBSET Ports, call : Nat] /\ settings' = settings
  BY DEF DesktopOne, Desktop!Tried, Desktop!NoPort
<1>2. CASE Desktop!NoPort(o)
  <2>1. opening' = {} /\ link' = None /\ UNCHANGED <<server, bound, beacon>>
    BY <1>1, <1>2 DEF Desktop!NoPort, Desktop!applyRelayLink, DesktopStarts
  <2>2. failed' = TRUE
    BY <1>2 DEF Desktop!NoPort
  <2> QED
    BY <1>1, <2>1, <2>2 DEF DesktopOne, DesktopStarts, DesktopIdle
<1>3. CASE Desktop!Tried(o)
  <2>1. PICK p \in o.left :
          \/ /\ opening' = (opening \ {o}) \cup {[o EXCEPT !.left = @ \ {p}]}
             /\ UNCHANGED <<server, bound, failed, beacon, link>>
          \/ /\ opening' = opening \ {o} /\ server' = p /\ bound' = bound \cup {p} /\ failed' = FALSE
             /\ beacon' = Desktop!beaconPayload(settings, p) /\ link' = Desktop!applyRelayLink(settings, TRUE)
    BY <1>3 DEF Desktop!Tried
  <2>2. p \in Ports /\ p # None
    BY <1>1, DesktopAssumption
  <2>3. CASE /\ opening' = (opening \ {o}) \cup {[o EXCEPT !.left = @ \ {p}]}
             /\ UNCHANGED <<server, bound, failed, beacon, link>>
    <3> DEFINE q == [o EXCEPT !.left = @ \ {p}]
    <3>1. q \in [left : SUBSET Ports, call : Nat] /\ opening' = {q}
      BY <1>1, <2>3
    <3> HIDE DEF q
    <3> QED
      BY <3>1, <1>1, <2>3 DEF DesktopOne, DesktopStarts
  <2>4. CASE /\ opening' = opening \ {o} /\ server' = p /\ bound' = bound \cup {p} /\ failed' = FALSE
             /\ beacon' = Desktop!beaconPayload(settings, p) /\ link' = Desktop!applyRelayLink(settings, TRUE)
    <3>1. opening' = {} /\ bound' = {p} /\ link' = settings.relayUrl /\ failed' = FALSE
      BY <1>1, <2>4 DEF DesktopStarts, Desktop!applyRelayLink
    <3> QED
      BY <3>1, <1>1, <2>2, <2>4 DEF DesktopOne, DesktopStarts, DesktopIdle, Desktop!beaconPayload
  <2> QED
    BY <2>1, <2>3, <2>4
<1> QED
  BY <1>2, <1>3

\* Every call and every answer of the server keeps the invariant.
LEMMA DesktopStep ==
  ASSUME Desktop!OneStart, [Desktop!Next]_desktopVars
  PROVE  Desktop!OneStart'
<1> DEFINE Types(ov, fl) == /\ sets \in Nat /\ ov \in BOOLEAN /\ fl \in BOOLEAN
                            /\ opening \subseteq [left : SUBSET Ports, call : Nat]
           Holds(ov, fl) == ov = FALSE => /\ DesktopOne
                                          /\ opening # {} => DesktopStarts
                                          /\ opening = {} => DesktopIdle(fl)
<1>a. Types(overlapped, failed) /\ Holds(overlapped, failed)
  BY DesktopInv
<1>b. SUFFICES Types(overlapped, failed)' /\ Holds(overlapped, failed)'
  BY DEF Desktop!OneStart, DesktopOne, DesktopStarts, DesktopIdle
<1>1. ASSUME NEW patch \in Desktop!Patches, Desktop!setServer(patch)
      PROVE  Types(overlapped, failed)' /\ Holds(overlapped, failed)'
  <2>1. overlapped' \in BOOLEAN /\ failed' = failed /\ sets' = sets + 1
    BY <1>1 DEF Desktop!setServer
  <2>2. opening' \subseteq opening \cup {[left |-> {p \in Ports : p >= settings'.port /\ p <= settings'.port + PORT_SEARCH_SPAN},
                                     call |-> sets]}
    BY <1>1 DEF Desktop!setServer, Desktop!startServer
  <2>3. opening' \subseteq [left : SUBSET Ports, call : Nat]
    BY <2>2, <1>a
  <2>4. overlapped' = FALSE => overlapped = FALSE /\ opening = {}
    BY <1>1, <1>a DEF Desktop!setServer
  <2>5. overlapped' = FALSE => /\ DesktopOne'
                               /\ opening' # {} => DesktopStarts'
                               /\ opening' = {} => DesktopIdle(failed)'
    <3> SUFFICES ASSUME overlapped' = FALSE PROVE /\ DesktopOne'
                                                  /\ opening' # {} => DesktopStarts'
                                                  /\ opening' = {} => DesktopIdle(failed)'
      OBVIOUS
    <3>1. DesktopIdle(failed) /\ opening = {}
      BY <2>4, <1>a
    <3> QED
      BY <3>1, <1>1, <1>a, DesktopSets
  <2> QED
    BY <2>1, <2>3, <2>5, <1>a
<1>2. ASSUME NEW o \in opening, Desktop!Tried(o) \/ Desktop!NoPort(o)
      PROVE  Types(overlapped, failed)' /\ Holds(overlapped, failed)'
  <2>1. overlapped' = overlapped /\ sets' = sets /\ failed' \in {failed, TRUE, FALSE}
    BY <1>2 DEF Desktop!Tried, Desktop!NoPort
  <2>2. opening' \subseteq [left : SUBSET Ports, call : Nat]
    <3>1. o \in [left : SUBSET Ports, call : Nat]
      BY <1>a
    <3>2. \A p \in o.left : [o EXCEPT !.left = @ \ {p}] \in [left : SUBSET Ports, call : Nat]
      BY <3>1
    <3>3. \A q \in opening' : q \in opening \/ \E p \in o.left : q = [o EXCEPT !.left = @ \ {p}]
      BY <1>2 DEF Desktop!Tried, Desktop!NoPort
    <3> QED
      BY <3>2, <3>3, <1>a
  <2>3. overlapped = FALSE => /\ DesktopOne'
                              /\ opening' # {} => DesktopStarts'
                              /\ opening' = {} => DesktopIdle(failed)'
    BY <1>2, <1>a, DesktopTries
  <2> QED
    BY <2>1, <2>2, <2>3, <1>a
<1>3. CASE Desktop!restart
  <2> DEFINE q == [left |-> {p \in Ports : p >= settings.port /\ p <= settings.port + PORT_SEARCH_SPAN}, call |-> sets]
  <2>1. /\ server' = None /\ bound' = {} /\ beacon' = None /\ link' = None /\ settings' = settings /\ sets' = sets + 1
        /\ opening' = IF settings.enabled THEN {q} ELSE {}
    BY <1>3 DEF Desktop!restart
  <2>2. failed' = FALSE /\ overlapped' = FALSE
    BY <1>3 DEF Desktop!restart
  <2>3. q \in [left : SUBSET Ports, call : Nat]
    BY <1>a
  <2> HIDE DEF q
  <2>4. failed' \in BOOLEAN /\ overlapped' \in BOOLEAN
    BY <2>2
  <2>5. sets' \in Nat /\ opening' \subseteq [left : SUBSET Ports, call : Nat] /\ DesktopOne'
    BY <2>1, <2>3, <1>a DEF DesktopOne
  <2>6. opening' # {} => DesktopStarts'
    BY <2>1 DEF DesktopStarts
  <2>7. opening' = {} => DesktopIdle(failed)'
    <3>1. opening' = {} => settings'.enabled # TRUE
      BY <2>1
    <3> QED
      BY <2>1, <3>1 DEF DesktopIdle
  <2> QED
    BY <2>4, <2>5, <2>6, <2>7, Zenon
<1>4. CASE UNCHANGED <<Desktop!service, sets>>
  BY <1>4, <1>a DEF Desktop!service, DesktopOne, DesktopStarts, DesktopIdle, Desktop!beaconPayload
<1>5. CASE \/ Desktop!sendBeacon \/ Desktop!Move \/ Desktop!onMessage \/ Desktop!Lost \/ Desktop!sweep
           \/ (\E host \in {address, Dns} : Desktop!pair(host)) \/ Desktop!forget \/ Desktop!peerRestart \/ Desktop!Attempt
           \/ UNCHANGED desktopVars
  <2>1. UNCHANGED <<Desktop!service, sets>>
    BY <1>5 DEF Desktop!sendBeacon, Desktop!Move, Desktop!onMessage, Desktop!Lost, Desktop!sweep, Desktop!pair, Desktop!forget,
                Desktop!peerRestart, Desktop!Attempt, desktopVars, Desktop!service
  <2> QED
    BY <2>1, <1>4
<1> HIDE DEF Types, Holds
<1> QED
  BY <1>1, <1>2, <1>3, <1>5, Zenon DEF Desktop!Next

\* SharingIsTheSettings, for every range of ports and every set of settings.
THEOREM SharingFollows == SideBySide => []SharingIsTheSettings
<1>1. Start => Desktop!OneStart
  <2> SUFFICES ASSUME Desktop!Init PROVE Desktop!OneStart
    BY DEF Start
  <2> DEFINE q == [left |-> {p \in Ports : p <= settings.port + PORT_SEARCH_SPAN}, call |-> 0]
  <2>1. /\ server = None /\ bound = {} /\ beacon = None /\ link = None /\ sets = 0
        /\ opening = IF settings.enabled THEN {q} ELSE {}
    BY DEF Desktop!Init
  <2>2. failed = FALSE /\ overlapped = FALSE /\ settings.enabled \in BOOLEAN
    BY DEF Desktop!Init
  <2>3. q \in [left : SUBSET Ports, call : Nat]
    OBVIOUS
  <2> HIDE DEF q
  <2>4. CASE settings.enabled
    BY <2>1, <2>2, <2>3, <2>4, DesktopInv DEF DesktopOne, DesktopStarts
  <2>5. CASE ~settings.enabled
    BY <2>1, <2>2, <2>5, DesktopInv DEF DesktopOne, DesktopIdle
  <2> QED
    BY <2>4, <2>5
<1>2. Desktop!OneStart /\ [Step]_<<focus, vars, repositoryVars, treesVars, desktopVars, peersVars, deviceVars, clockVars,
                                 storeVars>> => Desktop!OneStart'
  <2>1. [Step]_<<focus, vars, repositoryVars, treesVars, desktopVars, peersVars, deviceVars, clockVars, storeVars>>
          => [Desktop!Next]_desktopVars
    BY DEF Step
  <2> QED
    BY <2>1, DesktopStep
<1>3. Desktop!OneStart => SharingIsTheSettings
  BY DEF Desktop!OneStart, SharingIsTheSettings, Desktop!SharingIsTheSettings
<1> QED
  BY <1>1, <1>2, <1>3, PTL DEF SideBySide

----------------------------------------------------------------------------
\* The dialog that pairs with a machine.

PeersForm == form = [host |-> form.host, fp |-> form.fp, probe |-> form.probe, busy |-> form.busy, error |-> form.error]
PeersCall(c) == c = [what |-> c.what, peer |-> c.peer, live |-> c.live] /\ c.live \in BOOLEAN
\* A form that a nearby machine, a machine looked up or nothing shows.
PeersShows(s, fm, at) ==
  /\ s.kind = "manual" => fm.host = at
  /\ fm.host # None => s.kind \in {"discovered", "manual"}
  /\ fm.probe \in {"done", "given"} => fm.fp = fm.host
PeersLooks(look, s, at) == look = TRUE => s.kind = "manual" /\ at = None
\* The calls that count, of the form and of the lookup.
PeersCounts(cs, s, fm, look) ==
  /\ \A c \in cs : PeersCall(c)
  /\ \A c \in cs : c.what = "probe" /\ c.live = TRUE => c.peer = fm.host /\ s.kind = "discovered"
  /\ \A c, d \in cs : c.what = "lookup" /\ d.what = "lookup" /\ c.live = TRUE => look = TRUE /\ (d.live = TRUE => c = d)

\* The invariant of the dialog, form by form and call by call.
LEMMA PeersInv ==
  Peers!ProbesAreOfTheForm <=>
    /\ PeersForm /\ looking \in BOOLEAN
    /\ PeersShows(selection, form, found) /\ PeersLooks(looking, selection, found)
    /\ PeersCounts(questions, selection, form, looking)
<1>1. \A c, d \in questions : {c.what, d.what} = {"lookup"} <=> c.what = "lookup" /\ d.what = "lookup"
  OBVIOUS
<1> QED
  BY <1>1 DEF Peers!ProbesAreOfTheForm, Peers!CertificateIsOfTheHost, PeersForm, PeersCall, PeersShows, PeersLooks, PeersCounts

\* Calls that count as the ones before did, and no lookup that is new.
LEMMA PeersCountsAfter ==
  ASSUME NEW cs, NEW s, NEW f1, NEW look, PeersCounts(questions, selection, form, looking),
         \A e \in cs : /\ PeersCall(e)
                       /\ e.what = "probe" /\ e.live = TRUE => e.peer = f1.host /\ s.kind = "discovered"
                       /\ e.what = "lookup" /\ e.live = TRUE => look = TRUE /\ e \in questions
  PROVE  PeersCounts(cs, s, f1, look)
BY DEF PeersCounts

\* A call that no longer counts is a call still.
LEMMA PeersDead ==
  ASSUME NEW c, PeersCall(c)
  PROVE  LET d == [c EXCEPT !.live = FALSE]
         IN PeersCall(d) /\ d.live = FALSE /\ d.what = c.what
<1>1. ASSUME NEW v PROVE [c EXCEPT !.live = v] = [what |-> c.what, peer |-> c.peer, live |-> v]
  <2>1. c = [what |-> c.what, peer |-> c.peer, live |-> c.live]
    BY Zenon DEF PeersCall
  <2> QED
    BY <2>1
<1>2. [c EXCEPT !.live = FALSE] = [what |-> c.what, peer |-> c.peer, live |-> FALSE]
  BY <1>1
<1> QED
  BY <1>2 DEF PeersCall

\* What the window renders shows the form of what is selected; the probes of the form before do not count.
LEMMA PeersRender ==
  ASSUME NEW dst, NEW snap, NEW at, Peers!Render(dst, snap, at), PeersForm, looking \in BOOLEAN,
         PeersShows(selection, form, found), PeersLooks(looking, selection, found),
         PeersCounts(questions, selection, form, looking),
         (dst = selection /\ at = found) \/ at = None
  PROVE  /\ PeersForm' /\ looking' \in BOOLEAN
         /\ PeersShows(selection, form, found)' /\ PeersLooks(looking, selection, found)'
         /\ PeersCounts(questions, selection, form, looking)'
<1> DEFINE s == Peers!Jumped(dst, snap)
           h == Peers!FormHost(s, snap, at)
           next == Peers!FormAfter(s, snap, at)
           stays == form.host # None /\ s.kind = selection.kind
           moved == <<s.kind, next.host>> # <<selection.kind, form.host>>
           other(c) == [c EXCEPT !.live = FALSE]
           gone(c) == \/ c.what = "pair" /\ (next = Peers!NoForm \/ s.kind # selection.kind)
                      \/ c.what = "list" /\ Peers!DetailAfter(s, snap) = Peers!NoDetail
                      \/ c.what = "lookup" /\ s.kind # "manual"
                      \/ s.kind = "closed"
           kept == {IF gone(c) THEN other(c) ELSE Peers!Outdated(c, moved) : c \in questions}
           probes == {Peers!Call("probe", p) : p \in IF moved /\ next.probe = "out" THEN {next.host} ELSE {}}
           lists == {Peers!Call("list", p) : p \in IF Peers!Loads(s, snap) THEN {s.peer} ELSE {}}
<1>1. /\ selection' = s /\ found' = at /\ form' = next
      /\ looking' = (looking /\ s.kind = "manual")
      /\ questions' = kept \cup probes \cup lists
  BY DEF Peers!Render, Peers!CallsAfter
<1>2. s.kind = "manual" => s = dst
  BY DEF Peers!Jumped, Peers!On
<1>3. s.kind = "manual" => h = at
  BY DEF Peers!FormHost
<1>4. s.kind # "manual" /\ h # None => s.kind = "discovered"
  BY DEF Peers!FormHost
<1>5. stays /\ s.kind = "manual" => h = form.host \/ h = None
  BY <1>2, <1>3 DEF PeersShows
<1>6. \/ h = None /\ next = Peers!NoForm
      \/ h # None /\ stays /\ h = form.host /\ next = form
      \/ h # None /\ s.kind # "manual" /\ next = [form EXCEPT !.host = h, !.probe = "out"]
      \/ h # None /\ s.kind = "manual" /\ next = [Peers!NoForm EXCEPT !.host = h, !.fp = h, !.probe = "given"]
      \/ h # None /\ s.kind # "manual" /\ next = [Peers!NoForm EXCEPT !.host = h, !.probe = "out"]
  BY <1>5, Zenon DEF Peers!FormAfter
<1> HIDE DEF h, s
<1>7. /\ next = [host |-> next.host, fp |-> next.fp, probe |-> next.probe, busy |-> next.busy, error |-> next.error]
      /\ next.host = h
      /\ next.probe \in {"done", "given"} => next.fp = next.host
      /\ moved /\ next.probe = "out" => h # None /\ s.kind # "manual"
  <2> HIDE DEF next
  <2>1. CASE h = None /\ next = Peers!NoForm
    BY <2>1 DEF Peers!NoForm
  <2>2. CASE h # None /\ stays /\ h = form.host /\ next = form
    BY <2>2 DEF PeersForm, PeersShows
  <2>3. CASE h # None /\ s.kind # "manual" /\ next = [form EXCEPT !.host = h, !.probe = "out"]
    BY <2>3 DEF PeersForm
  <2>4. CASE h # None /\ s.kind = "manual" /\ next = [Peers!NoForm EXCEPT !.host = h, !.fp = h, !.probe = "given"]
    BY <2>4 DEF Peers!NoForm
  <2>5. CASE h # None /\ s.kind # "manual" /\ next = [Peers!NoForm EXCEPT !.host = h, !.probe = "out"]
    BY <2>5 DEF Peers!NoForm
  <2> QED
    BY <1>6, <2>1, <2>2, <2>3, <2>4, <2>5
<1> HIDE DEF next
<1>8. looking' \in BOOLEAN /\ (looking' = TRUE <=> looking = TRUE /\ s.kind = "manual")
  <2>1. looking' = (looking /\ s.kind = "manual")
    BY <1>1
  <2> QED
    BY <2>1, Zenon
<1>9. PeersForm'
  BY <1>1, <1>7 DEF PeersForm
<1>10. PeersShows(selection, form, found)'
  BY <1>1, <1>3, <1>4, <1>7 DEF PeersShows
<1>11. PeersLooks(looking, selection, found)'
  BY <1>1, <1>2, <1>8 DEF PeersLooks
<1>12. ASSUME NEW e \in questions'
       PROVE  /\ PeersCall(e)
              /\ e.what = "probe" /\ e.live = TRUE => e.peer = next.host /\ s.kind = "discovered"
              /\ e.what = "lookup" /\ e.live = TRUE => looking' = TRUE /\ e \in questions
  <2>1. CASE e \in kept
    <3>1. PICK c \in questions : e = IF gone(c) THEN other(c) ELSE Peers!Outdated(c, moved)
      BY <2>1
    <3>2. PeersCall(c) /\ PeersCall(other(c)) /\ other(c).live = FALSE
      BY PeersDead DEF PeersCounts
    <3>3. CASE e = other(c)
      BY <3>2, <3>3
    <3>4. CASE e = c /\ ~gone(c) /\ ~(c.what = "probe" /\ moved)
      <4>1. c.what = "lookup" /\ c.live = TRUE => looking' = TRUE
        BY <3>4, <1>8 DEF PeersCounts
      <4>2. c.what = "probe" /\ c.live = TRUE => c.peer = next.host /\ s.kind = "discovered"
        BY <3>4 DEF PeersCounts
      <4> QED
        BY <3>2, <3>4, <4>1, <4>2
    <3> QED
      BY <3>1, <3>3, <3>4 DEF Peers!Outdated
  <2>2. CASE e \in probes
    <3>1. e = Peers!Call("probe", next.host) /\ moved /\ next.probe = "out"
      BY <2>2
    <3> HIDE DEF moved
    <3>2. e = [what |-> "probe", peer |-> next.host, live |-> TRUE]
      BY <3>1 DEF Peers!Call
    <3>3. s.kind = "discovered"
      BY <3>1, <1>7, <1>4
    <3> QED
      BY <3>2, <3>3 DEF PeersCall
  <2>3. CASE e \in lists
    <3>1. PICK p : e = Peers!Call("list", p)
      BY <2>3
    <3>2. e = [what |-> "list", peer |-> p, live |-> TRUE]
      BY <3>1 DEF Peers!Call
    <3> QED
      BY <3>2 DEF PeersCall
  <2> QED
    BY <1>1, <2>1, <2>2, <2>3
<1>13. PeersCounts(questions', s, next, looking')
  BY <1>12, PeersCountsAfter
<1> QED
  BY <1>1, <1>8, <1>9, <1>10, <1>11, <1>13 DEF PeersCounts

\* Every press, every answer and every render keeps a probe that counts one of the form shown.
LEMMA PeersStep ==
  ASSUME Peers!ProbesAreOfTheForm, [Peers!Next]_peersVars
  PROVE  Peers!ProbesAreOfTheForm'
<1> DEFINE Holds == /\ PeersForm /\ looking \in BOOLEAN
                    /\ PeersShows(selection, form, found) /\ PeersLooks(looking, selection, found)
                    /\ PeersCounts(questions, selection, form, looking)
<1>a. Holds
  BY PeersInv
<1>b. SUFFICES Holds'
  <2>1. \A c, d \in questions' : {c.what, d.what} = {"lookup"} <=> c.what = "lookup" /\ d.what = "lookup"
    OBVIOUS
  <2> QED
    BY <2>1 DEF Peers!ProbesAreOfTheForm, Peers!CertificateIsOfTheHost, PeersForm, PeersCall, PeersShows, PeersLooks, PeersCounts
<1>c. ASSUME NEW c \in questions PROVE PeersCall(c)
  BY <1>a DEF PeersCounts
<1>1. CASE UNCHANGED <<selection, form, found, looking, questions>>
  BY <1>1, <1>a DEF PeersForm, PeersShows, PeersLooks, PeersCounts
<1>2. CASE \/ Peers!Around \/ Peers!schedulePublish \/ Peers!regenerateCode \/ Peers!setServer \/ Peers!pairingQr
           \/ Peers!connect \/ Peers!toggleQr \/ UNCHANGED peersVars
  <2>1. UNCHANGED <<selection, form, found, looking, questions>>
    BY <1>2 DEF Peers!Around, Peers!schedulePublish, Peers!regenerateCode, Peers!setServer, Peers!pairingQr, Peers!connect,
                Peers!toggleQr, peersVars, Peers!window
  <2> QED
    BY <2>1, <1>1
<1>3. CASE Peers!Arrives
  <2>1. CASE UNCHANGED Peers!window
    BY <2>1, <1>1 DEF Peers!window
  <2>2. ASSUME NEW snap, Peers!Render(selection, snap, found) PROVE Holds'
    BY <2>2, <1>a, PeersRender
  <2> QED
    BY <1>3, <2>1, <2>2 DEF Peers!Arrives
<1>4. CASE Peers!Select
  <2>1. ASSUME NEW dst, Peers!Render(dst, snapshot, None) PROVE Holds'
    BY <2>1, <1>a, PeersRender
  <2> HIDE DEF Holds
  <2> QED
    BY <1>4, <2>1 DEF Peers!Select
<1>5. ASSUME NEW c \in questions, Peers!ProbeAnswers(c) PROVE Holds'
  <2>1. /\ c.what = "probe" /\ questions' = questions \ {c} /\ UNCHANGED <<selection, found, looking>>
        /\ form' \in {form, [form EXCEPT !.fp = c.peer, !.probe = "done"], [form EXCEPT !.probe = "failed"]}
        /\ form' = form \/ c.live = TRUE
    BY <1>5, <1>c DEF Peers!ProbeAnswers, Peers!Gone, PeersCall
  <2>2. c.live = TRUE => c.peer = form.host
    BY <2>1, <1>a DEF PeersCounts
  <2>3. form' = [host |-> form'.host, fp |-> form'.fp, probe |-> form'.probe, busy |-> form'.busy, error |-> form'.error]
        /\ form'.host = form.host /\ (form'.probe \in {"done", "given"} => form'.fp = form'.host)
    <3>1. CASE form' = form
      BY <3>1, <1>a DEF PeersForm, PeersShows
    <3>2. CASE form' = [form EXCEPT !.fp = c.peer, !.probe = "done"] /\ c.live = TRUE
      BY <3>2, <2>2, <1>a DEF PeersForm
    <3>3. CASE form' = [form EXCEPT !.probe = "failed"]
      BY <3>3, <1>a DEF PeersForm
    <3> QED
      BY <2>1, <3>1, <3>2, <3>3
  <2> QED
    BY <2>1, <2>3, <1>a DEF PeersForm, PeersShows, PeersLooks, PeersCounts
<1>6. ASSUME NEW c \in questions, Peers!PairAnswers(c) PROVE Holds'
  <2>1. /\ questions' = questions \ {c} /\ UNCHANGED <<selection, found, looking>>
        /\ form' \in {form, [form EXCEPT !.busy = FALSE], [form EXCEPT !.busy = FALSE, !.error = c.peer]}
    BY <1>6 DEF Peers!PairAnswers, Peers!Gone
  <2>3. form' = [host |-> form'.host, fp |-> form'.fp, probe |-> form'.probe, busy |-> form'.busy, error |-> form'.error]
        /\ form'.host = form.host /\ form'.fp = form.fp /\ form'.probe = form.probe
    BY <2>1, <1>a DEF PeersForm
  <2> QED
    BY <2>1, <2>3, <1>a DEF PeersForm, PeersShows, PeersLooks, PeersCounts
<1>7. ASSUME NEW c \in questions, Peers!ListAnswers(c) PROVE Holds'
  <2>1. questions' = questions \ {c} /\ UNCHANGED <<selection, form, found, looking>>
    BY <1>7 DEF Peers!ListAnswers, Peers!Gone
  <2> QED
    BY <2>1, <1>a DEF PeersForm, PeersShows, PeersLooks, PeersCounts
<1>8. ASSUME NEW c \in questions, Peers!LookupAnswers(c) PROVE Holds'
  <2>1. c.what = "lookup" /\ questions' = questions \ {c} /\ selection' = selection /\ c.live \in BOOLEAN
    BY <1>8, <1>c DEF Peers!LookupAnswers, Peers!Gone, PeersCall
  <2>2. CASE c.live = FALSE
    <3>1. UNCHANGED <<form, found, looking>>
      BY <1>8, <2>2 DEF Peers!LookupAnswers
    <3> QED
      BY <2>1, <3>1, <1>a DEF PeersForm, PeersShows, PeersLooks, PeersCounts
  <2>3. CASE c.live = TRUE
    <3>1. selection.kind = "manual" /\ form.host = None /\ looking = TRUE
      BY <2>1, <2>3, <1>a DEF PeersCounts, PeersLooks, PeersShows
    <3>2. PICK at : found' = at /\ form' = Peers!FormAfter(selection, snapshot, at) /\ looking' = FALSE
      BY <1>8, <2>3 DEF Peers!LookupAnswers
    <3>3. form' = IF at = None THEN Peers!NoForm ELSE [Peers!NoForm EXCEPT !.host = at, !.fp = at, !.probe = "given"]
      BY <3>1, <3>2 DEF Peers!FormAfter, Peers!FormHost
    <3>4. PeersForm' /\ form'.host = at /\ (form'.probe \in {"done", "given"} => form'.fp = form'.host)
      BY <3>3 DEF Peers!NoForm, PeersForm
    <3>5. PeersShows(selection, form, found)' /\ looking' \in BOOLEAN /\ looking' # TRUE
      BY <2>1, <3>1, <3>2, <3>4 DEF PeersShows
    <3>6. \A e \in questions' : (e.what = "lookup" => e.live # TRUE) /\ (e.what = "probe" => e.live # TRUE)
      BY <2>1, <2>3, <3>1, <1>a DEF PeersCounts
    <3> QED
      BY <2>1, <3>4, <3>5, <3>6, <1>c DEF PeersLooks, PeersCounts
  <2> QED
    BY <2>1, <2>2, <2>3
<1>9. ASSUME NEW c \in questions, Peers!pairPayload(c) PROVE Holds'
  <2>1. c.what = "lookup" /\ questions' = questions \ {c} /\ UNCHANGED <<selection, form, found>> /\ c.live \in BOOLEAN
    BY <1>9, <1>c DEF Peers!pairPayload, Peers!Gone, PeersCall
  <2>2. looking' = (looking /\ ~c.live)
    BY <1>9 DEF Peers!pairPayload
  <2>3. looking' \in BOOLEAN /\ (looking' = TRUE <=> looking = TRUE /\ c.live = FALSE)
    BY <2>1, <2>2, Zenon
  <2>4. PeersCounts(questions', selection, form, looking')
    BY <2>1, <2>3, <1>a DEF PeersCounts
  <2> QED
    BY <2>1, <2>3, <2>4, <1>a DEF PeersForm, PeersShows, PeersLooks, PeersCounts
<1>10. ASSUME NEW c \in questions, Peers!ForgetAnswers(c) PROVE Holds'
  <2>1. /\ c.live \in BOOLEAN
        /\ questions' = {IF c.live /\ d.what # "forget" THEN [d EXCEPT !.live = FALSE] ELSE d : d \in questions \ {c}}
    BY <1>10, <1>c DEF Peers!ForgetAnswers, Peers!Gone, PeersCall
  <2>2. CASE c.live = FALSE
    <3>1. UNCHANGED <<selection, form, found, looking>> /\ questions' = questions \ {c}
      BY <1>10, <2>1, <2>2 DEF Peers!ForgetAnswers
    <3> QED
      BY <3>1, <1>a DEF PeersForm, PeersShows, PeersLooks, PeersCounts
  <2>3. CASE c.live = TRUE
    <3>1. selection' = Peers!Nothing /\ form' = Peers!NoForm /\ found' = None /\ looking' = FALSE
      BY <1>10, <2>3 DEF Peers!ForgetAnswers
    <3>2. looking' \in BOOLEAN /\ looking' # TRUE
      BY <3>1
    <3>3. PeersForm' /\ PeersShows(selection, form, found)'
      BY <3>1 DEF PeersForm, PeersShows, Peers!NoForm, Peers!Nothing
    <3>4. ASSUME NEW e \in questions' PROVE PeersCall(e) /\ (e.what \in {"probe", "lookup"} => e.live # TRUE)
      <4>1. PICK d \in questions : e = IF d.what # "forget" THEN [d EXCEPT !.live = FALSE] ELSE d
        BY <2>1, <2>3
      <4> QED
        BY <4>1, <1>c, PeersDead
    <3> QED
      BY <3>2, <3>3, <3>4 DEF PeersLooks, PeersCounts
  <2> QED
    BY <2>1, <2>2, <2>3
<1>11. CASE Peers!submit
  <2>1. /\ questions' = questions \cup {[what |-> "pair", peer |-> form.host, live |-> TRUE]}
        /\ UNCHANGED <<selection, found, looking>> /\ form' = [form EXCEPT !.busy = TRUE, !.error = None]
    BY <1>11 DEF Peers!submit, Peers!Call
  <2>2. form' = [host |-> form'.host, fp |-> form'.fp, probe |-> form'.probe, busy |-> form'.busy, error |-> form'.error]
        /\ form'.host = form.host /\ form'.fp = form.fp /\ form'.probe = form.probe
    BY <2>1, <1>a DEF PeersForm
  <2> DEFINE new == [what |-> "pair", peer |-> form.host, live |-> TRUE]
  <2>3. PeersCall(new) /\ new.what = "pair"
    BY DEF PeersCall
  <2> HIDE DEF new
  <2>5. questions' = questions \cup {new}
    BY <2>1 DEF new
  <2>4. PeersCounts(questions', selection, form', looking)
    BY <2>2, <2>3, <2>5, <1>a DEF PeersCounts
  <2> QED
    BY <2>1, <2>2, <2>4, <1>a DEF PeersForm, PeersShows, PeersLooks, PeersCounts
<1>12. CASE Peers!lookup
  <2>1. selection = Peers!Manual /\ looking' = TRUE /\ found' = None /\ form' = Peers!NoForm /\ selection' = selection
    BY <1>12 DEF Peers!lookup
  <2>2. looking = FALSE
    BY <1>12, <1>a DEF Peers!lookup
  <2>3. PICK p : questions' = {IF c.what = "pair" THEN [c EXCEPT !.live = FALSE] ELSE c : c \in questions}
                                \cup {[what |-> "lookup", peer |-> p, live |-> TRUE]}
    BY <1>12 DEF Peers!lookup, Peers!Call
  <2> DEFINE new == [what |-> "lookup", peer |-> p, live |-> TRUE]
  <2>4. PeersCall(new) /\ new.what = "lookup"
    BY DEF PeersCall
  <2>5. ASSUME NEW e \in questions', e # new
        PROVE  PeersCall(e) /\ (e.what \in {"probe", "lookup"} => e.live # TRUE)
    <3>1. PICK c \in questions : e = IF c.what = "pair" THEN [c EXCEPT !.live = FALSE] ELSE c
      BY <2>3, <2>5
    <3>2. PeersCall(c) /\ (c.what \in {"probe", "lookup"} => c.live # TRUE)
      BY <2>1, <2>2, <1>a DEF PeersCounts, Peers!Manual
    <3> QED
      BY <3>1, <3>2, PeersDead
  <2> HIDE DEF new
  <2>6. looking' \in BOOLEAN /\ looking' = TRUE
    BY <2>1
  <2>7. PeersCounts(questions', selection, form', looking')
    BY <2>4, <2>5, <2>6 DEF PeersCounts
  <2>8. PeersForm' /\ PeersShows(selection, form, found)' /\ PeersLooks(looking, selection, found)'
    BY <2>1 DEF PeersForm, PeersShows, PeersLooks, Peers!NoForm, Peers!Manual
  <2> QED
    BY <2>1, <2>6, <2>7, <2>8 DEF PeersCounts
<1>13. CASE Peers!load \/ Peers!Forget
  <2>1. UNCHANGED <<selection, form, found, looking>>
    BY <1>13 DEF Peers!load, Peers!Forget
  <2>2. PICK q : /\ q = [what |-> "list", peer |-> detail.peer, live |-> TRUE] \/ q = [what |-> "forget", peer |-> detail.peer, live |-> TRUE]
                 /\ questions' \in {questions, questions \cup {q}}
    BY <1>13 DEF Peers!load, Peers!Forget, Peers!Call
  <2>3. PeersCall(q) /\ q.what \notin {"probe", "lookup"}
    <3>1. q.what \in {"list", "forget"} /\ q.live = TRUE /\ q = [what |-> q.what, peer |-> q.peer, live |-> q.live]
      BY <2>2
    <3> QED
      BY <3>1 DEF PeersCall
  <2>4. PeersCounts(questions', selection, form, looking)
    BY <2>2, <2>3, <1>a DEF PeersCounts
  <2> QED
    BY <2>1, <2>4, <1>a DEF PeersForm, PeersShows, PeersLooks, PeersCounts
<1> HIDE DEF Holds
<1> QED
  BY <1>2, <1>3, <1>4, <1>5, <1>6, <1>7, <1>8, <1>9, <1>10, <1>11, <1>12, <1>13, Zenon DEF Peers!Next, Peers!Answers

\* CertificateIsOfTheHost, for every set of machines and any number of turns.
THEOREM CertificateOfTheHost == SideBySide => []CertificateIsOfTheHost
<1>1. Start => Peers!ProbesAreOfTheForm
  <2> SUFFICES ASSUME Peers!Init PROVE Peers!ProbesAreOfTheForm
    BY DEF Start
  <2>1. looking = FALSE /\ selection = Peers!Closed /\ form = Peers!NoForm /\ questions = {}
    BY DEF Peers!Init
  <2>2. looking \in BOOLEAN /\ looking # TRUE
    BY <2>1
  <2> QED
    BY <2>1, <2>2, PeersInv DEF PeersForm, PeersShows, PeersLooks, PeersCounts, Peers!Closed, Peers!NoForm
<1>2. Peers!ProbesAreOfTheForm /\ [Step]_<<focus, vars, repositoryVars, treesVars, desktopVars, peersVars, deviceVars,
                                         clockVars, storeVars>> => Peers!ProbesAreOfTheForm'
  <2>1. [Step]_<<focus, vars, repositoryVars, treesVars, desktopVars, peersVars, deviceVars, clockVars, storeVars>>
          => [Peers!Next]_peersVars
    BY DEF Step
  <2> QED
    BY <2>1, PeersStep
<1>3. Peers!ProbesAreOfTheForm => CertificateIsOfTheHost
  BY DEF Peers!ProbesAreOfTheForm, CertificateIsOfTheHost
<1> QED
  BY <1>1, <1>2, <1>3, PTL DEF SideBySide
=============================================================================
