-------------------------- MODULE RepositoryViewProofs --------------------------
(***************************************************************************)
(* Proofs about the parts of MCRepositoryView: the labels of the graph; what is  *)
(* selected, searched and shown; the commit form; the clean panel; the rewriting   *)
(* of history; the patches that stage lines; and the editor of conflicts. What is  *)
(* drawn of the graph has a module of its own, GraphLayoutProofs.                *)
(***************************************************************************)
EXTENDS MCRepositoryView, SequenceTheorems, FunctionTheorems, FiniteSetTheorems, WellFoundedInduction, TLAPS

\* A behaviour of the suite is one of the graph: what GraphLayoutProofs shows holds in it.
LEMMA GraphIsOne == SideBySide => Spec
<1>1. Start => Init
  BY DEF Start
<1>2. [Step]_<<focus, vars, historyVars, labelsVars, viewVars, formVars, panesVars, stagingVars, editorVars>> => [Next]_vars
  BY DEF Step
<1> QED
  BY <1>1, <1>2, PTL DEF SideBySide, Spec

----------------------------------------------------------------------------
\* Labels.

Shown(refs) == {r \in Labels!ToSet(refs) : ~Labels!IsAlias(r)}
Plain(r) == Labels!IsTag(r) \/ Labels!IsChange(r) \/ Labels!IsOlder(r)
\* What a decoration is made of: HEAD, refs, and the marker of an older patch set.
Marker == <<"outdated", "1">>
Decorating == Labels!Refs \cup {Labels!HEAD, Marker}
LabelsInv ==
  /\ commit.refs \in Seq(Labels!Refs)
  /\ commit.head \in Locals \cup {Labels!Nowhere, Labels!Detached}

LEMMA DecoratedWithRefs ==
  ASSUME LabelsInv
  PROVE  Labels!displayRefs \in Seq(Decorating)
<1> DEFINE refs == commit.refs
           head1 == commit.head
<1>1. refs \in Seq(Decorating) /\ Labels!HEAD \in Decorating /\ Marker \in Decorating
  BY DEF LabelsInv, Decorating
<1>2. head1 \in Decorating \cup {Labels!Nowhere, Labels!Detached}
  BY DEF LabelsInv, Decorating, Labels!Refs
<1>3. <<Labels!HEAD>> \o refs \in Seq(Decorating)
  BY <1>1
<1>4. head1 \in Decorating => <<Labels!HEAD, head1>> \o refs \in Seq(Decorating)
  BY <1>1
<1>5. Labels!parseRawLog(commit) \in Seq(Decorating)
  BY <1>1, <1>2, <1>3, <1>4 DEF Labels!parseRawLog
<1>6. Append(Labels!parseRawLog(commit), Marker) \in Seq(Decorating)
  BY <1>1, <1>5
<1> QED
  BY <1>5, <1>6 DEF Labels!displayRefs, Marker

LEMMA NotDetached == Labels!Detached \notin Decorating
<1>1. Labels!Detached # Labels!HEAD /\ Labels!Detached # Marker
  BY DEF Labels!Detached, Labels!HEAD, Marker
<1> QED
  BY <1>1, LabelsAssumption DEF Decorating

\* The branch of a remote is not taken for a tag or a change.
LEMMA BaseIsABranch ==
  ASSUME NEW r \in Decorating, ~Plain(r)
  PROVE  ~Plain(Labels!branchBaseName(r)) /\ Labels!KeyOf(r) = Labels!branchBaseName(r)
<1>1. Labels!KeyOf(r) = Labels!branchBaseName(r)
  BY DEF Labels!KeyOf, Plain
<1>2. CASE ~Labels!isRemoteRef(r)
  BY <1>1, <1>2 DEF Labels!branchBaseName
<1>3. CASE Labels!isRemoteRef(r)
  <2>1. r # Marker
    BY DEF Plain, Marker, Labels!IsOlder
  <2>2. r # Labels!HEAD
    <3>1. \A x : ~(Len(<<x>>) > 1)
      OBVIOUS
    <3>2. ~(Len(Labels!HEAD) > 1)
      BY <3>1 DEF Labels!HEAD
    <3> QED
      BY <1>3, <3>2 DEF Labels!isRemoteRef
  <2> QED
    BY <1>1, <1>3, <2>1, <2>2, LabelsAssumption DEF Decorating, Labels!branchBaseName, Plain
<1> QED
  BY <1>2, <1>3

\* One of a set of positions comes first.
LEMMA FirstIsThere ==
  ASSUME NEW refs \in Seq(Decorating), NEW these, these # {}, these \subseteq Labels!ToSet(refs)
  PROVE  Labels!FirstOf(refs, these) \in these
<1> DEFINE spots == {i \in DOMAIN refs : refs[i] \in these}
<1>1. spots \subseteq Nat /\ spots # {}
  BY DEF Labels!ToSet
<1>2. PICK i \in spots : \A j \in spots : ~(<<j, i>> \in OpToRel(<, Nat))
  BY <1>1, WFMin, NatLessThanWellFounded
<1>3. \A j \in spots : i <= j
  <2> SUFFICES ASSUME NEW j \in spots, j < i PROVE FALSE
    BY <1>1
  <2>1. <<j, i>> \in Nat \X Nat /\ <<j, i>>[1] = j /\ <<j, i>>[2] = i
    BY <1>1
  <2>2. <<j, i>>[1] < <<j, i>>[2]
    BY <2>1
  <2>3. <<j, i>> \in OpToRel(<, Nat)
    BY <2>1, <2>2, Zenon DEF OpToRel
  <2> QED
    BY <1>2, <2>3
<1>4. i \in DOMAIN refs /\ refs[i] \in these /\ \A j \in DOMAIN refs : refs[j] \in these => i <= j
  BY <1>3
<1> QED
  BY <1>4 DEF Labels!FirstOf

\* The fields of a group.
LEMMA GroupHas ==
  ASSUME NEW refs, NEW key
  PROVE  LET grp == Labels!Group(refs, key)
             these == Labels!Mine(refs, key)
         IN /\ grp.name = key /\ grp.tooltip = these /\ grp.first = Labels!FirstOf(refs, these)
            /\ grp.isTag <=> Labels!IsTag(key)
            /\ grp.isGerritChange <=> Labels!IsChange(key) \/ Labels!IsOlder(key)
            /\ grp.hasLocal <=> ~Plain(key) /\ \E r \in these : ~Labels!isRemoteRef(r)
            /\ grp.hasRemote <=> ~Plain(key) /\ \E r \in these : Labels!isRemoteRef(r)
BY DEF Labels!Group, Plain

\* Every group has a ref of its own, which is shown, and tells which group it is.
LEMMA OwnGroup ==
  ASSUME NEW refs \in Seq(Decorating), NEW q \in Shown(refs)
  PROVE  LET these == Labels!Mine(refs, Labels!KeyOf(q))
         IN q \in these /\ these \subseteq Shown(refs) /\ these \subseteq Decorating
            /\ \A r \in these : Labels!KeyOf(r) = Labels!KeyOf(q)
  BY DEF Shown, Labels!Mine, Labels!ToSet

Kind(r) ==
  IF Labels!IsTag(r) THEN "tags" ELSE IF Labels!IsChange(r) \/ Labels!IsOlder(r) THEN "gerrit"
  ELSE IF Labels!isRemoteRef(r) THEN "remote" ELSE "local"

\* Of a name that is not a tag's or a change's, all refs are branches; of one that is, there is that ref.
LEMMA OfOneKind ==
  ASSUME NEW refs \in Seq(Decorating), NEW q \in Shown(refs), NEW r \in Labels!Mine(refs, Labels!KeyOf(q))
  PROVE  /\ Plain(Labels!KeyOf(q)) => r = Labels!KeyOf(q)
         /\ ~Plain(Labels!KeyOf(q)) => ~Plain(r) /\ Kind(r) = (IF Labels!isRemoteRef(r) THEN "remote" ELSE "local")
         /\ ~Plain(Labels!KeyOf(q)) /\ ~Labels!isRemoteRef(r) => r = Labels!KeyOf(q)
<1>1. r \in Decorating /\ Labels!KeyOf(r) = Labels!KeyOf(q)
  BY OwnGroup
<1>2. CASE Plain(r)
  BY <1>1, <1>2 DEF Plain, Labels!KeyOf
<1>3. CASE ~Plain(r)
  <2>1. ~Plain(Labels!KeyOf(q)) /\ Labels!KeyOf(q) = Labels!branchBaseName(r)
    BY <1>1, <1>3, BaseIsABranch
  <2>2. Kind(r) = (IF Labels!isRemoteRef(r) THEN "remote" ELSE "local")
    BY <1>3 DEF Kind, Plain
  <2> QED
    BY <1>3, <2>1, <2>2 DEF Labels!branchBaseName
<1> QED
  BY <1>2, <1>3

\* A group is drawn as long as a kind of its refs is, and acted on by the name of one of them.
LEMMA GroupTells ==
  ASSUME NEW refs \in Seq(Decorating), NEW q \in Shown(refs), NEW grp, grp = Labels!Group(refs, Labels!KeyOf(q))
  PROVE  /\ Labels!isRefGroupVisible(grp) <=> \E r \in grp.tooltip : visibility[Kind(r)]
         /\ Labels!refName(grp) \in Shown(refs)
         /\ Labels!kindOf(grp) = "remote" <=> \A r \in grp.tooltip : Kind(r) = "remote"
<1> DEFINE key == Labels!KeyOf(q)
           these == Labels!Mine(refs, key)
<1>1. /\ q \in these /\ these \subseteq Shown(refs) /\ these \subseteq Decorating
      /\ \A r \in these : /\ Plain(key) => r = key
                          /\ ~Plain(key) => Kind(r) = (IF Labels!isRemoteRef(r) THEN "remote" ELSE "local")
                          /\ ~Plain(key) /\ ~Labels!isRemoteRef(r) => r = key
  BY OwnGroup, OfOneKind
<1>2. /\ grp.name = key /\ grp.tooltip = these /\ grp.first = Labels!FirstOf(refs, these)
      /\ grp.isTag <=> Labels!IsTag(key)
      /\ grp.isGerritChange <=> Labels!IsChange(key) \/ Labels!IsOlder(key)
      /\ grp.hasLocal <=> ~Plain(key) /\ \E r \in these : ~Labels!isRemoteRef(r)
      /\ grp.hasRemote <=> ~Plain(key) /\ \E r \in these : Labels!isRemoteRef(r)
  BY GroupHas
<1>3. Labels!FirstOf(refs, these) \in these
  BY <1>1, FirstIsThere DEF Shown
<1> HIDE DEF key, these
<1>4. CASE Plain(key)
  <2>1. these = {key} /\ key \in Shown(refs)
    BY <1>1, <1>4
  <2>a. ~grp.hasLocal /\ ~grp.hasRemote
    BY <1>2, <1>4, Zenon
  <2>2. grp.isTag => Kind(key) = "tags"
    <3>1. Labels!IsTag(key) => Kind(key) = "tags"
      BY DEF Kind
    <3> QED
      BY <1>2, <3>1, Zenon
  <2>3. ~grp.isTag => grp.isGerritChange /\ Kind(key) = "gerrit"
    <3>1. ~Labels!IsTag(key) => Kind(key) = "gerrit" /\ (Labels!IsChange(key) \/ Labels!IsOlder(key))
      BY <1>4 DEF Kind, Plain
    <3> QED
      BY <1>2, <3>1, Zenon
  <2>4. Labels!isRefGroupVisible(grp) <=> visibility[Kind(key)]
    <3>1. grp.isTag => Labels!isRefGroupVisible(grp) = visibility["tags"]
      BY DEF Labels!isRefGroupVisible
    <3>2. ~grp.isTag /\ grp.isGerritChange => Labels!isRefGroupVisible(grp) = visibility["gerrit"]
      BY DEF Labels!isRefGroupVisible
    <3> QED
      BY <2>2, <2>3, <3>1, <3>2
  <2>5. Labels!refName(grp) \in Shown(refs)
    BY <1>2, <1>3, <2>1 DEF Labels!refName
  <2>6. Labels!kindOf(grp) # "remote" /\ Kind(key) # "remote"
    BY <2>a, <2>2, <2>3 DEF Labels!kindOf
  <2> QED
    BY <1>2, <2>1, <2>4, <2>5, <2>6
<1>5. CASE ~Plain(key)
  <2>1. ~grp.isTag /\ ~grp.isGerritChange
    BY <1>2, <1>5 DEF Plain
  <2>2. /\ grp.hasLocal <=> \E r \in these : Kind(r) = "local"
        /\ grp.hasRemote <=> \E r \in these : Kind(r) = "remote"
        /\ \A r \in these : Kind(r) \in {"local", "remote"}
    <3>1. \A r \in these : Kind(r) = (IF Labels!isRemoteRef(r) THEN "remote" ELSE "local")
      BY <1>1, <1>5
    <3>2. \A r \in these : (Kind(r) = "local" <=> ~Labels!isRemoteRef(r)) /\ (Kind(r) = "remote" <=> Labels!isRemoteRef(r))
      BY <3>1
    <3>3. /\ grp.hasLocal <=> \E r \in these : Kind(r) = "local"
          /\ grp.hasRemote <=> \E r \in these : Kind(r) = "remote"
      BY <1>2, <1>5, <3>2, Zenon
    <3> QED
      BY <3>1, <3>3, Zenon
  <2>3. grp.hasLocal \/ grp.hasRemote
    BY <1>1, <2>2
  <2>4. Labels!isRefGroupVisible(grp)
          <=> (grp.hasLocal /\ visibility["local"]) \/ (grp.hasRemote /\ visibility["remote"])
    BY <2>1, <2>3 DEF Labels!isRefGroupVisible
  <2>5. Labels!refName(grp) \in these
    <3>1. grp.hasLocal => key \in these
      BY <1>1, <1>2, <1>5, Zenon
    <3> QED
      BY <1>2, <1>3, <2>1, <3>1 DEF Labels!refName
  <2>6. Labels!kindOf(grp) = "remote" <=> ~grp.hasLocal
    BY <2>1, <2>3 DEF Labels!kindOf
  <2>7. (\E r \in these : visibility[Kind(r)])
          <=> (grp.hasLocal /\ visibility["local"]) \/ (grp.hasRemote /\ visibility["remote"])
    BY <2>2
  <2>8. (\A r \in these : Kind(r) = "remote") <=> ~grp.hasLocal
    BY <2>2
  <2> QED
    BY <1>1, <1>2, <2>4, <2>5, <2>6, <2>7, <2>8
<1> QED
  BY <1>4, <1>5

\* Of any pills, one has the highest rank.
LEMMA OneStands ==
  ASSUME NEW pills, pills # {}
  PROVE  Labels!pickPrimaryRefGroup(pills) # {}
<1> DEFINE rank(x) == IF x.isHead THEN 1 ELSE IF x.hasLocal THEN 2 ELSE IF x.isTag THEN 3 ELSE 4
<1>1. \A x : rank(x) \in {1, 2, 3, 4}
  OBVIOUS
<1>2. Labels!pickPrimaryRefGroup(pills) = {x \in pills : \A h \in pills : rank(x) <= rank(h)}
  BY DEF Labels!pickPrimaryRefGroup
<1> HIDE DEF rank
<1>3. PICK x \in pills : \/ rank(x) = 1
                         \/ (rank(x) = 2 /\ \A h \in pills : rank(h) # 1)
                         \/ (rank(x) = 3 /\ \A h \in pills : rank(h) \notin {1, 2})
                         \/ (rank(x) = 4 /\ \A h \in pills : rank(h) \notin {1, 2, 3})
  <2>1. PICK x \in pills : TRUE
    OBVIOUS
  <2>2. CASE \E y \in pills : rank(y) = 1
    BY <2>2
  <2>3. CASE (\A y \in pills : rank(y) # 1) /\ \E y \in pills : rank(y) = 2
    BY <2>3
  <2>4. CASE (\A y \in pills : rank(y) \notin {1, 2}) /\ \E y \in pills : rank(y) = 3
    BY <2>4
  <2>5. CASE \A y \in pills : rank(y) \notin {1, 2, 3}
    <3>1. rank(x) = 4
      BY <1>1, <2>1, <2>5
    <3> QED
      BY <2>1, <2>5, <3>1
  <2> QED
    BY <2>2, <2>3, <2>4, <2>5
<1> QED
  BY <1>1, <1>2, <1>3

\* HEAD is the first of the refs of a commit it is at, and its branch the second.
LEMMA HeadComesFirst ==
  ASSUME LabelsInv, NEW refs, refs = Labels!displayRefs
  PROVE  /\ commit.head \in Locals => Len(refs) >= 2 /\ refs[1] = Labels!HEAD /\ refs[2] = commit.head
         /\ commit.head = Labels!Detached =>
              /\ Len(refs) >= 1 /\ refs[1] = Labels!HEAD
              /\ \A i \in DOMAIN refs : i = 1 \/ refs[i] = Marker \/ refs[i] \in Labels!ToSet(commit.refs)
<1> DEFINE all == Labels!parseRawLog(commit)
<1>1. commit.refs \in Seq(Labels!Refs) /\ refs \in Seq(Decorating)
  BY DecoratedWithRefs DEF LabelsInv
<1>2. refs = all \/ refs = Append(all, Marker)
  BY DEF Labels!displayRefs, Marker
<1>3. CASE commit.head \in Locals
  <2>1. commit.head # Labels!Detached /\ commit.head # Labels!Nowhere
    BY <1>3, LabelsAssumption DEF Labels!Refs
  <2>2. all = <<Labels!HEAD, commit.head>> \o commit.refs
    BY <2>1 DEF Labels!parseRawLog
  <2>3. Len(all) >= 2 /\ all[1] = Labels!HEAD /\ all[2] = commit.head /\ Len(all) \in Nat
    BY <1>1, <2>2
  <2> QED
    BY <1>1, <1>2, <1>3, <2>1, <2>3
<1>4. CASE commit.head = Labels!Detached
  <2>1. commit.head # Labels!Nowhere
    <3>1. Len(Labels!Detached) = 1
      BY DEF Labels!Detached
    <3>2. Len(Labels!Nowhere) = 0
      BY DEF Labels!Nowhere
    <3> QED
      BY <1>4, <3>1, <3>2
  <2>4. commit.head \notin Locals
    BY <1>4, LabelsAssumption DEF Labels!Refs
  <2>2. all = <<Labels!HEAD>> \o commit.refs
    BY <1>4, <2>1 DEF Labels!parseRawLog
  <2>3. /\ Len(all) >= 1 /\ all[1] = Labels!HEAD /\ Len(all) \in Nat
        /\ \A i \in DOMAIN all : i = 1 \/ all[i] \in Labels!ToSet(commit.refs)
    BY <1>1, <2>2 DEF Labels!ToSet
  <2> QED
    BY <1>1, <1>2, <1>4, <2>3, <2>4
<1>5. CASE commit.head \notin Locals /\ commit.head # Labels!Detached
  BY <1>5
<1> QED
  BY <1>3, <1>4, <1>5

\* HEAD's branch, of which there is one, is what HEAD is taken to point to.
LEMMA HeadIsItsBranch ==
  ASSUME LabelsInv, commit.head \in Locals, NEW refs, refs = Labels!displayRefs
  PROVE  /\ Labels!HeadTarget(refs) = Labels!branchBaseName(commit.head)
         /\ commit.head \in Labels!ToSet(refs)
<1> DEFINE after == {i \in DOMAIN refs : /\ \E h \in 1..(i - 1) : refs[h] = Labels!HEAD
                                        /\ ~Labels!IsTag(refs[i]) /\ ~Labels!IsChange(refs[i]) /\ ~Labels!IsOlder(refs[i])}
<1>1. refs \in Seq(Decorating) /\ Len(refs) >= 2 /\ refs[1] = Labels!HEAD /\ refs[2] = commit.head
  BY DecoratedWithRefs, HeadComesFirst
<1>2. ~Labels!IsTag(commit.head) /\ ~Labels!IsChange(commit.head) /\ ~Labels!IsOlder(commit.head)
  BY LabelsAssumption
<1>3. 2 \in after /\ 1 \notin after /\ after \subseteq Nat \ {0}
  BY <1>1, <1>2
<1>4. \A i \in after : (\A j \in after : i <= j) <=> i = 2
  <2> HIDE DEF after
  <2> QED
    BY <1>3
<1>5. Labels!HEAD \in Labels!ToSet(refs) /\ commit.head \in Labels!ToSet(refs)
  BY <1>1 DEF Labels!ToSet
<1>6. Labels!HeadTarget(refs)
        = Labels!branchBaseName(refs[CHOOSE i \in after : \A j \in after : i <= j])
  BY <1>3, <1>5 DEF Labels!HeadTarget
<1> HIDE DEF after
<1>7. (CHOOSE i \in after : \A j \in after : i <= j) = 2
  BY <1>3, <1>4
<1> QED
  BY <1>1, <1>5, <1>6, <1>7

\* Where no branch follows it, a detached HEAD stands alone.
LEMMA HeadStandsAlone ==
  ASSUME LabelsInv, commit.head = Labels!Detached, NEW refs, refs = Labels!displayRefs,
         \A i \in DOMAIN commit.refs : Kind(commit.refs[i]) \in {"tags", "gerrit"}
  PROVE  Labels!HeadTarget(refs) = Labels!Standalone
<1>1. /\ refs \in Seq(Decorating) /\ Len(refs) >= 1 /\ refs[1] = Labels!HEAD
      /\ \A i \in DOMAIN refs : i = 1 \/ refs[i] = Marker \/ refs[i] \in Labels!ToSet(commit.refs)
  BY DecoratedWithRefs, HeadComesFirst
<1>2. \A r \in Labels!ToSet(commit.refs) : Plain(r)
  BY DEF Labels!ToSet, Kind, Plain
<1>3. Plain(Marker)
  BY DEF Plain, Marker, Labels!IsOlder
<1>4. {i \in DOMAIN refs : /\ \E h \in 1..(i - 1) : refs[h] = Labels!HEAD
                          /\ ~Labels!IsTag(refs[i]) /\ ~Labels!IsChange(refs[i]) /\ ~Labels!IsOlder(refs[i])} = {}
  <2> SUFFICES ASSUME NEW i \in DOMAIN refs, NEW h \in 1..(i - 1) PROVE Plain(refs[i])
    BY DEF Plain
  <2>1. i # 1
    BY <1>1
  <2> QED
    BY <1>1, <1>2, <1>3, <2>1
<1>5. Labels!HEAD \in Labels!ToSet(refs)
  BY <1>1 DEF Labels!ToSet
<1> QED
  BY <1>4, <1>5 DEF Labels!HeadTarget

\* What PillsTellTheRefs says, of any decoration.
LEMMA LabelsTell ==
  ASSUME LabelsInv
  PROVE  Labels!PillsTellTheRefs
<1> DEFINE refs == Labels!displayRefs
           pills == Labels!Pills
           shown == Shown(refs)
<1>1. refs \in Seq(Decorating)
  BY DecoratedWithRefs
<1>2. ASSUME NEW x \in pills
      PROVE  \/ x = Labels!DetachedHead /\ Labels!isRefGroupVisible(x)
             \/ \E q \in shown : x = Labels!Group(refs, Labels!KeyOf(q)) /\ Labels!isRefGroupVisible(x)
  BY <1>2 DEF Labels!Pills, Labels!groupRefs, Shown
<1>3. ASSUME NEW q \in shown PROVE Labels!Group(refs, Labels!KeyOf(q)) \in Labels!groupRefs(refs)
  BY <1>3 DEF Labels!groupRefs, Shown
<1>4. ASSUME NEW r \in shown, NEW x \in pills, r \in x.tooltip
      PROVE  x = Labels!Group(refs, Labels!KeyOf(r))
  <2>1. r \in Decorating
    BY <1>1, <1>4 DEF Shown, Labels!ToSet
  <2>2. x # Labels!DetachedHead
    BY <1>4, <2>1, NotDetached DEF Labels!DetachedHead
  <2>3. PICK q \in shown : x = Labels!Group(refs, Labels!KeyOf(q))
    BY <1>2, <2>2
  <2>4. r \in Labels!Mine(refs, Labels!KeyOf(q))
    BY <1>4, <2>3, GroupHas
  <2> QED
    BY <1>1, <2>3, <2>4, OwnGroup
<1>5. ASSUME NEW r \in shown, visibility[Kind(r)]
      PROVE  \E x \in pills : r \in x.tooltip
  <2> DEFINE x == Labels!Group(refs, Labels!KeyOf(r))
  <2>1. r \in x.tooltip
    BY <1>1, GroupHas, OwnGroup
  <2>2. Labels!isRefGroupVisible(x)
    BY <1>1, <1>5, <2>1, GroupTells
  <2> QED
    BY <1>3, <2>1, <2>2 DEF Labels!Pills
<1>6. ASSUME NEW x \in pills
      PROVE  \/ x = Labels!DetachedHead /\ visibility["local"]
             \/ /\ \E r \in x.tooltip : visibility[Kind(r)]
                /\ Labels!refName(x) \in shown
                /\ Labels!kindOf(x) = "remote" <=> \A r \in x.tooltip : Kind(r) = "remote"
  <2>1. CASE x = Labels!DetachedHead /\ Labels!isRefGroupVisible(x)
    BY <2>1 DEF Labels!DetachedHead, Labels!isRefGroupVisible
  <2>2. ASSUME NEW q \in shown, x = Labels!Group(refs, Labels!KeyOf(q)), Labels!isRefGroupVisible(x)
        PROVE  /\ \E r \in x.tooltip : visibility[Kind(r)]
               /\ Labels!refName(x) \in shown
               /\ Labels!kindOf(x) = "remote" <=> \A r \in x.tooltip : Kind(r) = "remote"
    BY <1>1, <2>2, GroupTells
  <2> QED
    BY <1>2, <2>1, <2>2
<1>7. ASSUME NEW r \in shown
      PROVE  Labels!Cardinality({x \in pills : r \in x.tooltip}) <= 1
  <2> DEFINE of == {x \in pills : r \in x.tooltip}
             one == Labels!Group(refs, Labels!KeyOf(r))
  <2>1. of = {} \/ of = {one}
    BY <1>4
  <2> HIDE DEF one
  <2>2. Cardinality({one}) = 1 /\ Cardinality({}) = 0
    BY FS_Singleton, FS_EmptySet
  <2>3. Labels!Cardinality(of) = Cardinality(of)
    BY DEF Labels!Cardinality, Cardinality
  <2> HIDE DEF of
  <2>4. Labels!Cardinality(of) <= 1
    BY <2>1, <2>2, <2>3
  <2> QED
    BY <2>4 DEF of
<1>8. pills # {} => Labels!pickPrimaryRefGroup(pills) # {}
  BY OneStands
<1>9. ASSUME commit.head \in Locals, NEW x \in pills
      PROVE  x.isHead <=> commit.head \in x.tooltip
  <2> DEFINE base == Labels!branchBaseName(commit.head)
  <2>1. Labels!HeadTarget(refs) = base /\ commit.head \in Labels!ToSet(refs) /\ base # Labels!Standalone
    BY <1>9, HeadIsItsBranch, LabelsAssumption
  <2>2. ~Plain(base) /\ Labels!KeyOf(commit.head) = base /\ ~Labels!IsAlias(commit.head)
    BY <1>9, LabelsAssumption, BaseIsABranch DEF Decorating, Labels!Refs, Plain
  <2>3. PICK q \in shown : x = Labels!Group(refs, Labels!KeyOf(q))
    BY <1>9, <2>1 DEF Labels!Pills, Labels!groupRefs, Shown
  <2>4. x.isHead <=> ~Plain(Labels!KeyOf(q)) /\ Labels!KeyOf(q) = base
    BY <2>1, <2>3 DEF Labels!Group, Plain
  <2>5. commit.head \in x.tooltip <=> Labels!KeyOf(commit.head) = Labels!KeyOf(q)
    <3>1. x.tooltip = Labels!Mine(refs, Labels!KeyOf(q))
      BY <2>3, GroupHas
    <3>2. x.tooltip = {r \in Labels!ToSet(refs) : ~Labels!IsAlias(r) /\ Labels!KeyOf(r) = Labels!KeyOf(q)}
      BY <3>1 DEF Labels!Mine
    <3> HIDE DEF refs
    <3> QED
      BY <2>1, <2>2, <3>2
  <2> QED
    BY <2>2, <2>4, <2>5
<1>10. ASSUME commit.head = Labels!Detached, visibility["local"],
              \A i \in DOMAIN commit.refs : Kind(commit.refs[i]) \in {"tags", "gerrit"}
       PROVE  Labels!DetachedHead \in pills
  <2>1. Labels!DetachedHead \in Labels!groupRefs(refs)
    BY <1>10, HeadStandsAlone DEF Labels!groupRefs
  <2>2. Labels!isRefGroupVisible(Labels!DetachedHead)
    BY <1>10 DEF Labels!isRefGroupVisible, Labels!DetachedHead
  <2> QED
    BY <2>1, <2>2 DEF Labels!Pills
<1> QED
  BY <1>5, <1>6, <1>7, <1>8, <1>9, <1>10 DEF Labels!PillsTellTheRefs, Kind, Shown

\* PillsTellTheRefs, for any branches, tags, changes and remotes, in any order, and any kinds drawn.
THEOREM PillsTell == SideBySide => []PillsTellTheRefs
<1>1. Start => LabelsInv
  <2>1. Start => Labels!Init
    BY DEF Start
  <2>2. Labels!Init => LabelsInv
    <3> SUFFICES ASSUME Labels!Init PROVE LabelsInv
      OBVIOUS
    <3>1. /\ commit.head \in Locals \cup {Labels!Nowhere, Labels!Detached}
          /\ commit.refs \in UNION {[1..n -> Labels!Refs] : n \in 0..MaxRefs}
      BY DEF Labels!Init, Labels!Decorations
    <3>2. PICK n \in 0..MaxRefs : commit.refs \in [1..n -> Labels!Refs]
      BY <3>1
    <3>3. n \in Nat
      BY LabelsAssumption
    <3>4. commit.refs \in Seq(Labels!Refs)
      BY <3>2, <3>3
    <3> QED
      BY <3>1, <3>4 DEF LabelsInv
  <2> QED
    BY <2>1, <2>2
<1>2. LabelsInv /\ [Step]_<<focus, vars, historyVars, labelsVars, viewVars, formVars, panesVars, stagingVars, editorVars>>
        => LabelsInv'
  <2>1. [Labels!Next]_labelsVars => commit' = commit
    BY DEF Labels!Next, labelsVars, Labels!RefsToggle, Labels!toggleKind, Labels!Relaunch,
       Labels!handleRefContextMenu, Labels!runDragAction, Labels!handleCommitContextMenu
  <2>2. [Step]_<<focus, vars, historyVars, labelsVars, viewVars, formVars, panesVars, stagingVars, editorVars>>
          => [Labels!Next]_labelsVars
    BY DEF Step
  <2> QED
    BY <2>1, <2>2 DEF LabelsInv
<1>3. LabelsInv => PillsTellTheRefs
  BY LabelsTell DEF PillsTellTheRefs
<1> QED
  BY <1>1, <1>2, <1>3, PTL DEF SideBySide

----------------------------------------------------------------------------
\* Selection, panel and search.

\* The diffstat is asked of the commits selected now, the worker lays out the listing shown now.
ViewDerived ==
  /\ rangeDiff # None => rangeDiff.sha = selected
  /\ selected # None => selected \in many
  /\ stat # None => stat = View!opSelected(many) /\ View!isContiguous(commits, stat)
  /\ statAsk # None => statAsk = View!opSelected(many) /\ View!isContiguous(commits, statAsk)
ViewSearch ==
  /\ search = [open |-> search.open, mode |-> search.mode, query |-> search.query, found |-> search.found,
               loading |-> search.loading, timer |-> search.timer, active |-> search.active]
  /\ ~search.open => matches = None
ViewRows == (worker # None => worker = commits) /\ (worker = None => drawn = commits)
ViewInv == ViewDerived /\ ViewSearch /\ ViewRows

\* Two fields are set one after the other.
ViewRecord(s) ==
  s = [open |-> s.open, mode |-> s.mode, query |-> s.query, found |-> s.found,
       loading |-> s.loading, timer |-> s.timer, active |-> s.active]
LEMMA ViewSets ==
  ASSUME NEW s, ViewRecord(s), NEW v, NEW v2
  PROVE  /\ ViewRecord([s EXCEPT !.query = v, !.mode = v2])
         /\ ViewRecord([s EXCEPT !.found = v, !.loading = v2])
<1>1. ASSUME NEW r, ViewRecord(r), NEW w
      PROVE  /\ ViewRecord([r EXCEPT !.query = w]) /\ ViewRecord([r EXCEPT !.mode = w])
             /\ ViewRecord([r EXCEPT !.found = w]) /\ ViewRecord([r EXCEPT !.loading = w])
  BY <1>1 DEF ViewRecord
<1>2. /\ [s EXCEPT !.query = v, !.mode = v2] = [[s EXCEPT !.query = v] EXCEPT !.mode = v2]
      /\ [s EXCEPT !.found = v, !.loading = v2] = [[s EXCEPT !.found = v] EXCEPT !.loading = v2]
  BY DEF ViewRecord
<1>3. ViewRecord([s EXCEPT !.query = v]) /\ ViewRecord([s EXCEPT !.found = v])
  BY <1>1
<1>4. /\ ViewRecord([[s EXCEPT !.query = v] EXCEPT !.mode = v2])
      /\ ViewRecord([[s EXCEPT !.found = v] EXCEPT !.loading = v2])
  BY <1>1, <1>3
<1> QED
  BY <1>2, <1>4

\* Whatever is selected, in whichever listing: what is of it is of the new selection or goes.
LEMMA ViewSelects ==
  ASSUME ViewDerived, NEW sel, NEW set, NEW where, NEW listing, View!Selects(sel, set, where, listing), commits' = listing
  PROVE  ViewDerived'
<1>1. /\ stat' # None => stat' = View!opSelected(many') /\ View!isContiguous(listing, stat')
      /\ statAsk' # None => statAsk' = View!opSelected(many') /\ View!isContiguous(listing, statAsk')
  <2>1. CASE listing = commits /\ many' = many /\ UNCHANGED <<stat, statAsk>>
    BY <2>1 DEF ViewDerived
  <2>2. CASE stat' = None /\ statAsk' \in {None, View!Run(listing, many')}
    BY <2>2 DEF View!Run
  <2> QED
    BY <2>1, <2>2 DEF View!Selects, View!Shows
<1>2. /\ rangeDiff' # None => rangeDiff'.sha = selected'
      /\ selected' # None => selected' \in many'
  <2> DEFINE now == View!Primary(sel, listing)
  <2>1. selected' = now /\ many' = IF now = None \/ now \in set THEN set ELSE {now}
    BY DEF View!Selects
  <2>2. \/ rangeDiff' = None
        \/ rangeDiff' = rangeDiff /\ (rangeDiff # None => rangeDiff.sha = now)
    BY DEF View!Selects, View!Shows
  <2> HIDE DEF now
  <2> QED
    BY <2>1, <2>2
<1> QED
  BY <1>1, <1>2 DEF ViewDerived

\* New results select the first of them; else the selection is made anew, or cleaned up.
LEMMA ViewPublishes ==
  ASSUME ViewDerived, NEW s, NEW listing, NEW sel, NEW set, NEW where, View!Publishes(s, listing, sel, set, where),
         s = [open |-> s.open, mode |-> s.mode, query |-> s.query, found |-> s.found,
              loading |-> s.loading, timer |-> s.timer, active |-> s.active]
  PROVE  ViewDerived' /\ ViewSearch' /\ commits' = listing
<1>1. commits' = listing
  BY DEF View!Publishes
<1>2. ViewDerived'
  <2>1. PICK sel2, set2, where2 : View!Selects(sel2, set2, where2, listing)
    BY DEF View!Publishes
  <2> QED
    BY <1>1, <2>1, ViewSelects
<1>3. search' = s \/ search' = [s EXCEPT !.active = 1]
  BY DEF View!Publishes
<1>4. /\ search' = [open |-> search'.open, mode |-> search'.mode, query |-> search'.query, found |-> search'.found,
                    loading |-> search'.loading, timer |-> search'.timer, active |-> search'.active]
      /\ search'.open = s.open
  BY <1>3
<1>5. ~s.open => matches' = None
  BY DEF View!Publishes, View!isSearching
<1> QED
  BY <1>1, <1>2, <1>4, <1>5 DEF ViewSearch

LEMMA ViewStep ==
  ASSUME ViewInv, [View!Next]_viewVars
  PROVE  ViewInv'
<1>1. ViewDerived /\ ViewSearch /\ ViewRows
  BY DEF ViewInv
<1>2. ASSUME UNCHANGED <<commits, rangeDiff, selected, many, stat, statAsk>> PROVE ViewDerived'
  BY <1>1, <1>2 DEF ViewDerived
<1>3. ASSUME UNCHANGED <<search, matches>> PROVE ViewSearch'
  BY <1>1, <1>3 DEF ViewSearch
<1>4. ASSUME UNCHANGED <<commits, drawn, worker>> PROVE ViewRows'
  BY <1>1, <1>4 DEF ViewRows
<1>5. ASSUME NEW sel, NEW set, NEW where, View!Selects(sel, set, where, commits), commits' = commits
      PROVE  ViewDerived'
  BY <1>1, <1>5, ViewSelects
<1> USE DEF View!graph, View!searching, View!selection, View!panel
<1>6. ASSUME NEW listing \in Logs, View!Show(listing)
      PROVE  ViewInv'
  <2>1. View!Publishes(search, listing, IF TabOf[listing] # TabOf[commits] THEN None ELSE selected, many, anchor)
    BY <1>6 DEF View!Show
  <2>2. ViewDerived' /\ ViewSearch' /\ commits' = listing
    BY <1>1, <2>1, ViewPublishes DEF ViewSearch
  <2>3. ViewRows'
    BY <1>6, <2>2, ViewAssumption DEF View!Show, View!Worker, ViewRows
  <2> QED
    BY <2>2, <2>3 DEF ViewInv
<1>7. CASE View!Drawn
  BY <1>1, <1>2, <1>3, <1>7 DEF View!Drawn, ViewInv, ViewRows
<1>8. ASSUME NEW sha, NEW mod, View!handleSelectCommit(sha, mod)
      PROVE  ViewInv'
  <2>1. \E sel, set, where : View!Selects(sel, set, where, commits)
    BY <1>8 DEF View!handleSelectCommit
  <2> QED
    BY <1>3, <1>4, <1>5, <1>8, <2>1 DEF View!handleSelectCommit, ViewInv
<1>9. ASSUME NEW step \in {-1, 1}, NEW shift \in BOOLEAN, View!handleKeyDown(step, shift)
      PROVE  ViewInv'
  BY <1>8, <1>9 DEF View!handleKeyDown
<1>10. ASSUME NEW sha, View!handleSelectRef(sha) \/ View!handleCommitContextMenu(sha)
       PROVE  ViewInv'
  BY <1>3, <1>4, <1>5, <1>10 DEF View!handleSelectRef, View!handleCommitContextMenu, ViewInv
<1>11. CASE View!clearMultiSelect
  BY <1>3, <1>4, <1>5, <1>11 DEF View!clearMultiSelect, ViewInv
<1>12. ASSUME NEW sha, View!loadDetails(sha)
       PROVE  ViewInv'
  BY <1>2, <1>3, <1>4, <1>12 DEF View!loadDetails, ViewInv
<1>13. CASE View!onSelectFile
  <2>1. rangeDiff' # None => rangeDiff'.sha = selected
    BY <1>13 DEF View!onSelectFile
  <2>2. ViewDerived'
    BY <1>1, <1>13, <2>1 DEF View!onSelectFile, ViewDerived
  <2> QED
    BY <1>3, <1>4, <1>13, <2>2 DEF View!onSelectFile, ViewInv
<1>14. CASE View!rangeStat
  <2>1. ViewDerived'
    BY <1>1, <1>14 DEF View!rangeStat, ViewDerived
  <2> QED
    BY <1>3, <1>4, <1>14, <2>1 DEF View!rangeStat, ViewInv
<1>15. CASE View!OpenSearch
  <2>1. ViewSearch'
    BY <1>1, <1>15 DEF View!OpenSearch, View!Closed, ViewSearch
  <2> QED
    BY <1>2, <1>4, <1>15, <2>1 DEF View!OpenSearch, ViewInv
<1>16. CASE View!CloseSearch
  <2>1. ViewSearch'
    BY <1>16 DEF View!CloseSearch, View!Closed, ViewSearch
  <2> QED
    BY <1>2, <1>4, <1>16, <2>1 DEF View!CloseSearch, ViewInv
<1>17. CASE View!Debounced
  <2>1. ViewSearch'
    BY <1>1, <1>17 DEF View!Debounced, ViewSearch
  <2> QED
    BY <1>2, <1>4, <1>17, <2>1 DEF View!Debounced, ViewInv
<1>18. ASSUME NEW query, View!logPickaxe(query)
       PROVE  ViewInv'
  <2> DEFINE s == [search EXCEPT !.found = Found[query], !.loading = FALSE]
  <2>a. ViewRecord(search)
    BY <1>1 DEF ViewSearch, ViewRecord
  <2>b. ASSUME NEW v, NEW v2 PROVE ViewRecord([search EXCEPT !.found = v, !.loading = v2])
    BY <2>a, ViewSets
  <2>c. ViewRecord(s)
    BY <2>b
  <2>1. s = [open |-> s.open, mode |-> s.mode, query |-> s.query, found |-> s.found,
             loading |-> s.loading, timer |-> s.timer, active |-> s.active]
    BY <2>c DEF ViewRecord
  <2>2. View!Publishes(s, commits, selected, many, anchor) /\ UNCHANGED <<drawn, worker>>
    BY <1>18 DEF View!logPickaxe
  <2> HIDE DEF s
  <2> QED
    BY <1>1, <1>4, <2>1, <2>2, ViewPublishes DEF ViewInv
<1>19. ASSUME NEW query, NEW mode, View!TypeOrSwitch(query, mode)
       PROVE  ViewInv'
  <2> DEFINE typedIn == [search EXCEPT !.query = query, !.mode = mode]
             s == View!Asked(typedIn)
  <2>a. ViewRecord(search)
    BY <1>1 DEF ViewSearch, ViewRecord
  <2>b. ViewRecord(typedIn)
    BY <2>a, ViewSets
  <2>1. typedIn = [open |-> typedIn.open, mode |-> typedIn.mode, query |-> typedIn.query, found |-> typedIn.found,
                   loading |-> typedIn.loading, timer |-> typedIn.timer, active |-> typedIn.active]
    BY <2>b DEF ViewRecord
  <2>2. View!Publishes(s, commits, selected, many, anchor) /\ UNCHANGED <<drawn, worker>>
    BY <1>19 DEF View!TypeOrSwitch
  <2> HIDE DEF typedIn
  <2>3. s = [open |-> s.open, mode |-> s.mode, query |-> s.query, found |-> s.found,
             loading |-> s.loading, timer |-> s.timer, active |-> s.active]
    BY <2>1 DEF View!Asked
  <2> HIDE DEF s
  <2> QED
    BY <1>1, <1>4, <2>2, <2>3, ViewPublishes DEF ViewInv
<1>20. ASSUME NEW step \in {-1, 1}, View!go(step)
       PROVE  ViewInv'
  <2>1. \E sel, set, where : View!Selects(sel, set, where, commits)
    BY <1>20 DEF View!go
  <2>2. PICK next : search.open /\ search' = [search EXCEPT !.active = next]
    BY <1>20 DEF View!go
  <2>3. ViewSearch'
    BY <1>1, <1>20, <2>2 DEF View!go, ViewSearch
  <2> QED
    BY <1>4, <1>5, <1>20, <2>1, <2>3 DEF View!go, ViewInv
<1>21. CASE UNCHANGED viewVars
  BY <1>2, <1>3, <1>4, <1>21 DEF viewVars, ViewInv
<1> QED
  BY <1>6, <1>7, <1>8, <1>9, <1>10, <1>11, <1>12, <1>13, <1>14, <1>15, <1>16, <1>17, <1>18, <1>19, <1>20, <1>21
     DEF View!Next

\* DerivedIsOfTheShown, for any listings, clicks, searches and answers under way.
THEOREM WhatIsShownIsDerived == SideBySide => []DerivedIsOfTheShown
<1>1. Start => ViewInv
  <2>1. Start => View!Init
    BY DEF Start
  <2>2. View!Init => ViewSearch
    BY DEF View!Init, View!Closed, ViewSearch
  <2>3. View!Init => ViewDerived /\ ViewRows
    BY DEF View!Init, ViewDerived, ViewRows
  <2> QED
    BY <2>1, <2>2, <2>3 DEF ViewInv
<1>2. ViewInv /\ [Step]_<<focus, vars, historyVars, labelsVars, viewVars, formVars, panesVars, stagingVars, editorVars>>
        => ViewInv'
  <2>1. [Step]_<<focus, vars, historyVars, labelsVars, viewVars, formVars, panesVars, stagingVars, editorVars>>
          => [View!Next]_viewVars
    BY DEF Step
  <2> QED
    BY <2>1, ViewStep
<1>3. ViewInv => DerivedIsOfTheShown
  BY DEF ViewInv, ViewDerived, ViewRows, ViewSearch, DerivedIsOfTheShown, View!DerivedIsOfTheShown
<1> QED
  BY <1>1, <1>2, <1>3, PTL DEF SideBySide

----------------------------------------------------------------------------
\* The commit form.

\* Where a draft that counts is: in the box, or put aside while amending or while HEAD's message is
\* being read; a second read would have been asked for with the draft lost.
FormDraft ==
  /\ refreshes \in Nat
  /\ mine # 0 => /\ refreshes # 0 => refreshes = 1 /\ amend = FALSE /\ draft = mine
                 /\ refreshes = 0 /\ amend = TRUE => draft = mine
                 /\ refreshes = 0 /\ amend = FALSE => text = mine
FormInv == amend \in BOOLEAN /\ FormDraft

LEMMA FormStep ==
  ASSUME FormInv, [Form!Next]_formVars
  PROVE  FormInv'
<1> USE DEF FormInv, FormDraft
<1>1. CASE UNCHANGED <<text, amend, draft, mine, refreshes>>
  BY <1>1
<1>2. ASSUME NEW i \in 1..(2 * Form!Cardinality(Edited)),
             Form!handleDiscard(i) \/ \E mod \in {"plain", "meta", "shift"} : Form!handleRowClick(i, mod)
      PROVE  FormInv'
  BY <1>2, <1>1 DEF Form!handleDiscard, Form!handleRowClick, Form!box, Form!work
<1>3. ASSUME NEW step \in {-1, 1}, NEW shift \in BOOLEAN, Form!handleKeyDown(step, shift)
      PROVE  FormInv'
  BY <1>3, <1>1 DEF Form!handleKeyDown, Form!box, Form!work
<1>4. CASE \/ Form!Escape \/ Form!handleStage \/ Form!removeLockAndRetry \/ Form!CloseDialog
           \/ Form!handleDiscardAll \/ Form!doDiscard \/ Form!Outside \/ Form!refresh \/ Form!Return
  BY <1>4, <1>1 DEF Form!Escape, Form!handleStage, Form!removeLockAndRetry, Form!CloseDialog,
     Form!handleDiscardAll, Form!doDiscard, Form!Outside, Form!refresh, Form!Return, Form!box, Form!work
<1>5. CASE Form!Type
  BY <1>5 DEF Form!Type, Form!work
<1>6. CASE Form!AmendOn
  BY <1>6 DEF Form!AmendOn
<1>7. CASE Form!AmendOff
  BY <1>7 DEF Form!AmendOff, Form!work
<1>8. ASSUME NEW message \in {0, Form!HeadText}, Form!MessageRead(message)
      PROVE  FormInv'
  BY <1>8 DEF Form!MessageRead
<1>9. ASSUME NEW byKey \in BOOLEAN, Form!handleCommit(byKey)
      PROVE  FormInv'
  BY <1>9, <1>1 DEF Form!handleCommit, Form!box
<1>10. ASSUME NEW r \in commitRuns, NEW ok \in BOOLEAN, Form!commitStreaming(r, ok)
       PROVE  FormInv'
  BY <1>10 DEF Form!commitStreaming, Form!Clears
<1>11. CASE Form!Leave
  BY <1>11 DEF Form!Leave
<1>12. CASE UNCHANGED formVars
  BY <1>12, <1>1 DEF formVars
<1> HIDE DEF FormInv, FormDraft
<1> QED
  BY <1>2, <1>3, <1>4, <1>5, <1>6, <1>7, <1>8, <1>9, <1>10, <1>11, <1>12 DEF Form!Next

\* DraftIsKept, for any files, texts, commits and reads under way.
THEOREM DraftsAreKept == SideBySide => []DraftIsKept
<1>1. Start => FormInv
  <2>1. Start => Form!Init
    BY DEF Start
  <2>2. Form!Init => amend = FALSE /\ refreshes = 0 /\ mine = 0
    BY DEF Form!Init
  <2>3. Form!Init => amend \in BOOLEAN
    BY <2>2, Zenon
  <2>4. Form!Init => FormDraft
    BY <2>2 DEF FormDraft
  <2> QED
    BY <2>1, <2>3, <2>4 DEF FormInv
<1>2. FormInv /\ [Step]_<<focus, vars, historyVars, labelsVars, viewVars, formVars, panesVars, stagingVars, editorVars>>
        => FormInv'
  <2>1. [Step]_<<focus, vars, historyVars, labelsVars, viewVars, formVars, panesVars, stagingVars, editorVars>>
          => [Form!Next]_formVars
    BY DEF Step
  <2> QED
    BY <2>1, FormStep
<1>3. FormInv => DraftIsKept
  BY DEF FormInv, FormDraft, DraftIsKept, Form!DraftIsKept
<1> QED
  BY <1>1, <1>2, <1>3, PTL DEF SideBySide

----------------------------------------------------------------------------
\* The clean panel.

Preview == [dirs : BOOLEAN, ignored : BOOLEAN, live : BOOLEAN]
\* One preview at most is listened to, and then the list is being read; nothing is unchecked in a list
\* that is being read, what is unchecked is in the list, and no two items of a list share a file.
PanesClean ==
  Panes!Open("clean") =>
    /\ modal = [kind |-> "clean", dirs |-> modal.dirs, ignored |-> modal.ignored, paths |-> modal.paths,
                checked |-> modal.checked, loading |-> modal.loading]
    /\ \A p \in previews : p.live = TRUE => modal.loading = TRUE
    /\ \A p, q \in previews : p.live = TRUE /\ q.live = TRUE => p = q
    /\ modal.loading = TRUE => kept = {}
    /\ kept \cap modal.checked = {} /\ kept \subseteq modal.paths
    /\ Folder \in modal.paths => modal.paths \cap InFolder \subseteq {Folder}
PanesPatch ==
  Panes!Open("patch") => modal = [kind |-> "patch", selected |-> modal.selected, patch |-> modal.patch]
PanesInv == previews \subseteq Preview /\ present \subseteq Untidy /\ PanesPatch /\ PanesClean

\* The fields of a panel are set one after the other.
IsClean(m, k, d, i, p, s, l) ==
  m = [kind |-> k, dirs |-> d, ignored |-> i, paths |-> p, checked |-> s, loading |-> l]
CleanRecord(m) ==
  m = [kind |-> m.kind, dirs |-> m.dirs, ignored |-> m.ignored, paths |-> m.paths, checked |-> m.checked,
       loading |-> m.loading]
LEMMA CleanSets ==
  ASSUME NEW m, CleanRecord(m), NEW a, NEW b, NEW c
  PROVE  /\ IsClean([m EXCEPT !.dirs = a, !.ignored = b, !.loading = c], m.kind, a, b, m.paths, m.checked, c)
         /\ IsClean([m EXCEPT !.paths = a, !.checked = b, !.loading = c], m.kind, m.dirs, m.ignored, a, b, c)
<1>1. ASSUME NEW r, CleanRecord(r), NEW w
      PROVE  /\ [r EXCEPT !.dirs = w] = [kind |-> r.kind, dirs |-> w, ignored |-> r.ignored, paths |-> r.paths,
                                         checked |-> r.checked, loading |-> r.loading]
             /\ [r EXCEPT !.ignored = w] = [kind |-> r.kind, dirs |-> r.dirs, ignored |-> w, paths |-> r.paths,
                                            checked |-> r.checked, loading |-> r.loading]
             /\ [r EXCEPT !.paths = w] = [kind |-> r.kind, dirs |-> r.dirs, ignored |-> r.ignored, paths |-> w,
                                          checked |-> r.checked, loading |-> r.loading]
             /\ [r EXCEPT !.checked = w] = [kind |-> r.kind, dirs |-> r.dirs, ignored |-> r.ignored, paths |-> r.paths,
                                            checked |-> w, loading |-> r.loading]
             /\ [r EXCEPT !.loading = w] = [kind |-> r.kind, dirs |-> r.dirs, ignored |-> r.ignored, paths |-> r.paths,
                                            checked |-> r.checked, loading |-> w]
  BY <1>1 DEF CleanRecord
<1>2. /\ [m EXCEPT !.dirs = a, !.ignored = b, !.loading = c]
           = [[[m EXCEPT !.dirs = a] EXCEPT !.ignored = b] EXCEPT !.loading = c]
      /\ [m EXCEPT !.paths = a, !.checked = b, !.loading = c]
           = [[[m EXCEPT !.paths = a] EXCEPT !.checked = b] EXCEPT !.loading = c]
  BY DEF CleanRecord
<1>3. ASSUME NEW k, NEW d, NEW i, NEW p, NEW s, NEW l, NEW r,
             r = [kind |-> k, dirs |-> d, ignored |-> i, paths |-> p, checked |-> s, loading |-> l]
      PROVE  /\ CleanRecord(r) /\ r.kind = k /\ r.dirs = d /\ r.ignored = i /\ r.paths = p /\ r.checked = s
             /\ r.loading = l
  BY <1>3 DEF CleanRecord
<1>4. /\ [[m EXCEPT !.dirs = a] EXCEPT !.ignored = b]
           = [kind |-> m.kind, dirs |-> a, ignored |-> b, paths |-> m.paths, checked |-> m.checked, loading |-> m.loading]
      /\ [[m EXCEPT !.paths = a] EXCEPT !.checked = b]
           = [kind |-> m.kind, dirs |-> m.dirs, ignored |-> m.ignored, paths |-> a, checked |-> b, loading |-> m.loading]
  <2> DEFINE r1 == [m EXCEPT !.dirs = a]
             r2 == [m EXCEPT !.paths = a]
  <2>1. /\ r1 = [kind |-> m.kind, dirs |-> a, ignored |-> m.ignored, paths |-> m.paths,
                 checked |-> m.checked, loading |-> m.loading]
        /\ r2 = [kind |-> m.kind, dirs |-> m.dirs, ignored |-> m.ignored, paths |-> a,
                 checked |-> m.checked, loading |-> m.loading]
    BY <1>1
  <2> HIDE DEF r1, r2
  <2>2. /\ CleanRecord(r1) /\ r1.kind = m.kind /\ r1.dirs = a /\ r1.ignored = m.ignored /\ r1.paths = m.paths
        /\ r1.checked = m.checked /\ r1.loading = m.loading
    BY <1>3, <2>1
  <2>3. /\ CleanRecord(r2) /\ r2.kind = m.kind /\ r2.dirs = m.dirs /\ r2.ignored = m.ignored /\ r2.paths = a
        /\ r2.checked = m.checked /\ r2.loading = m.loading
    BY <1>3, <2>1
  <2>4. [r1 EXCEPT !.ignored = b]
           = [kind |-> r1.kind, dirs |-> r1.dirs, ignored |-> b, paths |-> r1.paths, checked |-> r1.checked, loading |-> r1.loading]
    BY <1>1, <2>2
  <2>5. [r2 EXCEPT !.checked = b]
           = [kind |-> r2.kind, dirs |-> r2.dirs, ignored |-> r2.ignored, paths |-> r2.paths, checked |-> b, loading |-> r2.loading]
    BY <1>1, <2>3
  <2> QED
    BY <2>2, <2>3, <2>4, <2>5 DEF r1, r2
<1> DEFINE s1 == [[m EXCEPT !.dirs = a] EXCEPT !.ignored = b]
           s2 == [[m EXCEPT !.paths = a] EXCEPT !.checked = b]
<1>5. /\ s1 = [kind |-> m.kind, dirs |-> a, ignored |-> b, paths |-> m.paths, checked |-> m.checked, loading |-> m.loading]
      /\ s2 = [kind |-> m.kind, dirs |-> m.dirs, ignored |-> m.ignored, paths |-> a, checked |-> b, loading |-> m.loading]
      /\ [m EXCEPT !.dirs = a, !.ignored = b, !.loading = c] = [s1 EXCEPT !.loading = c]
      /\ [m EXCEPT !.paths = a, !.checked = b, !.loading = c] = [s2 EXCEPT !.loading = c]
  BY <1>2, <1>4
<1> HIDE DEF s1, s2
<1>6. /\ CleanRecord(s1) /\ s1.kind = m.kind /\ s1.dirs = a /\ s1.ignored = b /\ s1.paths = m.paths
      /\ s1.checked = m.checked /\ s1.loading = m.loading
  BY <1>3, <1>5
<1>7. /\ CleanRecord(s2) /\ s2.kind = m.kind /\ s2.dirs = m.dirs /\ s2.ignored = m.ignored /\ s2.paths = a
      /\ s2.checked = b /\ s2.loading = m.loading
  BY <1>3, <1>5
<1>8. [s1 EXCEPT !.loading = c]
        = [kind |-> s1.kind, dirs |-> s1.dirs, ignored |-> s1.ignored, paths |-> s1.paths, checked |-> s1.checked, loading |-> c]
  BY <1>1, <1>6
<1>9. [s2 EXCEPT !.loading = c]
        = [kind |-> s2.kind, dirs |-> s2.dirs, ignored |-> s2.ignored, paths |-> s2.paths, checked |-> s2.checked, loading |-> c]
  BY <1>1, <1>7
<1> QED
  BY <1>5, <1>6, <1>7, <1>8, <1>9 DEF IsClean

IsPatch(m, k, s, p) == m = [kind |-> k, selected |-> s, patch |-> p]
PatchRecord(m) == m = [kind |-> m.kind, selected |-> m.selected, patch |-> m.patch]
LEMMA PatchSets ==
  ASSUME NEW m, PatchRecord(m), NEW a, NEW b
  PROVE  /\ IsPatch([m EXCEPT !.patch = b], m.kind, m.selected, b)
         /\ IsPatch([m EXCEPT !.patch = b, !.selected = a], m.kind, a, b)
         /\ IsPatch([m EXCEPT !.selected = a, !.patch = b], m.kind, a, b)
<1>1. ASSUME NEW r, PatchRecord(r), NEW w
      PROVE  /\ [r EXCEPT !.patch = w] = [kind |-> r.kind, selected |-> r.selected, patch |-> w]
             /\ [r EXCEPT !.selected = w] = [kind |-> r.kind, selected |-> w, patch |-> r.patch]
  BY <1>1 DEF PatchRecord
<1>2. ASSUME NEW k, NEW s, NEW p, NEW r, r = [kind |-> k, selected |-> s, patch |-> p]
      PROVE  PatchRecord(r) /\ r.kind = k /\ r.selected = s /\ r.patch = p
  BY <1>2 DEF PatchRecord
<1> DEFINE r1 == [m EXCEPT !.patch = b]
           r2 == [m EXCEPT !.selected = a]
<1>3. /\ [m EXCEPT !.patch = b, !.selected = a] = [r1 EXCEPT !.selected = a]
      /\ [m EXCEPT !.selected = a, !.patch = b] = [r2 EXCEPT !.patch = b]
  BY DEF PatchRecord
<1>4. r1 = [kind |-> m.kind, selected |-> m.selected, patch |-> b] /\ r2 = [kind |-> m.kind, selected |-> a, patch |-> m.patch]
  BY <1>1
<1> HIDE DEF r1, r2
<1>5. /\ PatchRecord(r1) /\ r1.kind = m.kind /\ r1.selected = m.selected /\ r1.patch = b
      /\ PatchRecord(r2) /\ r2.kind = m.kind /\ r2.selected = a /\ r2.patch = m.patch
  BY <1>2, <1>4
<1>6. /\ [r1 EXCEPT !.selected = a] = [kind |-> r1.kind, selected |-> a, patch |-> r1.patch]
      /\ [r2 EXCEPT !.patch = b] = [kind |-> r2.kind, selected |-> r2.selected, patch |-> b]
  BY <1>1, <1>5
<1> QED
  BY <1>3, <1>4, <1>5, <1>6 DEF r1, IsPatch

\* What answers to nobody any more is a preview still, and not a live one.
LEMMA Hushed ==
  ASSUME previews \subseteq Preview
  PROVE  /\ {[p EXCEPT !.live = FALSE] : p \in previews} \subseteq Preview
         /\ \A q \in {[p EXCEPT !.live = FALSE] : p \in previews} : q.live # TRUE
<1>1. ASSUME NEW p \in Preview, NEW v \in BOOLEAN
      PROVE  [p EXCEPT !.live = v] \in Preview /\ [p EXCEPT !.live = v].live = v
  BY <1>1 DEF Preview
<1>2. ASSUME NEW p \in Preview
      PROVE  [p EXCEPT !.live = FALSE] \in Preview /\ [p EXCEPT !.live = FALSE].live = FALSE
  BY <1>1, FALSE \in BOOLEAN
<1> QED
  BY <1>2

LEMMA AskedOnce ==
  ASSUME previews \subseteq Preview, NEW d \in BOOLEAN, NEW i \in BOOLEAN, Panes!Asks(d, i)
  PROVE  /\ previews' \subseteq Preview
         /\ \A p, q \in previews' : p.live = TRUE /\ q.live = TRUE => p = q
<1> DEFINE hushed == {[p EXCEPT !.live = FALSE] : p \in previews}
           new == [dirs |-> d, ignored |-> i, live |-> TRUE]
<1>1. previews' = hushed \cup {new}
  BY DEF Panes!Asks
<1>2. hushed \subseteq Preview /\ \A q \in hushed : q.live # TRUE
  BY Hushed
<1>3. new \in Preview
  BY DEF Preview
<1> HIDE DEF hushed, new
<1> QED
  BY <1>1, <1>2, <1>3

\* git lists a directory, or the files in it.
LEMMA ListedOnce ==
  ASSUME present \subseteq Untidy, NEW d, NEW i, Folder \in Panes!cleanPreview(d, i)
  PROVE  Panes!cleanPreview(d, i) \cap InFolder \subseteq {Folder}
<1>1. Panes!Cleanable(i) \subseteq Untidy
  BY DEF Panes!Cleanable, Panes!Untracked
<1>2. Folder \notin Panes!Cleanable(i)
  BY <1>1, PanesAssumption
<1> QED
  BY <1>2 DEF Panes!cleanPreview

\* Items that share no file, and some of them unchecked: none of theirs is under the others.
LEMMA SparedFiles ==
  ASSUME NEW paths, NEW out, NEW in, out \subseteq paths, in \subseteq paths, out \cap in = {},
         Folder \in paths => paths \cap InFolder \subseteq {Folder}
  PROVE  Panes!Covered(in) \cap Panes!Covered(out) = {}
<1> SUFFICES ASSUME NEW x \in Panes!Covered(in), x \in Panes!Covered(out) PROVE FALSE
  OBVIOUS
<1>1. PICK a \in in : x \in Panes!Under(a)
  BY DEF Panes!Covered
<1>2. PICK b \in out : x \in Panes!Under(b)
  BY DEF Panes!Covered
<1>3. a # b
  OBVIOUS
<1> QED
  BY <1>1, <1>2, <1>3 DEF Panes!Under

LEMMA PanesStep ==
  ASSUME PanesInv, [Panes!Next]_panesVars
  PROVE  PanesInv'
<1>1. previews \subseteq Preview /\ present \subseteq Untidy /\ PanesPatch /\ PanesClean
  BY DEF PanesInv
<1>2. ASSUME UNCHANGED <<modal, previews, kept>> PROVE PanesClean' /\ PanesPatch'
  BY <1>1, <1>2 DEF PanesClean, PanesPatch, Panes!Open
<1>3. ASSUME modal' = None \/ modal'.kind # "clean" PROVE PanesClean'
  BY <1>3 DEF PanesClean, Panes!Open
<1>4. ASSUME modal' = None \/ modal'.kind # "patch" PROVE PanesPatch'
  BY <1>4 DEF PanesPatch, Panes!Open
<1>5. ASSUME Panes!Open("patch"), NEW a, NEW b
      PROVE  /\ [modal EXCEPT !.selected = a, !.patch = b] = [kind |-> "patch", selected |-> a, patch |-> b]
             /\ [modal EXCEPT !.patch = b, !.selected = a] = [kind |-> "patch", selected |-> a, patch |-> b]
             /\ [modal EXCEPT !.patch = b] = [kind |-> "patch", selected |-> modal.selected, patch |-> b]
  <2>1. PatchRecord(modal) /\ modal.kind = "patch"
    BY <1>1, <1>5 DEF PanesPatch, PatchRecord, Panes!Open
  <2>2. /\ IsPatch([modal EXCEPT !.patch = b], modal.kind, modal.selected, b)
        /\ IsPatch([modal EXCEPT !.patch = b, !.selected = a], modal.kind, a, b)
        /\ IsPatch([modal EXCEPT !.selected = a, !.patch = b], modal.kind, a, b)
    BY <2>1, PatchSets
  <2> QED
    BY <2>1, <2>2 DEF IsPatch
<1>6. ASSUME NEW a, NEW b, modal' = [kind |-> "patch", selected |-> a, patch |-> b]
      PROVE  PanesClean' /\ PanesPatch'
  <2>1. modal'.kind = "patch" /\ modal'.selected = a /\ modal'.patch = b
    BY <1>6
  <2> QED
    BY <1>3, <1>6, <2>1 DEF PanesPatch
<1> USE DEF Panes!work, Panes!cleaning, Panes!stashing, Panes!shown
<1>7. CASE Panes!OpenClean
  <2>1. /\ modal' = [kind |-> "clean", dirs |-> TRUE, ignored |-> FALSE, paths |-> {}, checked |-> {}, loading |-> TRUE]
        /\ kept' = {} /\ Panes!Asks(TRUE, FALSE) /\ present' = present
    BY <1>7 DEF Panes!OpenClean
  <2>2. /\ modal'.kind = "clean" /\ modal'.dirs = TRUE /\ modal'.ignored = FALSE /\ modal'.paths = {}
        /\ modal'.checked = {} /\ modal'.loading = TRUE
    BY <2>1
  <2>3. previews' \subseteq Preview /\ \A p, q \in previews' : p.live = TRUE /\ q.live = TRUE => p = q
    BY <1>1, <2>1, AskedOnce
  <2>4. PanesClean'
    BY <2>1, <2>2, <2>3 DEF PanesClean
  <2> QED
    BY <1>1, <1>4, <2>1, <2>2, <2>3, <2>4 DEF PanesInv
<1>8. ASSUME NEW d \in BOOLEAN, NEW i \in BOOLEAN, Panes!SetScope(d, i)
      PROVE  PanesInv'
  <2>1. /\ modal' = [modal EXCEPT !.dirs = d, !.ignored = i, !.loading = TRUE]
        /\ kept' = {} /\ Panes!Asks(d, i) /\ present' = present /\ Panes!Open("clean")
    BY <1>8 DEF Panes!SetScope
  <2>2. ASSUME NEW a, NEW b, NEW c
        PROVE  [modal EXCEPT !.dirs = a, !.ignored = b, !.loading = c]
                 = [kind |-> "clean", dirs |-> a, ignored |-> b, paths |-> modal.paths, checked |-> modal.checked, loading |-> c]
    <3>1. CleanRecord(modal) /\ modal.kind = "clean"
      BY <1>1, <2>1 DEF PanesClean, CleanRecord, Panes!Open
    <3>2. IsClean([modal EXCEPT !.dirs = a, !.ignored = b, !.loading = c], modal.kind, a, b, modal.paths, modal.checked, c)
      BY <3>1, CleanSets
    <3> QED
      BY <3>1, <3>2 DEF IsClean
  <2>3. modal' = [kind |-> "clean", dirs |-> d, ignored |-> i, paths |-> modal.paths, checked |-> modal.checked, loading |-> TRUE]
    BY <2>1, <2>2
  <2>4. /\ modal'.kind = "clean" /\ modal'.dirs = d /\ modal'.ignored = i /\ modal'.paths = modal.paths
        /\ modal'.checked = modal.checked /\ modal'.loading = TRUE
    BY <2>3
  <2>5. previews' \subseteq Preview /\ \A p, q \in previews' : p.live = TRUE /\ q.live = TRUE => p = q
    BY <1>1, <2>1, AskedOnce
  <2>6. PanesClean'
    BY <1>1, <2>1, <2>3, <2>4, <2>5 DEF PanesClean
  <2> QED
    BY <1>1, <1>4, <2>1, <2>4, <2>5, <2>6 DEF PanesInv
<1>9. ASSUME NEW p \in previews, Panes!PreviewArrives(p)
      PROVE  PanesInv'
  <2>1. previews' = previews \ {p} /\ kept' = kept /\ present' = present
    BY <1>9 DEF Panes!PreviewArrives
  <2>2. CASE Panes!Open("clean") /\ Panes!IsLive(p)
    <3> DEFINE items == Panes!cleanPreview(p.dirs, p.ignored)
    <3>1. modal' = [modal EXCEPT !.paths = items, !.checked = items, !.loading = FALSE]
      BY <1>9, <2>2 DEF Panes!PreviewArrives
    <3>2. Folder \in items => items \cap InFolder \subseteq {Folder}
      BY <1>1, ListedOnce
    <3> HIDE DEF items
    <3>3. ASSUME NEW a, NEW b, NEW c
          PROVE  [modal EXCEPT !.paths = a, !.checked = b, !.loading = c]
                   = [kind |-> "clean", dirs |-> modal.dirs, ignored |-> modal.ignored, paths |-> a, checked |-> b, loading |-> c]
      <4>1. CleanRecord(modal) /\ modal.kind = "clean"
        BY <1>1, <2>2 DEF PanesClean, CleanRecord, Panes!Open
      <4>2. IsClean([modal EXCEPT !.paths = a, !.checked = b, !.loading = c], modal.kind, modal.dirs, modal.ignored, a, b, c)
        BY <4>1, CleanSets
      <4> QED
        BY <4>1, <4>2 DEF IsClean
    <3>4. modal' = [kind |-> "clean", dirs |-> modal.dirs, ignored |-> modal.ignored, paths |-> items, checked |-> items, loading |-> FALSE]
      BY <3>1, <3>3
    <3>5. /\ modal'.kind = "clean" /\ modal'.dirs = modal.dirs /\ modal'.ignored = modal.ignored
          /\ modal'.paths = items /\ modal'.checked = items /\ modal'.loading = FALSE
      BY <3>4
    <3>6. p.live = TRUE
      BY <1>1, <2>2 DEF Panes!IsLive, Preview
    <3>7. kept = {} /\ \A q \in previews : q.live = TRUE => q = p
      BY <1>1, <2>2, <3>6 DEF PanesClean
    <3>8. PanesClean'
      BY <2>1, <3>2, <3>4, <3>5, <3>7 DEF PanesClean
    <3> QED
      BY <1>1, <1>4, <2>1, <3>5, <3>8 DEF PanesInv
  <2>3. CASE ~(Panes!Open("clean") /\ Panes!IsLive(p))
    <3>1. modal' = modal
      BY <1>9, <2>3 DEF Panes!PreviewArrives
    <3>2. PanesClean' /\ PanesPatch'
      BY <1>1, <2>1, <3>1 DEF PanesClean, PanesPatch, Panes!Open
    <3> QED
      BY <1>1, <2>1, <3>2 DEF PanesInv
  <2> QED
    BY <2>2, <2>3
<1>10. ASSUME NEW item, Panes!Toggle(item)
       PROVE  PanesInv'
  <2>1. /\ Panes!Open("clean") /\ ~modal.loading /\ item \in modal.paths /\ previews' = previews /\ present' = present
        /\ \/ /\ item \in modal.checked
              /\ modal' = [modal EXCEPT !.checked = modal.checked \ {item}] /\ kept' = kept \cup {item}
           \/ /\ item \notin modal.checked
              /\ modal' = [modal EXCEPT !.checked = modal.checked \cup {item}] /\ kept' = kept \ {item}
    BY <1>1, <1>10 DEF Panes!Toggle, PanesClean
  <2>2. ASSUME NEW b
        PROVE  [modal EXCEPT !.checked = b]
                 = [kind |-> "clean", dirs |-> modal.dirs, ignored |-> modal.ignored, paths |-> modal.paths,
                    checked |-> b, loading |-> modal.loading]
    BY <1>1, <2>1 DEF PanesClean
  <2>3. PICK b : /\ modal' = [modal EXCEPT !.checked = b]
                 /\ kept' \cap b = {} /\ kept' \subseteq modal.paths
    BY <1>1, <2>1 DEF PanesClean
  <2>4. modal' = [kind |-> "clean", dirs |-> modal.dirs, ignored |-> modal.ignored, paths |-> modal.paths,
                  checked |-> b, loading |-> modal.loading]
    BY <2>2, <2>3
  <2>5. /\ modal'.kind = "clean" /\ modal'.dirs = modal.dirs /\ modal'.ignored = modal.ignored
        /\ modal'.paths = modal.paths /\ modal'.checked = b /\ modal'.loading = modal.loading
    BY <2>4
  <2>6. PanesClean'
    BY <1>1, <2>1, <2>3, <2>4, <2>5 DEF PanesClean
  <2> QED
    BY <1>1, <1>4, <2>1, <2>5, <2>6 DEF PanesInv
<1>11. CASE Panes!RunClean
  <2>1. modal' = None /\ previews' = {[p EXCEPT !.live = FALSE] : p \in previews} /\ present' \subseteq present
    BY <1>11 DEF Panes!RunClean
  <2> QED
    BY <1>1, <1>3, <1>4, <2>1, Hushed DEF PanesInv
<1>12. CASE Panes!CancelClean
  <2>1. modal' = None /\ previews' = {[p EXCEPT !.live = FALSE] : p \in previews} /\ present' = present
    BY <1>12 DEF Panes!CancelClean
  <2> QED
    BY <1>1, <1>3, <1>4, <2>1, Hushed DEF PanesInv
<1>13. CASE Panes!OpenPatch
  BY <1>1, <1>6, <1>13 DEF Panes!OpenPatch, PanesInv
<1>14. ASSUME NEW e, Panes!ToggleFile(e)
       PROVE  PanesInv'
  <2>1. PICK a : modal' = [modal EXCEPT !.patch = {}, !.selected = a]
    BY <1>1, <1>14 DEF Panes!ToggleFile, PanesPatch
  <2>2. Panes!Open("patch") /\ previews' = previews /\ present' = present
    BY <1>14 DEF Panes!ToggleFile
  <2>3. [modal EXCEPT !.patch = {}, !.selected = a] = [kind |-> "patch", selected |-> a, patch |-> {}]
    BY <1>5, <2>2
  <2>4. PanesClean' /\ PanesPatch'
    BY <1>6, <2>1, <2>3
  <2> QED
    BY <1>1, <2>2, <2>4 DEF PanesInv
<1>15. CASE Panes!MarkIntent
  BY <1>1, <1>2, <1>15 DEF Panes!MarkIntent, PanesInv
<1>16. ASSUME NEW b, Panes!buildWorkingPatch(b)
       PROVE  PanesInv'
  <2>1. previews' = previews /\ present' = present /\ kept' = kept
    BY <1>16 DEF Panes!buildWorkingPatch
  <2>2. modal' = modal \/ (Panes!Open("patch") /\ modal' = [modal EXCEPT !.patch = b.marked])
    BY <1>16 DEF Panes!buildWorkingPatch
  <2>3. Panes!Open("patch") => [modal EXCEPT !.patch = b.marked]
                                 = [kind |-> "patch", selected |-> modal.selected, patch |-> b.marked]
    BY <1>5
  <2>4. PanesClean' /\ PanesPatch'
    BY <1>2, <1>6, <2>1, <2>2, <2>3
  <2> QED
    BY <1>1, <2>1, <2>4 DEF PanesInv
<1>17. CASE Panes!ClosePatch
  BY <1>1, <1>3, <1>4, <1>17 DEF Panes!ClosePatch, PanesInv
<1>18. CASE Panes!stashSave
  BY <1>1, <1>2, <1>18 DEF Panes!stashSave, PanesInv
<1>19. ASSUME NEW kind \in {"drop", "pop", "apply", "branch"}, NEW i, Panes!ChooseStash(kind, i)
       PROVE  PanesInv'
  <2>1. modal'.kind = kind /\ previews' = previews /\ present' = present
    BY <1>19 DEF Panes!ChooseStash
  <2> QED
    BY <1>1, <1>3, <1>4, <2>1 DEF PanesInv
<1>20. CASE Panes!StashCommand
  BY <1>1, <1>3, <1>4, <1>20 DEF Panes!StashCommand, PanesInv
<1>21. CASE Panes!refresh
  <2>1. previews' = previews /\ present' = present /\ kept' = kept
    BY <1>21 DEF Panes!refresh
  <2>2. modal' = modal \/ (Panes!Open("patch") /\ modal' = [modal EXCEPT !.selected = status', !.patch = {}])
    BY <1>21 DEF Panes!refresh
  <2>3. Panes!Open("patch") => [modal EXCEPT !.selected = status', !.patch = {}]
                                 = [kind |-> "patch", selected |-> status', patch |-> {}]
    BY <1>5
  <2>4. PanesClean' /\ PanesPatch'
    BY <1>2, <1>6, <2>1, <2>2, <2>3
  <2> QED
    BY <1>1, <2>1, <2>4 DEF PanesInv
<1>22. CASE Panes!Outside
  <2>1. UNCHANGED <<modal, previews, kept>> /\ present' \subseteq Untidy
    BY <1>1, <1>22 DEF Panes!Outside
  <2> QED
    BY <1>1, <1>2, <2>1 DEF PanesInv
<1>23. CASE UNCHANGED panesVars
  BY <1>1, <1>2, <1>23 DEF panesVars, PanesInv
<1> QED
  BY <1>7, <1>8, <1>9, <1>10, <1>11, <1>12, <1>13, <1>14, <1>15, <1>16, <1>17, <1>18, <1>19, <1>20, <1>21, <1>22, <1>23
     DEF Panes!Next

\* What a clean takes is untracked by then, ignored only if the box says so, and of the checked items.
LEMMA CleanSpares ==
  ASSUME PanesInv, Panes!RunClean
  PROVE  Panes!Spares
<1> DEFINE chosen == modal.paths \cap modal.checked
<1>1. Panes!Open("clean") /\ cleaned' = Panes!clean(chosen, modal.ignored)
  BY DEF Panes!RunClean
<1>2. Panes!Covered(chosen) \cap Panes!Covered(kept) = {}
  <2>1. kept \cap modal.checked = {} /\ kept \subseteq modal.paths
        /\ (Folder \in modal.paths => modal.paths \cap InFolder \subseteq {Folder})
    BY <1>1 DEF PanesInv, PanesClean
  <2>2. chosen \subseteq modal.paths /\ kept \cap chosen = {}
    BY <2>1
  <2> HIDE DEF chosen
  <2> QED
    BY <2>1, <2>2, SparedFiles
<1> HIDE DEF chosen
<1> QED
  BY <1>1, <1>2 DEF Panes!clean, Panes!Cleanable, Panes!Untracked, Panes!Spares

\* UncheckedSurvive, for any files, scopes and commands, and previews that answer in any order.
THEOREM UncheckedAreSpared == SideBySide => UncheckedSurvive
<1>1. Start => PanesInv
  <2>1. Start => Panes!Init
    BY DEF Start
  <2>2. Panes!Init => PanesInv
    BY DEF Panes!Init, PanesInv, PanesClean, PanesPatch, Panes!Open
  <2> QED
    BY <2>1, <2>2
<1>2. PanesInv /\ [Step]_<<focus, vars, historyVars, labelsVars, viewVars, formVars, panesVars, stagingVars, editorVars>>
        => PanesInv'
  <2>1. [Step]_<<focus, vars, historyVars, labelsVars, viewVars, formVars, panesVars, stagingVars, editorVars>>
          => [Panes!Next]_panesVars
    BY DEF Step
  <2> QED
    BY <2>1, PanesStep
<1>3. PanesInv /\ [Step]_<<focus, vars, historyVars, labelsVars, viewVars, formVars, panesVars, stagingVars, editorVars>>
        => [Panes!RunClean => Panes!Spares]_(Panes!vars)
  BY CleanSpares
<1> QED
  BY <1>1, <1>2, <1>3, PTL DEF SideBySide, UncheckedSurvive, Panes!UncheckedSurvive

----------------------------------------------------------------------------
\* The rewriting of history.

\* What is kept of the first n of a list.
HistoryKept(s, C, e, n) ==
  e = [i \in 0..n |-> IF i = 0 THEN <<>> ELSE IF s[i] \in C THEN Append(e[i - 1], s[i]) ELSE e[i - 1]]

\* The recursive function of Filter is defined.
LEMMA HistoryFilterIsDefined ==
  ASSUME NEW s, NEW C, NEW n \in Nat
  PROVE  \E e : HistoryKept(s, C, e, n)
<1> DEFINE Bad == {m \in Nat : ~\E e : HistoryKept(s, C, e, m)}
<1> SUFFICES ASSUME Bad # {} PROVE FALSE
  OBVIOUS
<1>1. PICK m \in Bad : \A k \in Bad : <<k, m>> \notin OpToRel(<, Nat)
  BY WFMin, NatLessThanWellFounded, Zenon
<1>2. m \in Nat /\ (~\E e : HistoryKept(s, C, e, m)) /\ \A k \in Nat : k < m => \E e : HistoryKept(s, C, e, k)
  BY <1>1, Zenon DEF OpToRel
<1>3. m # 0
  <2>1. HistoryKept(s, C, [i \in 0..0 |-> <<>>], 0)
    BY DEF HistoryKept
  <2> QED
    BY <1>2, <2>1
<1>4. PICK e : HistoryKept(s, C, e, m - 1)
  BY <1>2, <1>3
<1> DEFINE h == [i \in 0..m |-> IF i < m THEN e[i]
                                ELSE IF s[m] \in C THEN Append(e[m - 1], s[m]) ELSE e[m - 1]]
<1>5. ASSUME NEW i \in 0..m
      PROVE  h[i] = IF i = 0 THEN <<>> ELSE IF s[i] \in C THEN Append(h[i - 1], s[i]) ELSE h[i - 1]
  <2>1. CASE i < m
    <3>1. e[i] = IF i = 0 THEN <<>> ELSE IF s[i] \in C THEN Append(e[i - 1], s[i]) ELSE e[i - 1]
      <4>1. i \in 0..(m - 1)
        BY <1>2, <2>1
      <4> QED
        BY <1>4, <4>1 DEF HistoryKept
    <3>2. h[i] = e[i] /\ (i # 0 => h[i - 1] = e[i - 1])
      BY <1>2, <2>1
    <3> QED
      BY <3>1, <3>2
  <2>2. CASE i = m
    <3>1. h[m - 1] = e[m - 1] /\ h[m] = IF s[m] \in C THEN Append(e[m - 1], s[m]) ELSE e[m - 1]
      BY <1>2, <1>3
    <3> QED
      BY <1>3, <2>2, <3>1
  <2> QED
    BY <1>2, <2>1, <2>2
<1>6. HistoryKept(s, C, h, m)
  <2> HIDE DEF h
  <2>1. DOMAIN h = 0..m /\ h = [i \in 0..m |-> h[i]]
    BY DEF h
  <2> QED
    BY <1>5, <2>1 DEF HistoryKept
<1> QED
  BY <1>2, <1>6

HistoryOnce(s) == \A i, j \in DOMAIN s : s[i] = s[j] => i = j

\* Filter returns what is in C, once if it was there once.
LEMMA HistoryFilter ==
  ASSUME NEW T, NEW s \in Seq(T), NEW C
  PROVE  /\ History!Filter(s, C) \in Seq(T)
         /\ History!RangeOf(History!Filter(s, C)) = History!RangeOf(s) \cap C
         /\ HistoryOnce(s) => HistoryOnce(History!Filter(s, C))
<1>0. Len(s) \in Nat /\ DOMAIN s = 1..Len(s)
  OBVIOUS
<1> DEFINE e == CHOOSE d : HistoryKept(s, C, d, Len(s))
<1>1. HistoryKept(s, C, e, Len(s))
  BY <1>0, HistoryFilterIsDefined
<1>2. History!Filter(s, C) = e[Len(s)]
  BY DEF History!Filter, HistoryKept
<1> HIDE DEF e
<1>3. \A i \in 0..Len(s) :
        e[i] = IF i = 0 THEN <<>> ELSE IF s[i] \in C THEN Append(e[i - 1], s[i]) ELSE e[i - 1]
  BY <1>1 DEF HistoryKept
<1> DEFINE Good(m) == /\ e[m] \in Seq(T) /\ History!RangeOf(e[m]) = {s[i] : i \in 1..m} \cap C
                      /\ HistoryOnce(s) => HistoryOnce(e[m])
           Bad == {m \in Nat : m <= Len(s) /\ ~Good(m)}
<1>4. Bad = {}
  <2> SUFFICES ASSUME Bad # {} PROVE FALSE
    OBVIOUS
  <2>1. PICK m \in Bad : \A k \in Bad : <<k, m>> \notin OpToRel(<, Nat)
    BY WFMin, NatLessThanWellFounded, Zenon
  <2>2. m \in Nat /\ m <= Len(s) /\ ~Good(m)
    BY <2>1
  <2>3. \A k \in Nat : k < m /\ k <= Len(s) => Good(k)
    BY <2>1, Zenon DEF OpToRel
  <2>4. m # 0
    <3>1. e[0] = <<>>
      BY <1>0, <1>3
    <3>2. Good(0)
      BY <3>1 DEF History!RangeOf, HistoryOnce
    <3> QED
      BY <2>2, <3>2
  <2>5. m - 1 \in Nat /\ m - 1 < m /\ m - 1 <= Len(s) /\ m \in 0..Len(s) /\ m \in 1..Len(s)
    BY <1>0, <2>2, <2>4
  <2>6. Good(m - 1)
    BY <2>3, <2>5
  <2>7. e[m] = IF s[m] \in C THEN Append(e[m - 1], s[m]) ELSE e[m - 1]
    BY <1>3, <2>4, <2>5
  <2>8. {s[i] : i \in 1..m} = {s[i] : i \in 1..(m - 1)} \cup {s[m]}
    BY <2>2, <2>4, <2>5
  <2>9. s[m] \in T
    BY <2>5
  <2>10. CASE s[m] \notin C
    BY <2>2, <2>6, <2>7, <2>8, <2>10
  <2>11. CASE s[m] \in C
    <3> DEFINE d == e[m - 1]
    <3> HIDE DEF d
    <3>1. d \in Seq(T) /\ History!RangeOf(d) = {s[i] : i \in 1..(m - 1)} \cap C /\ (HistoryOnce(s) => HistoryOnce(d))
      BY <2>6 DEF d
    <3>2. e[m] = Append(d, s[m])
      BY <2>7, <2>11 DEF d
    <3>3. /\ DOMAIN Append(d, s[m]) = 1..(Len(d) + 1) /\ DOMAIN d = 1..Len(d) /\ Len(d) \in Nat
          /\ Append(d, s[m])[Len(d) + 1] = s[m]
          /\ \A i \in 1..Len(d) : Append(d, s[m])[i] = d[i]
      BY <2>9, <3>1
    <3>4. e[m] \in Seq(T)
      BY <2>9, <3>1, <3>2
    <3>5. History!RangeOf(e[m]) = History!RangeOf(d) \cup {s[m]}
      BY <3>2, <3>3 DEF History!RangeOf
    <3>6. ASSUME HistoryOnce(s) PROVE HistoryOnce(e[m])
      <4>1. s[m] \notin {s[i] : i \in 1..(m - 1)}
        BY <1>0, <2>5, <3>6 DEF HistoryOnce
      <4>2. \A i \in 1..Len(d) : d[i] # s[m]
        BY <3>1, <3>3, <4>1 DEF History!RangeOf
      <4> QED
        BY <3>1, <3>2, <3>3, <3>6, <4>2 DEF HistoryOnce
    <3>7. Good(m)
      BY <2>8, <2>11, <3>1, <3>4, <3>5, <3>6
    <3> QED
      BY <2>2, <3>7
  <2> QED
    BY <2>10, <2>11
<1>5. Good(Len(s))
  <2>1. Len(s) \in Nat /\ Len(s) <= Len(s)
    BY <1>0
  <2> HIDE DEF Good
  <2> QED
    BY <1>4, <2>1
<1>6. History!RangeOf(s) = {s[i] : i \in 1..Len(s)}
  BY <1>0 DEF History!RangeOf
<1> QED
  BY <1>2, <1>5, <1>6

\* What a history is.
HistoryIs(p) ==
  \A c \in 1..Total :
    /\ p[c] \in Seq(1..Total) /\ Len(p[c]) <= 2 /\ HistoryOnce(p[c])
    /\ \A i \in DOMAIN p[c] : p[c][i] \in 1..Total /\ p[c][i] < c
    /\ p[c] = <<>> => c = 1

\* Every history Init may begin with is one.
LEMMA HistoriesAre == ASSUME NEW p \in History!Histories PROVE HistoryIs(p)
<1> SUFFICES ASSUME NEW c \in 1..Total
             PROVE  /\ p[c] \in Seq(1..Total) /\ Len(p[c]) <= 2 /\ HistoryOnce(p[c])
                    /\ \A i \in DOMAIN p[c] : p[c][i] \in 1..Total /\ p[c][i] < c
                    /\ p[c] = <<>> => c = 1
  BY DEF HistoryIs
<1>1. /\ p \in [1..Total -> {<<>>} \cup {<<a>> : a \in 1..Total} \cup {s \in (1..Total) \X (1..Total) : s[1] # s[2]}]
      /\ p[c] = <<>> => c = 1
      /\ \A i \in DOMAIN p[c] : p[c][i] < c
  BY DEF History!Histories, History!Commits
<1>2. p[c] \in {<<>>} \cup {<<a>> : a \in 1..Total} \cup {s \in (1..Total) \X (1..Total) : s[1] # s[2]}
  BY <1>1
<1>3. CASE p[c] = <<>>
  BY <1>1, <1>3 DEF HistoryOnce
<1>4. CASE \E a \in 1..Total : p[c] = <<a>>
  BY <1>1, <1>4 DEF HistoryOnce
<1>5. CASE p[c] \in {s \in (1..Total) \X (1..Total) : s[1] # s[2]}
  <2>1. PICK a \in 1..Total, b \in 1..Total : p[c] = <<a, b>> /\ a # b
    BY <1>5
  <2>2. p[c] \in Seq(1..Total) /\ Len(p[c]) = 2 /\ DOMAIN p[c] = {1, 2} /\ p[c][1] = a /\ p[c][2] = b
    BY <2>1
  <2> QED
    BY <1>1, <2>1, <2>2 DEF HistoryOnce
<1> QED
  BY <1>2, <1>3, <1>4, <1>5

\* Below, of any history, and what it is up to n.
HistoryBelow(p, c) ==
  LET A[d \in 0..Total] == IF d = 0 THEN {} ELSE {d} \cup UNION {A[p[d][i]] : i \in DOMAIN p[d]} IN A[c]
HistoryDown(p, e, n) ==
  e = [d \in 0..n |-> IF d = 0 THEN {} ELSE {d} \cup UNION {e[p[d][i]] : i \in DOMAIN p[d]}]

\* Below is the same, of the history before.
LEMMA HistoryBelowIs == \A c : History!Below(c) = HistoryBelow(before, c)
  BY DEF History!Below, HistoryBelow

\* The recursive function of Below is defined.
LEMMA HistoryDownIsDefined ==
  ASSUME NEW p, HistoryIs(p), NEW n \in Nat, n <= Total
  PROVE  \E e : HistoryDown(p, e, n)
<1> DEFINE Bad == {m \in Nat : m <= Total /\ ~\E e : HistoryDown(p, e, m)}
<1> SUFFICES ASSUME Bad # {} PROVE FALSE
  OBVIOUS
<1>1. PICK m \in Bad : \A k \in Bad : <<k, m>> \notin OpToRel(<, Nat)
  BY WFMin, NatLessThanWellFounded, Zenon
<1>2. m \in Nat /\ m <= Total /\ (~\E e : HistoryDown(p, e, m))
      /\ \A k \in Nat : k < m /\ k <= Total => \E e : HistoryDown(p, e, k)
  BY <1>1, Zenon DEF OpToRel
<1>0. Total \in Nat
  BY HistoryAssumption
<1>3. m # 0
  <2>1. HistoryDown(p, [i \in 0..0 |-> {}], 0)
    BY DEF HistoryDown
  <2> QED
    BY <1>2, <2>1
<1>4. PICK e : HistoryDown(p, e, m - 1)
  BY <1>0, <1>2, <1>3
<1>5. m \in 1..Total /\ \A d \in 1..m : \A i \in DOMAIN p[d] : p[d][i] \in 0..(m - 1) /\ p[d][i] < d
  <2>1. m \in 1..Total /\ \A d \in 1..m : d \in 1..Total
    BY <1>0, <1>2, <1>3
  <2>2. ASSUME NEW d \in 1..m, NEW i \in DOMAIN p[d] PROVE p[d][i] \in 0..(m - 1) /\ p[d][i] < d
    <3>1. d \in 1..Total /\ p[d][i] \in 1..Total /\ p[d][i] < d
      BY <2>1 DEF HistoryIs
    <3> QED
      BY <1>0, <1>2, <3>1
  <2> QED
    BY <2>1, <2>2
<1> DEFINE h == [d \in 0..m |-> IF d < m THEN e[d] ELSE {m} \cup UNION {e[p[m][i]] : i \in DOMAIN p[m]}]
<1>6. \A d \in 0..(m - 1) : h[d] = e[d]
  BY <1>2
<1>7. h[m] = {m} \cup UNION {e[p[m][i]] : i \in DOMAIN p[m]}
  BY <1>2
<1>8. DOMAIN h = 0..m /\ h = [i \in 0..m |-> h[i]]
  OBVIOUS
<1> HIDE DEF h
<1>9. ASSUME NEW d \in 1..m
      PROVE  h[d] = {d} \cup UNION {h[p[d][i]] : i \in DOMAIN p[d]}
  <2>1. UNION {h[p[d][i]] : i \in DOMAIN p[d]} = UNION {e[p[d][i]] : i \in DOMAIN p[d]}
    <3>1. \A i \in DOMAIN p[d] : h[p[d][i]] = e[p[d][i]]
      BY <1>5, <1>6
    <3> QED
      BY <3>1
  <2>2. CASE d < m
    <3>1. d \in 0..(m - 1) /\ d # 0
      BY <1>2, <2>2
    <3>2. e[d] = {d} \cup UNION {e[p[d][i]] : i \in DOMAIN p[d]}
      BY <1>4, <3>1 DEF HistoryDown
    <3> QED
      BY <1>6, <2>1, <3>1, <3>2
  <2>3. CASE d = m
    BY <1>7, <2>1, <2>3
  <2> QED
    BY <1>2, <2>2, <2>3
<1>10. h[0] = {}
  <2>1. 0 \in 0..(m - 1)
    BY <1>2, <1>3
  <2> QED
    BY <1>4, <1>6, <2>1 DEF HistoryDown
<1>11. HistoryDown(p, h, m)
  <2>1. \A d \in 0..m : d # 0 => d \in 1..m
    BY <1>2
  <2>2. \A d \in 0..m : h[d] = IF d = 0 THEN {} ELSE {d} \cup UNION {h[p[d][i]] : i \in DOMAIN p[d]}
    BY <1>9, <1>10, <2>1
  <2> QED
    BY <1>8, <2>2, Zenon DEF HistoryDown
<1> QED
  BY <1>2, <1>11

\* Below of a commit is itself and what is below its parents.
LEMMA HistoryBelowRec ==
  ASSUME NEW p, HistoryIs(p)
  PROVE  /\ HistoryBelow(p, 0) = {}
         /\ \A c \in 1..Total : HistoryBelow(p, c) = {c} \cup UNION {HistoryBelow(p, p[c][i]) : i \in DOMAIN p[c]}
<1>0. Total \in Nat /\ Total <= Total
  BY HistoryAssumption
<1> DEFINE e == CHOOSE d : HistoryDown(p, d, Total)
<1>1. HistoryDown(p, e, Total)
  BY <1>0, HistoryDownIsDefined
<1>2. \A c : HistoryBelow(p, c) = e[c]
  BY DEF HistoryBelow, HistoryDown
<1> HIDE DEF e
<1>3. e[0] = {} /\ \A c \in 1..Total : e[c] = {c} \cup UNION {e[p[c][i]] : i \in DOMAIN p[c]}
  <2>1. 0 \in 0..Total /\ \A c \in 1..Total : c \in 0..Total /\ c # 0
    BY <1>0
  <2>2. \A c \in 0..Total : e[c] = IF c = 0 THEN {} ELSE {c} \cup UNION {e[p[c][i]] : i \in DOMAIN p[c]}
    BY <1>1, Zenon DEF HistoryDown
  <2> QED
    BY <2>1, <2>2
<1> QED
  BY <1>2, <1>3

HistoryClosed(p, S) == \A c \in S \cap (1..Total) : \A i \in DOMAIN p[c] : p[c][i] \in S

\* It is the least set with the commit that has the parents of what is in it.
LEMMA HistoryLeast ==
  ASSUME NEW p, HistoryIs(p), NEW S, HistoryClosed(p, S)
  PROVE  \A c \in S \cap (1..Total) : HistoryBelow(p, c) \subseteq S
<1> DEFINE Bad == {m \in Nat : m \in S \cap (1..Total) /\ ~(HistoryBelow(p, m) \subseteq S)}
<1>1. Bad = {}
  <2> SUFFICES ASSUME Bad # {} PROVE FALSE
    OBVIOUS
  <2>1. PICK m \in Bad : \A k \in Bad : <<k, m>> \notin OpToRel(<, Nat)
    BY WFMin, NatLessThanWellFounded, Zenon
  <2>2. m \in Nat /\ m \in S \cap (1..Total) /\ ~(HistoryBelow(p, m) \subseteq S)
    BY <2>1
  <2>3. \A k \in Nat : k < m /\ k \in S \cap (1..Total) => HistoryBelow(p, k) \subseteq S
    BY <2>1, Zenon DEF OpToRel
  <2>4. \A i \in DOMAIN p[m] : HistoryBelow(p, p[m][i]) \subseteq S
    <3> SUFFICES ASSUME NEW i \in DOMAIN p[m] PROVE HistoryBelow(p, p[m][i]) \subseteq S
      OBVIOUS
    <3>1. p[m][i] \in 1..Total /\ p[m][i] < m /\ p[m][i] \in S
      BY <2>2 DEF HistoryIs, HistoryClosed
    <3> QED
      BY <2>3, <3>1
  <2>5. HistoryBelow(p, m) = {m} \cup UNION {HistoryBelow(p, p[m][i]) : i \in DOMAIN p[m]}
    BY <2>2, HistoryBelowRec
  <2> QED
    BY <2>2, <2>4, <2>5
<1>2. \A c \in 1..Total : c \in Nat
  BY HistoryAssumption
<1> QED
  BY <1>1, <1>2

\* It has the parents of what is in it.
LEMMA HistoryBelowClosed ==
  ASSUME NEW p, HistoryIs(p), NEW h \in 1..Total
  PROVE  h \in HistoryBelow(p, h) /\ HistoryBelow(p, h) \subseteq 1..h /\ HistoryClosed(p, HistoryBelow(p, h))
<1>0. Total \in Nat /\ h \in Nat /\ h <= Total
  BY HistoryAssumption
<1>1. h \in HistoryBelow(p, h)
  BY HistoryBelowRec
<1>2. HistoryBelow(p, h) \subseteq 1..h
  <2>1. HistoryClosed(p, 1..h)
    <3> SUFFICES ASSUME NEW c \in (1..h) \cap (1..Total), NEW i \in DOMAIN p[c] PROVE p[c][i] \in 1..h
      BY DEF HistoryClosed
    <3>1. p[c][i] \in 1..Total /\ p[c][i] < c
      BY DEF HistoryIs
    <3> QED
      BY <1>0, <3>1
  <2>2. h \in (1..h) \cap (1..Total)
    BY <1>0
  <2> QED
    BY <2>1, <2>2, HistoryLeast
<1> DEFINE Bad == {m \in Nat : m \in 1..Total /\ ~HistoryClosed(p, HistoryBelow(p, m))}
<1>3. Bad = {}
  <2> SUFFICES ASSUME Bad # {} PROVE FALSE
    OBVIOUS
  <2>1. PICK m \in Bad : \A k \in Bad : <<k, m>> \notin OpToRel(<, Nat)
    BY WFMin, NatLessThanWellFounded, Zenon
  <2>2. m \in Nat /\ m \in 1..Total /\ ~HistoryClosed(p, HistoryBelow(p, m))
    BY <2>1
  <2>3. \A k \in Nat : k < m /\ k \in 1..Total => HistoryClosed(p, HistoryBelow(p, k))
    BY <2>1, Zenon DEF OpToRel
  <2>4. HistoryBelow(p, m) = {m} \cup UNION {HistoryBelow(p, p[m][i]) : i \in DOMAIN p[m]}
    BY <2>2, HistoryBelowRec
  <2>5. ASSUME NEW c \in HistoryBelow(p, m) \cap (1..Total), NEW i \in DOMAIN p[c]
        PROVE  p[c][i] \in HistoryBelow(p, m)
    <3>1. CASE c = m
      <4>1. p[m][i] \in 1..Total /\ p[m][i] \in HistoryBelow(p, p[m][i])
        <5>1. p[m][i] \in 1..Total
          BY <2>2, <3>1 DEF HistoryIs
        <5> QED
          BY <5>1, HistoryBelowRec
      <4> QED
        BY <2>4, <3>1, <4>1
    <3>2. CASE c # m
      <4>1. PICK j \in DOMAIN p[m] : c \in HistoryBelow(p, p[m][j])
        BY <2>4, <3>2
      <4>2. p[m][j] \in 1..Total /\ p[m][j] < m
        BY <2>2 DEF HistoryIs
      <4>3. HistoryClosed(p, HistoryBelow(p, p[m][j]))
        BY <2>3, <4>2
      <4>4. p[c][i] \in HistoryBelow(p, p[m][j])
        BY <4>1, <4>3 DEF HistoryClosed
      <4> QED
        BY <2>4, <4>4
    <3> QED
      BY <3>1, <3>2
  <2> QED
    BY <2>2, <2>5 DEF HistoryClosed
<1> QED
  BY <1>0, <1>1, <1>2, <1>3

\* A list with one more, and two lists in one.
LEMMA HistoryAppended ==
  ASSUME NEW T, NEW s \in Seq(T), NEW x \in T
  PROVE  /\ Append(s, x) \in Seq(T) /\ History!RangeOf(Append(s, x)) = History!RangeOf(s) \cup {x}
         /\ Len(Append(s, x)) = Len(s) + 1 /\ DOMAIN Append(s, x) = 1..(Len(s) + 1)
         /\ Append(s, x)[Len(s) + 1] = x /\ \A i \in 1..Len(s) : Append(s, x)[i] = s[i]
         /\ HistoryOnce(s) /\ x \notin History!RangeOf(s) => HistoryOnce(Append(s, x))
<1>1. /\ DOMAIN Append(s, x) = 1..(Len(s) + 1) /\ DOMAIN s = 1..Len(s) /\ Len(s) \in Nat
      /\ Append(s, x)[Len(s) + 1] = x
      /\ \A i \in 1..Len(s) : Append(s, x)[i] = s[i]
  OBVIOUS
<1>2. Append(s, x) \in Seq(T) /\ Len(Append(s, x)) = Len(s) + 1
  OBVIOUS
<1>3. History!RangeOf(Append(s, x)) = History!RangeOf(s) \cup {x}
  BY <1>1 DEF History!RangeOf
<1>4. HistoryOnce(s) /\ x \notin History!RangeOf(s) => HistoryOnce(Append(s, x))
  BY <1>1 DEF History!RangeOf, HistoryOnce
<1> QED
  BY <1>1, <1>2, <1>3, <1>4

LEMMA HistoryJoined ==
  ASSUME NEW T, NEW s \in Seq(T), NEW t \in Seq(T)
  PROVE  /\ s \o t \in Seq(T) /\ History!RangeOf(s \o t) = History!RangeOf(s) \cup History!RangeOf(t)
         /\ HistoryOnce(s) /\ HistoryOnce(t) /\ History!RangeOf(s) \cap History!RangeOf(t) = {} => HistoryOnce(s \o t)
<1>1. /\ DOMAIN (s \o t) = 1..(Len(s) + Len(t)) /\ DOMAIN s = 1..Len(s) /\ DOMAIN t = 1..Len(t)
      /\ Len(s) \in Nat /\ Len(t) \in Nat
      /\ \A i \in 1..Len(s) : (s \o t)[i] = s[i]
      /\ \A i \in 1..(Len(s) + Len(t)) : i > Len(s) => (s \o t)[i] = t[i - Len(s)] /\ i - Len(s) \in 1..Len(t)
      /\ \A i \in 1..Len(t) : (s \o t)[Len(s) + i] = t[i] /\ Len(s) + i \in 1..(Len(s) + Len(t))
  OBVIOUS
<1>2. s \o t \in Seq(T)
  OBVIOUS
<1>3. History!RangeOf(s \o t) = History!RangeOf(s) \cup History!RangeOf(t)
  <2>1. \A i \in DOMAIN (s \o t) : i \in DOMAIN s \/ i > Len(s)
    BY <1>1
  <2>2. \A i \in DOMAIN s : i \in DOMAIN (s \o t)
    BY <1>1
  <2>3. ASSUME NEW i \in DOMAIN (s \o t)
        PROVE  (s \o t)[i] \in History!RangeOf(s) \cup History!RangeOf(t)
    BY <1>1, <2>1, <2>3 DEF History!RangeOf
  <2>4. ASSUME NEW i \in DOMAIN s PROVE s[i] \in History!RangeOf(s \o t)
    BY <1>1, <2>2, <2>4 DEF History!RangeOf
  <2>5. ASSUME NEW i \in DOMAIN t PROVE t[i] \in History!RangeOf(s \o t)
    <3>1. (s \o t)[Len(s) + i] = t[i] /\ Len(s) + i \in DOMAIN (s \o t)
      BY <1>1, <2>5
    <3> QED
      BY <3>1 DEF History!RangeOf
  <2>6. /\ History!RangeOf(s) = {s[i] : i \in DOMAIN s} /\ History!RangeOf(t) = {t[i] : i \in DOMAIN t}
        /\ History!RangeOf(s \o t) = {(s \o t)[i] : i \in DOMAIN (s \o t)}
    BY DEF History!RangeOf
  <2> QED
    BY <2>3, <2>4, <2>5, <2>6, Zenon
<1>4. ASSUME HistoryOnce(s), HistoryOnce(t), History!RangeOf(s) \cap History!RangeOf(t) = {},
             NEW i \in DOMAIN (s \o t), NEW j \in DOMAIN (s \o t), (s \o t)[i] = (s \o t)[j]
      PROVE  i = j
  <2>1. i \in Nat /\ j \in Nat /\ Len(s) \in Nat
    BY <1>1
  <2>2. i \in 1..Len(s) \/ (i > Len(s) /\ (s \o t)[i] = t[i - Len(s)] /\ i - Len(s) \in 1..Len(t))
    BY <1>1
  <2>3. j \in 1..Len(s) \/ (j > Len(s) /\ (s \o t)[j] = t[j - Len(s)] /\ j - Len(s) \in 1..Len(t))
    BY <1>1
  <2>4. CASE i \in 1..Len(s) /\ j \in 1..Len(s)
    BY <1>1, <1>4, <2>4 DEF HistoryOnce
  <2>5. CASE i \notin 1..Len(s) /\ j \notin 1..Len(s)
    <3>1. i - Len(s) = j - Len(s)
      BY <1>1, <1>4, <2>2, <2>3, <2>5 DEF HistoryOnce
    <3> QED
      BY <2>1, <3>1
  <2>6. CASE i \in 1..Len(s) /\ j \notin 1..Len(s)
    BY <1>1, <1>4, <2>3, <2>6 DEF History!RangeOf
  <2>7. CASE i \notin 1..Len(s) /\ j \in 1..Len(s)
    BY <1>1, <1>4, <2>2, <2>7 DEF History!RangeOf
  <2> QED
    BY <2>4, <2>5, <2>6, <2>7
<1> QED
  BY <1>2, <1>3, <1>4 DEF HistoryOnce

\* A list without its last.
LEMMA HistoryRest ==
  ASSUME NEW T, NEW s \in Seq(T), s # <<>>, HistoryOnce(s)
  PROVE  /\ s[Len(s)] \in T /\ History!Without(s) \in Seq(T) /\ HistoryOnce(History!Without(s))
         /\ History!RangeOf(s) = History!RangeOf(History!Without(s)) \cup {s[Len(s)]}
         /\ s[Len(s)] \notin History!RangeOf(History!Without(s))
<1> DEFINE r == [i \in 1..(Len(s) - 1) |-> s[i]]
<1>1. /\ Len(s) \in Nat /\ Len(s) > 0 /\ DOMAIN s = 1..Len(s) /\ Len(s) \in DOMAIN s
  OBVIOUS
<1>2. /\ r \in Seq(T) /\ DOMAIN r = 1..(Len(s) - 1)
      /\ \A i \in 1..(Len(s) - 1) : r[i] = s[i] /\ i \in DOMAIN s /\ i # Len(s)
  <2> DEFINE n == Len(s) - 1
  <2>0. n \in Nat /\ Len(s) = n + 1
    BY <1>1
  <2> HIDE DEF n
  <2>1. \A i \in 1..n : i \in 1..(n + 1) /\ i # n + 1
    BY <2>0
  <2>2. \A i \in 1..(n + 1) : s[i] \in T
    BY <2>0
  <2>3. \A i \in 1..n : s[i] \in T
    BY <2>1, <2>2
  <2>5. r = [i \in 1..n |-> s[i]]
    BY DEF n
  <2> HIDE DEF r
  <2>4. DOMAIN r = 1..n /\ \A i \in 1..n : r[i] = s[i]
    BY <2>5
  <2>6. r \in [1..n -> T]
    BY <2>3, <2>5
  <2>7. r \in Seq(T)
    BY <2>0, <2>3, <2>5
  <2> QED
    BY <1>1, <2>0, <2>1, <2>4, <2>7 DEF n
<1> HIDE DEF r
<1>3. History!Without(s) = r
  BY DEF History!Without, r
<1>4. \A i \in DOMAIN s : i = Len(s) \/ i \in 1..(Len(s) - 1)
  BY <1>1
<1>5. History!RangeOf(s) = History!RangeOf(r) \cup {s[Len(s)]}
  BY <1>1, <1>2, <1>4 DEF History!RangeOf
<1>6. s[Len(s)] \notin History!RangeOf(r) /\ HistoryOnce(r)
  BY <1>1, <1>2 DEF History!RangeOf, HistoryOnce
<1>7. s[Len(s)] \in T
  BY <1>1
<1> QED
  BY <1>2, <1>3, <1>5, <1>6, <1>7

----------------------------------------------------------------------------
\* The walk of rev-list: what is out has its children before it, what is stacked has all of them out, and
\* what has all of them out is out or stacked.
HistorySwept(s) ==
  LET stacked == History!RangeOf(s.stack)
      sent == History!RangeOf(s.out)
  IN /\ s.stack \in Seq(1..Total) /\ s.out \in Seq(1..Total) /\ HistoryOnce(s.stack) /\ HistoryOnce(s.out)
     /\ stacked \cap sent = {} /\ stacked \cup sent \subseteq HistoryBelow(before, Total)
     /\ \A c \in stacked : History!Children(c) \subseteq sent
     /\ \A i \in DOMAIN s.out : History!Children(s.out[i]) \subseteq {s.out[k] : k \in 1..(i - 1)}
     /\ \A c \in HistoryBelow(before, Total) : History!Children(c) \subseteq sent => c \in stacked \cup sent

\* The children of a commit are below HEAD.
LEMMA HistoryChildren ==
  \A c : History!Children(c) = {d \in HistoryBelow(before, Total) : c \in History!RangeOf(before[d])}
<1>1. History!Below(Total) = HistoryBelow(before, Total)
  BY HistoryBelowIs
<1> QED
  BY <1>1 DEF History!Children, History!HEAD

\* A step of the walk keeps what holds of it.
LEMMA HistoryGoesOut ==
  ASSUME HistoryIs(before), NEW s, HistorySwept(s), s.stack # <<>>
  PROVE  HistorySwept(History!Out(s)) /\ Len(History!Out(s).out) = Len(s.out) + 1
<1> DEFINE B == HistoryBelow(before, Total)
           c == s.stack[Len(s.stack)]
           rest == History!Without(s.stack)
           o == Append(s.out, c)
           R == {q \in 1..Total : History!Children(q) \subseteq History!RangeOf(o)}
           r == History!Filter(before[c], R)
<1>0. Total \in 1..Total /\ B \subseteq 1..Total /\ HistoryClosed(before, B)
  <2>1. Total \in 1..Total
    BY HistoryAssumption
  <2> QED
    BY <2>1, HistoryBelowClosed
<1>1. History!Out(s).stack = rest \o r /\ History!Out(s).out = o
  BY DEF History!Out, History!Commits
<1>2. /\ s.stack \in Seq(1..Total) /\ s.out \in Seq(1..Total) /\ HistoryOnce(s.stack) /\ HistoryOnce(s.out)
      /\ History!RangeOf(s.stack) \cap History!RangeOf(s.out) = {}
      /\ History!RangeOf(s.stack) \cup History!RangeOf(s.out) \subseteq B
      /\ \A x \in History!RangeOf(s.stack) : History!Children(x) \subseteq History!RangeOf(s.out)
      /\ \A i \in DOMAIN s.out : History!Children(s.out[i]) \subseteq {s.out[k] : k \in 1..(i - 1)}
      /\ \A x \in B : History!Children(x) \subseteq History!RangeOf(s.out)
                        => x \in History!RangeOf(s.stack) \cup History!RangeOf(s.out)
  BY DEF HistorySwept
<1>3. /\ c \in 1..Total /\ rest \in Seq(1..Total) /\ HistoryOnce(rest)
      /\ History!RangeOf(s.stack) = History!RangeOf(rest) \cup {c} /\ c \notin History!RangeOf(rest)
  BY <1>2, HistoryRest
<1> HIDE DEF c, rest
<1>4. c \in B /\ c \notin History!RangeOf(s.out)
  BY <1>2, <1>3
<1>5. /\ o \in Seq(1..Total) /\ HistoryOnce(o) /\ History!RangeOf(o) = History!RangeOf(s.out) \cup {c}
      /\ Len(o) = Len(s.out) + 1 /\ DOMAIN o = 1..(Len(s.out) + 1)
      /\ o[Len(s.out) + 1] = c /\ \A i \in 1..Len(s.out) : o[i] = s.out[i]
  <2> DEFINE T == 1..Total
  <2>1. s.out \in Seq(T) /\ c \in T
    BY <1>2, <1>3
  <2> HIDE DEF T
  <2>2. /\ o \in Seq(T) /\ History!RangeOf(o) = History!RangeOf(s.out) \cup {c}
        /\ Len(o) = Len(s.out) + 1 /\ DOMAIN o = 1..(Len(s.out) + 1)
        /\ o[Len(s.out) + 1] = c /\ \A i \in 1..Len(s.out) : o[i] = s.out[i]
        /\ HistoryOnce(s.out) /\ c \notin History!RangeOf(s.out) => HistoryOnce(o)
    BY <2>1, HistoryAppended, Zenon
  <2> HIDE DEF o
  <2> QED
    BY <1>2, <1>4, <2>2, Zenon DEF T
<1>6. /\ r \in Seq(1..Total) /\ HistoryOnce(r) /\ History!RangeOf(r) = History!RangeOf(before[c]) \cap R
  <2>1. before[c] \in Seq(1..Total) /\ HistoryOnce(before[c])
    BY <1>3 DEF HistoryIs
  <2> HIDE DEF R
  <2> QED
    BY <2>1, HistoryFilter
<1> HIDE DEF o, r
<1>7. \A x \in History!RangeOf(s.out) : History!Children(x) \subseteq History!RangeOf(s.out)
  <2> SUFFICES ASSUME NEW i \in DOMAIN s.out PROVE History!Children(s.out[i]) \subseteq History!RangeOf(s.out)
    BY DEF History!RangeOf
  <2>1. DOMAIN s.out = 1..Len(s.out) /\ Len(s.out) \in Nat /\ i \in Nat
    BY <1>2
  <2>2. \A k \in 1..(i - 1) : k \in DOMAIN s.out
    BY <2>1
  <2>3. History!Children(s.out[i]) \subseteq {s.out[k] : k \in 1..(i - 1)}
    BY <1>2
  <2>4. {s.out[k] : k \in 1..(i - 1)} \subseteq History!RangeOf(s.out)
    BY <2>2 DEF History!RangeOf
  <2> QED
    BY <2>3, <2>4
<1>8. \A x \in History!RangeOf(r) : x \in B /\ c \in History!Children(x) /\ x \notin History!RangeOf(s.stack) \cup History!RangeOf(s.out)
  <2> SUFFICES ASSUME NEW x \in History!RangeOf(before[c])
               PROVE  x \in B /\ c \in History!Children(x) /\ x \notin History!RangeOf(s.stack) \cup History!RangeOf(s.out)
    BY <1>6
  <2>1. c \in History!Children(x)
    BY <1>4, HistoryChildren
  <2>2. x \in B
    BY <1>0, <1>3, <1>4 DEF HistoryClosed, History!RangeOf
  <2> QED
    BY <1>2, <1>4, <1>7, <2>1, <2>2
<1>9. /\ rest \o r \in Seq(1..Total) /\ HistoryOnce(rest \o r)
      /\ History!RangeOf(rest \o r) = History!RangeOf(rest) \cup History!RangeOf(r)
  <2>1. History!RangeOf(rest) \cap History!RangeOf(r) = {}
    BY <1>3, <1>8
  <2> QED
    BY <1>3, <1>6, <2>1, HistoryJoined
<1>10. /\ History!RangeOf(rest \o r) \cap History!RangeOf(o) = {}
       /\ History!RangeOf(rest \o r) \cup History!RangeOf(o) \subseteq B
  BY <1>2, <1>3, <1>4, <1>5, <1>8, <1>9
<1>11. \A x \in History!RangeOf(rest \o r) : History!Children(x) \subseteq History!RangeOf(o)
  BY <1>2, <1>3, <1>5, <1>6, <1>9
<1>12. \A i \in DOMAIN o : History!Children(o[i]) \subseteq {o[k] : k \in 1..(i - 1)}
  <2> SUFFICES ASSUME NEW i \in DOMAIN o PROVE History!Children(o[i]) \subseteq {o[k] : k \in 1..(i - 1)}
    OBVIOUS
  <2>1. Len(s.out) \in Nat /\ DOMAIN s.out = 1..Len(s.out) /\ i \in Nat
    BY <1>2, <1>5
  <2>2. {o[k] : k \in 1..(i - 1)} = {s.out[k] : k \in 1..(i - 1)}
    <3>1. \A k \in 1..(i - 1) : o[k] = s.out[k]
      BY <1>5, <2>1
    <3> QED
      BY <3>1
  <2>3. CASE i \in DOMAIN s.out
    BY <1>2, <1>5, <2>1, <2>2, <2>3
  <2>4. CASE i = Len(s.out) + 1
    <3>1. History!Children(c) \subseteq History!RangeOf(s.out)
      BY <1>2, <1>3
    <3>2. History!RangeOf(s.out) = {s.out[k] : k \in 1..(i - 1)}
      BY <2>1, <2>4 DEF History!RangeOf
    <3> QED
      BY <1>5, <2>2, <2>4, <3>1, <3>2
  <2> QED
    BY <1>5, <2>1, <2>3, <2>4
<1>13. ASSUME NEW x \in B, History!Children(x) \subseteq History!RangeOf(o)
       PROVE  x \in History!RangeOf(rest \o r) \cup History!RangeOf(o)
  <2>1. CASE c \notin History!Children(x)
    <3>1. x \in History!RangeOf(s.stack) \cup History!RangeOf(s.out)
      BY <1>2, <1>5, <1>13, <2>1
    <3> QED
      BY <1>3, <1>5, <1>9, <3>1
  <2>2. CASE c \in History!Children(x)
    <3>1. x \in History!RangeOf(before[c]) /\ x \in R
      BY <1>0, <1>13, <2>2, HistoryChildren
    <3> QED
      BY <1>6, <1>9, <3>1
  <2> QED
    BY <2>1, <2>2
<1> HIDE DEF B
<1>14. HistorySwept([stack |-> rest \o r, out |-> o])
  <2> DEFINE t == [stack |-> rest \o r, out |-> o]
  <2>1. t.stack = rest \o r /\ t.out = o
    OBVIOUS
  <2> HIDE DEF t
  <2>2. HistorySwept(t)
    <3> DEFINE stacked == History!RangeOf(t.stack)
               sent == History!RangeOf(t.out)
    <3>1. /\ t.stack \in Seq(1..Total) /\ t.out \in Seq(1..Total) /\ HistoryOnce(t.stack) /\ HistoryOnce(t.out)
          /\ stacked \cap sent = {} /\ stacked \cup sent \subseteq B
      BY <1>5, <1>9, <1>10, <2>1
    <3>2. \A x \in stacked : History!Children(x) \subseteq sent
      BY <1>11, <2>1
    <3>3. \A i \in DOMAIN t.out : History!Children(t.out[i]) \subseteq {t.out[k] : k \in 1..(i - 1)}
      BY <1>12, <2>1
    <3>4. \A x \in B : History!Children(x) \subseteq sent => x \in stacked \cup sent
      BY <1>13, <2>1
    <3> QED
      BY <3>1, <3>2, <3>3, <3>4, Zenon DEF HistorySwept, B
  <2> QED
    BY <2>2 DEF t
<1>15. History!Out(s) = [stack |-> rest \o r, out |-> o]
  BY DEF History!Out, History!Commits, c, rest, o, r
<1> QED
  BY <1>5, <1>14, <1>15

\* The walk up to n.
HistoryWalked(e, n) ==
  e = [i \in 0..n |-> IF i = 0 THEN [stack |-> <<History!HEAD>>, out |-> <<>>]
                      ELSE IF e[i - 1].stack = <<>> THEN e[i - 1] ELSE History!Out(e[i - 1])]

\* The recursive function of the walk is defined.
LEMMA HistoryWalkIsDefined ==
  ASSUME NEW n \in Nat
  PROVE  \E e : HistoryWalked(e, n)
<1> DEFINE First == [stack |-> <<History!HEAD>>, out |-> <<>>]
           Then(s) == IF s.stack = <<>> THEN s ELSE History!Out(s)
<1> HIDE DEF First, Then
<1>0. \A e, m : HistoryWalked(e, m) <=> e = [i \in 0..m |-> IF i = 0 THEN First ELSE Then(e[i - 1])]
  BY DEF HistoryWalked, First, Then
<1> DEFINE Bad == {m \in Nat : ~\E e : HistoryWalked(e, m)}
<1> SUFFICES ASSUME Bad # {} PROVE FALSE
  OBVIOUS
<1>1. PICK m \in Bad : \A k \in Bad : <<k, m>> \notin OpToRel(<, Nat)
  BY WFMin, NatLessThanWellFounded, Zenon
<1>2. m \in Nat /\ (~\E e : HistoryWalked(e, m)) /\ \A k \in Nat : k < m => \E e : HistoryWalked(e, k)
  BY <1>1, Zenon DEF OpToRel
<1>3. m # 0
  <2> DEFINE d == [i \in 0..0 |-> First]
  <2>1. d = [i \in 0..0 |-> IF i = 0 THEN First ELSE Then(d[i - 1])]
    OBVIOUS
  <2>2. HistoryWalked(d, 0)
    BY <1>0, <2>1
  <2> QED
    BY <1>2, <2>2
<1>4. PICK e : HistoryWalked(e, m - 1)
  BY <1>2, <1>3
<1>5. \A i \in 0..(m - 1) : e[i] = IF i = 0 THEN First ELSE Then(e[i - 1])
  <2>1. e = [i \in 0..(m - 1) |-> IF i = 0 THEN First ELSE Then(e[i - 1])]
    BY <1>0, <1>4
  <2> QED
    BY <2>1
<1> DEFINE h == [i \in 0..m |-> IF i < m THEN e[i] ELSE Then(e[m - 1])]
<1>6. DOMAIN h = 0..m /\ h = [i \in 0..m |-> h[i]]
  OBVIOUS
<1>7. (\A i \in 0..m : i < m => h[i] = e[i]) /\ h[m] = Then(e[m - 1])
  BY <1>2
<1> HIDE DEF h
<1>8. ASSUME NEW i \in 0..m PROVE h[i] = IF i = 0 THEN First ELSE Then(h[i - 1])
  <2>1. CASE i < m
    <3>1. i \in 0..(m - 1) /\ h[i] = e[i] /\ (i # 0 => i - 1 \in 0..m /\ i - 1 < m)
      BY <1>2, <1>7, <2>1
    <3> QED
      BY <1>5, <1>7, <3>1
  <2>2. CASE i = m
    <3>1. m - 1 \in 0..m /\ m - 1 < m
      BY <1>2, <1>3
    <3> QED
      BY <1>3, <1>7, <2>2, <3>1
  <2> QED
    BY <1>2, <2>1, <2>2
<1>9. HistoryWalked(h, m)
  <2>1. h = [i \in 0..m |-> IF i = 0 THEN First ELSE Then(h[i - 1])]
    BY <1>6, <1>8, Zenon
  <2> QED
    BY <1>0, <2>1
<1> QED
  BY <1>2, <1>9

\* It begins at HEAD, which has no children.
LEMMA HistorySetsOut ==
  ASSUME HistoryIs(before)
  PROVE  HistorySwept([stack |-> <<History!HEAD>>, out |-> <<>>])
<1> DEFINE B == HistoryBelow(before, Total)
           t == [stack |-> <<Total>>, out |-> <<>>]
<1>0. Total \in 1..Total /\ B \subseteq 1..Total /\ Total \in B
  <2>1. Total \in 1..Total
    BY HistoryAssumption
  <2> QED
    BY <2>1, HistoryBelowClosed
<1>1. t.stack = <<Total>> /\ t.out = <<>>
  OBVIOUS
<1> HIDE DEF t
<1>2. /\ t.stack \in Seq(1..Total) /\ t.out \in Seq(1..Total) /\ DOMAIN t.out = {} /\ DOMAIN t.stack = {1}
      /\ t.stack[1] = Total
  BY <1>0, <1>1
<1>3. History!RangeOf(t.stack) = {Total} /\ History!RangeOf(t.out) = {} /\ HistoryOnce(t.stack) /\ HistoryOnce(t.out)
  BY <1>2 DEF History!RangeOf, HistoryOnce
<1>4. \A d \in B : \A i \in DOMAIN before[d] : before[d][i] < d /\ before[d][i] \in 1..Total /\ d <= Total
  BY <1>0, HistoryAssumption DEF HistoryIs
<1>5. History!Children(Total) = {}
  <2>1. \A d \in B : Total \notin History!RangeOf(before[d])
    <3> SUFFICES ASSUME NEW d \in B, NEW i \in DOMAIN before[d] PROVE before[d][i] # Total
      BY DEF History!RangeOf
    <3> QED
      BY <1>0, <1>4, HistoryAssumption
  <2> QED
    BY <2>1, HistoryChildren
<1>6. ASSUME NEW x \in B, History!Children(x) = {} PROVE x = Total
  <2> SUFFICES ASSUME x # Total PROVE FALSE
    OBVIOUS
  <2>1. HistoryClosed(before, B \ {x})
    <3> SUFFICES ASSUME NEW c \in (B \ {x}) \cap (1..Total), NEW i \in DOMAIN before[c] PROVE before[c][i] \in B \ {x}
      BY DEF HistoryClosed
    <3>1. before[c][i] \in B
      BY <1>0, HistoryBelowClosed DEF HistoryClosed
    <3>2. before[c][i] # x
      BY <1>6, HistoryChildren DEF History!RangeOf
    <3> QED
      BY <3>1, <3>2
  <2>2. HistoryBelow(before, Total) \subseteq B \ {x}
    BY <1>0, <2>1, HistoryLeast
  <2> QED
    BY <2>2
<1>7. HistorySwept(t)
  <2>1. t.out \in Seq(1..Total) /\ t.stack \in Seq(1..Total)
    BY <1>2
  <2>2. \A c \in B : History!Children(c) \subseteq {} => c \in {Total} \cup {}
    BY <1>6
  <2>3. \A c \in {Total} : History!Children(c) \subseteq {}
    BY <1>5
  <2> HIDE DEF B
  <2>4. \A i \in DOMAIN t.out : History!Children(t.out[i]) \subseteq {t.out[k] : k \in 1..(i - 1)}
    BY <1>2
  <2>5. {Total} \cap {} = {} /\ {Total} \cup {} \subseteq B
    BY <1>0
  <2> QED
    BY <1>3, <2>1, <2>2, <2>3, <2>4, <2>5, Zenon DEF HistorySwept, B
<1> QED
  BY <1>7 DEF t, History!HEAD

\* What rev-list gives: everything below HEAD, once, and a parent after its children.
HistorySorted(p, o) ==
  /\ o \in Seq(1..Total) /\ HistoryOnce(o) /\ History!RangeOf(o) = HistoryBelow(p, Total)
  /\ \A i \in DOMAIN o : \A k \in DOMAIN p[o[i]] : \E j \in DOMAIN o : i < j /\ o[j] = p[o[i]][k]

\* What rev-list gives is sorted.
LEMMA HistoryOrdered ==
  ASSUME HistoryIs(before), order = History!TopoOrder
  PROVE  HistorySorted(before, order)
<1> DEFINE B == HistoryBelow(before, Total)
<1>0. Total \in Nat /\ Total \in 1..Total /\ Total <= Total
  BY HistoryAssumption
<1>1. B \subseteq 1..Total /\ HistoryClosed(before, B)
  BY <1>0, HistoryBelowClosed
<1> DEFINE e == CHOOSE d : HistoryWalked(d, Total)
<1>2. HistoryWalked(e, Total)
  BY <1>0, HistoryWalkIsDefined
<1>3. History!TopoOrder = e[Total].out
  BY DEF History!TopoOrder, HistoryWalked
<1> HIDE DEF e
<1>4. \A i \in 0..Total : e[i] = IF i = 0 THEN [stack |-> <<History!HEAD>>, out |-> <<>>]
                                 ELSE IF e[i - 1].stack = <<>> THEN e[i - 1] ELSE History!Out(e[i - 1])
  BY <1>2 DEF HistoryWalked
<1> DEFINE Good(m) == HistorySwept(e[m]) /\ (Len(e[m].out) = m \/ e[m].stack = <<>>)
           Bad == {m \in Nat : m <= Total /\ ~Good(m)}
<1>5. Bad = {}
  <2> SUFFICES ASSUME Bad # {} PROVE FALSE
    OBVIOUS
  <2>1. PICK m \in Bad : \A k \in Bad : <<k, m>> \notin OpToRel(<, Nat)
    BY WFMin, NatLessThanWellFounded, Zenon
  <2>2. m \in Nat /\ m <= Total /\ ~Good(m)
    BY <2>1
  <2>3. \A k \in Nat : k < m /\ k <= Total => Good(k)
    BY <2>1, Zenon DEF OpToRel
  <2>4. m # 0
    <3>1. e[0] = [stack |-> <<History!HEAD>>, out |-> <<>>]
      BY <1>0, <1>4
    <3>2. HistorySwept(e[0])
      BY <3>1, HistorySetsOut
    <3>3. Len(e[0].out) = 0
      BY <3>1
    <3> QED
      BY <2>2, <3>2, <3>3
  <2>5. m - 1 \in Nat /\ m - 1 < m /\ m - 1 <= Total /\ m \in 0..Total /\ m - 1 + 1 = m
    BY <1>0, <2>2, <2>4
  <2>6. Good(m - 1)
    BY <2>3, <2>5
  <2>7. e[m] = IF e[m - 1].stack = <<>> THEN e[m - 1] ELSE History!Out(e[m - 1])
    BY <1>4, <2>4, <2>5
  <2>8. CASE e[m - 1].stack = <<>>
    BY <2>2, <2>6, <2>7, <2>8
  <2>9. CASE e[m - 1].stack # <<>>
    <3>1. HistorySwept(History!Out(e[m - 1])) /\ Len(History!Out(e[m - 1]).out) = Len(e[m - 1].out) + 1
      BY <2>6, <2>9, HistoryGoesOut
    <3>2. Len(e[m - 1].out) = m - 1
      BY <2>6, <2>9
    <3>3. e[m] = History!Out(e[m - 1])
      BY <2>7, <2>9
    <3>4. Len(e[m].out) = m
      BY <2>5, <3>1, <3>2, <3>3
    <3> QED
      BY <2>2, <3>1, <3>3, <3>4
  <2> QED
    BY <2>8, <2>9
<1>6. Good(Total)
  <2> HIDE DEF Good
  <2> QED
    BY <1>0, <1>5
<1> DEFINE s == e[Total]
<1> HIDE DEF s
<1>7. HistorySwept(s) /\ (Len(s.out) = Total \/ s.stack = <<>>) /\ order = s.out
  BY <1>3, <1>6 DEF s
<1>8. /\ s.out \in Seq(1..Total) /\ HistoryOnce(s.out) /\ History!RangeOf(s.out) \subseteq B
      /\ \A i \in DOMAIN s.out : History!Children(s.out[i]) \subseteq {s.out[k] : k \in 1..(i - 1)}
      /\ \A x \in B : History!Children(x) \subseteq History!RangeOf(s.out)
                        => x \in History!RangeOf(s.stack) \cup History!RangeOf(s.out)
  BY <1>7 DEF HistorySwept
<1>9. B \subseteq History!RangeOf(s.out)
  <2>1. CASE Len(s.out) = Total
    <3> DEFINE T == 1..Total
    <3>1. s.out \in [T -> T] /\ \A i, j \in T : s.out[i] = s.out[j] => i = j
      BY <1>8, <2>1 DEF HistoryOnce
    <3>2. IsFiniteSet(T)
      BY <1>0, FS_Interval
    <3> HIDE DEF T
    <3>3. s.out \in Injection(T, T)
      BY <3>1, Fun_IsInj
    <3>4. s.out \in Surjection(T, T)
      BY <3>2, <3>3, FS_Injection
    <3>5. \A t \in T : \E i \in T : s.out[i] = t
      BY <3>4, Fun_SurjectionProperties
    <3>6. DOMAIN s.out = T
      BY <3>1
    <3> QED
      BY <1>1, <3>5, <3>6 DEF History!RangeOf, T
  <2>2. CASE s.stack = <<>>
    <3> DEFINE Left == {k \in Nat : k < Total /\ Total - k \in B \ History!RangeOf(s.out)}
    <3>1. Left = {}
      <4> SUFFICES ASSUME Left # {} PROVE FALSE
        OBVIOUS
      <4>1. PICK m \in Left : \A k \in Left : <<k, m>> \notin OpToRel(<, Nat)
        BY WFMin, NatLessThanWellFounded, Zenon
      <4>2. m \in Nat /\ m < Total /\ Total - m \in B \ History!RangeOf(s.out)
        BY <4>1
      <4>3. \A k \in Nat : k < m => k \notin Left
        BY <4>1, Zenon DEF OpToRel
      <4>4. ASSUME NEW d \in History!Children(Total - m) PROVE d \in History!RangeOf(s.out)
        <5>1. d \in B /\ Total - m \in History!RangeOf(before[d])
          BY HistoryChildren
        <5>2. d \in 1..Total /\ Total - m < d
          <6>1. d \in 1..Total
            BY <1>1, <5>1
          <6> QED
            BY <5>1, <6>1 DEF HistoryIs, History!RangeOf
        <5>3. Total - d \in Nat /\ Total - d < m /\ Total - d < Total /\ Total - (Total - d) = d
          BY <1>0, <4>2, <5>2
        <5> QED
          BY <4>3, <5>1, <5>3
      <4>5. History!RangeOf(s.stack) = {}
        BY <2>2 DEF History!RangeOf
      <4> QED
        BY <1>8, <4>2, <4>4, <4>5
    <3>2. ASSUME NEW x \in B PROVE x \in History!RangeOf(s.out)
      <4>1. x \in 1..Total
        BY <1>1
      <4>2. Total - x \in Nat /\ Total - x < Total /\ Total - (Total - x) = x
        BY <1>0, <4>1
      <4> QED
        BY <3>1, <3>2, <4>2
    <3> QED
      BY <3>2
  <2> QED
    BY <1>7, <2>1, <2>2
<1>10. ASSUME NEW i \in DOMAIN s.out, NEW k \in DOMAIN before[s.out[i]]
       PROVE  \E j \in DOMAIN s.out : i < j /\ s.out[j] = before[s.out[i]][k]
  <2> DEFINE q == before[s.out[i]][k]
  <2>0. s.out[i] \in B /\ s.out[i] \in 1..Total
    <3>1. s.out[i] \in History!RangeOf(s.out)
      BY DEF History!RangeOf
    <3> QED
      BY <1>1, <1>8, <3>1
  <2>1. q \in B
    BY <1>1, <2>0 DEF HistoryClosed
  <2>2. PICK j \in DOMAIN s.out : s.out[j] = q
    BY <1>9, <2>1 DEF History!RangeOf
  <2>3. s.out[i] \in History!Children(q)
    BY <2>0, HistoryChildren DEF History!RangeOf
  <2>4. PICK l \in 1..(j - 1) : s.out[i] = s.out[l]
    BY <1>8, <2>2, <2>3
  <2>5. DOMAIN s.out = 1..Len(s.out) /\ Len(s.out) \in Nat
    BY <1>8
  <2>6. l \in DOMAIN s.out /\ l < j
    BY <2>5
  <2>7. i = l
    BY <1>8, <2>4, <2>6 DEF HistoryOnce
  <2> QED
    BY <2>2, <2>6, <2>7
<1> QED
  <2>1. History!RangeOf(s.out) = B
    BY <1>8, <1>9
  <2>2. HistorySorted(before, s.out)
    BY <1>8, <1>10, <2>1, Zenon DEF HistorySorted
  <2> QED
    BY <1>7, <2>2

----------------------------------------------------------------------------
\* The definitions of the module, of any history and order.
HistoryPlainOf(p, C) == {c \in C : ~(Len(p[c]) > 1)}
HistoryIndex(o, c) == CHOOSE i \in DOMAIN o : o[i] = c
HistoryOldest(o, sel) == CHOOSE c \in sel : \A d \in sel : HistoryIndex(o, d) <= HistoryIndex(o, c)
HistoryNewest(o, sel) == CHOOSE c \in sel : \A d \in sel : HistoryIndex(o, c) <= HistoryIndex(o, d)
HistoryOneLine(p, o, sel) == HistoryOldest(o, sel) \in HistoryBelow(p, HistoryNewest(o, sel))

\* They are those of the module.
LEMMA HistoryNames ==
  /\ \A C : History!Plain(C) = HistoryPlainOf(before, C)
  /\ \A sel : History!OldestOf(sel) = HistoryOldest(order, sel)
  /\ \A sel : History!NewestOf(sel) = HistoryNewest(order, sel)
  /\ \A sel : History!OneLine(sel) = HistoryOneLine(before, order, sel)
<1>1. \A C : History!Plain(C) = HistoryPlainOf(before, C)
  BY DEF History!Plain, History!IsMerge, HistoryPlainOf
<1>2. \A sel : History!OldestOf(sel) = HistoryOldest(order, sel)
  BY DEF History!OldestOf, History!IndexOf, HistoryOldest, HistoryIndex
<1>3. \A sel : History!NewestOf(sel) = HistoryNewest(order, sel)
  BY DEF History!NewestOf, History!IndexOf, HistoryNewest, HistoryIndex
<1>4. \A sel : History!OneLine(sel) = HistoryOneLine(before, order, sel)
  <2> SUFFICES ASSUME NEW sel PROVE History!OneLine(sel) = HistoryOneLine(before, order, sel)
    OBVIOUS
  <2>1. History!OneLine(sel) = (History!OldestOf(sel) \in History!Below(History!NewestOf(sel)))
    BY DEF History!OneLine
  <2>2. HistoryOneLine(before, order, sel) = (HistoryOldest(order, sel) \in HistoryBelow(before, HistoryNewest(order, sel)))
    BY DEF HistoryOneLine
  <2> QED
    BY <1>2, <1>3, <2>1, <2>2, HistoryBelowIs
<1> QED
  BY <1>1, <1>2, <1>3, <1>4

\* The items of a list are of its set.
LEMMA HistoryItems ==
  ASSUME NEW T, NEW s \in Seq(T)
  PROVE  Len(s) \in Nat /\ DOMAIN s = 1..Len(s) /\ \A k \in DOMAIN s : s[k] \in T
  OBVIOUS

\* What is below a commit comes no earlier.
LEMMA HistoryComesLater ==
  ASSUME NEW p, NEW o, HistoryIs(p), HistorySorted(p, o), NEW m \in DOMAIN o
  PROVE  \A d \in HistoryBelow(p, o[m]) : \E n \in DOMAIN o : m <= n /\ o[n] = d
<1> DEFINE S == {d \in 1..Total : \E n \in DOMAIN o : m <= n /\ o[n] = d}
<1>1. o \in Seq(1..Total) /\ DOMAIN o = 1..Len(o) /\ Len(o) \in Nat
  BY DEF HistorySorted
<1>2. HistoryClosed(p, S)
  <2> SUFFICES ASSUME NEW c \in S \cap (1..Total), NEW i \in DOMAIN p[c] PROVE p[c][i] \in S
    BY DEF HistoryClosed
  <2>1. PICK n \in DOMAIN o : m <= n /\ o[n] = c
    OBVIOUS
  <2>2. PICK k \in DOMAIN o : n < k /\ o[k] = p[c][i]
    BY <2>1 DEF HistorySorted
  <2>3. m <= k
    BY <1>1, <2>1, <2>2
  <2>4. p[c][i] \in 1..Total
    BY DEF HistoryIs
  <2> QED
    BY <2>2, <2>3, <2>4
<1>3. o[m] \in S \cap (1..Total)
  <2>1. o[m] \in 1..Total
    BY <1>1, HistoryItems, Zenon
  <2>2. m <= m
    BY <1>1
  <2> QED
    BY <2>1, <2>2
<1> HIDE DEF S
<1>4. HistoryBelow(p, o[m]) \subseteq S
  BY <1>2, <1>3, HistoryLeast
<1> QED
  BY <1>4 DEF S

\* The newest and the oldest of a run of the order are its ends.
LEMMA HistoryEnds ==
  ASSUME NEW p, NEW o, HistorySorted(p, o), NEW i \in DOMAIN o, NEW j \in DOMAIN o, i <= j
  PROVE  HistoryNewest(o, {o[k] : k \in i..j}) = o[i] /\ HistoryOldest(o, {o[k] : k \in i..j}) = o[j]
<1> DEFINE sel == {o[k] : k \in i..j}
<1>1. DOMAIN o = 1..Len(o) /\ Len(o) \in Nat /\ HistoryOnce(o) /\ i \in Nat /\ j \in Nat
  BY DEF HistorySorted
<1>2. \A k \in i..j : k \in DOMAIN o
  BY <1>1
<1>3. \A k \in DOMAIN o : HistoryIndex(o, o[k]) = k
  BY <1>1 DEF HistoryIndex, HistoryOnce
<1>4. \A c \in sel : \E k \in i..j : c = o[k] /\ HistoryIndex(o, c) = k
  BY <1>2, <1>3
<1>5. o[i] \in sel /\ o[j] \in sel /\ HistoryIndex(o, o[i]) = i /\ HistoryIndex(o, o[j]) = j
  BY <1>1, <1>3
<1>6. \A k \in i..j : i <= k /\ k <= j /\ k \in Nat
  BY <1>1
<1> HIDE DEF sel
<1>7. (\A d \in sel : HistoryIndex(o, o[i]) <= HistoryIndex(o, d)) /\ (\A d \in sel : HistoryIndex(o, d) <= HistoryIndex(o, o[j]))
  BY <1>4, <1>5, <1>6
<1>8. HistoryNewest(o, sel) = o[i]
  <2> DEFINE c == HistoryNewest(o, sel)
  <2>1. c \in sel /\ \A d \in sel : HistoryIndex(o, c) <= HistoryIndex(o, d)
    BY <1>5, <1>7 DEF HistoryNewest
  <2> HIDE DEF c
  <2>2. PICK k \in i..j : c = o[k] /\ HistoryIndex(o, c) = k
    BY <1>4, <2>1
  <2>3. k <= i
    BY <1>5, <2>1, <2>2
  <2>4. k = i
    BY <1>1, <1>6, <2>2, <2>3
  <2> QED
    BY <2>2, <2>4 DEF c
<1>9. HistoryOldest(o, sel) = o[j]
  <2> DEFINE c == HistoryOldest(o, sel)
  <2>1. c \in sel /\ \A d \in sel : HistoryIndex(o, d) <= HistoryIndex(o, c)
    BY <1>5, <1>7 DEF HistoryOldest
  <2> HIDE DEF c
  <2>2. PICK k \in i..j : c = o[k] /\ HistoryIndex(o, c) = k
    BY <1>4, <2>1
  <2>3. j <= k
    BY <1>5, <2>1, <2>2
  <2>4. k = j
    BY <1>1, <1>6, <2>2, <2>3
  <2> QED
    BY <2>2, <2>4 DEF c
<1> QED
  BY <1>8, <1>9 DEF sel

\* A run of one line, without merges: what is below its newest is of it, or below the parent of its oldest.
LEMMA HistorySpan ==
  ASSUME NEW p, NEW o, HistoryIs(p), HistorySorted(p, o), NEW i \in DOMAIN o, NEW j \in DOMAIN o, i <= j,
         \A k \in i..j : Len(p[o[k]]) <= 1, p[o[j]] # <<>>, o[j] \in HistoryBelow(p, o[i])
  PROVE  HistoryBelow(p, o[i]) \subseteq {o[k] : k \in i..j} \cup HistoryBelow(p, p[o[j]][1])
<1> DEFINE sel == {o[k] : k \in i..j}
           q == p[o[j]][1]
           S == {x \in sel : o[j] \in HistoryBelow(p, x)} \cup HistoryBelow(p, q)
<1>1. DOMAIN o = 1..Len(o) /\ Len(o) \in Nat /\ HistoryOnce(o) /\ i \in Nat /\ j \in Nat /\ o \in Seq(1..Total)
  BY DEF HistorySorted
<1>0. \A k \in DOMAIN o : o[k] \in 1..Total
  BY <1>1, HistoryItems, Zenon
<1>2. \A k \in i..j : k \in DOMAIN o /\ k \in Nat /\ i <= k /\ k <= j /\ o[k] \in 1..Total
  <2>1. \A k \in i..j : k \in DOMAIN o /\ k \in Nat /\ i <= k /\ k <= j
    BY <1>1
  <2> QED
    BY <1>0, <2>1
<1>3. q \in 1..Total
  <2>1. o[j] \in 1..Total
    BY <1>0
  <2>2. p[o[j]] \in Seq(1..Total)
    BY <2>1 DEF HistoryIs
  <2>3. 1 \in DOMAIN p[o[j]]
    BY <2>2
  <2> QED
    BY <2>1, <2>3 DEF HistoryIs
<1>4. HistoryClosed(p, HistoryBelow(p, q)) /\ q \in HistoryBelow(p, q)
  BY <1>3, HistoryBelowClosed
<1>5. ASSUME NEW k \in i..j, o[j] \in HistoryBelow(p, o[k]), NEW n \in DOMAIN p[o[k]]
      PROVE  p[o[k]][n] \in S
  <2> DEFINE r == p[o[k]][n]
  <2>1. n = 1 /\ o[k] \in 1..Total /\ r \in 1..Total
    <3>1. o[k] \in 1..Total /\ Len(p[o[k]]) <= 1
      BY <1>2
    <3>2. p[o[k]] \in Seq(1..Total) /\ r \in 1..Total
      BY <1>5, <3>1 DEF HistoryIs
    <3>3. DOMAIN p[o[k]] = 1..Len(p[o[k]]) /\ Len(p[o[k]]) \in Nat
      BY <3>2
    <3> QED
      BY <1>5, <3>1, <3>2, <3>3
  <2>2. CASE k = j
    BY <1>4, <2>1, <2>2
  <2>3. CASE k # j
    <3>1. o[j] # o[k] /\ k < j
      BY <1>1, <1>2, <2>3 DEF HistoryOnce
    <3>2. HistoryBelow(p, o[k]) = {o[k]} \cup UNION {HistoryBelow(p, p[o[k]][l]) : l \in DOMAIN p[o[k]]}
      BY <2>1, HistoryBelowRec
    <3>3. \A l \in DOMAIN p[o[k]] : l = 1
      <4>1. Len(p[o[k]]) <= 1 /\ p[o[k]] \in Seq(1..Total)
        BY <1>2, <2>1 DEF HistoryIs
      <4> QED
        BY <4>1
    <3>4. o[j] \in HistoryBelow(p, r)
      BY <1>5, <2>1, <3>1, <3>2, <3>3
    <3>5. PICK m \in DOMAIN o : k < m /\ o[m] = r
      BY <1>2, <1>5 DEF HistorySorted
    <3>6. PICK l \in DOMAIN o : m <= l /\ o[l] = o[j]
      BY <3>4, <3>5, HistoryComesLater
    <3>7. l = j
      BY <1>1, <3>6 DEF HistoryOnce
    <3>8. m \in i..j
      BY <1>1, <1>2, <3>5, <3>6, <3>7
    <3> QED
      BY <3>4, <3>5, <3>8
  <2> QED
    BY <2>2, <2>3
<1>6. HistoryClosed(p, S)
  <2> SUFFICES ASSUME NEW x \in S \cap (1..Total), NEW n \in DOMAIN p[x] PROVE p[x][n] \in S
    BY DEF HistoryClosed
  <2>1. CASE x \in HistoryBelow(p, q)
    BY <1>4, <2>1 DEF HistoryClosed
  <2>2. CASE x \notin HistoryBelow(p, q)
    <3>1. PICK k \in i..j : x = o[k] /\ o[j] \in HistoryBelow(p, o[k])
      BY <2>2
    <3> QED
      BY <1>5, <3>1
  <2> QED
    BY <2>1, <2>2
<1>7. o[i] \in S \cap (1..Total)
  <2>1. i \in i..j
    BY <1>1
  <2> QED
    BY <1>2, <2>1
<1>8. HistoryBelow(p, o[i]) \subseteq S
  <2> HIDE DEF S
  <2> QED
    BY <1>6, <1>7, HistoryLeast
<1> QED
  BY <1>8

HistoryPick == [do : {"pick"}, of : 1..Total]
HistoryOf(t) == {t[i].of : i \in DOMAIN t}

\* The plain commits of a set, in a list.
LEMMA HistoryListed ==
  ASSUME HistorySorted(before, order), NEW C
  PROVE  /\ History!Oldest1st(C) \in Seq(1..Total)
         /\ History!RangeOf(History!Oldest1st(C)) = HistoryBelow(before, Total) \cap HistoryPlainOf(before, C)
<1> DEFINE r == [i \in 1..Len(order) |-> order[Len(order) + 1 - i]]
<1>1. Len(order) \in Nat /\ DOMAIN order = 1..Len(order) /\ \A k \in DOMAIN order : order[k] \in 1..Total
  <2>1. order \in Seq(1..Total)
    BY DEF HistorySorted
  <2> QED
    BY <2>1, HistoryItems, Zenon
<1>2. \A i \in 1..Len(order) : Len(order) + 1 - i \in 1..Len(order) /\ Len(order) + 1 - (Len(order) + 1 - i) = i
  BY <1>1
<1>3. r \in Seq(1..Total)
  <2> DEFINE n == Len(order)
             T == 1..Total
  <2>1. n \in Nat /\ \A i \in 1..n : order[n + 1 - i] \in T
    BY <1>1, <1>2
  <2>2. r = [i \in 1..n |-> order[n + 1 - i]]
    OBVIOUS
  <2> HIDE DEF n, r, T
  <2>3. r \in Seq(T)
    BY <2>1, <2>2
  <2> QED
    BY <2>3 DEF T
<1>4. DOMAIN r = 1..Len(order) /\ \A i \in 1..Len(order) : r[i] = order[Len(order) + 1 - i]
  OBVIOUS
<1>5. History!Reverse(order) = r
  BY DEF History!Reverse
<1> HIDE DEF r
<1>6. History!RangeOf(r) = History!RangeOf(order)
  <2>1. ASSUME NEW i \in DOMAIN r PROVE r[i] \in History!RangeOf(order)
    BY <1>1, <1>2, <1>4, <2>1 DEF History!RangeOf
  <2>2. ASSUME NEW i \in DOMAIN order PROVE order[i] \in History!RangeOf(r)
    <3>1. Len(order) + 1 - i \in DOMAIN r /\ r[Len(order) + 1 - i] = order[i]
      BY <1>1, <1>2, <1>4, <2>2
    <3> QED
      BY <3>1 DEF History!RangeOf
  <2>3. History!RangeOf(r) = {r[i] : i \in DOMAIN r} /\ History!RangeOf(order) = {order[i] : i \in DOMAIN order}
    BY DEF History!RangeOf
  <2> QED
    BY <2>1, <2>2, <2>3, Zenon
<1>7. History!Oldest1st(C) = History!Filter(r, HistoryPlainOf(before, C))
  BY <1>5, HistoryNames DEF History!Oldest1st
<1>8. History!RangeOf(order) = HistoryBelow(before, Total)
  BY DEF HistorySorted
<1> QED
  BY <1>3, <1>6, <1>7, <1>8, HistoryFilter

\* The line and the picks that are made of it.
LEMMA HistoryMapped ==
  ASSUME HistorySorted(before, order), NEW C
  PROVE  /\ History!LineOf(C) \in Seq(History!Entry)
         /\ History!PatchesOf(History!LineOf(C)) = HistoryBelow(before, Total) \cap HistoryPlainOf(before, C)
         /\ History!Picks(C) \in Seq(HistoryPick)
         /\ HistoryOf(History!Picks(C)) = HistoryBelow(before, Total) \cap HistoryPlainOf(before, C)
<1> DEFINE s == History!Oldest1st(C)
           l == [i \in 1..Len(s) |-> History!AsItWas(s[i])]
           t == [i \in 1..Len(s) |-> [do |-> "pick", of |-> s[i]]]
           X == HistoryBelow(before, Total) \cap HistoryPlainOf(before, C)
<1>1. s \in Seq(1..Total) /\ History!RangeOf(s) = X
  BY HistoryListed
<1> HIDE DEF s, X
<1>2. Len(s) \in Nat /\ DOMAIN s = 1..Len(s) /\ \A k \in 1..Len(s) : s[k] \in 1..Total
  BY <1>1, HistoryItems, Zenon
<1>3. History!LineOf(C) = l /\ History!Picks(C) = t
  BY DEF History!LineOf, History!Picks, s
<1>4. X = {s[k] : k \in 1..Len(s)}
  BY <1>1, <1>2 DEF History!RangeOf
<1>5. \A c \in 1..Total : History!AsItWas(c) \in History!Entry /\ History!AsItWas(c).patches = {c}
  <2> SUFFICES ASSUME NEW c \in 1..Total
               PROVE  History!AsItWas(c) \in History!Entry /\ History!AsItWas(c).patches = {c}
    OBVIOUS
  <2>1. <<"own", c>> \in {"own", "new", "typed"} \X (0..Total)
    BY HistoryAssumption
  <2> QED
    BY <2>1 DEF History!AsItWas, History!Own, History!Entry, History!Texts, History!Commits
<1>6. l \in Seq(History!Entry)
  <2> DEFINE n == Len(s)
             E == History!Entry
  <2>1. n \in Nat /\ \A i \in 1..n : History!AsItWas(s[i]) \in E
    BY <1>2, <1>5
  <2>2. l = [i \in 1..n |-> History!AsItWas(s[i])]
    OBVIOUS
  <2> HIDE DEF n, l, E
  <2>3. l \in Seq(E)
    BY <2>1, <2>2
  <2> QED
    BY <2>3 DEF E
<1>7. t \in Seq(HistoryPick)
  <2> DEFINE n == Len(s)
             E == HistoryPick
  <2>1. n \in Nat /\ \A i \in 1..n : [do |-> "pick", of |-> s[i]] \in E
    BY <1>2 DEF HistoryPick
  <2>2. t = [i \in 1..n |-> [do |-> "pick", of |-> s[i]]]
    OBVIOUS
  <2> HIDE DEF n, t, E
  <2>3. t \in Seq(E)
    BY <2>1, <2>2
  <2> QED
    BY <2>3 DEF E
<1>8. History!PatchesOf(l) = X
  <2>1. DOMAIN l = 1..Len(s) /\ \A i \in 1..Len(s) : l[i].patches = {s[i]}
    BY <1>2, <1>5
  <2> HIDE DEF l
  <2>2. History!PatchesOf(l) = UNION {{s[i]} : i \in 1..Len(s)}
    BY <2>1 DEF History!PatchesOf
  <2> QED
    BY <1>4, <2>2
<1>9. HistoryOf(t) = X
  <2>1. DOMAIN t = 1..Len(s) /\ \A i \in 1..Len(s) : t[i].of = s[i]
    OBVIOUS
  <2> HIDE DEF t
  <2> QED
    BY <1>4, <2>1 DEF HistoryOf
<1> QED
  BY <1>3, <1>6, <1>7, <1>8, <1>9 DEF X

\* A line with one more commit.
LEMMA HistoryLonger ==
  ASSUME NEW l \in Seq(History!Entry), NEW e \in History!Entry
  PROVE  Append(l, e) \in Seq(History!Entry) /\ History!PatchesOf(Append(l, e)) = History!PatchesOf(l) \cup e.patches
<1>1. /\ Append(l, e) \in Seq(History!Entry) /\ DOMAIN Append(l, e) = 1..(Len(l) + 1) /\ DOMAIN l = 1..Len(l)
      /\ Len(l) \in Nat /\ Append(l, e)[Len(l) + 1] = e /\ \A i \in 1..Len(l) : Append(l, e)[i] = l[i]
  OBVIOUS
<1> DEFINE m == Append(l, e)
<1> HIDE DEF m
<1>2. /\ DOMAIN m = 1..(Len(l) + 1) /\ m[Len(l) + 1] = e /\ \A i \in 1..Len(l) : m[i] = l[i]
  BY <1>1 DEF m
<1>3. ASSUME NEW x \in History!PatchesOf(m) PROVE x \in History!PatchesOf(l) \cup e.patches
  BY <1>1, <1>2, <1>3 DEF History!PatchesOf
<1>4. ASSUME NEW x \in History!PatchesOf(l) PROVE x \in History!PatchesOf(m)
  BY <1>1, <1>2, <1>4 DEF History!PatchesOf
<1>5. ASSUME NEW x \in e.patches PROVE x \in History!PatchesOf(m)
  <2>1. Len(l) + 1 \in DOMAIN m
    BY <1>1, <1>2
  <2> QED
    BY <1>2, <1>5, <2>1 DEF History!PatchesOf
<1>6. History!PatchesOf(m) = History!PatchesOf(l) \cup e.patches
  BY <1>3, <1>4, <1>5
<1> QED
  BY <1>1, <1>6 DEF m

\* A list of picks without its first.
LEMMA HistoryShorter ==
  ASSUME NEW t \in Seq(HistoryPick), t # <<>>
  PROVE  /\ Head(t) \in HistoryPick /\ Tail(t) \in Seq(HistoryPick)
         /\ HistoryOf(t) = {Head(t).of} \cup HistoryOf(Tail(t))
<1>1. /\ Len(t) \in Nat /\ Len(t) > 0 /\ DOMAIN t = 1..Len(t) /\ Head(t) = t[1] /\ Tail(t) \in Seq(HistoryPick)
      /\ DOMAIN Tail(t) = 1..(Len(t) - 1) /\ \A i \in 1..(Len(t) - 1) : Tail(t)[i] = t[i + 1] /\ i + 1 \in 1..Len(t)
      /\ \A i \in 1..Len(t) : i = 1 \/ (i - 1 \in 1..(Len(t) - 1) /\ i - 1 + 1 = i)
  OBVIOUS
<1>2. t[1] \in HistoryPick /\ 1 \in DOMAIN t
  BY <1>1
<1>3. ASSUME NEW i \in DOMAIN t PROVE t[i].of \in {Head(t).of} \cup HistoryOf(Tail(t))
  <2>1. CASE i = 1
    BY <1>1, <2>1
  <2>2. CASE i # 1
    <3>1. i - 1 \in DOMAIN Tail(t) /\ Tail(t)[i - 1] = t[i]
      BY <1>1, <1>3, <2>2
    <3> QED
      BY <3>1 DEF HistoryOf
  <2> QED
    BY <2>1, <2>2
<1>4. ASSUME NEW i \in DOMAIN Tail(t) PROVE Tail(t)[i].of \in HistoryOf(t)
  BY <1>1, <1>4 DEF HistoryOf
<1>5. Head(t).of \in HistoryOf(t)
  BY <1>1, <1>2 DEF HistoryOf
<1>6. HistoryOf(t) = {t[i].of : i \in DOMAIN t} /\ HistoryOf(Tail(t)) = {Tail(t)[i].of : i \in DOMAIN Tail(t)}
  BY DEF HistoryOf
<1> QED
  BY <1>1, <1>2, <1>3, <1>4, <1>5, <1>6

\* The patches of p that are neither of sel nor skipped are on the branch, or still to be replayed.
HistoryCovers(p, sel, skip, l, t) ==
  HistoryPlainOf(p, HistoryBelow(p, Total)) \ (sel \cup skip) \subseteq History!PatchesOf(l) \cup HistoryOf(t)
HistoryRewritten ==
  plan.do \in {"squash", "drop"} =>
    /\ line \in Seq(History!Entry) /\ todo \in Seq(HistoryPick)
    /\ pc \in {"running", "stopped"} => todo # <<>>
    /\ pc = "done" => todo = <<>>
    /\ pc # "aborted" /\ (plan.do = "drop" => HistoryOneLine(before, order, plan.sel)) =>
         HistoryCovers(before, plan.sel, skipped, line, todo)
HistoryInv == HistoryIs(before) /\ HistorySorted(before, order) /\ HistoryRewritten

\* A range is a run of the order, from its newest to its oldest, and the oldest has one parent.
LEMMA HistoryRange ==
  ASSUME HistoryIs(before), HistorySorted(before, order), NEW sel,
         History!IsRange(sel), History!Parent(History!OldestOf(sel)) # 0
  PROVE  /\ HistoryNewest(order, sel) \in 1..Total
         /\ History!Parent(History!OldestOf(sel)) \in 1..Total
         /\ HistoryOneLine(before, order, sel) =>
              HistoryBelow(before, HistoryNewest(order, sel))
                \subseteq sel \cup HistoryBelow(before, History!Parent(History!OldestOf(sel)))
<1> DEFINE q == History!Parent(History!OldestOf(sel))
<1>1. PICK i \in DOMAIN order, j \in DOMAIN order : sel = {order[k] : k \in i..j}
  BY DEF History!IsRange
<1>2. order \in Seq(1..Total) /\ DOMAIN order = 1..Len(order) /\ Len(order) \in Nat
  BY DEF HistorySorted
<1>3. \A k \in DOMAIN order : order[k] \in 1..Total
  BY <1>2, HistoryItems, Zenon
<1>4. i <= j
  <2> SUFFICES ASSUME ~(i <= j) PROVE FALSE
    OBVIOUS
  <2>1. i..j = {}
    BY <1>2
  <2>2. sel = {}
    BY <1>1, <2>1
  <2>3. Cardinality(sel) = 0
    BY <2>2, FS_EmptySet
  <2>4. Cardinality(sel) >= 2
    <3>1. Cardinality(sel) = History!Cardinality(sel)
      BY DEF Cardinality, History!Cardinality
    <3> QED
      BY <3>1 DEF History!IsRange
  <2> QED
    <3>1. ~(0 >= 2)
      OBVIOUS
    <3> QED
      BY <2>3, <2>4, <3>1, Zenon
<1>5. HistoryNewest(order, sel) = order[i] /\ HistoryOldest(order, sel) = order[j]
  BY <1>1, <1>4, HistoryEnds
<1>6. q = IF before[order[j]] = <<>> THEN 0 ELSE before[order[j]][1]
  BY <1>5, HistoryNames DEF History!Parent
<1>7. before[order[j]] # <<>> /\ q = before[order[j]][1]
  BY <1>6
<1>8. q \in 1..Total
  <2>1. order[j] \in 1..Total
    BY <1>3
  <2>2. before[order[j]] \in Seq(1..Total)
    BY <2>1 DEF HistoryIs
  <2>3. 1 \in DOMAIN before[order[j]]
    BY <1>7, <2>2
  <2> QED
    BY <1>7, <2>1, <2>3 DEF HistoryIs
<1>9. \A k \in i..j : Len(before[order[k]]) <= 1
  <2> SUFFICES ASSUME NEW k \in i..j PROVE Len(before[order[k]]) <= 1
    OBVIOUS
  <2>1. order[k] \in sel /\ k \in DOMAIN order
    BY <1>1, <1>2
  <2>2. ~(Len(before[order[k]]) > 1)
    BY <2>1 DEF History!IsRange, History!IsMerge
  <2>3. before[order[k]] \in Seq(1..Total)
    BY <1>3, <2>1 DEF HistoryIs
  <2> QED
    BY <2>2, <2>3
<1>10. ASSUME HistoryOneLine(before, order, sel)
       PROVE  HistoryBelow(before, order[i]) \subseteq sel \cup HistoryBelow(before, q)
  <2>1. order[j] \in HistoryBelow(before, order[i])
    BY <1>5, <1>10 DEF HistoryOneLine
  <2> QED
    BY <1>1, <1>4, <1>7, <1>9, <2>1, HistorySpan
<1> QED
  BY <1>3, <1>5, <1>8, <1>10

\* git rebase --onto sets out.
LEMMA HistoryOnto ==
  ASSUME HistorySorted(before, order), NEW b, NEW u, History!Onto(b, u)
  PROVE  /\ line' = b /\ todo' \in Seq(HistoryPick)
         /\ HistoryOf(todo') =
              HistoryBelow(before, Total)
                \cap HistoryPlainOf(before, HistoryBelow(before, Total) \ HistoryBelow(before, u))
         /\ (pc' = "running" /\ todo' # <<>>) \/ (pc' = "done" /\ todo' = <<>>)
<1>1. /\ line' = b /\ pc' = IF todo' = <<>> THEN "done" ELSE "running"
      /\ todo' = History!Picks(History!Below(Total) \ History!Below(u))
  BY DEF History!Onto, History!HEAD
<1>2. todo' = History!Picks(HistoryBelow(before, Total) \ HistoryBelow(before, u))
  BY <1>1, HistoryBelowIs
<1> QED
  BY <1>1, <1>2, HistoryMapped

\* What is dropped is at most the selection, and what it leaves is there or to come.
LEMMA HistoryDropped ==
  ASSUME HistoryInv, NEW sel, History!dropCommits(sel)
  PROVE  HistoryRewritten'
<1>1. /\ HistoryIs(before) /\ HistorySorted(before, order)
      /\ History!IsRange(sel) /\ History!Parent(History!OldestOf(sel)) # 0
      /\ before' = before /\ order' = order /\ skipped' = skipped
  BY DEF HistoryInv, History!dropCommits
<1>2. plan'.do = "drop" /\ plan'.sel = sel
  BY DEF History!dropCommits, History!Nothing
<1> DEFINE B == HistoryBelow(before, Total)
           q == History!Parent(History!OldestOf(sel))
           u == HistoryNewest(order, sel)
           l == History!LineOf(HistoryBelow(before, q))
<1>3. History!Onto(l, u)
  <2>1. History!Onto(History!LineOf(History!Below(q)), History!NewestOf(sel))
    BY DEF History!dropCommits
  <2> QED
    BY <2>1, HistoryBelowIs, HistoryNames
<1>4. line' = l /\ todo' \in Seq(HistoryPick) /\ HistoryOf(todo') = B \cap HistoryPlainOf(before, B \ HistoryBelow(before, u))
      /\ ((pc' = "running" /\ todo' # <<>>) \/ (pc' = "done" /\ todo' = <<>>))
  BY <1>1, <1>3, HistoryOnto
<1>5. l \in Seq(History!Entry) /\ History!PatchesOf(l) = B \cap HistoryPlainOf(before, HistoryBelow(before, q))
  BY <1>1, HistoryMapped
<1>6. ASSUME HistoryOneLine(before, order, sel) PROVE HistoryCovers(before, sel, skipped, line', todo')
  <2>1. HistoryBelow(before, u) \subseteq sel \cup HistoryBelow(before, q)
    BY <1>1, <1>6, HistoryRange
  <2> HIDE DEF B, q, u, l
  <2>2. HistoryPlainOf(before, B) \ (sel \cup skipped) \subseteq History!PatchesOf(line') \cup HistoryOf(todo')
    BY <1>4, <1>5, <2>1 DEF HistoryPlainOf
  <2> QED
    BY <2>2 DEF HistoryCovers, B
<1> HIDE DEF l
<1> QED
  BY <1>1, <1>2, <1>4, <1>5, <1>6 DEF HistoryRewritten

\* The squashed commit has all that the range has.
LEMMA HistorySquashes ==
  ASSUME HistoryInv, NEW sel, History!squashCommits(sel)
  PROVE  HistoryRewritten'
<1>1. /\ HistoryIs(before) /\ HistorySorted(before, order)
      /\ History!IsRange(sel) /\ History!Parent(History!OldestOf(sel)) # 0
      /\ before' = before /\ order' = order /\ skipped' = skipped
  BY DEF HistoryInv, History!squashCommits
<1>2. plan'.do = "squash" /\ plan'.sel = sel
  BY DEF History!squashCommits, History!Nothing
<1> DEFINE B == HistoryBelow(before, Total)
           q == History!Parent(History!OldestOf(sel))
           u == HistoryNewest(order, sel)
           b == HistoryBelow(before, q)
           e == [patches |-> HistoryPlainOf(before, HistoryBelow(before, u) \ b), msg |-> History!Typed]
           l == Append(History!LineOf(b), e)
<1>3. History!Squashed(sel) = l
  BY HistoryBelowIs, HistoryNames DEF History!Squashed
<1>4. History!LineOf(b) \in Seq(History!Entry) /\ History!PatchesOf(History!LineOf(b)) = B \cap HistoryPlainOf(before, b)
  BY <1>1, HistoryMapped
<1>5. e \in History!Entry
  <2>1. HistoryBelow(before, u) \subseteq 1..Total
    <3>1. u \in 1..Total
      BY <1>1, HistoryRange
    <3>2. HistoryBelow(before, u) \subseteq 1..u
      BY <1>1, <3>1, HistoryBelowClosed
    <3> HIDE DEF u
    <3> QED
      BY <3>1, <3>2, HistoryAssumption
  <2>2. HistoryPlainOf(before, HistoryBelow(before, u) \ b) \subseteq 1..Total
    BY <2>1 DEF HistoryPlainOf
  <2>3. History!Typed \in SUBSET History!Texts
    BY HistoryAssumption DEF History!Typed, History!Texts
  <2> HIDE DEF u, b
  <2> QED
    BY <2>2, <2>3 DEF History!Entry, History!Commits
<1>6. l \in Seq(History!Entry) /\ History!PatchesOf(l) = (B \cap HistoryPlainOf(before, b)) \cup e.patches
  <2> HIDE DEF e, b, B
  <2> QED
    BY <1>4, <1>5, HistoryLonger
<1>7. CASE u = Total
  <2>1. line' = l /\ todo' = <<>> /\ pc' = "done"
    BY <1>3, <1>7, HistoryNames DEF History!squashCommits, History!HEAD
  <2>2. HistoryCovers(before, sel, skipped, line', todo')
    <3>1. e.patches = HistoryPlainOf(before, B \ b)
      BY <1>7
    <3> HIDE DEF l, b, B
    <3>2. HistoryPlainOf(before, B) \ (sel \cup skipped) \subseteq History!PatchesOf(line') \cup HistoryOf(todo')
      BY <1>6, <2>1, <3>1 DEF HistoryPlainOf
    <3> QED
      BY <3>2 DEF HistoryCovers, B
  <2> HIDE DEF l
  <2> QED
    BY <1>1, <1>2, <1>6, <2>1, <2>2 DEF HistoryRewritten
<1>8. CASE u # Total
  <2>1. History!Onto(l, u)
    <3>1. History!Onto(History!Squashed(sel), History!NewestOf(sel))
      BY <1>8, HistoryNames DEF History!squashCommits, History!HEAD
    <3> QED
      BY <1>3, <3>1, HistoryNames
  <2>2. line' = l /\ todo' \in Seq(HistoryPick) /\ HistoryOf(todo') = B \cap HistoryPlainOf(before, B \ HistoryBelow(before, u))
        /\ ((pc' = "running" /\ todo' # <<>>) \/ (pc' = "done" /\ todo' = <<>>))
    BY <1>1, <2>1, HistoryOnto
  <2>3. HistoryCovers(before, sel, skipped, line', todo')
    <3>1. e.patches = HistoryPlainOf(before, HistoryBelow(before, u) \ b)
      OBVIOUS
    <3> HIDE DEF l, b, B, u
    <3>2. HistoryPlainOf(before, B) \ (sel \cup skipped) \subseteq History!PatchesOf(line') \cup HistoryOf(todo')
      BY <1>6, <2>2, <3>1 DEF HistoryPlainOf
    <3> QED
      BY <3>2 DEF HistoryCovers, B
  <2> HIDE DEF l
  <2> QED
    BY <1>1, <1>2, <1>6, <2>2, <2>3 DEF HistoryRewritten
<1> QED
  BY <1>7, <1>8

\* A pick makes a commit of one patch.
LEMMA HistoryPicked ==
  ASSUME NEW c \in 1..Total
  PROVE  History!AsItWas(c) \in History!Entry /\ History!AsItWas(c).patches = {c}
<1>1. <<"own", c>> \in {"own", "new", "typed"} \X (0..Total)
  BY HistoryAssumption
<1> QED
  BY <1>1 DEF History!AsItWas, History!Own, History!Entry, History!Texts, History!Commits

\* The rebase goes on past a pick.
LEMMA HistoryTaken ==
  ASSUME HistoryInv, plan.do \in {"squash", "drop"}, pc \in {"running", "stopped"},
         line' = History!After(Head(todo)), todo' = Tail(todo),
         pc' = (IF todo' = <<>> THEN "done" ELSE "running"),
         UNCHANGED <<before, order, plan, skipped>>
  PROVE  HistoryRewritten'
<1>1. line \in Seq(History!Entry) /\ todo \in Seq(HistoryPick) /\ todo # <<>>
  BY DEF HistoryInv, HistoryRewritten
<1>2. Head(todo) \in HistoryPick /\ todo' \in Seq(HistoryPick) /\ HistoryOf(todo) = {Head(todo).of} \cup HistoryOf(todo')
  BY <1>1, HistoryShorter
<1>3. Head(todo).do = "pick" /\ Head(todo).of \in 1..Total
  BY <1>2 DEF HistoryPick
<1>4. line' = IF Head(todo).of \in History!PatchesOf(line) THEN line ELSE Append(line, History!AsItWas(Head(todo).of))
  BY <1>3 DEF History!After
<1>5. line' \in Seq(History!Entry) /\ History!PatchesOf(line') = History!PatchesOf(line) \cup {Head(todo).of}
  <2>1. History!AsItWas(Head(todo).of) \in History!Entry /\ History!AsItWas(Head(todo).of).patches = {Head(todo).of}
    BY <1>3, HistoryPicked
  <2>2. CASE Head(todo).of \in History!PatchesOf(line)
    BY <1>1, <1>4, <2>2
  <2>3. CASE Head(todo).of \notin History!PatchesOf(line)
    BY <1>1, <1>4, <2>1, <2>3, HistoryLonger
  <2> QED
    BY <2>2, <2>3
<1>6. (pc' = "running" /\ todo' # <<>>) \/ (pc' = "done" /\ todo' = <<>>)
  OBVIOUS
<1>7. ASSUME plan.do = "drop" => HistoryOneLine(before, order, plan.sel)
      PROVE  HistoryCovers(before, plan.sel, skipped, line', todo')
  <2>1. HistoryCovers(before, plan.sel, skipped, line, todo)
    BY <1>7 DEF HistoryInv, HistoryRewritten
  <2> QED
    BY <1>2, <1>5, <2>1 DEF HistoryCovers
<1> QED
  BY <1>2, <1>5, <1>6, <1>7 DEF HistoryRewritten

\* The user has it go on without the pick.
LEMMA HistorySkips ==
  ASSUME HistoryInv, plan.do \in {"squash", "drop"}, History!operationSkip
  PROVE  HistoryRewritten'
<1>1. /\ pc = "stopped" /\ todo' = Tail(todo) /\ line' = line
      /\ pc' = (IF todo' = <<>> THEN "done" ELSE "running")
      /\ before' = before /\ order' = order /\ plan' = plan
  BY DEF History!operationSkip
<1>2. line \in Seq(History!Entry) /\ todo \in Seq(HistoryPick) /\ todo # <<>>
  BY <1>1 DEF HistoryInv, HistoryRewritten
<1>3. Head(todo) \in HistoryPick /\ todo' \in Seq(HistoryPick) /\ HistoryOf(todo) = {Head(todo).of} \cup HistoryOf(todo')
  BY <1>1, <1>2, HistoryShorter
<1>4. Head(todo).do = "pick"
  BY <1>3 DEF HistoryPick
<1>5. skipped' = skipped \cup ({Head(todo).of} \ History!PatchesOf(line))
  BY <1>4 DEF History!operationSkip
<1>6. (pc' = "running" /\ todo' # <<>>) \/ (pc' = "done" /\ todo' = <<>>)
  BY <1>1
<1>7. ASSUME plan.do = "drop" => HistoryOneLine(before, order, plan.sel)
      PROVE  HistoryCovers(before, plan.sel, skipped', line, todo')
  <2>1. HistoryCovers(before, plan.sel, skipped, line, todo)
    BY <1>1, <1>7 DEF HistoryInv, HistoryRewritten
  <2> QED
    BY <1>3, <1>5, <2>1 DEF HistoryCovers
<1> QED
  BY <1>1, <1>2, <1>3, <1>6, <1>7 DEF HistoryRewritten

\* Every step keeps the invariant.
LEMMA HistoryStep ==
  ASSUME HistoryInv,
         [Step]_<<focus, vars, historyVars, labelsVars, viewVars, formVars, panesVars, stagingVars, editorVars>>
  PROVE  HistoryInv'
<1> USE DEF HistoryInv
<1>1. CASE UNCHANGED historyVars
  BY <1>1 DEF historyVars, HistoryRewritten
<1>2. CASE History!Next
  <2>1. before' = before /\ order' = order
    <3>1. \A sel : History!dropCommits(sel) => before' = before /\ order' = order
      BY DEF History!dropCommits
    <3>2. \A sel : History!squashCommits(sel) => before' = before /\ order' = order
      BY DEF History!squashCommits
    <3>3. \A p : History!interactiveRebase(p) => before' = before /\ order' = order
      BY DEF History!interactiveRebase
    <3>4. History!Replay \/ History!Stop => before' = before /\ order' = order
      BY DEF History!Replay, History!Stop
    <3>5. History!operationContinue \/ History!operationSkip \/ History!operationAbort =>
            before' = before /\ order' = order
      BY DEF History!operationContinue, History!operationSkip, History!operationAbort
    <3> QED
      BY <1>2, <3>1, <3>2, <3>3, <3>4, <3>5
        DEF History!Next, History!Requests, History!BulkActions, History!RebaseDialog
  <2>2. HistoryRewritten'
    <3>1. ASSUME NEW sel, History!dropCommits(sel) PROVE HistoryRewritten'
      BY <3>1, HistoryDropped
    <3>2. ASSUME NEW sel, History!squashCommits(sel) PROVE HistoryRewritten'
      BY <3>2, HistorySquashes
    <3>3. ASSUME NEW p, History!interactiveRebase(p) PROVE HistoryRewritten'
      <4>1. plan'.do = "plan"
        BY <3>3 DEF History!interactiveRebase, History!Nothing
      <4> QED
        BY <4>1 DEF HistoryRewritten
    <3>4. CASE History!Replay
      <4>1. /\ pc = "running" /\ line' = History!After(Head(todo)) /\ todo' = Tail(todo)
            /\ pc' = (IF todo' = <<>> THEN "done" ELSE "running") /\ UNCHANGED <<before, order, plan, skipped>>
        BY <3>4 DEF History!Replay
      <4>2. CASE plan.do \in {"squash", "drop"}
        BY <4>1, <4>2, HistoryTaken
      <4> QED
        BY <4>1, <4>2 DEF HistoryRewritten
    <3>5. CASE History!Stop
      <4>1. pc = "running" /\ pc' = "stopped" /\ UNCHANGED <<before, order, plan, line, todo, skipped>>
        BY <3>5 DEF History!Stop
      <4> QED
        BY <4>1 DEF HistoryRewritten
    <3>6. CASE History!operationContinue
      <4>1. /\ pc = "stopped" /\ line' = (IF Head(todo).do = "amend" THEN line ELSE History!After(Head(todo)))
            /\ todo' = Tail(todo)
            /\ pc' = (IF todo' = <<>> THEN "done" ELSE "running") /\ UNCHANGED <<before, order, plan, skipped>>
        BY <3>6 DEF History!operationContinue
      <4>2. CASE plan.do \in {"squash", "drop"}
        <5>1. todo \in Seq(HistoryPick) /\ todo # <<>>
          BY <4>1, <4>2 DEF HistoryRewritten
        <5>2. Head(todo).do = "pick"
          BY <5>1, HistoryShorter DEF HistoryPick
        <5>3. line' = History!After(Head(todo))
          BY <4>1, <5>2
        <5> QED
          BY <4>1, <4>2, <5>3, HistoryTaken
      <4> QED
        BY <4>1, <4>2 DEF HistoryRewritten
    <3>7. CASE History!operationSkip
      <4>1. CASE plan.do \in {"squash", "drop"}
        BY <3>7, <4>1, HistorySkips
      <4>2. plan' = plan
        BY <3>7 DEF History!operationSkip
      <4> QED
        BY <4>1, <4>2 DEF HistoryRewritten
    <3>8. CASE History!operationAbort
      <4>1. line' = History!LineOf(History!Below(Total)) /\ todo' = <<>> /\ pc' = "aborted"
        BY <3>8 DEF History!operationAbort, History!HEAD
      <4>2. line' \in Seq(History!Entry) /\ todo' \in Seq(HistoryPick)
        BY <4>1, HistoryMapped
      <4> QED
        BY <4>1, <4>2 DEF HistoryRewritten
    <3> QED
      BY <1>2, <3>1, <3>2, <3>3, <3>4, <3>5, <3>6, <3>7, <3>8
        DEF History!Next, History!Requests, History!BulkActions, History!RebaseDialog
  <2> QED
    BY <2>1, <2>2
<1> QED
  BY <1>1, <1>2 DEF Step, historyVars

(***************************************************************************)
(* A squash loses no patch and the drop of a run of one line none that was   *)
(* not selected, whatever the history, its size and the stops on the way.    *)
(***************************************************************************)
THEOREM RewritesKeepTheRest == SideBySide => []NothingElseIsLost
<1>1. Start => HistoryInv
  <2> SUFFICES ASSUME Start PROVE HistoryInv
    OBVIOUS
  <2>1. before \in History!Histories /\ order = History!TopoOrder /\ plan = History!Nothing
    BY DEF Start, History!Init
  <2>2. HistoryIs(before)
    BY <2>1, HistoriesAre
  <2>3. HistorySorted(before, order)
    BY <2>1, <2>2, HistoryOrdered
  <2>4. plan.do = "nothing"
    BY <2>1 DEF History!Nothing
  <2> QED
    BY <2>2, <2>3, <2>4 DEF HistoryInv, HistoryRewritten
<1>2. HistoryInv /\ [Step]_<<focus, vars, historyVars, labelsVars, viewVars, formVars, panesVars, stagingVars, editorVars>>
        => HistoryInv'
  BY HistoryStep
<1>3. HistoryInv => NothingElseIsLost
  <2> SUFFICES ASSUME HistoryInv, pc = "done", plan.do \in {"squash", "drop"},
                      plan.do = "drop" => HistoryOneLine(before, order, plan.sel)
               PROVE  History!OthersAreThere
    BY HistoryNames DEF NothingElseIsLost, History!NothingElseIsLost
  <2>1. HistoryCovers(before, plan.sel, skipped, line, todo) /\ todo = <<>>
    BY DEF HistoryInv, HistoryRewritten
  <2>2. HistoryOf(todo) = {}
    BY <2>1 DEF HistoryOf
  <2>3. History!Plain(History!Below(Total)) = HistoryPlainOf(before, HistoryBelow(before, Total))
    BY HistoryBelowIs, HistoryNames
  <2> QED
    BY <2>1, <2>2, <2>3 DEF HistoryCovers, History!OthersAreThere, History!HEAD
<1> QED
  BY <1>1, <1>2, <1>3, PTL DEF SideBySide

----------------------------------------------------------------------------
\* The staging of hunks and lines.

StagedView == [file : Patched, staged : BOOLEAN]
StagedDiff == [file : Patched, old : SUBSET Lines, new : SUBSET Lines]
\* A patch takes some lines of its hunks to others, and the lines asked for are the difference.
StagedPatch ==
  {p \in [file : Patched, old : SUBSET Lines, new : SUBSET Lines, hunks : SUBSET Staged!Hunks,
          post : SUBSET Lines, want : SUBSET Lines] :
     p.post \subseteq Staged!InHunks(p.hunks) /\ p.want = Staged!Delta(Staged!Pre(p), p.post)}
\* What git has read and made of it, in one of the ways the patch fits.
StagedRun(j, r) ==
  /\ r.patch \in StagedPatch /\ r.base \subseteq Lines
  /\ \E to \in Staged!Lands(j, r.patch, r.base) : r.out = Staged!Placed(j, r.patch, r.base, to)
StagedJob(j) ==
  /\ j = [id |-> j.id, patch |-> j.patch, cached |-> j.cached, reverse |-> j.reverse, view |-> j.view,
          temp |-> j.temp, stage |-> j.stage, run |-> j.run]
  /\ j.patch \in StagedPatch /\ j.cached \in BOOLEAN /\ j.reverse \in BOOLEAN /\ j.view \in StagedView
  /\ j.temp \in Staged!Ids
  /\ j.stage = "read" => ~j.cached /\ StagedRun(j, j.run)
StagedTexts == [Patched -> SUBSET Lines]
StagedShown ==
  /\ view \in StagedView /\ diff \in StagedDiff
  /\ \A a \in reads : a \in [view : StagedView, got : StagedDiff \cup {None}]
StagedJobs ==
  /\ \A j \in jobs : StagedJob(j)
  /\ \A i, j \in jobs : i.id = j.id => i = j
  /\ temp \in [Staged!Ids -> StagedPatch \cup {None}]
StagedInv ==
  /\ head \in StagedTexts /\ index \in StagedTexts /\ work \in StagedTexts
  /\ StagedShown /\ StagedJobs

\* What git diff answers for a side of a file is of that file.
LEMMA StagedDiffs ==
  ASSUME StagedInv, NEW v \in StagedView
  PROVE  Staged!DiffOf(v) \in StagedDiff
  BY DEF StagedInv, StagedTexts, StagedView, StagedDiff, Staged!DiffOf

\* A patch cut from a diff takes the lines of its hunks from what the diff had to what it got.
LEMMA StagedCut ==
  ASSUME NEW d \in StagedDiff, NEW H \in SUBSET Staged!Hunks
  PROVE  Staged!Cut(d, H) \in StagedPatch
<1> DEFINE I == Staged!InHunks(H)
           p == Staged!Cut(d, H)
<1>1. I \subseteq Lines
  BY DEF Staged!InHunks
<1>2. d.file \in Patched /\ d.old \subseteq Lines /\ d.new \subseteq Lines
  BY DEF StagedDiff
<1>3. Staged!Changed(d) = (d.old \ d.new) \cup (d.new \ d.old)
  BY DEF Staged!Changed
<1>4. p = [file |-> d.file, old |-> d.old, new |-> d.new, hunks |-> H,
           post |-> d.new \cap I, want |-> Staged!Changed(d) \cap I]
  BY DEF Staged!Cut
<1> HIDE DEF I, p
<1>5. /\ p.file = d.file /\ p.hunks = H /\ p.old = d.old /\ p.post = d.new \cap I
      /\ p.want = Staged!Changed(d) \cap I
  BY <1>4
<1>6. p \in [file : Patched, old : SUBSET Lines, new : SUBSET Lines, hunks : SUBSET Staged!Hunks,
             post : SUBSET Lines, want : SUBSET Lines]
  BY <1>1, <1>2, <1>3, <1>4
<1>7. Staged!Pre(p) = d.old \cap I
  BY <1>5 DEF Staged!Pre, I
<1>8. p.want = Staged!Delta(Staged!Pre(p), p.post)
  BY <1>3, <1>5, <1>7 DEF Staged!Delta
<1>9. p.post \subseteq Staged!InHunks(p.hunks)
  BY <1>5 DEF I
<1> QED
  BY <1>6, <1>8, <1>9 DEF StagedPatch, p

\* The hunks of a diff are hunks.
LEMMA StagedHunks == ASSUME NEW d \in StagedDiff PROVE Staged!HunksOf(d) \subseteq Staged!Hunks
  BY DEF StagedDiff, Staged!HunksOf, Staged!Hunks, Staged!Changed

\* The patch of a line, and of no other line of its hunk.
LEMMA StagedLine ==
  ASSUME NEW d \in StagedDiff, NEW l \in Staged!Changed(d)
  PROVE  Staged!buildLinePatch(d, l) \in StagedPatch
<1> DEFINE p == Staged!Cut(d, {HunkOf[l]})
           q == Staged!buildLinePatch(d, l)
           post == IF l \in d.new THEN Staged!Pre(p) \cup {l} ELSE Staged!Pre(p) \ {l}
           I == Staged!InHunks({HunkOf[l]})
<1>1. l \in Lines /\ d.old \subseteq Lines /\ d.new \subseteq Lines
  BY DEF StagedDiff, Staged!Changed
<1>2. p \in StagedPatch
  <2>1. {HunkOf[l]} \in SUBSET Staged!Hunks
    BY <1>1 DEF Staged!Hunks
  <2> QED
    BY <2>1, StagedCut
<1>3. p.hunks = {HunkOf[l]} /\ p.old = d.old /\ l \in I /\ I \subseteq Lines
  BY <1>1 DEF Staged!Cut, Staged!InHunks
<1>4. q = [p EXCEPT !.post = post, !.want = {l}]
  BY DEF Staged!buildLinePatch
<1>5. (l \in d.new /\ l \notin d.old) \/ (l \in d.old /\ l \notin d.new)
  BY DEF Staged!Changed
<1> HIDE DEF p, q
<1>6. Staged!Pre(p) = d.old \cap I
  BY <1>3 DEF Staged!Pre
<1> HIDE DEF I
<1>7. post \subseteq I /\ {l} = Staged!Delta(Staged!Pre(p), post)
  BY <1>3, <1>5, <1>6 DEF Staged!Delta
<1> HIDE DEF post
<1>8. p \in [file : Patched, old : SUBSET Lines, new : SUBSET Lines, hunks : SUBSET Staged!Hunks,
             post : SUBSET Lines, want : SUBSET Lines]
  BY <1>2 DEF StagedPatch
<1>9. /\ q \in [file : Patched, old : SUBSET Lines, new : SUBSET Lines, hunks : SUBSET Staged!Hunks,
                post : SUBSET Lines, want : SUBSET Lines]
      /\ q.old = p.old /\ q.post = post /\ q.want = {l} /\ q.hunks = p.hunks
  BY <1>1, <1>3, <1>4, <1>7, <1>8
<1>10. Staged!Pre(q) = Staged!Pre(p)
  BY <1>9 DEF Staged!Pre
<1>11. q.post \subseteq Staged!InHunks(q.hunks)
  BY <1>3, <1>7, <1>9 DEF I
<1> QED
  BY <1>7, <1>9, <1>10, <1>11 DEF StagedPatch, q

\* Where a patch fits depends on the direction only, of all there is to a job.
LEMMA StagedWay ==
  ASSUME NEW i, NEW j, i.reverse = j.reverse, NEW p, NEW txt
  PROVE  /\ Staged!Lands(i, p, txt) = Staged!Lands(j, p, txt)
         /\ \A to : Staged!Placed(i, p, txt, to) = Staged!Placed(j, p, txt, to)
<1>1. /\ Staged!From(i, p) = Staged!From(j, p) /\ Staged!To(i, p) = Staged!To(j, p)
      /\ Staged!Side(i, p) = Staged!Side(j, p)
  BY DEF Staged!From, Staged!To, Staged!Side
<1>2. Staged!Landings(i, p, txt) = Staged!Landings(j, p, txt)
  BY <1>1 DEF Staged!Landings
<1>3. Staged!NumbersAreRight(i, p, txt) <=> Staged!NumbersAreRight(j, p, txt)
  BY <1>1 DEF Staged!NumbersAreRight
<1>4. Staged!Lands(i, p, txt) = Staged!Lands(j, p, txt)
  BY <1>2, <1>3, Zenon DEF Staged!Lands
<1>5. \A to : Staged!Placed(i, p, txt, to) = Staged!Placed(j, p, txt, to)
  BY <1>1 DEF Staged!Placed
<1> QED
  BY <1>4, <1>5

\* Lines of one hunk are told apart by what they read like.
LEMMA StagedWords ==
  ASSUME NEW S \in SUBSET Lines, NEW l \in Lines
  PROVE  Phrase[l] \in Staged!Words(S, HunkOf[l]) <=> l \in S
  BY StagedAssumption DEF Staged!Words

\* What a patch makes of a txt it belongs to in its own place only: the lines asked for change.
LEMMA StagedPlaces ==
  ASSUME NEW j, j.reverse \in BOOLEAN, NEW p \in StagedPatch, NEW txt \in SUBSET Lines,
         Staged!Lands(j, p, txt) = {Staged!InPlace(p)}
  PROVE  Staged!Delta(txt, Staged!Placed(j, p, txt, Staged!InPlace(p))) = p.want
<1> DEFINE pre == Staged!From(j, p)
           to == Staged!To(j, p)
           out == Staged!Placed(j, p, txt, Staged!InPlace(p))
           I == Staged!InHunks(p.hunks)
<1>1. I = {l \in Lines : HunkOf[l] \in p.hunks}
  BY DEF Staged!InHunks
<1>2. /\ p.post \subseteq I /\ Staged!Pre(p) \subseteq I /\ p.want = Staged!Delta(Staged!Pre(p), p.post)
  BY DEF StagedPatch, Staged!Pre
<1>3. pre \subseteq I /\ to \subseteq I /\ Staged!Delta(pre, to) = p.want
  BY <1>2 DEF Staged!From, Staged!To, Staged!Delta
<1>4. \A h \in p.hunks : Staged!Words(txt, h) = Staged!Words(pre, h)
  <2>1. Staged!InPlace(p) \in Staged!Landings(j, p, txt)
    BY DEF Staged!Lands
  <2>2. \A h \in p.hunks : Staged!InPlace(p)[h] = h
    BY DEF Staged!InPlace
  <2> QED
    BY <2>1, <2>2 DEF Staged!Landings
<1> HIDE DEF pre, to
<1>5. \A l \in I : l \in txt <=> l \in pre
  <2> SUFFICES ASSUME NEW l \in I PROVE l \in txt <=> l \in pre
    OBVIOUS
  <2>1. l \in Lines /\ HunkOf[l] \in p.hunks /\ pre \subseteq Lines
    BY <1>1, <1>3
  <2> HIDE DEF I
  <2>2. /\ Phrase[l] \in Staged!Words(txt, HunkOf[l]) <=> l \in txt
        /\ Phrase[l] \in Staged!Words(pre, HunkOf[l]) <=> l \in pre
    BY <2>1, StagedWords
  <2> QED
    BY <1>4, <2>1, <2>2
<1>6. \A l \in Lines : l \in out <=> IF l \in I THEN l \in to ELSE l \in txt
  <2> SUFFICES ASSUME NEW l \in Lines PROVE l \in out <=> IF l \in I THEN l \in to ELSE l \in txt
    OBVIOUS
  <2>1. \A h \in p.hunks : Staged!InPlace(p)[h] = h
    BY DEF Staged!InPlace
  <2>2. l \in I <=> \E h \in p.hunks : Staged!InPlace(p)[h] = HunkOf[l]
    BY <1>1, <2>1
  <2>3. l \in out <=> IF \E h \in p.hunks : Staged!InPlace(p)[h] = HunkOf[l]
                      THEN \E h \in p.hunks : Staged!InPlace(p)[h] = HunkOf[l] /\ Phrase[l] \in Staged!Words(to, h)
                      ELSE l \in txt
    BY DEF Staged!Placed, to
  <2>4. Phrase[l] \in Staged!Words(to, HunkOf[l]) <=> l \in to
    <3>1. to \subseteq Lines
      BY <1>1, <1>3
    <3> QED
      BY <3>1, StagedWords
  <2> HIDE DEF I, out
  <2>5. CASE l \in I
    <3>1. HunkOf[l] \in p.hunks
      BY <1>1, <2>5
    <3>2. l \in out <=> Phrase[l] \in Staged!Words(to, HunkOf[l])
      BY <2>1, <2>2, <2>3, <2>5, <3>1
    <3> QED
      BY <2>4, <2>5, <3>2
  <2>6. CASE l \notin I
    BY <2>2, <2>3, <2>6
  <2> QED
    BY <2>5, <2>6
<1>7. out \subseteq Lines /\ I \subseteq Lines
  BY <1>1 DEF Staged!Placed
<1> HIDE DEF I, out
<1>8. Staged!Delta(txt, out) = Staged!Delta(pre, to)
  BY <1>3, <1>5, <1>6, <1>7 DEF Staged!Delta
<1> QED
  BY <1>3, <1>8 DEF out

\* The hunks of a text that is as it was shown are found in it.
LEMMA StagedFits ==
  ASSUME NEW j, j.reverse \in BOOLEAN, NEW p \in StagedPatch, p = j.patch, Staged!CutToFit(j)
  PROVE  Staged!Lands(j, p, Staged!Side(j, p)) # {}
<1> DEFINE side == Staged!Side(j, p)
           I == Staged!InHunks(p.hunks)
<1>1. I = {l \in Lines : HunkOf[l] \in p.hunks}
  BY DEF Staged!InHunks
<1>2. /\ p.post \subseteq I /\ Staged!Pre(p) = p.old \cap I /\ p.want = Staged!Delta(Staged!Pre(p), p.post)
      /\ p.hunks \subseteq Staged!Hunks /\ p.old \subseteq Lines /\ p.new \subseteq Lines
  BY DEF StagedPatch, Staged!Pre
<1>3. Staged!Changed(p) = (p.old \ p.new) \cup (p.new \ p.old)
  BY DEF Staged!Changed
<1>4. ~j.reverse \/ p.want = Staged!Changed(p) \cap I
  BY DEF Staged!CutToFit
<1> HIDE DEF I
<1>5. j.reverse => p.post = p.new \cap I
  BY <1>2, <1>3, <1>4 DEF Staged!Delta
<1>6. Staged!From(j, p) = side \cap I /\ side \subseteq Lines
  BY <1>2, <1>5 DEF Staged!From, Staged!Side
<1>7. \A h \in p.hunks : Staged!Words(side, h) = Staged!Words(Staged!From(j, p), h)
  <2> SUFFICES ASSUME NEW h \in p.hunks
               PROVE  Staged!Words(side, h) = Staged!Words(side \cap I, h)
    BY <1>6
  <2> HIDE DEF side
  <2>1. {m \in side : HunkOf[m] = h} = {m \in side \cap I : HunkOf[m] = h}
    BY <1>1, <1>6
  <2> QED
    BY <2>1 DEF Staged!Words
<1>8. /\ Staged!InPlace(p) \in [p.hunks -> Staged!Hunks]
      /\ \A h \in p.hunks : Staged!InPlace(p)[h] = h
  BY <1>2 DEF Staged!InPlace
<1>9. Staged!InPlace(p) \in Staged!Injection(p.hunks, Staged!Hunks)
  <2>1. \A a, b \in DOMAIN Staged!InPlace(p) : Staged!InPlace(p)[a] = Staged!InPlace(p)[b] => a = b
    BY <1>8
  <2> QED
    BY <1>8, <2>1 DEF Staged!Injection, Staged!IsInjective
<1>10. Staged!InPlace(p) \in Staged!Landings(j, p, side)
  BY <1>7, <1>8, <1>9 DEF Staged!Landings
<1> QED
  BY <1>10 DEF Staged!Lands

\* A step that applies and refuses nothing tells nothing.
LEMMA StagedQuiet ==
  ASSUME StagedInv, \A k \in jobs' : k \in jobs \/ k.stage \notin {"applied", "refused"}
  PROVE  Staged!AppliesOrTells
<1>1. ASSUME NEW j \in jobs, NEW k \in jobs', NEW stage \in {"applied", "refused"}, Staged!Ends(j, k, stage)
      PROVE  FALSE
  <2>1. j.id = k.id /\ j.stage \in {"written", "read"} /\ k.stage = stage
    BY <1>1 DEF Staged!Ends
  <2>2. k \in jobs
    BY <2>1
  <2>3. j = k
    BY <2>1, <2>2 DEF StagedInv, StagedJobs
  <2> QED
    BY <2>1, <2>3
<1> QED
  BY <1>1 DEF Staged!AppliesOrTells, Staged!AppliesExactly, Staged!TakesTheFresh

\* One job goes on: it keeps all but its stage and what git has read.
LEMMA StagedGoesOn ==
  ASSUME StagedInv, NEW j \in jobs, NEW stage, NEW run, Staged!Becomes(j, stage, run),
         index' \in StagedTexts, work' \in StagedTexts, stage # "read" \/ (~j.cached /\ StagedRun(j, run))
  PROVE  /\ StagedInv'
         /\ \E k \in jobs' : /\ k.id = j.id /\ k.stage = stage /\ k.run = run
                             /\ \A i \in jobs' : i \in jobs \/ i = k
<1> DEFINE k == [j EXCEPT !.stage = stage, !.run = run]
<1>1. jobs' = (jobs \ {j}) \cup {k} /\ UNCHANGED <<head, view, diff, reads, temp>>
  BY DEF Staged!Becomes, Staged!viewer
<1>2. StagedJob(j) /\ \A i \in jobs : i.id = j.id => i = j
  BY DEF StagedInv, StagedJobs
<1>3. k = [id |-> j.id, patch |-> j.patch, cached |-> j.cached, reverse |-> j.reverse, view |-> j.view,
           temp |-> j.temp, stage |-> stage, run |-> run]
  <2> DEFINE m == [j EXCEPT !.stage = stage]
  <2>1. m = [id |-> j.id, patch |-> j.patch, cached |-> j.cached, reverse |-> j.reverse, view |-> j.view,
             temp |-> j.temp, stage |-> stage, run |-> j.run]
    BY <1>2 DEF StagedJob
  <2>2. k = [m EXCEPT !.run = run]
    OBVIOUS
  <2> HIDE DEF m, k
  <2> QED
    BY <2>1, <2>2
<1> HIDE DEF k
<1>4. /\ k.id = j.id /\ k.patch = j.patch /\ k.cached = j.cached /\ k.reverse = j.reverse /\ k.view = j.view
      /\ k.temp = j.temp /\ k.stage = stage /\ k.run = run
  BY <1>3
<1>5. StagedRun(j, run) => StagedRun(k, run)
  BY <1>4, StagedWay DEF StagedRun
<1>6. StagedJob(k)
  BY <1>2, <1>3, <1>4, <1>5 DEF StagedJob
<1>7. StagedJobs'
  <2>1. \A i \in jobs' : StagedJob(i)
    BY <1>1, <1>6 DEF StagedInv, StagedJobs
  <2>2. \A i \in jobs' : StagedJob(i)'
    BY <2>1 DEF StagedJob, StagedRun, StagedPatch, StagedView
  <2>3. \A i, m \in jobs' : i.id = m.id => i = m
    BY <1>1, <1>2, <1>4 DEF StagedInv, StagedJobs
  <2> QED
    BY <1>1, <2>2, <2>3 DEF StagedInv, StagedJobs
<1>8. head' \in StagedTexts /\ StagedShown'
  BY <1>1 DEF StagedInv, StagedShown
<1> QED
  BY <1>1, <1>4, <1>7, <1>8 DEF StagedInv

\* Of a patch that is read, a job at least is there with what git makes of it.
LEMMA StagedReads ==
  ASSUME StagedInv, NEW j \in jobs, j.temp \in Staged!Ids, temp[j.temp] # None,
         NEW to \in Staged!Lands(j, temp[j.temp], Staged!Text(j, temp[j.temp]))
  PROVE  /\ StagedRun(j, Staged!Run(j, temp[j.temp], to))
         /\ temp[j.temp].file \in Patched
         /\ Staged!Run(j, temp[j.temp], to).out \in SUBSET Lines
<1> DEFINE p == temp[j.temp]
<1>1. p \in StagedPatch
  BY DEF StagedInv, StagedJobs
<1> HIDE DEF p
<1>2. p.file \in Patched
  BY <1>1 DEF StagedPatch
<1>3. Staged!Text(j, p) \subseteq Lines
  BY <1>2 DEF StagedInv, StagedTexts, Staged!Text
<1>4. Staged!Placed(j, p, Staged!Text(j, p), to) \subseteq Lines
  BY DEF Staged!Placed
<1>5. StagedRun(j, Staged!Run(j, p, to))
  BY <1>1, <1>3 DEF StagedRun, Staged!Run, p
<1> QED
  BY <1>2, <1>4, <1>5 DEF Staged!Run, p

\* One text of one file is replaced by what a patch made of it.
LEMMA StagedChanges ==
  ASSUME NEW texts \in StagedTexts, NEW texts2, NEW x \in Patched, NEW out \in SUBSET Lines,
         texts2 = [texts EXCEPT ![x] = out]
  PROVE  /\ texts2 \in StagedTexts
         /\ \A y \in Patched : Staged!Delta(texts[y], texts2[y]) = IF y = x THEN Staged!Delta(texts[x], out) ELSE {}
<1>1. texts2 \in StagedTexts /\ texts2[x] = out /\ \A y \in Patched : y # x => texts2[y] = texts[y]
  BY DEF StagedTexts
<1>2. \A S : Staged!Delta(S, S) = {}
  BY DEF Staged!Delta
<1> QED
  BY <1>1, <1>2

\* The end of a job that applies: it has changed what was asked for, if it read its own patch of a
\* text nobody wrote to since, and that has one place for it.
LEMMA StagedEnds ==
  ASSUME StagedInv, NEW j \in jobs, NEW k, k.run.patch = j.patch, k.run.base = Staged!Text(j, j.patch),
         Staged!Lands(j, j.patch, k.run.base) = {Staged!InPlace(j.patch)}, StagedRun(j, k.run),
         IF j.cached THEN index' = [index EXCEPT ![k.run.patch.file] = k.run.out] /\ work' = work
         ELSE work' = [work EXCEPT ![k.run.patch.file] = k.run.out] /\ index' = index
  PROVE  Staged!ChangesWhatWasAsked(j)
<1>1. j.patch \in StagedPatch /\ j.cached \in BOOLEAN /\ j.reverse \in BOOLEAN
  BY DEF StagedInv, StagedJobs, StagedJob
<1>2. j.patch.file \in Patched
  BY <1>1 DEF StagedPatch
<1>3. k.run.out = Staged!Placed(j, j.patch, k.run.base, Staged!InPlace(j.patch)) /\ k.run.base \in SUBSET Lines
  BY DEF StagedRun
<1>4. Staged!Delta(k.run.base, k.run.out) = j.patch.want
  BY <1>1, <1>3, StagedPlaces
<1>5. k.run.out \in SUBSET Lines
  BY <1>3 DEF Staged!Placed
<1>6. index \in StagedTexts /\ work \in StagedTexts
  BY DEF StagedInv
<1>7. \A S : Staged!Delta(S, S) = {}
  BY DEF Staged!Delta
<1>8. CASE j.cached
  <2>1. k.run.base = index[j.patch.file]
    BY <1>8 DEF Staged!Text
  <2>2. \A y \in Patched : Staged!Delta(index[y], index'[y])
                             = IF y = j.patch.file THEN Staged!Delta(index[j.patch.file], k.run.out) ELSE {}
    BY <1>2, <1>5, <1>6, <1>8, StagedChanges
  <2> QED
    BY <1>4, <1>7, <1>8, <2>1, <2>2 DEF Staged!ChangesWhatWasAsked
<1>9. CASE ~j.cached
  <2>1. k.run.base = work[j.patch.file]
    BY <1>9 DEF Staged!Text
  <2>2. \A y \in Patched : Staged!Delta(work[y], work'[y])
                             = IF y = j.patch.file THEN Staged!Delta(work[j.patch.file], k.run.out) ELSE {}
    BY <1>2, <1>5, <1>6, <1>9, StagedChanges
  <2> QED
    BY <1>4, <1>7, <1>9, <2>1, <2>2 DEF Staged!ChangesWhatWasAsked
<1> QED
  BY <1>1, <1>8, <1>9

\* A step in which one job goes on, and if it applies or refuses does so rightly.
LEMMA StagedTells ==
  ASSUME StagedInv, NEW j \in jobs, NEW k, \A i \in jobs' : i \in jobs \/ i = k, k.id = j.id,
         (/\ k.stage = "applied" /\ k.run.patch = j.patch /\ k.run.base = Staged!Text(j, j.patch)
          /\ Staged!Lands(j, j.patch, k.run.base) = {Staged!InPlace(j.patch)})
           => Staged!ChangesWhatWasAsked(j),
         k.stage = "refused" => \/ temp[j.temp] # j.patch \/ Staged!Busy(j) \/ ~Staged!CutToFit(j)
                                \/ Staged!Text(j, j.patch) # Staged!Side(j, j.patch)
  PROVE  Staged!AppliesOrTells
<1>1. ASSUME NEW i \in jobs, NEW m \in jobs', NEW stage \in {"applied", "refused"}, Staged!Ends(i, m, stage)
      PROVE  i = j /\ m = k
  <2>1. i.id = m.id /\ i.stage \in {"written", "read"} /\ m.stage = stage
    BY <1>1 DEF Staged!Ends
  <2>2. m \in jobs => m = i
    BY <2>1 DEF StagedInv, StagedJobs
  <2>3. m = k
    BY <2>1, <2>2
  <2>4. i = j
    BY <2>1, <2>3 DEF StagedInv, StagedJobs
  <2> QED
    BY <2>3, <2>4
<1>2. Staged!AppliesExactly
  <2> SUFFICES ASSUME NEW i \in jobs, NEW m \in jobs', Staged!Ends(i, m, "applied"),
                      m.run.patch = i.patch, m.run.base = Staged!Text(i, i.patch),
                      Staged!Lands(i, i.patch, m.run.base) = {Staged!InPlace(i.patch)}
               PROVE  Staged!ChangesWhatWasAsked(i)
    BY DEF Staged!AppliesExactly
  <2>1. i = j /\ m = k /\ m.stage = "applied"
    BY <1>1 DEF Staged!Ends
  <2> QED
    BY <2>1
<1>3. Staged!TakesTheFresh
  <2> SUFFICES ASSUME NEW i \in jobs, NEW m \in jobs', Staged!Ends(i, m, "refused")
               PROVE  \/ temp[i.temp] # i.patch \/ Staged!Busy(i) \/ ~Staged!CutToFit(i)
                      \/ Staged!Text(i, i.patch) # Staged!Side(i, i.patch)
    BY DEF Staged!TakesTheFresh
  <2>1. i = j /\ m = k /\ m.stage = "refused"
    BY <1>1 DEF Staged!Ends
  <2> QED
    BY <2>1
<1> QED
  BY <1>2, <1>3 DEF Staged!AppliesOrTells

\* git applies the patch it reads, to the index at once, to a file of the working tree in two steps.
LEMMA StagedApply ==
  ASSUME StagedInv, NEW j \in jobs, Staged!Apply(j)
  PROVE  StagedInv' /\ Staged!AppliesOrTells
<1> DEFINE p == temp[j.temp]
<1>1. j.temp \in Staged!Ids /\ j.cached \in BOOLEAN /\ index \in StagedTexts /\ work \in StagedTexts
  BY DEF StagedInv, StagedJobs, StagedJob
<1>2. p # None /\ work' = work
  BY DEF Staged!Apply
<1>3. PICK to \in Staged!Lands(j, p, Staged!Text(j, p)) :
        IF j.cached
        THEN /\ index' = [index EXCEPT ![p.file] = Staged!Run(j, p, to).out]
             /\ Staged!Becomes(j, "applied", Staged!Run(j, p, to))
        ELSE Staged!Becomes(j, "read", Staged!Run(j, p, to)) /\ index' = index
  BY DEF Staged!Apply
<1>4. /\ StagedRun(j, Staged!Run(j, p, to)) /\ p.file \in Patched
      /\ Staged!Run(j, p, to).out \in SUBSET Lines /\ Staged!Run(j, p, to).patch = p
  BY <1>1, <1>2, <1>3, StagedReads DEF Staged!Run
<1> HIDE DEF p
<1> DEFINE run == Staged!Run(j, p, to)
<1> HIDE DEF run
<1>5. CASE j.cached
  <2>1. index' = [index EXCEPT ![p.file] = run.out] /\ Staged!Becomes(j, "applied", run)
    BY <1>3, <1>5 DEF run
  <2>2. index' \in StagedTexts
    BY <1>1, <1>4, <2>1, StagedChanges DEF run
  <2>3. /\ StagedInv'
        /\ \E k \in jobs' : k.id = j.id /\ k.stage = "applied" /\ k.run = run /\ \A i \in jobs' : i \in jobs \/ i = k
    <3>1. work' \in StagedTexts /\ "applied" # "read"
      BY <1>1, <1>2
    <3> QED
      BY <2>1, <2>2, <3>1, StagedGoesOn
  <2>4. PICK k \in jobs' : k.id = j.id /\ k.stage = "applied" /\ k.run = run /\ \A i \in jobs' : i \in jobs \/ i = k
    BY <2>3
  <2>5. ASSUME k.run.patch = j.patch, k.run.base = Staged!Text(j, j.patch),
               Staged!Lands(j, j.patch, k.run.base) = {Staged!InPlace(j.patch)}
        PROVE  Staged!ChangesWhatWasAsked(j)
    <3>1. index' = [index EXCEPT ![k.run.patch.file] = k.run.out] /\ StagedRun(j, k.run)
      BY <1>4, <2>1, <2>4 DEF run
    <3> QED
      BY <1>2, <1>5, <2>5, <3>1, StagedEnds
  <2>6. Staged!AppliesOrTells
    BY <2>4, <2>5, StagedTells
  <2> QED
    BY <2>3, <2>6
<1>6. CASE ~j.cached
  <2>1. Staged!Becomes(j, "read", run) /\ index' = index
    BY <1>3, <1>6 DEF run
  <2>2. StagedRun(j, run)
    BY <1>4 DEF run
  <2>3. /\ StagedInv'
        /\ \E k \in jobs' : k.id = j.id /\ k.stage = "read" /\ k.run = run /\ \A i \in jobs' : i \in jobs \/ i = k
    BY <1>1, <1>2, <1>6, <2>1, <2>2, StagedGoesOn
  <2> QED
    BY <2>3, StagedQuiet
<1> QED
  BY <1>1, <1>5, <1>6

\* git writes the file of the working tree it has read before.
LEMMA StagedWrite ==
  ASSUME StagedInv, NEW j \in jobs, Staged!Write(j)
  PROVE  StagedInv' /\ Staged!AppliesOrTells
<1>1. /\ j.stage = "read" /\ work' = [work EXCEPT ![j.run.patch.file] = j.run.out]
      /\ Staged!Becomes(j, "applied", j.run) /\ index' = index
  BY DEF Staged!Write
<1>2. /\ ~j.cached /\ StagedRun(j, j.run) /\ index \in StagedTexts /\ work \in StagedTexts
  BY <1>1 DEF StagedInv, StagedJobs, StagedJob
<1>3. j.run.patch.file \in Patched /\ j.run.out \in SUBSET Lines
  BY <1>2 DEF StagedRun, StagedPatch, Staged!Placed
<1>4. work' \in StagedTexts
  BY <1>1, <1>2, <1>3, StagedChanges
<1>5. /\ StagedInv'
      /\ \E k \in jobs' : k.id = j.id /\ k.stage = "applied" /\ k.run = j.run /\ \A i \in jobs' : i \in jobs \/ i = k
  <2> DEFINE run == j.run
  <2>1. index' \in StagedTexts /\ "applied" # "read" /\ Staged!Becomes(j, "applied", run)
    BY <1>1, <1>2
  <2> HIDE DEF run
  <2>2. /\ StagedInv'
        /\ \E k \in jobs' : k.id = j.id /\ k.stage = "applied" /\ k.run = run /\ \A i \in jobs' : i \in jobs \/ i = k
    BY <1>4, <2>1, StagedGoesOn
  <2> QED
    BY <2>2 DEF run
<1>6. PICK k \in jobs' : k.id = j.id /\ k.stage = "applied" /\ k.run = j.run /\ \A i \in jobs' : i \in jobs \/ i = k
  BY <1>5
<1>7. ASSUME k.run.patch = j.patch, k.run.base = Staged!Text(j, j.patch),
             Staged!Lands(j, j.patch, k.run.base) = {Staged!InPlace(j.patch)}
      PROVE  Staged!ChangesWhatWasAsked(j)
  BY <1>1, <1>2, <1>6, <1>7, StagedEnds
<1>8. Staged!AppliesOrTells
  BY <1>6, <1>7, StagedTells
<1> QED
  BY <1>5, <1>8

\* A patch is refused.
LEMMA StagedRefuse ==
  ASSUME StagedInv, NEW j \in jobs, Staged!Refuse(j)
  PROVE  StagedInv' /\ Staged!AppliesOrTells
<1>1. /\ Staged!Becomes(j, "refused", None) /\ UNCHANGED <<index, work>>
      /\ \/ temp[j.temp] = None \/ Staged!Busy(j)
         \/ Staged!Lands(j, temp[j.temp], Staged!Text(j, temp[j.temp])) = {} /\ temp[j.temp] # None
  BY DEF Staged!Refuse
<1>2. /\ j.patch \in StagedPatch /\ j.reverse \in BOOLEAN /\ index \in StagedTexts /\ work \in StagedTexts
  BY DEF StagedInv, StagedJobs, StagedJob
<1>3. /\ StagedInv'
      /\ \E k \in jobs' : k.id = j.id /\ k.stage = "refused" /\ k.run = None /\ \A i \in jobs' : i \in jobs \/ i = k
  BY <1>1, <1>2, StagedGoesOn
<1>4. PICK k \in jobs' : k.id = j.id /\ k.stage = "refused" /\ k.run = None /\ \A i \in jobs' : i \in jobs \/ i = k
  BY <1>3
<1>5. \/ temp[j.temp] # j.patch \/ Staged!Busy(j) \/ ~Staged!CutToFit(j)
      \/ Staged!Text(j, j.patch) # Staged!Side(j, j.patch)
  <2> SUFFICES ASSUME temp[j.temp] = j.patch, ~Staged!Busy(j), Staged!CutToFit(j),
                      Staged!Text(j, j.patch) = Staged!Side(j, j.patch)
               PROVE  FALSE
    OBVIOUS
  <2>1. j.patch # None
    BY <1>2, StagedAssumption DEF StagedPatch
  <2>2. Staged!Lands(j, j.patch, Staged!Side(j, j.patch)) = {}
    BY <1>1, <2>1
  <2> QED
    BY <1>2, <2>2, StagedFits
<1>6. Staged!AppliesOrTells
  BY <1>4, <1>5, StagedTells
<1> QED
  BY <1>3, <1>6

\* The jobs of a state are well formed in the next one, as long as they are there and their files.
LEMMA StagedSame ==
  ASSUME StagedInv, jobs' \subseteq jobs, temp' \in [Staged!Ids -> StagedPatch \cup {None}]
  PROVE  StagedJobs'
<1>1. \A j \in jobs' : StagedJob(j)
  BY DEF StagedInv, StagedJobs
<1>2. \A j \in jobs' : StagedJob(j)'
  BY <1>1 DEF StagedJob, StagedRun, StagedPatch, StagedView
<1> QED
  BY <1>2 DEF StagedInv, StagedJobs

\* Whole files, commits and edits leave the patches under way alone.
LEMMA StagedElsewhere ==
  ASSUME StagedInv, Staged!Elsewhere
  PROVE  StagedInv' /\ jobs' = jobs
<1>1. UNCHANGED <<view, diff, reads, jobs, temp>>
  BY DEF Staged!Elsewhere, Staged!viewer
<1>2. head' \in StagedTexts /\ index' \in StagedTexts /\ work' \in StagedTexts
  <2>0. head \in StagedTexts /\ index \in StagedTexts /\ work \in StagedTexts
    BY DEF StagedInv
  <2>1. ASSUME NEW x \in Patched, Staged!IndexWrites(x)
        PROVE  head' \in StagedTexts /\ index' \in StagedTexts /\ work' \in StagedTexts
    <3>1. CASE Staged!StageFile(x)
      BY <2>0, <3>1 DEF Staged!StageFile, StagedTexts
    <3>2. CASE Staged!UnstageFile(x)
      BY <2>0, <3>2 DEF Staged!UnstageFile, StagedTexts
    <3>3. CASE Staged!DiscardFile(x)
      BY <2>0, <3>3 DEF Staged!DiscardFile, StagedTexts
    <3>4. CASE Staged!DiscardStagedFile(x)
      BY <2>0, <3>4 DEF Staged!DiscardStagedFile, StagedTexts
    <3> QED
      BY <2>1, <3>1, <3>2, <3>3, <3>4 DEF Staged!IndexWrites
  <2>2. CASE Staged!Commit
    BY <2>0, <2>2 DEF Staged!Commit
  <2>3. ASSUME NEW x \in Patched, NEW l \in Lines, Staged!Edit(x, l)
        PROVE  head' \in StagedTexts /\ index' \in StagedTexts /\ work' \in StagedTexts
    <3>1. UNCHANGED <<head, index>> /\ work' = [work EXCEPT ![x] = IF l \in work[x] THEN work[x] \ {l} ELSE work[x] \cup {l}]
      BY <2>3 DEF Staged!Edit
    <3> QED
      BY <2>0, <3>1 DEF StagedTexts
  <2> QED
    BY <2>1, <2>2, <2>3 DEF Staged!Elsewhere
<1> QED
  BY <1>1, <1>2, StagedSame DEF StagedInv, StagedShown, StagedJobs

\* Of a set of numbers that is not empty, one is the least.
LEMMA StagedLeast ==
  ASSUME NEW S \in SUBSET Nat, S # {}
  PROVE  Staged!Least(S) \in S
<1>0. S \subseteq Nat
  OBVIOUS
<1>1. PICK i \in S : \A j \in S : ~(<<j, i>> \in OpToRel(<, Nat))
  BY <1>0, WFMin, NatLessThanWellFounded
<1>2. \A j \in S : i <= j
  <2> SUFFICES ASSUME NEW j \in S, j < i PROVE FALSE
    BY <1>0
  <2>1. <<j, i>> \in Nat \X Nat /\ <<j, i>>[1] = j /\ <<j, i>>[2] = i
    BY <1>0, <1>1
  <2>2. <<j, i>>[1] < <<j, i>>[2]
    BY <2>1
  <2>3. <<j, i>> \in OpToRel(<, Nat)
    BY <2>1, <2>2, Zenon DEF OpToRel
  <2> QED
    BY <1>1, <2>3
<1> QED
  BY <1>1, <1>2 DEF Staged!Least

\* The jobs sent, each with a number of its own and a file that one of them or an earlier one has.
StagedNew(js, p) ==
  /\ Staged!Send(js, p)
  /\ \A j \in js : /\ j.id \in Staged!Free /\ j.temp \in Staged!Ids
                   /\ \E c, r \in BOOLEAN : j = Staged!Job(j.id, p, c, r, j.temp)
  /\ \A i, j \in js : i.id = j.id => i = j
LEMMA StagedSend ==
  ASSUME StagedInv, NEW js, NEW p \in StagedPatch, StagedNew(js, p), UNCHANGED <<head, index, work, view, diff, reads>>
  PROVE  StagedInv' /\ Staged!AppliesOrTells
<1>1. /\ jobs' = jobs \cup js
      /\ temp' = [n \in Staged!Ids |-> IF \E j \in js : j.temp = n THEN p ELSE temp[n]]
  BY DEF StagedNew, Staged!Send
<1>2. temp' \in [Staged!Ids -> StagedPatch \cup {None}]
  BY <1>1 DEF StagedInv, StagedJobs
<1>3. view \in StagedView
  BY DEF StagedInv, StagedShown
<1>4. \A j \in js : /\ j.stage = "written" /\ StagedJob(j)
                    /\ \A i \in jobs : i.id # j.id
  <2> SUFFICES ASSUME NEW j \in js
               PROVE  j.stage = "written" /\ StagedJob(j) /\ \A i \in jobs : i.id # j.id
    OBVIOUS
  <2>1. PICK c \in BOOLEAN, r \in BOOLEAN : j = Staged!Job(j.id, p, c, r, j.temp)
    BY DEF StagedNew
  <2>2. j = [id |-> j.id, patch |-> p, cached |-> c, reverse |-> r, view |-> view, temp |-> j.temp,
             stage |-> "written", run |-> None]
    BY <2>1 DEF Staged!Job
  <2>3. /\ j.patch = p /\ j.cached = c /\ j.reverse = r /\ j.view = view /\ j.stage = "written" /\ j.run = None
    BY <2>2
  <2>4. j.temp \in Staged!Ids /\ \A i \in jobs : i.id # j.id
    BY DEF StagedNew, Staged!Free
  <2> QED
    BY <1>3, <2>2, <2>3, <2>4 DEF StagedJob
<1>5. \A j \in jobs' : StagedJob(j)
  BY <1>1, <1>4 DEF StagedInv, StagedJobs
<1>6. \A j \in jobs' : StagedJob(j)'
  BY <1>5 DEF StagedJob, StagedRun, StagedPatch, StagedView
<1>7. \A i, j \in jobs' : i.id = j.id => i = j
  BY <1>1, <1>4 DEF StagedInv, StagedJobs, StagedNew
<1>8. StagedInv'
  BY <1>2, <1>6, <1>7 DEF StagedInv, StagedShown, StagedJobs
<1>9. \A k \in jobs' : k \in jobs \/ k.stage \notin {"applied", "refused"}
  BY <1>1, <1>4
<1> QED
  BY <1>8, <1>9, StagedQuiet

\* The number of a new job is free, and the file it is written to has a number.
LEMMA StagedNames ==
  ASSUME StagedInv, NEW i \in Staged!Free, NEW name \in Staged!NamesFor(i)
  PROVE  name \in Staged!Ids
  BY DEF StagedInv, StagedJobs, StagedJob, Staged!NamesFor, Staged!Free

\* A patch is sent to the index.
LEMMA StagedStage ==
  ASSUME StagedInv, NEW p \in StagedPatch, Staged!StagePatch(p)
  PROVE  StagedInv' /\ Staged!AppliesOrTells
<1> DEFINE i == Staged!Least(Staged!Free)
<1>1. i \in Staged!Free
  <2>1. Staged!Free # {}
    BY DEF Staged!StagePatch
  <2>2. Staged!Free \in SUBSET Nat
    BY StagedAssumption DEF Staged!Free, Staged!Ids
  <2> QED
    BY <2>1, <2>2, StagedLeast
<1>2. PICK name \in Staged!NamesFor(i) : Staged!Send({Staged!Job(i, p, TRUE, view.staged, name)}, p)
  BY DEF Staged!StagePatch
<1> HIDE DEF i
<1> DEFINE j == Staged!Job(i, p, TRUE, view.staged, name)
<1>3. name \in Staged!Ids
  BY <1>1, <1>2, StagedNames
<1>4. view.staged \in BOOLEAN
  BY DEF StagedInv, StagedShown, StagedView
<1>5. j.id = i /\ j.temp = name
  BY DEF Staged!Job
<1>6. Staged!Send({j}, p) /\ j = Staged!Job(j.id, p, TRUE, view.staged, j.temp)
  BY <1>2, <1>5
<1> HIDE DEF j
<1>7. StagedNew({j}, p)
  BY <1>1, <1>3, <1>4, <1>5, <1>6 DEF StagedNew
<1>8. UNCHANGED <<head, index, work, view, diff, reads>>
  BY DEF Staged!StagePatch, Staged!repo
<1> QED
  BY <1>7, <1>8, StagedSend

\* A discard is one patch for the working tree and, on the staged side, one for the index.
LEMMA StagedDiscards ==
  ASSUME StagedInv, NEW p \in StagedPatch, Staged!SendDiscards(p), UNCHANGED <<head, index, work, view, diff, reads>>
  PROVE  StagedInv' /\ Staged!AppliesOrTells
<1> DEFINE i == Staged!Least(Staged!Free)
           k == Staged!Least(Staged!Free \ {i})
<1>0. Staged!Free \in SUBSET Nat
  BY StagedAssumption DEF Staged!Free, Staged!Ids
<1>1. i \in Staged!Free
  <2>1. Staged!Free # {}
    BY DEF Staged!SendDiscards
  <2> QED
    BY <1>0, <2>1, StagedLeast
<1>2. PICK name \in Staged!NamesFor(i) :
        \/ ~view.staged /\ Staged!Send({Staged!Job(i, p, FALSE, TRUE, name)}, p)
        \/ /\ view.staged /\ Staged!Free # {i}
           /\ \E other \in {name, k} : Staged!Send({Staged!Job(i, p, FALSE, TRUE, name), Staged!Job(k, p, TRUE, TRUE, other)}, p)
  BY DEF Staged!SendDiscards
<1>3. name \in Staged!Ids
  BY <1>1, <1>2, StagedNames
<1>4. Staged!Free # {i} => k \in Staged!Free /\ k # i
  <2> HIDE DEF i
  <2> SUFFICES ASSUME Staged!Free # {i} PROVE k \in Staged!Free \ {i}
    OBVIOUS
  <2> QED
    BY <1>0, <1>1, StagedLeast
<1> HIDE DEF i, k
<1>5. CASE ~view.staged /\ Staged!Send({Staged!Job(i, p, FALSE, TRUE, name)}, p)
  <2> DEFINE j == Staged!Job(i, p, FALSE, TRUE, name)
  <2>1. j.id = i /\ j.temp = name
    BY DEF Staged!Job
  <2>2. Staged!Send({j}, p) /\ j = Staged!Job(j.id, p, FALSE, TRUE, j.temp)
    BY <1>5, <2>1
  <2> HIDE DEF j
  <2>3. StagedNew({j}, p)
    BY <1>1, <1>3, <2>1, <2>2 DEF StagedNew
  <2> QED
    BY <2>3, StagedSend
<1>6. ASSUME Staged!Free # {i}, NEW other \in {name, k},
             Staged!Send({Staged!Job(i, p, FALSE, TRUE, name), Staged!Job(k, p, TRUE, TRUE, other)}, p)
      PROVE  StagedInv' /\ Staged!AppliesOrTells
  <2> DEFINE j == Staged!Job(i, p, FALSE, TRUE, name)
             m == Staged!Job(k, p, TRUE, TRUE, other)
  <2>1. j.id = i /\ j.temp = name /\ m.id = k /\ m.temp = other
    BY DEF Staged!Job
  <2>2. Staged!Send({j, m}, p) /\ j = Staged!Job(j.id, p, FALSE, TRUE, j.temp) /\ m = Staged!Job(m.id, p, TRUE, TRUE, m.temp)
    BY <1>6, <2>1
  <2> HIDE DEF j, m
  <2>3. k \in Staged!Free /\ k # i /\ k \in Staged!Ids
    BY <1>4, <1>6 DEF Staged!Free
  <2>4. StagedNew({j, m}, p)
    BY <1>1, <1>3, <2>1, <2>2, <2>3 DEF StagedNew
  <2> QED
    BY <2>4, StagedSend
<1> QED
  BY <1>2, <1>5, <1>6

\* The first press of a discard arms, the second sends.
LEMMA StagedPresses ==
  ASSUME StagedInv, NEW r, NEW p \in StagedPatch, Staged!Press(r, p), UNCHANGED <<head, index, work, reads>>
  PROVE  StagedInv' /\ Staged!AppliesOrTells
<1>1. CASE armed # r
  <2>1. UNCHANGED <<view, diff, jobs, temp>>
    BY <1>1 DEF Staged!Press
  <2>2. StagedJobs'
    BY <2>1, StagedSame DEF StagedInv, StagedJobs
  <2> QED
    BY <2>1, <2>2, StagedQuiet DEF StagedInv, StagedShown
<1>2. CASE armed = r
  <2>1. Staged!SendDiscards(p) /\ UNCHANGED <<view, diff>>
    BY <1>2 DEF Staged!Press
  <2> QED
    BY <2>1, StagedDiscards
<1> QED
  BY <1>1, <1>2

\* What the buttons do: a patch of the diff on screen is sent.
LEMMA StagedButtons ==
  ASSUME StagedInv, Staged!Stage \/ Staged!Discard \/ Staged!DiscardLine
  PROVE  StagedInv' /\ Staged!AppliesOrTells
<1>0. diff \in StagedDiff
  BY DEF StagedInv, StagedShown
<1>1. \A h \in Staged!HunksOf(diff) : Staged!buildChunkPatch(diff, h) \in StagedPatch
  <2> SUFFICES ASSUME NEW h \in Staged!HunksOf(diff) PROVE Staged!buildChunkPatch(diff, h) \in StagedPatch
    OBVIOUS
  <2>1. {h} \in SUBSET Staged!Hunks
    BY <1>0, StagedHunks
  <2> QED
    BY <1>0, <2>1, StagedCut DEF Staged!buildChunkPatch
<1>2. Staged!buildAllPatch(diff) \in StagedPatch
  <2>1. Staged!HunksOf(diff) \in SUBSET Staged!Hunks
    BY <1>0, StagedHunks
  <2> QED
    BY <1>0, <2>1, StagedCut DEF Staged!buildAllPatch
<1>3. \A l \in Staged!Changed(diff) : Staged!buildLinePatch(diff, l) \in StagedPatch
  BY <1>0, StagedLine
<1>4. CASE Staged!Stage
  <2>1. PICK p \in StagedPatch : Staged!StagePatch(p)
    BY <1>1, <1>2, <1>3, <1>4 DEF Staged!Stage
  <2> QED
    BY <2>1, StagedStage
<1>5. CASE Staged!Discard
  <2>1. UNCHANGED <<head, index, work, reads>>
    BY <1>5 DEF Staged!Discard, Staged!repo
  <2>2. ASSUME NEW h \in Staged!HunksOf(diff), Staged!Press(Staged!Row(diff, h), Staged!buildChunkPatch(diff, h))
        PROVE  StagedInv' /\ Staged!AppliesOrTells
    BY <1>1, <2>1, <2>2, StagedPresses
  <2>3. ASSUME Staged!Press(Staged!All, Staged!buildAllPatch(diff)) PROVE StagedInv' /\ Staged!AppliesOrTells
    BY <1>2, <2>1, <2>3, StagedPresses
  <2> QED
    BY <1>5, <2>2, <2>3 DEF Staged!Discard
<1>6. CASE Staged!DiscardLine
  <2>1. PICK l \in Staged!Changed(diff) : Staged!SendDiscards(Staged!buildLinePatch(diff, l))
    BY <1>6 DEF Staged!DiscardLine
  <2>2. UNCHANGED <<head, index, work, view, diff, reads>>
    BY <1>6 DEF Staged!DiscardLine, Staged!repo
  <2> QED
    BY <1>3, <2>1, <2>2, StagedDiscards
<1> QED
  BY <1>4, <1>5, <1>6

\* The viewer asks for the diff of what it shows.
LEMMA StagedAsks ==
  ASSUME StagedInv, NEW v \in StagedView, Staged!Ask(v), UNCHANGED <<head, index, work, diff>>, view' \in StagedView,
         jobs' \subseteq jobs, temp' \in [Staged!Ids -> StagedPatch \cup {None}]
  PROVE  StagedInv'
<1>1. reads' = reads \cup {[view |-> v, got |-> None]}
  BY DEF Staged!Ask
<1> QED
  BY <1>1, StagedSame DEF StagedInv, StagedShown

\* Every step of the system keeps the patches what they are, and applies or refuses them rightly.
LEMMA StagedStep ==
  ASSUME StagedInv, [Step]_<<focus, vars, historyVars, labelsVars, viewVars, formVars, panesVars, stagingVars, editorVars>>
  PROVE  StagedInv' /\ Staged!AppliesOrTells
<1>0. temp \in [Staged!Ids -> StagedPatch \cup {None}]
  BY DEF StagedInv, StagedJobs
<1>1. CASE UNCHANGED stagingVars
  <2>1. StagedInv'
    BY <1>0, <1>1, StagedSame DEF StagedInv, StagedShown, stagingVars
  <2> QED
    BY <1>1, <2>1, StagedQuiet DEF stagingVars
<1>2. CASE Staged!Next
  <2>1. ASSUME NEW x \in Patched, NEW s \in BOOLEAN, Staged!Select(x, s) PROVE StagedInv' /\ jobs' = jobs
    <3> DEFINE v == [file |-> x, staged |-> s]
    <3>1. view' = v /\ Staged!Ask(view') /\ UNCHANGED <<head, index, work, diff, jobs, temp>>
      BY <2>1 DEF Staged!Select, Staged!repo
    <3>2. v \in StagedView
      BY DEF StagedView
    <3> HIDE DEF v
    <3>3. Staged!Ask(v)
      BY <3>1
    <3> QED
      BY <1>0, <3>1, <3>2, <3>3, StagedAsks
  <2>2. ASSUME NEW a \in reads, Staged!Read(a) PROVE StagedInv' /\ jobs' = jobs
    <3>1. /\ reads' = (reads \ {a}) \cup {[a EXCEPT !.got = Staged!DiffOf(a.view)]}
          /\ UNCHANGED <<head, index, work, view, diff, jobs, temp>>
      BY <2>2 DEF Staged!Read, Staged!repo, Staged!viewer
    <3>2. a \in [view : StagedView, got : StagedDiff \cup {None}]
      BY DEF StagedInv, StagedShown
    <3>3. Staged!DiffOf(a.view) \in StagedDiff
      BY <3>2, StagedDiffs
    <3>4. [a EXCEPT !.got = Staged!DiffOf(a.view)] \in [view : StagedView, got : StagedDiff \cup {None}]
      BY <3>2, <3>3
    <3>5. StagedShown'
      BY <3>1, <3>4 DEF StagedInv, StagedShown
    <3> QED
      BY <1>0, <3>1, <3>5, StagedSame DEF StagedInv
  <2>3. ASSUME NEW a \in reads, Staged!Show(a) PROVE StagedInv' /\ jobs' = jobs
    <3>1. /\ a.got # None /\ diff' = a.got /\ reads' = reads \ {a}
          /\ UNCHANGED <<head, index, work, view, jobs, temp>>
      BY <2>3 DEF Staged!Show, Staged!repo
    <3>2. StagedShown'
      BY <3>1 DEF StagedInv, StagedShown
    <3> QED
      BY <1>0, <3>1, <3>2, StagedSame DEF StagedInv
  <2>4. ASSUME NEW k \in jobs, Staged!Finish(k) PROVE StagedInv' /\ jobs' \subseteq jobs
    <3>1. /\ jobs' = jobs \ {k} /\ temp' = [temp EXCEPT ![k.temp] = None] /\ Staged!Ask(k.view)
          /\ UNCHANGED <<head, index, work, view, diff>>
      BY <2>4 DEF Staged!Finish, Staged!repo
    <3>2. k.view \in StagedView /\ view' \in StagedView
      BY <3>1 DEF StagedInv, StagedShown, StagedJobs, StagedJob
    <3>3. temp' \in [Staged!Ids -> StagedPatch \cup {None}]
      BY <1>0, <3>1
    <3> QED
      BY <3>1, <3>2, <3>3, StagedAsks
  <2>5. ASSUME NEW r, Staged!Disarm(r) PROVE StagedInv' /\ jobs' = jobs
    <3>1. UNCHANGED <<head, index, work, view, diff, reads, jobs, temp>>
      BY <2>5 DEF Staged!Disarm, Staged!repo
    <3> QED
      BY <1>0, <3>1, StagedSame DEF StagedInv, StagedShown
  <2>6. ASSUME NEW k \in jobs, Staged!Apply(k) \/ Staged!Refuse(k) \/ Staged!Write(k)
        PROVE  StagedInv' /\ Staged!AppliesOrTells
    BY <2>6, StagedApply, StagedRefuse, StagedWrite
  <2> QED
    BY <1>2, <2>1, <2>2, <2>3, <2>4, <2>5, <2>6, StagedButtons, StagedElsewhere, StagedQuiet
      DEF Staged!Next, Staged!Act, Staged!Go
<1> QED
  BY <1>1, <1>2 DEF Step

(***************************************************************************)
(* PatchesAreExact, for any files, lines and hunks, edits and presses: a patch  *)
(* that git finds to belong in its own place only changes exactly the lines      *)
(* asked for, and one that still fits what was shown is not refused.           *)
(***************************************************************************)
THEOREM PatchesChangeWhatWasAsked == SideBySide => PatchesAreExact
<1>1. Start => StagedInv
  <2> SUFFICES ASSUME Start PROVE StagedInv
    OBVIOUS
  <2>1. Staged!Init
    BY DEF Start
  <2>2. /\ head = [x \in Patched |-> {l \in Lines : l % 2 = 1}] /\ index = head
        /\ work \in [Patched -> {{l \in Lines : l % 2 = 0}, Lines}] /\ reads = {} /\ jobs = {}
        /\ temp = [n \in Staged!Ids |-> None]
    BY <2>1 DEF Staged!Init
  <2>3. PICK x \in Patched : view = [file |-> x, staged |-> FALSE] /\ diff = Staged!DiffOf(view)
    BY <2>1 DEF Staged!Init
  <2> DEFINE O == {l \in Lines : l % 2 = 1}
             E == {l \in Lines : l % 2 = 0}
  <2>4. O \subseteq Lines /\ E \subseteq Lines
    OBVIOUS
  <2> HIDE DEF O, E
  <2>5. head \in StagedTexts /\ index \in StagedTexts /\ work \in StagedTexts
    <3>1. head = [y \in Patched |-> O] /\ work \in [Patched -> {E, Lines}]
      BY <2>2 DEF O, E
    <3> QED
      BY <2>2, <2>4, <3>1 DEF StagedTexts
  <2>6. view \in StagedView
    BY <2>3 DEF StagedView
  <2>7. diff \in StagedDiff
    BY <2>3, <2>5, <2>6 DEF StagedTexts, StagedView, StagedDiff, Staged!DiffOf
  <2>8. temp \in [Staged!Ids -> StagedPatch \cup {None}]
    BY <2>2
  <2> QED
    BY <2>2, <2>5, <2>6, <2>7, <2>8 DEF StagedInv, StagedShown, StagedJobs
<1>2. StagedInv /\ [Step]_<<focus, vars, historyVars, labelsVars, viewVars, formVars, panesVars, stagingVars, editorVars>>
        => StagedInv' /\ [Staged!AppliesOrTells]_(Staged!vars)
  BY StagedStep
<1> QED
  BY <1>1, <1>2, PTL DEF SideBySide, PatchesAreExact, Staged!PatchesAreExact

-----------------------------------------------------------------------------
(* The editor of conflicts: the text is the sections put together, so a button  *)
(* finds the text it replaces exactly where it counts it to be.               *)

\* Induction up to n, for a set of numbers.
LEMMA EditorInduction ==
  ASSUME NEW n \in Nat, NEW G, 0 \in G, \A i \in 1..n : i - 1 \in G => i \in G
  PROVE  \A i \in 0..n : i \in G
<1> DEFINE Bad == {i \in Nat : i <= n /\ i \notin G}
<1> SUFFICES ASSUME Bad # {} PROVE FALSE
  OBVIOUS
<1>1. PICK m \in Bad : \A k \in Bad : <<k, m>> \notin OpToRel(<, Nat)
  BY WFMin, NatLessThanWellFounded, Zenon
<1>2. \A k \in Nat : k < m /\ k <= n => k \in G
  BY <1>1, Zenon DEF OpToRel
<1>3. m \in Nat /\ m # 0 /\ m <= n /\ m \notin G
  BY <1>1
<1>4. m - 1 \in Nat /\ m - 1 < m /\ m - 1 <= n /\ m \in 1..n
  BY <1>3
<1> QED
  BY <1>2, <1>3, <1>4

\* What is computed from the front, one step at a time, exists.
EditorSteps(e, n, S, base, step) ==
  e \in [0..n -> S] /\ e[0] = base /\ \A i \in 1..n : e[i] = step[<<i, e[i - 1]>>]
LEMMA EditorRecursion ==
  ASSUME NEW n \in Nat, NEW S, NEW base \in S, NEW step \in [(1..n) \X S -> S]
  PROVE  \E e : EditorSteps(e, n, S, base, step)
<1> DEFINE Upto(m, e) == e \in [0..m -> S] /\ e[0] = base /\ \A i \in 1..m : e[i] = step[<<i, e[i - 1]>>]
           G == {m \in 0..n : \E e : Upto(m, e)}
<1>1. 0 \in G
  <2> DEFINE h == [i \in 0..0 |-> base]
  <2>1. h \in [0..0 -> S] /\ h[0] = base /\ 1..0 = {}
    OBVIOUS
  <2> HIDE DEF h
  <2>2. Upto(0, h)
    BY <2>1
  <2> QED
    BY <2>2
<1>2. ASSUME NEW m \in 1..n, m - 1 \in G PROVE m \in G
  <2>1. PICK e : Upto(m - 1, e)
    BY <1>2
  <2> DEFINE h == [i \in 0..m |-> IF i < m THEN e[i] ELSE step[<<m, e[m - 1]>>]]
  <2>2. e \in [0..(m - 1) -> S] /\ e[0] = base /\ \A i \in 1..(m - 1) : e[i] = step[<<i, e[i - 1]>>]
    BY <2>1
  <2>3. e[m - 1] \in S /\ step[<<m, e[m - 1]>>] \in S
    <3>1. m - 1 \in 0..(m - 1)
      OBVIOUS
    <3>2. e[m - 1] \in S
      BY <2>2, <3>1
    <3> QED
      BY <3>2
  <2>4. h \in [0..m -> S] /\ h[m] = step[<<m, e[m - 1]>>] /\ \A i \in 0..(m - 1) : h[i] = e[i]
    BY <2>2, <2>3
  <2> HIDE DEF h
  <2>5. \A i \in 1..m : h[i] = step[<<i, h[i - 1]>>]
    <3> SUFFICES ASSUME NEW i \in 1..m PROVE h[i] = step[<<i, h[i - 1]>>]
      OBVIOUS
    <3>1. h[i - 1] = e[i - 1]
      BY <2>4
    <3>2. CASE i = m
      BY <2>4, <3>1, <3>2
    <3>3. CASE i # m
      BY <2>2, <2>4, <3>1, <3>3
    <3> QED
      BY <3>2, <3>3
  <2>6. Upto(m, h)
    BY <2>2, <2>4, <2>5
  <2> QED
    BY <2>6
<1> HIDE DEF G
<1>3. n \in G
  BY <1>1, <1>2, EditorInduction
<1> QED
  BY <1>3 DEF G, EditorSteps

EditorText == Seq(Chars)
EditorLines == Seq(EditorText)
EditorSections == [kind : {"shared"}, text : EditorText] \cup [kind : {"conflict"}, current : EditorText, incoming : EditorText]

EditorJoined(e, t) ==
  e = [i \in 0..Len(t) |-> IF i = 0 THEN <<>> ELSE IF i = 1 THEN t[1] ELSE e[i - 1] \o <<NL>> \o t[i]]
EditorJoins(e, t) ==
  /\ e \in [0..Len(t) -> EditorText] /\ e[0] = <<>> /\ (Len(t) > 0 => e[1] = t[1])
  /\ \A i \in 2..Len(t) : e[i] = e[i - 1] \o <<NL>> \o t[i]
  /\ Editor!Join(t) = e[Len(t)]

\* Texts put together are a text, each put behind those before it.
LEMMA EditorJoin ==
  ASSUME NEW t \in EditorLines
  PROVE  (\E e : EditorJoins(e, t)) /\ Editor!Join(t) \in EditorText
<1>1. /\ Len(t) \in Nat /\ <<>> \in EditorText /\ <<NL>> \in EditorText
      /\ \A i \in 1..Len(t) : t[i] \in EditorText
  BY EditorAssumption DEF EditorLines, EditorText
<1>2. \A x, y \in EditorText : x \o <<NL>> \o y \in EditorText
  BY <1>1 DEF EditorText
<1> DEFINE n == Len(t)
           step == [q \in (1..n) \X EditorText |-> IF q[1] = 1 THEN t[1] ELSE q[2] \o <<NL>> \o t[q[1]]]
<1>3. step \in [(1..n) \X EditorText -> EditorText]
  BY <1>1, <1>2
<1>4. \A i \in 1..n, x \in EditorText : step[<<i, x>>] = IF i = 1 THEN t[1] ELSE x \o <<NL>> \o t[i]
  OBVIOUS
<1> HIDE DEF step
<1>5. PICK e \in [0..n -> EditorText] : e[0] = <<>> /\ \A i \in 1..n : e[i] = step[<<i, e[i - 1]>>]
  <2>1. PICK e : EditorSteps(e, n, EditorText, <<>>, step)
    BY <1>1, <1>3, EditorRecursion
  <2> QED
    BY <2>1 DEF EditorSteps
<1>6. \A i \in 1..n : e[i] = IF i = 1 THEN t[1] ELSE e[i - 1] \o <<NL>> \o t[i]
  <2> SUFFICES ASSUME NEW i \in 1..n PROVE e[i] = IF i = 1 THEN t[1] ELSE e[i - 1] \o <<NL>> \o t[i]
    OBVIOUS
  <2>1. e[i - 1] \in EditorText
    BY <1>1, <1>5
  <2> QED
    BY <1>4, <1>5, <2>1
<1>7. EditorJoined(e, t)
  <2>1. ASSUME NEW i \in 0..n PROVE e[i] = IF i = 0 THEN <<>> ELSE IF i = 1 THEN t[1] ELSE e[i - 1] \o <<NL>> \o t[i]
    <3>0. e[0] = <<>>
      BY <1>5
    <3>1. CASE i = 0
      BY <3>0, <3>1
    <3>2. CASE i # 0
      <4>1. i \in 1..n
        BY <1>1, <3>2
      <4> QED
        BY <1>6, <3>2, <4>1
    <3> QED
      BY <3>1, <3>2
  <2>2. e = [i \in 0..n |-> e[i]]
    BY <1>5
  <2> QED
    BY <2>1, <2>2 DEF EditorJoined
<1> DEFINE c == CHOOSE d : EditorJoined(d, t)
<1>8. EditorJoined(c, t)
  BY <1>7
<1>9. Editor!Join(t) = c[n]
  BY DEF Editor!Join, EditorJoined
<1> HIDE DEF c
<1>10. DOMAIN c = 0..n /\ \A i \in 0..n : c[i] = IF i = 0 THEN <<>> ELSE IF i = 1 THEN t[1] ELSE c[i - 1] \o <<NL>> \o t[i]
  BY <1>8 DEF EditorJoined
<1>11. \A i \in 0..n : c[i] \in EditorText
  <2> DEFINE G == {i \in 0..n : c[i] \in EditorText}
  <2>1. 0 \in G
    BY <1>1, <1>10
  <2>2. ASSUME NEW i \in 1..n, i - 1 \in G PROVE i \in G
    BY <1>1, <1>2, <1>10, <2>2
  <2> HIDE DEF G
  <2>3. \A i \in 0..n : i \in G
    BY <1>1, <2>1, <2>2, EditorInduction
  <2> QED
    BY <2>3 DEF G
<1>12. c = [i \in 0..n |-> c[i]]
  BY <1>8 DEF EditorJoined
<1>13. EditorJoins(c, t)
  BY <1>1, <1>9, <1>10, <1>11, <1>12 DEF EditorJoins
<1> QED
  BY <1>1, <1>9, <1>11, <1>13

\* Splitting a text makes lines of it.
EditorSplits(e, s) ==
  e = [i \in 0..Len(s) |-> IF i = 0 THEN <<<<>>>> ELSE Editor!LineEnds(e[i - 1], s[i])]
LEMMA EditorSplit ==
  ASSUME NEW s \in EditorText
  PROVE  Editor!Split(s) \in EditorLines
<1> DEFINE n == Len(s)
           S == {l \in EditorLines : Len(l) > 0}
<1>1. n \in Nat /\ <<<<>>>> \in S /\ \A i \in 1..n : s[i] \in Chars
  BY DEF EditorLines, EditorText
<1>2. ASSUME NEW l \in S, NEW x \in Chars PROVE Editor!LineEnds(l, x) \in S
  <2>1. l \in Seq(EditorText) /\ Len(l) \in 1..Len(l) /\ Len(l) \in Nat /\ l[Len(l)] \in EditorText /\ <<>> \in EditorText
    BY DEF EditorLines, EditorText
  <2>2. Append(l[Len(l)], x) \in EditorText
    BY <2>1 DEF EditorText
  <2>3. Append(l, <<>>) \in Seq(EditorText) /\ Len(Append(l, <<>>)) > 0
    BY <2>1
  <2>4. [l EXCEPT ![Len(l)] = Append(l[Len(l)], x)] \in Seq(EditorText)
        /\ Len([l EXCEPT ![Len(l)] = Append(l[Len(l)], x)]) = Len(l)
    BY <2>1, <2>2, ExceptSeq
  <2> QED
    BY <2>1, <2>3, <2>4 DEF Editor!LineEnds, EditorLines
<1> DEFINE step == [q \in (1..n) \X S |-> Editor!LineEnds(q[2], s[q[1]])]
<1>3. step \in [(1..n) \X S -> S]
  <2> HIDE DEF S
  <2> QED
    BY <1>1, <1>2
<1>4. \A i \in 1..n, l \in S : step[<<i, l>>] = Editor!LineEnds(l, s[i])
  OBVIOUS
<1> HIDE DEF step, S
<1>5. PICK e \in [0..n -> S] : e[0] = <<<<>>>> /\ \A i \in 1..n : e[i] = step[<<i, e[i - 1]>>]
  <2>1. PICK e : EditorSteps(e, n, S, <<<<>>>>, step)
    BY <1>1, <1>3, EditorRecursion
  <2> QED
    BY <2>1 DEF EditorSteps
<1>6. EditorSplits(e, s)
  <2>1. ASSUME NEW i \in 1..n PROVE e[i] = Editor!LineEnds(e[i - 1], s[i])
    <3>1. e[i - 1] \in S
      BY <1>1, <1>5
    <3> QED
      BY <1>4, <1>5, <3>1
  <2>2. \A i \in 0..n : e[i] = IF i = 0 THEN <<<<>>>> ELSE Editor!LineEnds(e[i - 1], s[i])
    BY <1>1, <1>5, <2>1
  <2>3. e = [i \in 0..n |-> e[i]]
    BY <1>5
  <2> QED
    BY <2>2, <2>3 DEF EditorSplits
<1> DEFINE c == CHOOSE d : EditorSplits(d, s)
<1>7. EditorSplits(c, s)
  BY <1>6
<1>8. Editor!Split(s) = c[n]
  BY DEF Editor!Split, EditorSplits
<1> HIDE DEF c
<1>9. \A i \in 0..n : c[i] = IF i = 0 THEN <<<<>>>> ELSE Editor!LineEnds(c[i - 1], s[i])
  BY <1>7 DEF EditorSplits
<1> DEFINE G == {i \in 0..n : c[i] \in S}
<1>10. 0 \in G
  BY <1>1, <1>9
<1>11. ASSUME NEW i \in 1..n, i - 1 \in G PROVE i \in G
  BY <1>1, <1>2, <1>9, <1>11
<1> HIDE DEF G
<1>12. n \in G
  <2>1. \A i \in 0..n : i \in G
    BY <1>1, <1>10, <1>11, EditorInduction
  <2> QED
    BY <1>1, <2>1
<1> QED
  BY <1>8, <1>12 DEF G, S

\* Parsing lines makes sections of them.
EditorStates ==
  [in : {"shared", "current", "incoming"}, cur : EditorLines, inc : EditorLines, buf : EditorLines,
   out : Seq(EditorSections)]
EditorStart == [in |-> "shared", cur |-> <<>>, inc |-> <<>>, buf |-> <<>>, out |-> <<>>]
LEMMA EditorParse ==
  ASSUME NEW st \in EditorStates, NEW w \in EditorText
  PROVE  Editor!Parse(st, w) \in EditorStates
<1>1. /\ st.in \in {"shared", "current", "incoming"} /\ st.cur \in EditorLines /\ st.inc \in EditorLines
      /\ st.buf \in EditorLines /\ st.out \in Seq(EditorSections) /\ <<>> \in EditorLines
  BY DEF EditorStates, EditorLines
<1>2. \A l \in EditorLines : Append(l, w) \in EditorLines
  BY DEF EditorLines
<1>3. \A s \in EditorSections : Append(st.out, s) \in Seq(EditorSections)
  BY <1>1
<1>4. Editor!Shared(Editor!Join(st.buf)) \in EditorSections
  BY <1>1, EditorJoin DEF EditorSections, Editor!Shared
<1>5. Editor!Conflict(Editor!Join(st.cur), Editor!Join(st.inc)) \in EditorSections
  <2>1. Editor!Join(st.cur) \in EditorText /\ Editor!Join(st.inc) \in EditorText
    BY <1>1, EditorJoin
  <2> QED
    BY <2>1 DEF EditorSections, Editor!Conflict
<1>6. CASE st.in = "shared" /\ w = <<Marks.lt>>
  <2>1. Editor!Parse(st, w) =
          [in |-> "current", cur |-> <<>>, inc |-> <<>>, buf |-> <<>>,
           out |-> IF st.buf = <<>> THEN st.out ELSE Append(st.out, Editor!Shared(Editor!Join(st.buf)))]
    BY <1>6 DEF Editor!Parse
  <2>2. (IF st.buf = <<>> THEN st.out ELSE Append(st.out, Editor!Shared(Editor!Join(st.buf)))) \in Seq(EditorSections)
    BY <1>1, <1>3, <1>4
  <2> QED
    BY <1>1, <2>1, <2>2 DEF EditorStates
<1>7. CASE st.in = "shared" /\ w # <<Marks.lt>>
  <2>1. Editor!Parse(st, w) = [st EXCEPT !.buf = Append(st.buf, w)]
    BY <1>7 DEF Editor!Parse
  <2> QED
    BY <1>1, <1>2, <2>1 DEF EditorStates
<1>8. CASE st.in = "current" /\ Editor!Separates(w)
  <2>1. Editor!Parse(st, w) = [st EXCEPT !.in = "incoming"]
    BY <1>8 DEF Editor!Parse
  <2> QED
    BY <1>1, <2>1 DEF EditorStates
<1>9. CASE st.in = "current" /\ ~Editor!Separates(w)
  <2>1. Editor!Parse(st, w) = [st EXCEPT !.cur = Append(st.cur, w)]
    BY <1>9 DEF Editor!Parse
  <2> QED
    BY <1>1, <1>2, <2>1 DEF EditorStates
<1>10. CASE st.in = "incoming" /\ w = <<Marks.gt>>
  <2>1. Editor!Parse(st, w) =
          [st EXCEPT !.in = "shared",
                     !.out = Append(st.out, Editor!Conflict(Editor!Join(st.cur), Editor!Join(st.inc)))]
    BY <1>10 DEF Editor!Parse
  <2> QED
    BY <1>1, <1>3, <1>5, <2>1 DEF EditorStates
<1>11. CASE st.in = "incoming" /\ w # <<Marks.gt>>
  <2>1. Editor!Parse(st, w) = [st EXCEPT !.inc = Append(st.inc, w)]
    BY <1>11 DEF Editor!Parse
  <2> QED
    BY <1>1, <1>2, <2>1 DEF EditorStates
<1> QED
  BY <1>1, <1>6, <1>7, <1>8, <1>9, <1>10, <1>11

EditorParsed(e, lines) ==
  e = [i \in 0..Len(lines) |->
         IF i = 0 THEN [in |-> "shared", cur |-> <<>>, inc |-> <<>>, buf |-> <<>>, out |-> <<>>]
         ELSE Editor!Parse(e[i - 1], lines[i])]
\* A text, whatever is in it, is read as sections.
LEMMA EditorReads ==
  ASSUME NEW s \in EditorText
  PROVE  Editor!getConflictFile(s) \in Seq(EditorSections)
<1> DEFINE lines == Editor!Split(s)
           n == Len(lines)
<1>1. lines \in EditorLines
  BY EditorSplit
<1>2. n \in Nat /\ \A i \in 1..n : lines[i] \in EditorText
  <2> HIDE DEF lines
  <2> QED
    BY <1>1 DEF EditorLines
<1>3. EditorStart \in EditorStates
  BY DEF EditorStart, EditorStates, EditorLines
<1> HIDE DEF lines
<1> DEFINE step == [q \in (1..n) \X EditorStates |-> Editor!Parse(q[2], lines[q[1]])]
<1>4. step \in [(1..n) \X EditorStates -> EditorStates]
  BY <1>2, EditorParse
<1>5. \A i \in 1..n, x \in EditorStates : step[<<i, x>>] = Editor!Parse(x, lines[i])
  OBVIOUS
<1> HIDE DEF step
<1>6. PICK e : EditorSteps(e, n, EditorStates, EditorStart, step)
  BY <1>2, <1>3, <1>4, EditorRecursion
<1>7. EditorParsed(e, lines)
  <2>1. e \in [0..n -> EditorStates] /\ e[0] = EditorStart /\ \A i \in 1..n : e[i] = step[<<i, e[i - 1]>>]
    BY <1>6 DEF EditorSteps
  <2>2. ASSUME NEW i \in 0..n PROVE e[i] = IF i = 0 THEN EditorStart ELSE Editor!Parse(e[i - 1], lines[i])
    <3>1. CASE i = 0
      BY <2>1, <3>1
    <3>2. CASE i # 0
      <4>1. i \in 1..n /\ i - 1 \in 0..n
        BY <1>2, <3>2
      <4>2. e[i - 1] \in EditorStates /\ e[i] = step[<<i, e[i - 1]>>]
        BY <2>1, <4>1
      <4> QED
        BY <1>5, <3>2, <4>1, <4>2
    <3> QED
      BY <3>1, <3>2
  <2>3. e = [i \in 0..n |-> e[i]]
    BY <2>1
  <2> QED
    BY <2>2, <2>3 DEF EditorParsed, EditorStart
<1> DEFINE c == CHOOSE d : EditorParsed(d, lines)
           end == c[n]
<1>8. EditorParsed(c, lines)
  BY <1>7
<1>9. Editor!getConflictFile(s) =
        IF end.in # "shared"
        THEN Append(end.out, Editor!Conflict(Editor!Join(end.cur), Editor!Join(end.inc)))
        ELSE IF end.buf = <<>> THEN end.out ELSE Append(end.out, Editor!Shared(Editor!Join(end.buf)))
  BY DEF Editor!getConflictFile, EditorParsed, lines
<1> HIDE DEF c
<1>10. \A i \in 0..n : c[i] = IF i = 0 THEN EditorStart ELSE Editor!Parse(c[i - 1], lines[i])
  BY <1>8 DEF EditorParsed, EditorStart
<1> DEFINE G == {i \in 0..n : c[i] \in EditorStates}
<1>11. 0 \in G
  BY <1>2, <1>3, <1>10
<1>12. ASSUME NEW i \in 1..n, i - 1 \in G PROVE i \in G
  BY <1>2, <1>10, <1>12, EditorParse
<1> HIDE DEF G
<1>13. n \in G
  <2>1. \A i \in 0..n : i \in G
    BY <1>2, <1>11, <1>12, EditorInduction
  <2> QED
    BY <1>2, <2>1
<1>14. end \in EditorStates
  BY <1>13 DEF G
<1> HIDE DEF end
<1>15. /\ end.cur \in EditorLines /\ end.inc \in EditorLines /\ end.buf \in EditorLines
       /\ end.out \in Seq(EditorSections)
  BY <1>14 DEF EditorStates
<1>16. Editor!Join(end.cur) \in EditorText /\ Editor!Join(end.inc) \in EditorText /\ Editor!Join(end.buf) \in EditorText
  BY <1>15, EditorJoin
<1>17. /\ Editor!Conflict(Editor!Join(end.cur), Editor!Join(end.inc)) \in EditorSections
       /\ Editor!Shared(Editor!Join(end.buf)) \in EditorSections
  BY <1>16 DEF EditorSections, Editor!Conflict, Editor!Shared
<1> QED
  BY <1>9, <1>15, <1>17
EditorFlat(e, s) == e = [i \in 1..Len(s) |-> IF i = 1 THEN s[i] ELSE e[i - 1] \o s[i]]
\* Lists of lines, one behind the other, are a list of lines.
LEMMA EditorFlatten ==
  ASSUME NEW s \in Seq(EditorLines)
  PROVE  Editor!FlattenSeq(s) \in EditorLines
<1>1. CASE Len(s) = 0
  <2>1. s = <<>> /\ Editor!FlattenSeq(s) = s
    BY <1>1 DEF Editor!FlattenSeq
  <2>2. <<>> \in EditorLines
    BY DEF EditorLines
  <2> QED
    BY <2>1, <2>2
<1>2. CASE Len(s) # 0
  <2> DEFINE n == Len(s) - 1
             step == [q \in (1..n) \X EditorLines |-> q[2] \o s[q[1] + 1]]
  <2>1. n \in Nat /\ Len(s) = n + 1 /\ \A i \in 1..(n + 1) : s[i] \in EditorLines
    BY <1>2
  <2>2. \A x, y \in EditorLines : x \o y \in EditorLines
    BY DEF EditorLines
  <2> HIDE DEF n
  <2>3. step \in [(1..n) \X EditorLines -> EditorLines]
    BY <2>1, <2>2
  <2>4. \A i \in 1..n, x \in EditorLines : step[<<i, x>>] = x \o s[i + 1]
    OBVIOUS
  <2>5. s[1] \in EditorLines
    BY <2>1
  <2> HIDE DEF step
  <2>6. PICK e : EditorSteps(e, n, EditorLines, s[1], step)
    BY <2>1, <2>3, <2>5, EditorRecursion
  <2>7. e \in [0..n -> EditorLines] /\ e[0] = s[1] /\ \A i \in 1..n : e[i] = step[<<i, e[i - 1]>>]
    BY <2>6 DEF EditorSteps
  <2> DEFINE h == [i \in 1..(n + 1) |-> e[i - 1]]
  <2>8. ASSUME NEW i \in 1..(n + 1) PROVE h[i] = IF i = 1 THEN s[i] ELSE h[i - 1] \o s[i]
    <3>1. CASE i = 1
      <4>1. h[i] = e[0]
        BY <2>1, <3>1
      <4> QED
        BY <2>7, <3>1, <4>1
    <3>2. CASE i # 1
      <4>1. i - 1 \in 1..n /\ h[i] = e[i - 1] /\ h[i - 1] = e[(i - 1) - 1] /\ (i - 1) - 1 \in 0..n
            /\ (i - 1) + 1 = i
        BY <2>1, <3>2
      <4>2. e[(i - 1) - 1] \in EditorLines
        BY <2>7, <4>1
      <4>3. e[i - 1] = e[(i - 1) - 1] \o s[(i - 1) + 1]
        BY <2>4, <2>7, <4>1, <4>2
      <4> HIDE DEF h
      <4> QED
        BY <3>2, <4>1, <4>3
    <3> QED
      BY <3>1, <3>2
  <2>9. EditorFlat(h, s)
    <3>1. h = [i \in 1..(n + 1) |-> h[i]]
      OBVIOUS
    <3> HIDE DEF h
    <3> QED
      BY <2>1, <2>8, <3>1 DEF EditorFlat
  <2> HIDE DEF h
  <2> DEFINE c == CHOOSE d : EditorFlat(d, s)
  <2>10. EditorFlat(c, s)
    BY <2>9
  <2>11. Editor!FlattenSeq(s) = c[Len(s)]
    BY <1>2 DEF Editor!FlattenSeq, EditorFlat
  <2> HIDE DEF c
  <2>12. \A i \in 1..(n + 1) : c[i] = IF i = 1 THEN s[i] ELSE c[i - 1] \o s[i]
    BY <2>1, <2>10 DEF EditorFlat
  <2> DEFINE G == {i \in 0..n : c[i + 1] \in EditorLines}
  <2>13. 0 \in G
    <3>1. c[0 + 1] = s[1]
      BY <2>1, <2>12
    <3> QED
      BY <2>1, <2>5, <3>1
  <2>14. ASSUME NEW i \in 1..n, i - 1 \in G PROVE i \in G
    <3>1. i + 1 \in 1..(n + 1) /\ i + 1 # 1 /\ (i + 1) - 1 = i /\ (i - 1) + 1 = i
      BY <2>1
    <3>2. c[i] \in EditorLines
      BY <2>14, <3>1
    <3>3. c[i + 1] = c[i] \o s[i + 1] /\ s[i + 1] \in EditorLines
      BY <2>1, <2>12, <3>1
    <3>4. c[i + 1] \in EditorLines
      BY <2>2, <3>2, <3>3
    <3> QED
      BY <2>1, <3>4
  <2> HIDE DEF G
  <2>15. n \in G
    <3>1. \A i \in 0..n : i \in G
      BY <2>1, <2>13, <2>14, EditorInduction
    <3> QED
      BY <2>1, <3>1
  <2> QED
    BY <2>1, <2>11, <2>15 DEF G
<1> QED
  BY <1>1, <1>2

\* What git leaves in a file is a text.
LEMMA EditorMarked ==
  ASSUME NEW m \in Merged
  PROVE  Editor!WithMarkers(m) \in EditorText
<1> DEFINE Section == [kind : {"shared"}, text : EditorLines]
                      \cup [kind : {"conflict"}, current : EditorLines, incoming : EditorLines]
           lines(s) == IF s.kind = "shared" THEN s.text
                       ELSE <<<<Marks.lt>>>> \o s.current \o <<<<Marks.sep>>>> \o s.incoming \o <<<<Marks.gt>>>>
           all == [i \in 1..Len(m) |-> lines(m[i])]
<1>1. m \in Seq(Section)
  BY EditorAssumption DEF MergedLines, EditorLines, EditorText
<1>2. \A x \in {Marks.lt, Marks.sep, Marks.gt} : <<<<x>>>> \in EditorLines
  <2> SUFFICES ASSUME NEW x \in Chars PROVE <<<<x>>>> \in EditorLines
    BY EditorAssumption
  <2>1. <<x>> \in EditorText
    BY DEF EditorText
  <2> QED
    BY <2>1 DEF EditorLines
<1>3. ASSUME NEW s \in Section PROVE lines(s) \in EditorLines
  <2>1. CASE s.kind = "shared"
    BY <1>3, <2>1
  <2>2. CASE s.kind # "shared"
    <3>1. s.current \in EditorLines /\ s.incoming \in EditorLines
      BY <1>3, <2>2
    <3>2. \A x, y \in EditorLines : x \o y \in EditorLines
      BY DEF EditorLines
    <3>3. <<<<Marks.lt>>>> \o s.current \o <<<<Marks.sep>>>> \o s.incoming \o <<<<Marks.gt>>>> \in EditorLines
      BY <1>2, <3>1, <3>2
    <3> QED
      BY <2>2, <3>3
  <2> QED
    BY <2>1, <2>2
<1>4. Len(m) \in Nat /\ \A i \in 1..Len(m) : lines(m[i]) \in EditorLines
  <2> HIDE DEF Section, lines
  <2> QED
    BY <1>1, <1>3
<1>5. all \in Seq(EditorLines)
  <2> HIDE DEF lines
  <2> QED
    BY <1>4
<1>6. Editor!WithMarkers(m) = Editor!Join(Editor!FlattenSeq(all))
  BY DEF Editor!WithMarkers, Editor!Mapped
<1> HIDE DEF all
<1> QED
  BY <1>5, <1>6, EditorFlatten, EditorJoin

EditorBlocks(F) == {i \in 1..Len(F) : F[i].kind = "conflict"}
EditorNumber(F, i) == Cardinality({k \in EditorBlocks(F) : k <= i})
\* The blocks are numbered from one on, each with its own number.
LEMMA EditorNumbers ==
  ASSUME NEW F \in Seq(EditorSections)
  PROVE  /\ Cardinality(EditorBlocks(F)) \in Nat
         /\ \A i \in EditorBlocks(F) : EditorNumber(F, i) \in 1..Cardinality(EditorBlocks(F))
         /\ \A i, j \in EditorBlocks(F) : EditorNumber(F, i) = EditorNumber(F, j) => i = j
<1> DEFINE B == EditorBlocks(F)
           Upto(i) == {k \in B : k <= i}
<1>1. Len(F) \in Nat /\ B \subseteq 1..Len(F)
  BY DEF EditorBlocks
<1>2. IsFiniteSet(B) /\ Cardinality(B) \in Nat
  <2>1. IsFiniteSet(1..Len(F))
    BY <1>1, FS_Interval
  <2>2. IsFiniteSet(B)
    BY <1>1, <2>1, FS_Subset
  <2> QED
    BY <2>2, FS_CardinalityType
<1>3. ASSUME NEW i \in Int PROVE /\ IsFiniteSet(Upto(i)) /\ Cardinality(Upto(i)) \in Nat
                                 /\ Cardinality(Upto(i)) <= Cardinality(B)
  <2>1. Upto(i) \subseteq B
    OBVIOUS
  <2>2. IsFiniteSet(Upto(i)) /\ Cardinality(Upto(i)) <= Cardinality(B)
    BY <1>2, <2>1, FS_Subset
  <2> QED
    BY <2>2, FS_CardinalityType
<1>4. ASSUME NEW i \in B PROVE Cardinality(Upto(i)) # 0
  <2>1. i \in Upto(i) /\ i \in Int
    BY <1>1
  <2> HIDE DEF Upto
  <2> QED
    BY <1>3, <2>1, FS_EmptySet
<1>5. ASSUME NEW i \in B, NEW j \in B, i < j PROVE Cardinality(Upto(i)) # Cardinality(Upto(j))
  <2>1. i \in Int /\ j \in Int /\ j \in Upto(j) /\ j \notin Upto(i) /\ Upto(i) \subseteq Upto(j)
    BY <1>1, <1>5
  <2> HIDE DEF Upto
  <2> QED
    BY <1>3, <2>1, FS_Subset
<1>6. ASSUME NEW i \in B, NEW j \in B, EditorNumber(F, i) = EditorNumber(F, j) PROVE i = j
  <2>1. i \in Int /\ j \in Int
    BY <1>1
  <2>2. Cardinality(Upto(i)) = Cardinality(Upto(j))
    BY <1>6 DEF EditorNumber
  <2> HIDE DEF Upto, B
  <2> QED
    BY <1>5, <2>1, <2>2
<1>7. ASSUME NEW i \in B PROVE EditorNumber(F, i) \in 1..Cardinality(B)
  <2>1. i \in Int /\ EditorNumber(F, i) = Cardinality(Upto(i))
    BY <1>1 DEF EditorNumber
  <2> HIDE DEF Upto, B
  <2> QED
    BY <1>2, <1>3, <1>4, <2>1
<1> QED
  BY <1>2, <1>6, <1>7
\* Where a section begins: behind the ones before it and the breaks between them.
EditorBegins(d, i, t) ==
  /\ d \in [1..i -> Nat] /\ d[1] = 0
  /\ \A k \in 2..i : d[k] = d[k - 1] + Len(t[k - 1]) + 1
EditorSums(d, i) == d = [k \in 1..i |-> IF k = 1 THEN 0 ELSE d[k - 1] + Len(Editor!TextOf(k - 1)) + 1]
LEMMA EditorOffset ==
  ASSUME NEW i \in Nat \ {0}, NEW t, \A k \in 1..(i - 1) : t[k] \in EditorText /\ Editor!TextOf(k) = t[k]
  PROVE  \E d : EditorBegins(d, i, t) /\ Editor!expectedOffset(i) = d[i]
<1> DEFINE n == i - 1
           step == [q \in (1..n) \X Nat |-> q[2] + Len(t[q[1]]) + 1]
<1>1. n \in Nat /\ i = n + 1 /\ \A k \in 1..n : Len(t[k]) \in Nat
  BY DEF EditorText
<1>2. \A k \in 1..n : Editor!TextOf(k) = t[k]
  OBVIOUS
<1> HIDE DEF n
<1>3. step \in [(1..n) \X Nat -> Nat]
  BY <1>1
<1>4. \A k \in 1..n, x \in Nat : step[<<k, x>>] = x + Len(t[k]) + 1
  OBVIOUS
<1> HIDE DEF step
<1>5. PICK e : EditorSteps(e, n, Nat, 0, step)
  BY <1>1, <1>3, EditorRecursion
<1>6. e \in [0..n -> Nat] /\ e[0] = 0 /\ \A k \in 1..n : e[k] = step[<<k, e[k - 1]>>]
  BY <1>5 DEF EditorSteps
<1> DEFINE h == [k \in 1..i |-> e[k - 1]]
<1>7. ASSUME NEW k \in 1..i PROVE h[k] = IF k = 1 THEN 0 ELSE h[k - 1] + Len(Editor!TextOf(k - 1)) + 1
  <2>1. CASE k = 1
    <3>1. h[k] = e[0]
      BY <1>1, <2>1
    <3> QED
      BY <1>6, <2>1, <3>1
  <2>2. CASE k # 1
    <3>1. k - 1 \in 1..n /\ h[k] = e[k - 1] /\ h[k - 1] = e[(k - 1) - 1] /\ (k - 1) - 1 \in 0..n
      BY <1>1, <2>2
    <3>2. e[(k - 1) - 1] \in Nat
      BY <1>6, <3>1
    <3> HIDE DEF h
    <3>3. e[k - 1] = e[(k - 1) - 1] + Len(t[k - 1]) + 1
      BY <1>4, <1>6, <3>1, <3>2
    <3> QED
      BY <1>2, <2>2, <3>1, <3>3
  <2> QED
    BY <2>1, <2>2
<1>8. EditorSums(h, i)
  <2>1. h = [k \in 1..i |-> h[k]]
    OBVIOUS
  <2> HIDE DEF h
  <2> QED
    BY <1>7, <2>1 DEF EditorSums
<1> HIDE DEF h
<1> DEFINE c == CHOOSE d : EditorSums(d, i)
<1>9. EditorSums(c, i)
  BY <1>8
<1>10. Editor!expectedOffset(i) = c[i]
  BY DEF Editor!expectedOffset, EditorSums
<1> HIDE DEF c
<1>11. DOMAIN c = 1..i /\ \A k \in 1..i : c[k] = IF k = 1 THEN 0 ELSE c[k - 1] + Len(Editor!TextOf(k - 1)) + 1
  BY <1>9 DEF EditorSums
<1> DEFINE G == {k \in 0..n : c[k + 1] \in Nat}
<1>12. 0 \in G
  <2>1. c[0 + 1] = 0
    BY <1>1, <1>11
  <2> QED
    BY <1>1, <2>1
<1>13. ASSUME NEW k \in 1..n, k - 1 \in G PROVE k \in G
  <2>1. k + 1 \in 1..i /\ k + 1 # 1 /\ (k + 1) - 1 = k /\ (k - 1) + 1 = k
    BY <1>1
  <2>2. c[k] \in Nat
    BY <1>13, <2>1
  <2>3. c[k + 1] = c[k] + Len(t[k]) + 1
    BY <1>2, <1>11, <2>1
  <2>4. c[k + 1] \in Nat
    BY <1>1, <2>2, <2>3
  <2> QED
    BY <1>1, <2>4
<1> HIDE DEF G
<1>14. \A k \in 0..n : k \in G
  BY <1>1, <1>12, <1>13, EditorInduction
<1>15. \A k \in 1..i : c[k] \in Nat
  <2> SUFFICES ASSUME NEW k \in 1..i PROVE c[k] \in Nat
    OBVIOUS
  <2>1. k - 1 \in 0..n /\ (k - 1) + 1 = k
    BY <1>1
  <2>2. k - 1 \in G
    BY <1>14, <2>1
  <2> QED
    BY <2>1, <2>2 DEF G
<1>16. c \in [1..i -> Nat]
  <2>1. c = [k \in 1..i |-> c[k]]
    BY <1>9 DEF EditorSums
  <2> QED
    BY <1>15, <2>1
<1>17. c[1] = 0
  BY <1>11
<1>18. \A k \in 2..i : c[k] = c[k - 1] + Len(t[k - 1]) + 1
  <2> SUFFICES ASSUME NEW k \in 2..i PROVE c[k] = c[k - 1] + Len(t[k - 1]) + 1
    OBVIOUS
  <2>1. k \in 1..i /\ k # 1 /\ k - 1 \in 1..n
    BY <1>1
  <2> QED
    BY <1>2, <1>11, <2>1
<1> QED
  BY <1>10, <1>16, <1>17, <1>18 DEF EditorBegins

\* Where one text of several is replaced, what is before and behind it stays.
LEMMA EditorSwap ==
  ASSUME NEW t \in EditorLines, NEW u \in EditorLines, NEW k \in 1..Len(t), Len(u) = Len(t),
         \A i \in 1..Len(t) : i # k => u[i] = t[i], NEW d, EditorBegins(d, k, t)
  PROVE  \E P, R \in EditorText : /\ Editor!Join(t) = P \o t[k] \o R /\ Editor!Join(u) = P \o u[k] \o R
                              /\ Len(P) = d[k]
<1> DEFINE n == Len(t)
<1>1. /\ n \in Nat /\ <<>> \in EditorText /\ <<NL>> \in EditorText /\ Len(<<NL>>) = 1
      /\ \A i \in 1..n : t[i] \in EditorText /\ u[i] \in EditorText
  BY EditorAssumption DEF EditorLines, EditorText
<1>2. PICK e : EditorJoins(e, t)
  BY EditorJoin
<1>3. PICK v : EditorJoins(v, u)
  BY EditorJoin
<1> HIDE DEF n
<1>4. /\ e \in [0..n -> EditorText] /\ e[0] = <<>> /\ (n > 0 => e[1] = t[1])
      /\ \A i \in 2..n : e[i] = e[i - 1] \o <<NL>> \o t[i]
      /\ Editor!Join(t) = e[n]
  BY <1>2 DEF EditorJoins, n
<1>5. /\ v \in [0..n -> EditorText] /\ v[0] = <<>> /\ (n > 0 => v[1] = u[1])
      /\ \A i \in 2..n : v[i] = v[i - 1] \o <<NL>> \o u[i]
      /\ Editor!Join(u) = v[n]
  BY <1>3 DEF EditorJoins, n
<1>6. k \in 1..n /\ k \in Nat /\ \A i \in 1..n : i # k => u[i] = t[i]
  BY DEF n
<1>7. \A x, y \in EditorText : x \o y \in EditorText /\ Len(x \o y) = Len(x) + Len(y) /\ x \o <<>> = x /\ <<>> \o x = x
  BY DEF EditorText
<1>8. \A x, y, z \in EditorText : (x \o y) \o z = x \o (y \o z)
  BY ConcatAssociative DEF EditorText
<1>9. d \in [1..k -> Nat] /\ d[1] = 0 /\ \A i \in 2..k : d[i] = d[i - 1] + Len(t[i - 1]) + 1
  BY DEF EditorBegins
  \* The texts before are the same, and so long as was counted.
<1>10. \A i \in 0..(k - 1) : e[i] = v[i] /\ (i > 0 => Len(e[i]) + 1 = d[i + 1])
  <2> DEFINE G == {i \in 0..(k - 1) : e[i] = v[i] /\ (i > 0 => Len(e[i]) + 1 = d[i + 1])}
  <2>1. 0 \in G
    BY <1>4, <1>5, <1>6
  <2>2. ASSUME NEW i \in 1..(k - 1), i - 1 \in G PROVE i \in G
    <3>1. i \in 1..n /\ i # k /\ i + 1 \in 2..k /\ (i + 1) - 1 = i /\ (i - 1) + 1 = i /\ i - 1 \in 0..n /\ n > 0
      BY <1>1, <1>6
    <3>2. u[i] = t[i] /\ t[i] \in EditorText /\ d[i + 1] = d[i] + Len(t[i]) + 1 /\ Len(t[i]) \in Nat
      BY <1>1, <1>6, <1>9, <3>1 DEF EditorText
    <3>3. CASE i = 1
      <4>1. e[i] = t[i] /\ v[i] = t[i] /\ d[i] = 0
        BY <1>4, <1>5, <1>9, <3>1, <3>2, <3>3
      <4>2. Len(e[i]) + 1 = d[i + 1]
        BY <3>2, <4>1
      <4> QED
        BY <4>1, <4>2
    <3>4. CASE i # 1
      <4>1. i \in 2..n /\ i - 1 > 0
        BY <3>1, <3>4
      <4>2. e[i - 1] = v[i - 1] /\ Len(e[i - 1]) + 1 = d[i] /\ e[i - 1] \in EditorText /\ Len(e[i - 1]) \in Nat
        BY <1>4, <2>2, <3>1, <4>1 DEF EditorText
      <4>3. e[i] = e[i - 1] \o <<NL>> \o t[i] /\ v[i] = e[i - 1] \o <<NL>> \o t[i]
        BY <1>4, <1>5, <3>2, <4>1, <4>2
      <4>4. Len(e[i]) = Len(e[i - 1]) + 1 + Len(t[i])
        BY <1>1, <1>7, <3>2, <4>2, <4>3
      <4>5. Len(e[i]) + 1 = d[i + 1]
        BY <3>2, <4>2, <4>4
      <4>6. e[i] = v[i]
        BY <4>3
      <4> QED
        BY <4>5, <4>6
    <3> QED
      BY <3>3, <3>4
  <2>3. k - 1 \in Nat
    BY <1>6
  <2> HIDE DEF G
  <2>4. \A i \in 0..(k - 1) : i \in G
    BY <2>1, <2>2, <2>3, EditorInduction
  <2> QED
    BY <2>4 DEF G
<1> DEFINE P == IF k = 1 THEN <<>> ELSE e[k - 1] \o <<NL>>
<1>11. P \in EditorText /\ Len(P) = d[k] /\ e[k] = P \o t[k] /\ v[k] = P \o u[k]
  <2>1. t[k] \in EditorText /\ u[k] \in EditorText
    BY <1>1, <1>6
  <2>2. CASE k = 1
    <3>1. n > 0
      BY <1>1, <1>6
    <3>2. e[k] = t[k] /\ v[k] = u[k] /\ d[k] = 0 /\ P = <<>>
      BY <1>4, <1>5, <1>9, <2>2, <3>1
    <3>3. Len(<<>>) = 0
      OBVIOUS
    <3> QED
      BY <1>1, <1>7, <2>1, <3>2, <3>3
  <2>3. CASE k # 1
    <3>1. k \in 2..n /\ k - 1 \in 0..(k - 1) /\ k - 1 > 0 /\ (k - 1) + 1 = k /\ k - 1 \in 0..n
      BY <1>1, <1>6, <2>3
    <3>2. e[k - 1] = v[k - 1] /\ Len(e[k - 1]) + 1 = d[k] /\ e[k - 1] \in EditorText
      BY <1>4, <1>10, <3>1
    <3>3. P = e[k - 1] \o <<NL>>
      BY <2>3
    <3> HIDE DEF P
    <3>4. P \in EditorText /\ Len(P) = d[k]
      BY <1>1, <1>7, <3>2, <3>3
    <3>5. e[k] = e[k - 1] \o <<NL>> \o t[k] /\ v[k] = e[k - 1] \o <<NL>> \o u[k]
      BY <1>4, <1>5, <3>1, <3>2
    <3> QED
      BY <3>3, <3>4, <3>5
  <2> QED
    BY <2>2, <2>3
<1> HIDE DEF P
<1> DEFINE Good(m) == \E R \in EditorText : e[m] = P \o t[k] \o R /\ v[m] = P \o u[k] \o R
           G == {m \in 0..(n - k) : Good(k + m)}
<1>12. P \o t[k] \in EditorText /\ P \o u[k] \in EditorText
  BY <1>1, <1>6, <1>7, <1>11
<1>13. 0 \in G
  <2>1. k + 0 = k /\ 0 \in 0..(n - k)
    BY <1>1, <1>6
  <2>2. e[k] = P \o t[k] \o <<>> /\ v[k] = P \o u[k] \o <<>>
    BY <1>7, <1>11, <1>12
  <2> QED
    BY <1>1, <2>1, <2>2
<1>14. ASSUME NEW m \in 1..(n - k), m - 1 \in G PROVE m \in G
  <2>1. k + m \in 2..n /\ k + m \in 1..n /\ k + (m - 1) = (k + m) - 1 /\ k + m # k
    BY <1>1, <1>6
  <2>2. PICK R \in EditorText : e[(k + m) - 1] = P \o t[k] \o R /\ v[(k + m) - 1] = P \o u[k] \o R
    BY <1>14, <2>1
  <2> DEFINE x == t[k + m]
             R2 == R \o (<<NL>> \o x)
  <2>3. x \in EditorText /\ u[k + m] = x
    BY <1>1, <1>6, <2>1
  <2> HIDE DEF x
  <2>4. <<NL>> \o x \in EditorText /\ R2 \in EditorText
    BY <1>1, <1>7, <2>3
  <2>5. ASSUME NEW q \in EditorText PROVE (q \o R) \o <<NL>> \o x = q \o R2
    <3>1. (q \o R) \o <<NL>> \o x = (q \o R) \o (<<NL>> \o x)
      <4>1. q \o R \in EditorText
        BY <1>7
      <4> QED
        BY <1>1, <1>8, <2>3, <4>1
    <3>2. (q \o R) \o (<<NL>> \o x) = q \o (R \o (<<NL>> \o x))
      BY <1>8, <2>4
    <3> QED
      BY <3>1, <3>2
  <2>6. e[k + m] = e[(k + m) - 1] \o <<NL>> \o x /\ v[k + m] = v[(k + m) - 1] \o <<NL>> \o x
    BY <1>4, <1>5, <2>1, <2>3 DEF x
  <2> HIDE DEF R2
  <2>7. e[k + m] = P \o t[k] \o R2 /\ v[k + m] = P \o u[k] \o R2
    BY <1>12, <2>2, <2>5, <2>6
  <2>8. Good(k + m)
    BY <2>4, <2>7
  <2>9. m \in 0..(n - k)
    BY <1>1, <1>6
  <2> HIDE DEF Good
  <2> QED
    BY <2>8, <2>9
<1> HIDE DEF G
<1>15. n - k \in G
  <2>1. n - k \in Nat
    BY <1>1, <1>6
  <2>2. \A m \in 0..(n - k) : m \in G
    BY <1>13, <1>14, <2>1, EditorInduction
  <2> QED
    BY <2>1, <2>2
<1>16. Good(n)
  <2>1. k + (n - k) = n
    BY <1>1, <1>6
  <2> QED
    BY <1>15, <2>1 DEF G
<1> QED
  BY <1>4, <1>5, <1>11, <1>16

\* A piece cut out of a text, and the text found again where it was.
EditorParts(h, P, x, R) ==
  /\ h \in EditorText /\ Len(h) = Len(P) + Len(x) + Len(R)
  /\ SubSeq(h, 1, Len(P)) = P /\ SubSeq(h, Len(P) + Len(x) + 1, Len(h)) = R
  /\ SubSeq(h, Len(P) + 1, Len(P) + Len(x)) = x
LEMMA EditorSplice ==
  ASSUME NEW P \in EditorText, NEW x \in EditorText, NEW R \in EditorText, NEW h, h = P \o x \o R
  PROVE  EditorParts(h, P, x, R)
<1>1. Len(P) \in Nat /\ Len(x) \in Nat /\ Len(R) \in Nat /\ P \o x \in EditorText /\ Len(P \o x) = Len(P) + Len(x)
  BY DEF EditorText
<1>2. h \in EditorText /\ Len(h) = Len(P) + Len(x) + Len(R)
  BY <1>1 DEF EditorText
<1>3. \A i \in 1..Len(h) : h[i] = IF i <= Len(P) THEN P[i]
                                 ELSE IF i <= Len(P) + Len(x) THEN x[i - Len(P)] ELSE R[i - (Len(P) + Len(x))]
  BY <1>1, <1>2 DEF EditorText
<1>4. /\ \A i \in 1..Len(h) : h[i] \in Chars
      /\ \A i \in 1..Len(P) : P[i] \in Chars
  BY <1>2 DEF EditorText
<1>5. ASSUME NEW a \in 1..(Len(h) + 1), NEW b \in 0..Len(h), a <= b + 1, NEW s \in EditorText, Len(s) = b - a + 1,
             \A i \in 1..Len(s) : s[i] = h[a + i - 1]
      PROVE  SubSeq(h, a, b) = s
  <2>1. a \in Int /\ b \in Int /\ \A i \in a..b : h[i] \in Chars
    BY <1>1, <1>2, <1>4
  <2>2. /\ SubSeq(h, a, b) \in Seq(Chars) /\ Len(SubSeq(h, a, b)) = IF a <= b THEN b - a + 1 ELSE 0
        /\ \A i \in 1..(b - a + 1) : SubSeq(h, a, b)[i] = h[a + i - 1]
    BY <2>1, SubSeqProperties
  <2>3. Len(SubSeq(h, a, b)) = Len(s) /\ s \in Seq(Chars)
    BY <1>5, <2>1, <2>2 DEF EditorText
  <2>4. \A i \in 1..Len(SubSeq(h, a, b)) : SubSeq(h, a, b)[i] = s[i]
    BY <1>5, <2>2, <2>3
  <2> QED
    BY <2>2, <2>3, <2>4, SeqEqual
<1>6. SubSeq(h, 1, Len(P)) = P
  <2>1. \A i \in 1..Len(P) : P[i] = h[1 + i - 1]
    BY <1>1, <1>2, <1>3
  <2>2. 1 \in 1..(Len(h) + 1) /\ Len(P) \in 0..Len(h) /\ 1 <= Len(P) + 1 /\ Len(P) = Len(P) - 1 + 1
    BY <1>1, <1>2
  <2> QED
    BY <1>5, <2>1, <2>2
<1>7. SubSeq(h, Len(P) + 1, Len(P) + Len(x)) = x
  <2>1. \A i \in 1..Len(x) : x[i] = h[(Len(P) + 1) + i - 1]
    BY <1>1, <1>2, <1>3
  <2>2. /\ Len(P) + 1 \in 1..(Len(h) + 1) /\ Len(P) + Len(x) \in 0..Len(h) /\ Len(P) + 1 <= (Len(P) + Len(x)) + 1
        /\ Len(x) = (Len(P) + Len(x)) - (Len(P) + 1) + 1
    BY <1>1, <1>2
  <2> QED
    BY <1>5, <2>1, <2>2
<1>8. SubSeq(h, Len(P) + Len(x) + 1, Len(h)) = R
  <2>1. \A i \in 1..Len(R) : R[i] = h[(Len(P) + Len(x) + 1) + i - 1]
    BY <1>1, <1>2, <1>3
  <2>2. /\ Len(P) + Len(x) + 1 \in 1..(Len(h) + 1) /\ Len(h) \in 0..Len(h) /\ Len(P) + Len(x) + 1 <= Len(h) + 1
        /\ Len(R) = Len(h) - (Len(P) + Len(x) + 1) + 1
    BY <1>1, <1>2
  <2> QED
    BY <1>5, <2>1, <2>2
<1> QED
  BY <1>2, <1>6, <1>7, <1>8 DEF EditorParts

\* A text that stands where it is expected is found there.
LEMMA EditorNearest ==
  ASSUME NEW h \in EditorText, NEW x \in EditorText, NEW p \in Editor!Occurrences(h, x)
  PROVE  Editor!findNearest(h, x, p) = p
<1> DEFINE O == Editor!Occurrences(h, x)
           Near(a) == \A o \in O : \/ Editor!Dist(a, p) < Editor!Dist(o, p)
                                   \/ Editor!Dist(a, p) = Editor!Dist(o, p) /\ a <= o
<1>1. O \subseteq Nat
  BY DEF Editor!Occurrences
<1>2. \A o \in Nat, a \in Nat : Editor!Dist(o, a) \in Nat /\ (Editor!Dist(o, a) = 0 <=> o = a)
  BY DEF Editor!Dist
<1>3. p \in O /\ Editor!findNearest(h, x, p) = CHOOSE a \in O : Near(a)
  BY DEF Editor!findNearest
<1> HIDE DEF O
<1>4. Near(p)
  <2> SUFFICES ASSUME NEW o \in O PROVE \/ Editor!Dist(p, p) < Editor!Dist(o, p)
                                        \/ Editor!Dist(p, p) = Editor!Dist(o, p) /\ p <= o
    OBVIOUS
  <2>1. o \in Nat /\ p \in Nat
    BY <1>1, <1>3
  <2>2. Editor!Dist(p, p) = 0 /\ Editor!Dist(o, p) \in Nat /\ (Editor!Dist(o, p) = 0 <=> o = p)
    BY <1>2, <2>1
  <2> QED
    BY <2>1, <2>2
<1>5. ASSUME NEW a \in O, Near(a) PROVE a = p
  <2>1. a \in Nat /\ p \in Nat
    BY <1>1, <1>3
  <2>2. Editor!Dist(p, p) = 0 /\ Editor!Dist(a, p) \in Nat /\ (Editor!Dist(a, p) = 0 <=> a = p)
    BY <1>2, <2>1
  <2>3. \/ Editor!Dist(a, p) < Editor!Dist(p, p)
        \/ Editor!Dist(a, p) = Editor!Dist(p, p) /\ a <= p
    BY <1>3, <1>5
  <2> QED
    BY <2>2, <2>3
<1> HIDE DEF Near
<1> QED
  BY <1>3, <1>4, <1>5
EditorTextOf(F, C, i) ==
  IF F[i].kind = "shared" THEN F[i].text
  ELSE Editor!blockText(F[i], IF C[EditorNumber(F, i)] = "custom" THEN "current" ELSE C[EditorNumber(F, i)])
EditorTexts(F, C) == [i \in 1..Len(F) |-> EditorTextOf(F, C, i)]
EditorChoices(F) == [1..Cardinality(EditorBlocks(F)) -> {"current", "incoming", "both"}]

\* What may be chosen for a block is a text.
LEMMA EditorBlockText ==
  ASSUME NEW s \in EditorSections, s.kind # "shared", NEW side \in {"current", "incoming", "both"}
  PROVE  /\ Editor!blockText(s, side) \in EditorText
         /\ side # "both" => s[side] = Editor!blockText(s, side)
<1>1. s.current \in EditorText /\ s.incoming \in EditorText /\ <<NL>> \in EditorText
  BY EditorAssumption DEF EditorSections, EditorText
<1>2. CASE side = "both"
  <2>1. \A x, y \in EditorText : x \o y \in EditorText
    BY DEF EditorText
  <2>2. Editor!blockText(s, side) \in {s.incoming, s.current, s.current \o <<NL>> \o s.incoming}
    BY <1>2 DEF Editor!blockText, Editor!Sides
  <2>3. s.current \o <<NL>> \o s.incoming \in EditorText
    BY <1>1, <2>1
  <2> QED
    BY <1>1, <1>2, <2>2, <2>3
<1>3. CASE side # "both"
  <2>1. Editor!blockText(s, side) = s[side]
    BY <1>3 DEF Editor!blockText, Editor!Sides
  <2>2. s[side] \in {s.current, s.incoming}
    BY <1>3
  <2> QED
    BY <1>1, <2>1, <2>2
<1> QED
  BY <1>2, <1>3

\* The text of a section is its own, or what was chosen for it.
LEMMA EditorTextsAre ==
  ASSUME NEW F \in Seq(EditorSections), NEW C \in EditorChoices(F)
  PROVE  /\ EditorTexts(F, C) \in EditorLines /\ Len(EditorTexts(F, C)) = Len(F)
         /\ \A i \in 1..Len(F) : EditorTexts(F, C)[i] = EditorTextOf(F, C, i)
         /\ \A i \in EditorBlocks(F) : EditorTextOf(F, C, i) = Editor!blockText(F[i], C[EditorNumber(F, i)])
<1>1. Len(F) \in Nat /\ \A i \in 1..Len(F) : F[i] \in EditorSections
  OBVIOUS
<1>2. \A s \in EditorSections : s.kind = "shared" => s.text \in EditorText
  BY DEF EditorSections
<1>3. \A i \in EditorBlocks(F) : C[EditorNumber(F, i)] \in {"current", "incoming", "both"}
  BY EditorNumbers DEF EditorChoices
<1>4. ASSUME NEW i \in 1..Len(F) PROVE EditorTextOf(F, C, i) \in EditorText
  <2>1. CASE F[i].kind = "shared"
    BY <1>1, <1>2, <2>1 DEF EditorTextOf
  <2>2. CASE F[i].kind # "shared"
    <3>1. i \in EditorBlocks(F)
      <4>1. F[i].kind \in {"shared", "conflict"}
        BY <1>1 DEF EditorSections
      <4> QED
        BY <2>2, <4>1 DEF EditorBlocks
    <3>2. C[EditorNumber(F, i)] \in {"current", "incoming", "both"} /\ F[i] \in EditorSections
      BY <1>1, <1>3, <3>1
    <3>3. EditorTextOf(F, C, i) = Editor!blockText(F[i], C[EditorNumber(F, i)])
      BY <2>2, <3>2 DEF EditorTextOf
    <3> QED
      BY <2>2, <3>2, <3>3, EditorBlockText
  <2> QED
    BY <2>1, <2>2
<1>5. \A i \in EditorBlocks(F) : EditorTextOf(F, C, i) = Editor!blockText(F[i], C[EditorNumber(F, i)])
  BY <1>3 DEF EditorTextOf, EditorBlocks
<1>6. EditorTexts(F, C) \in Seq(EditorText) /\ Len(EditorTexts(F, C)) = Len(F)
  BY <1>1, <1>4 DEF EditorTexts
<1> QED
  BY <1>5, <1>6 DEF EditorTexts, EditorLines

\* As long as nothing was typed by hand, what the editor holds is made of sections and of what
\* was chosen for the blocks.
EditorSaving == [path : Conflicted, text : EditorText, of : Conflicted \cup {None}, written : BOOLEAN]
EditorUntouched ==
  /\ disk \in [Conflicted -> EditorText] /\ listed \subseteq Conflicted /\ unmerged \subseteq Conflicted
  /\ active \in Conflicted \cup {None} /\ from \in Conflicted \cup {None}
  /\ reading \in [file : Conflicted, got : Seq(EditorSections) \cup {None}] \cup {None}
  /\ saving \in EditorSaving \cup {None}
  /\ resolved \in EditorText
  /\ file # None => /\ file \in Seq(EditorSections) /\ choices \in EditorChoices(file)
                    /\ resolved = Editor!Join(EditorTexts(file, choices))
EditorInv == typed \in Nat /\ (typed = 0 => EditorUntouched)

\* What the property calls assembled is the texts put together.
LEMMA EditorAssembled == Editor!Assembled = Editor!Join(EditorTexts(file, choices))
<1>1. ASSUME NEW i PROVE Editor!BlockOf(i) = EditorNumber(file, i)
  BY DEF Editor!BlockOf, Editor!Blocks, EditorNumber, EditorBlocks, Cardinality, Editor!Cardinality
<1>2. ASSUME NEW i PROVE Editor!TextOf(i) = EditorTextOf(file, choices, i)
  BY <1>1 DEF Editor!TextOf, Editor!Chosen, EditorTextOf
<1>3. [i \in 1..Len(file) |-> Editor!TextOf(i)] = EditorTexts(file, choices)
  BY <1>2 DEF EditorTexts
<1> QED
  BY <1>3 DEF Editor!Assembled

\* A button of a block puts its text where the one before was, or the text is changed by hand.
LEMMA EditorChooses ==
  ASSUME EditorUntouched, file # None, NEW i \in Editor!Blocks, NEW side \in {"current", "incoming", "both"},
         typed = 0, typed' = 0, Editor!applyChoice(i, side)
  PROVE  /\ choices' \in EditorChoices(file) /\ resolved' \in EditorText
         /\ resolved' = Editor!Join(EditorTexts(file, choices'))
<1> DEFINE b == EditorNumber(file, i)
           F == file
           C == choices
           t == EditorTexts(F, C)
           next == Editor!blockText(F[i], side)
           D == [C EXCEPT ![b] = side]
           u == EditorTexts(F, D)
           prev == Editor!blockText(F[i], C[b])
           expected == Editor!expectedOffset(i)
<1>1. F \in Seq(EditorSections) /\ C \in EditorChoices(F) /\ resolved = Editor!Join(t) /\ resolved \in EditorText
  BY DEF EditorUntouched
<1>2. i \in EditorBlocks(F) /\ i \in 1..Len(F) /\ F[i].kind # "shared"
  BY DEF Editor!Blocks, EditorBlocks
<1>3. b \in 1..Cardinality(EditorBlocks(F)) /\ b = Editor!BlockOf(i)
  BY <1>1, <1>2, EditorNumbers DEF EditorNumber, EditorBlocks, Editor!BlockOf, Editor!Blocks, Cardinality, Editor!Cardinality
<1>4. D \in EditorChoices(F) /\ D[b] = side /\ C[b] \in {"current", "incoming", "both"}
  BY <1>1, <1>3 DEF EditorChoices
<1>5. t \in EditorLines /\ Len(t) = Len(F) /\ t[i] = prev /\ \A j \in 1..Len(F) : t[j] = EditorTextOf(F, C, j)
  <2> HIDE DEF b
  <2>1. /\ t \in EditorLines /\ Len(t) = Len(F) /\ \A j \in 1..Len(F) : t[j] = EditorTextOf(F, C, j)
        /\ \A j \in EditorBlocks(F) : EditorTextOf(F, C, j) = Editor!blockText(F[j], C[EditorNumber(F, j)])
    BY <1>1, EditorTextsAre
  <2> QED
    BY <1>2, <2>1 DEF b
<1>6. u \in EditorLines /\ Len(u) = Len(F) /\ u[i] = next /\ \A j \in 1..Len(F) : u[j] = EditorTextOf(F, D, j)
  <2> HIDE DEF D
  <2>1. /\ u \in EditorLines /\ Len(u) = Len(F) /\ \A j \in 1..Len(F) : u[j] = EditorTextOf(F, D, j)
        /\ \A j \in EditorBlocks(F) : EditorTextOf(F, D, j) = Editor!blockText(F[j], D[EditorNumber(F, j)])
    BY <1>1, <1>4, EditorTextsAre
  <2> QED
    BY <1>2, <1>4, <2>1
<1>7. ASSUME NEW j \in 1..Len(F), j # i PROVE u[j] = t[j]
  <2>1. CASE F[j].kind = "shared"
    BY <1>5, <1>6, <2>1 DEF EditorTextOf
  <2>2. CASE F[j].kind # "shared"
    <3>1. j \in EditorBlocks(F)
      <4>1. F[j] \in EditorSections
        BY <1>1
      <4>2. F[j].kind = "conflict"
        BY <2>2, <4>1 DEF EditorSections
      <4> QED
        BY <4>2 DEF EditorBlocks
    <3>2. EditorNumber(F, j) # b /\ EditorNumber(F, j) \in 1..Cardinality(EditorBlocks(F))
      BY <1>1, <1>2, <1>7, <3>1, EditorNumbers
    <3>3. D[EditorNumber(F, j)] = C[EditorNumber(F, j)]
      BY <1>1, <3>2 DEF EditorChoices
    <3> HIDE DEF D, b
    <3> QED
      BY <1>5, <1>6, <3>3 DEF EditorTextOf
  <2> QED
    BY <2>1, <2>2
<1>8. PICK d : EditorBegins(d, i, t) /\ expected = d[i]
  <2>1. i \in Nat \ {0} /\ Len(F) \in Nat
    BY <1>1, <1>2
  <2>2. ASSUME NEW j \in 1..(i - 1) PROVE t[j] \in EditorText /\ Editor!TextOf(j) = t[j]
    <3>1. j \in 1..Len(F)
      BY <1>2, <2>1
    <3>2. Editor!BlockOf(j) = EditorNumber(F, j)
      BY DEF EditorNumber, EditorBlocks, Editor!BlockOf, Editor!Blocks, Cardinality, Editor!Cardinality
    <3>3. Editor!TextOf(j) = EditorTextOf(F, C, j)
      BY <3>2 DEF EditorTextOf, Editor!TextOf, Editor!Chosen
    <3>4. t[j] \in EditorText
      BY <1>5, <3>1 DEF EditorLines
    <3> QED
      BY <1>5, <3>1, <3>3, <3>4
  <2> HIDE DEF t
  <2> QED
    BY <2>1, <2>2, EditorOffset
<1> HIDE DEF t, u, D, b, next, prev, expected
<1>9. PICK P \in EditorText, R \in EditorText : /\ Editor!Join(t) = P \o t[i] \o R /\ Editor!Join(u) = P \o u[i] \o R
                                        /\ Len(P) = d[i]
  <2>1. i \in 1..Len(t) /\ Len(u) = Len(t) /\ \A j \in 1..Len(t) : j # i => u[j] = t[j]
    BY <1>2, <1>5, <1>6, <1>7
  <2> QED
    BY <1>5, <1>6, <1>8, <2>1, EditorSwap
<1>10. prev \in EditorText /\ next \in EditorText
  <2>1. F[i] \in EditorSections
    BY <1>1, <1>2
  <2> QED
    BY <1>2, <1>4, <2>1, EditorBlockText DEF prev, next
<1>11. /\ resolved = P \o prev \o R /\ Len(P) = expected /\ Editor!Join(u) = P \o next \o R
  BY <1>1, <1>5, <1>6, <1>8, <1>9
<1>12. /\ Len(resolved) = Len(P) + Len(prev) + Len(R)
       /\ SubSeq(resolved, 1, Len(P)) = P /\ SubSeq(resolved, Len(P) + Len(prev) + 1, Len(resolved)) = R
       /\ SubSeq(resolved, Len(P) + 1, Len(P) + Len(prev)) = prev
  <2>1. EditorParts(resolved, P, prev, R)
    BY <1>10, <1>11, EditorSplice
  <2> QED
    BY <2>1 DEF EditorParts
<1>13. Len(P) \in Nat /\ Len(prev) \in Nat /\ Len(R) \in Nat
  BY <1>10 DEF EditorText
<1>14. Editor!Spliced(expected, Len(prev), next) = Editor!Join(u)
  BY <1>11, <1>12 DEF Editor!Spliced
<1>15. expected \in Editor!Occurrences(resolved, prev)
  <2>1. Len(P) \in 0..(Len(resolved) - Len(prev))
    BY <1>12, <1>13
  <2> QED
    BY <1>11, <1>12, <2>1 DEF Editor!Occurrences
<1>16. resolved' = Editor!Spliced(expected, Len(prev), next) /\ choices' = D
  <2>1. \/ /\ prev = <<>>
           /\ Editor!Put(IF expected < Len(resolved) THEN expected ELSE Len(resolved), 0, next)
           /\ choices' = D
        \/ /\ prev # <<>> /\ Editor!Occurrences(resolved, prev) # {}
           /\ Editor!Put(Editor!findNearest(resolved, prev, expected), Len(prev), next)
           /\ choices' = D
        \/ typed' = typed + 1
    BY <1>3, <1>4 DEF Editor!applyChoice, D, prev, next, expected
  <2>2. CASE prev = <<>> /\ choices' = D
             /\ Editor!Put(IF expected < Len(resolved) THEN expected ELSE Len(resolved), 0, next)
    <3>1. Len(prev) = 0 /\ (IF expected < Len(resolved) THEN expected ELSE Len(resolved)) = expected
      BY <1>11, <1>12, <1>13, <2>2
    <3> QED
      BY <2>2, <3>1 DEF Editor!Put
  <2>3. CASE Editor!Put(Editor!findNearest(resolved, prev, expected), Len(prev), next) /\ choices' = D
    <3>1. Editor!findNearest(resolved, prev, expected) = expected
      BY <1>1, <1>10, <1>15, EditorNearest
    <3> QED
      BY <2>3, <3>1 DEF Editor!Put
  <2> QED
    BY <2>1, <2>2, <2>3
<1>17. Editor!Join(u) \in EditorText
  BY <1>6, EditorJoin
<1> QED
  BY <1>4, <1>14, <1>16, <1>17 DEF u

\* One side for every block.
LEMMA EditorSideTexts ==
  ASSUME NEW F \in Seq(EditorSections), NEW side \in {"current", "incoming"}, NEW C,
         C = [k \in 1..Cardinality(EditorBlocks(F)) |-> side]
  PROVE  /\ C \in EditorChoices(F)
         /\ EditorTexts(F, C) = [i \in 1..Len(F) |-> IF F[i].kind = "shared" THEN F[i].text ELSE F[i][side]]
         /\ EditorTexts(F, C) \in EditorLines
<1>1. C \in EditorChoices(F)
  BY DEF EditorChoices
<1>2. ASSUME NEW i \in 1..Len(F)
      PROVE  EditorTextOf(F, C, i) = IF F[i].kind = "shared" THEN F[i].text ELSE F[i][side]
  <2>1. CASE F[i].kind = "shared"
    BY <2>1 DEF EditorTextOf
  <2>2. CASE F[i].kind # "shared"
    <3>1. F[i] \in EditorSections
      OBVIOUS
    <3>2. i \in EditorBlocks(F)
      <4>1. F[i].kind = "conflict"
        BY <2>2, <3>1 DEF EditorSections
      <4> QED
        BY <4>1 DEF EditorBlocks
    <3>3. C[EditorNumber(F, i)] = side
      BY <3>2, EditorNumbers
    <3>4. EditorTextOf(F, C, i) = Editor!blockText(F[i], side)
      BY <1>1, <3>2, <3>3, EditorTextsAre
    <3>5. F[i][side] = Editor!blockText(F[i], side)
      BY <2>2, <3>1, EditorBlockText
    <3> QED
      BY <2>2, <3>4, <3>5
  <2> QED
    BY <2>1, <2>2
<1>3. EditorTexts(F, C) = [i \in 1..Len(F) |-> IF F[i].kind = "shared" THEN F[i].text ELSE F[i][side]]
  BY <1>2 DEF EditorTexts
<1> QED
  BY <1>1, <1>3, EditorTextsAre

\* What the editor holds is of its own texts, whatever is done with it.
LEMMA EditorLoads ==
  ASSUME EditorUntouched, Editor!Load
  PROVE  EditorUntouched'
<1> DEFINE F == file'
           C == choices'
<1>1. reading \in [file : Conflicted, got : Seq(EditorSections) \cup {None}] /\ reading.got \in Seq(EditorSections)
  BY DEF EditorUntouched, Editor!Load
<1>2. F \in Seq(EditorSections) /\ from' \in Conflicted
  BY <1>1 DEF Editor!Load
<1>3. C = [k \in 1..Cardinality(EditorBlocks(F)) |-> "current"]
  BY DEF Editor!Load, Editor!Blocks, EditorBlocks, Cardinality, Editor!Cardinality
<1>4. resolved' = Editor!Join([i \in 1..Len(F) |-> IF F[i].kind = "shared" THEN F[i].text ELSE F[i].current])
  BY DEF Editor!Load, Editor!Mapped
<1> HIDE DEF F, C
<1>5. /\ C \in EditorChoices(F) /\ EditorTexts(F, C) \in EditorLines
      /\ EditorTexts(F, C) = [i \in 1..Len(F) |-> IF F[i].kind = "shared" THEN F[i].text ELSE F[i].current]
  <2>1. /\ C \in EditorChoices(F) /\ EditorTexts(F, C) \in EditorLines
        /\ EditorTexts(F, C) = [i \in 1..Len(F) |-> IF F[i].kind = "shared" THEN F[i].text ELSE F[i]["current"]]
    BY <1>2, <1>3, EditorSideTexts
  <2> QED
    BY <2>1
<1>6. resolved' = Editor!Join(EditorTexts(F, C)) /\ resolved' \in EditorText
  <2>1. resolved' = Editor!Join(EditorTexts(F, C))
    BY <1>4, <1>5
  <2> QED
    BY <1>5, <2>1, EditorJoin
<1>7. F \in Seq(EditorSections) /\ C \in EditorChoices(F) /\ resolved' = Editor!Join(EditorTexts(F, C))
  BY <1>2, <1>5, <1>6
<1> USE DEF F, C
<1>8. /\ reading' = None /\ disk' = disk /\ listed' = listed /\ unmerged' = unmerged /\ active' = active
      /\ saving' = saving
  BY DEF Editor!Load
<1> QED
  BY <1>2, <1>6, <1>7, <1>8 DEF EditorUntouched, EditorSaving

\* Taking a side for all blocks, a button of one of them, or a change by hand.
LEMMA EditorEdits ==
  ASSUME EditorUntouched, typed = 0, typed' = 0, Editor!Edit
  PROVE  EditorUntouched'
<1>1. /\ file # None /\ file' = file /\ reading' = reading /\ disk' = disk /\ listed' = listed
      /\ unmerged' = unmerged /\ active' = active /\ saving' = saving /\ from' = from
  BY DEF Editor!Edit
<1>2. choices' \in EditorChoices(file) /\ resolved' \in EditorText /\ resolved' = Editor!Join(EditorTexts(file, choices'))
  <2>1. ASSUME NEW i \in Editor!Blocks, NEW side \in Editor!Choice \ {"custom"}, Editor!applyChoice(i, side)
        PROVE  choices' \in EditorChoices(file) /\ resolved' \in EditorText /\ resolved' = Editor!Join(EditorTexts(file, choices'))
    <3>1. side \in {"current", "incoming", "both"}
      BY DEF Editor!Choice, Editor!Sides
    <3> QED
      BY <1>1, <2>1, <3>1, EditorChooses
  <2>2. ASSUME NEW side \in Editor!Sides, Editor!takeAll(side)
        PROVE  choices' \in EditorChoices(file) /\ resolved' \in EditorText /\ resolved' = Editor!Join(EditorTexts(file, choices'))
    <3> DEFINE F == file
               C == choices'
    <3>1. F \in Seq(EditorSections)
      BY <1>1 DEF EditorUntouched
    <3>2. side \in {"current", "incoming"}
      BY DEF Editor!Sides
    <3>3. C = [k \in 1..Cardinality(EditorBlocks(F)) |-> side]
      BY <2>2 DEF Editor!takeAll, Editor!Blocks, EditorBlocks, Cardinality, Editor!Cardinality
    <3>4. resolved' = Editor!Join([i \in 1..Len(F) |-> IF F[i].kind = "shared" THEN F[i].text ELSE F[i][side]])
      BY <2>2 DEF Editor!takeAll, Editor!Mapped
    <3> HIDE DEF F, C
    <3>5. /\ C \in EditorChoices(F) /\ EditorTexts(F, C) \in EditorLines
          /\ EditorTexts(F, C) = [i \in 1..Len(F) |-> IF F[i].kind = "shared" THEN F[i].text ELSE F[i][side]]
      BY <3>1, <3>2, <3>3, EditorSideTexts
    <3>6. resolved' = Editor!Join(EditorTexts(F, C))
      BY <3>4, <3>5
    <3>7. resolved' \in EditorText
      BY <3>5, <3>6, EditorJoin
    <3> QED
      BY <3>5, <3>6, <3>7 DEF F, C
  <2>3. ~Editor!Type
    BY DEF Editor!Type
  <2> QED
    BY <2>1, <2>2, <2>3 DEF Editor!Edit
<1> QED
  BY <1>1, <1>2 DEF EditorUntouched, EditorSaving

\* Whatever else is done opens, reads, saves or closes.
EditorSame == /\ disk' = disk /\ listed' = listed /\ unmerged' = unmerged /\ active' = active /\ reading' = reading
              /\ saving' = saving /\ file' = file /\ resolved' = resolved /\ choices' = choices /\ from' = from
EditorClosed == active' = None /\ reading' = None /\ file' = None /\ resolved' = <<>> /\ from' = None
LEMMA EditorHandles ==
  ASSUME EditorUntouched, Editor!Next, ~Editor!Load, ~Editor!Edit
  PROVE  EditorUntouched'
<1> USE DEF EditorUntouched
<1>1. <<>> \in EditorText
  BY DEF EditorText
<1>2. ASSUME EditorSame PROVE EditorUntouched'
  BY <1>2 DEF EditorSame, EditorSaving
<1>3. ASSUME NEW x \in Conflicted, Editor!Open(x) PROVE EditorUntouched'
  <2>1. /\ active' = x /\ x \in Conflicted /\ reading' = [file |-> x, got |-> None] /\ disk' = disk
        /\ listed' = listed /\ unmerged' = unmerged /\ saving' = saving
    BY <1>3 DEF Editor!Open
  <2>2. reading' \in [file : Conflicted, got : Seq(EditorSections) \cup {None}]
    BY <2>1
  <2>3. CASE file' = None /\ resolved' = <<>> /\ from' = None
    BY <1>1, <2>1, <2>2, <2>3 DEF EditorSaving
  <2>4. CASE file' = file /\ resolved' = resolved /\ choices' = choices /\ from' = from
    BY <2>1, <2>2, <2>4 DEF EditorSaving
  <2> QED
    BY <1>3, <2>3, <2>4 DEF Editor!Open, Editor!Blank, Editor!editor
<1>4. ASSUME NEW x \in Conflicted, Editor!Staged(x) PROVE EditorUntouched'
  <2>1. /\ disk' = disk /\ listed' = listed /\ active' = active /\ reading' = reading /\ saving' = saving
        /\ file' = file /\ resolved' = resolved /\ choices' = choices /\ from' = from
        /\ unmerged' \subseteq unmerged
    BY <1>4 DEF Editor!Staged, Editor!editor
  <2> QED
    BY <2>1 DEF EditorSaving
<1>5. ASSUME Editor!doSave, active # None PROVE EditorUntouched'
  <2>1. /\ disk' = disk /\ listed' = listed /\ unmerged' = unmerged /\ active' = active /\ reading' = reading
        /\ file' = file /\ resolved' = resolved /\ choices' = choices /\ from' = from
        /\ saving' = [path |-> active, text |-> resolved, of |-> from, written |-> FALSE]
    BY <1>5 DEF Editor!doSave
  <2>2. saving' \in EditorSaving
    BY <1>5, <2>1 DEF EditorSaving
  <2> QED
    BY <2>1, <2>2
<1>6. CASE Editor!handleSave
  <2>1. active # None /\ (EditorSame \/ Editor!doSave)
    BY <1>6 DEF Editor!handleSave, EditorSame
  <2> QED
    BY <1>2, <1>5, <2>1
<1>7. CASE Editor!SaveAnyway
  BY <1>5, <1>7 DEF Editor!SaveAnyway
<1>8. CASE Editor!Dismiss
  <2>1. EditorSame
    BY <1>8 DEF Editor!Dismiss, EditorSame
  <2> QED
    BY <1>2, <2>1
<1>9. CASE Editor!ReadFile
  <2>1. /\ reading \in [file : Conflicted, got : Seq(EditorSections) \cup {None}]
        /\ reading' = [reading EXCEPT !.got = Editor!getConflictFile(disk[reading.file])]
        /\ disk' = disk /\ listed' = listed /\ unmerged' = unmerged /\ active' = active /\ saving' = saving
        /\ file' = file /\ resolved' = resolved /\ choices' = choices /\ from' = from
    BY <1>9 DEF Editor!ReadFile, Editor!editor
  <2> DEFINE got == Editor!getConflictFile(disk[reading.file])
  <2>2. reading.file \in Conflicted /\ disk[reading.file] \in EditorText
    BY <2>1
  <2>3. got \in Seq(EditorSections)
    BY <2>2, EditorReads
  <2> HIDE DEF got
  <2>4. reading' = [file |-> reading.file, got |-> got]
    BY <2>1 DEF got
  <2>5. reading' \in [file : Conflicted, got : Seq(EditorSections) \cup {None}]
    BY <2>2, <2>3, <2>4
  <2> QED
    BY <2>1, <2>5 DEF EditorSaving
<1>10. CASE Editor!Write
  <2>1. /\ saving \in EditorSaving /\ disk' = [disk EXCEPT ![saving.path] = saving.text]
        /\ saving' = [saving EXCEPT !.written = TRUE]
        /\ listed' = listed /\ unmerged' = unmerged /\ active' = active /\ reading' = reading
        /\ file' = file /\ resolved' = resolved /\ choices' = choices /\ from' = from
    BY <1>10 DEF Editor!Write, Editor!editor
  <2>2. saving' \in EditorSaving /\ disk' \in [Conflicted -> EditorText]
    BY <2>1 DEF EditorSaving
  <2> QED
    BY <2>1, <2>2
<1>11. ASSUME EditorClosed, disk' = disk, listed' \subseteq Conflicted, unmerged' \subseteq Conflicted,
              saving' \in EditorSaving \cup {None}
       PROVE  EditorUntouched'
  BY <1>1, <1>11 DEF EditorClosed, EditorSaving
<1>12. CASE Editor!MarkResolved
  <2>1. EditorClosed /\ disk' = disk /\ listed' = listed /\ unmerged' \subseteq unmerged /\ saving' = None
    BY <1>12 DEF Editor!MarkResolved, Editor!Close, Editor!Blank, EditorClosed
  <2> QED
    BY <1>11, <2>1
<1>13. CASE Editor!CloseEditor
  <2>1. EditorClosed /\ disk' = disk /\ listed' = listed /\ unmerged' = unmerged /\ saving' = saving
    BY <1>13 DEF Editor!CloseEditor, Editor!Close, Editor!Blank, EditorClosed
  <2> QED
    BY <1>11, <2>1
<1>14. CASE Editor!Refresh
  <2>1. listed' = unmerged /\ disk' = disk /\ unmerged' = unmerged /\ saving' = saving
    BY <1>14 DEF Editor!Refresh
  <2>2. CASE EditorClosed
    BY <1>11, <2>1, <2>2
  <2>3. CASE /\ active' = active /\ reading' = reading /\ file' = file /\ resolved' = resolved
             /\ choices' = choices /\ from' = from
    BY <2>1, <2>3 DEF EditorSaving
  <2> QED
    BY <1>14, <2>2, <2>3 DEF Editor!Refresh, Editor!Close, Editor!Blank, Editor!editor, EditorClosed
<1> HIDE DEF EditorUntouched
<1> QED
  BY <1>3, <1>4, <1>6, <1>7, <1>8, <1>9, <1>10, <1>12, <1>13, <1>14 DEF Editor!Next, Editor!Answers

\* What is typed is never forgotten.
LEMMA EditorTyped ==
  ASSUME Editor!Next, typed \in Nat
  PROVE  typed' \in Nat /\ (typed' = 0 => typed = 0)
<1>1. ASSUME NEW x \in Conflicted, Editor!Open(x) \/ Editor!Staged(x) PROVE typed' = typed
  BY <1>1 DEF Editor!Open, Editor!Staged
<1>2. ASSUME Editor!Load \/ Editor!handleSave \/ Editor!SaveAnyway \/ Editor!Dismiss PROVE typed' = typed
  BY <1>2 DEF Editor!Load, Editor!handleSave, Editor!SaveAnyway, Editor!Dismiss, Editor!doSave
<1>3. ASSUME Editor!Answers \/ Editor!CloseEditor \/ Editor!Refresh PROVE typed' = typed
  BY <1>3 DEF Editor!Answers, Editor!ReadFile, Editor!Write, Editor!MarkResolved, Editor!CloseEditor, Editor!Refresh,
              Editor!Close
<1>4. ASSUME Editor!Edit PROVE typed' \in {typed, typed + 1}
  <2>1. ASSUME NEW i, NEW side, Editor!applyChoice(i, side) PROVE typed' \in {typed, typed + 1}
    BY <2>1 DEF Editor!applyChoice
  <2>2. ASSUME NEW side, Editor!takeAll(side) PROVE typed' \in {typed, typed + 1}
    BY <2>2 DEF Editor!takeAll
  <2>3. ASSUME Editor!Type PROVE typed' \in {typed, typed + 1}
    BY <2>3 DEF Editor!Type
  <2> QED
    BY <1>4, <2>1, <2>2, <2>3 DEF Editor!Edit
<1> QED
  BY <1>1, <1>2, <1>3, <1>4 DEF Editor!Next

\* No step of the view breaks the invariant.
LEMMA EditorStep ==
  ASSUME EditorInv, [Step]_<<focus, vars, historyVars, labelsVars, viewVars, formVars, panesVars, stagingVars, editorVars>>
  PROVE  EditorInv'
<1>1. CASE Editor!Next
  <2>1. typed' \in Nat /\ (typed' = 0 => typed = 0)
    BY <1>1, EditorTyped DEF EditorInv
  <2>2. ASSUME typed' = 0 PROVE EditorUntouched'
    <3>1. typed = 0 /\ EditorUntouched
      BY <2>1, <2>2 DEF EditorInv
    <3> QED
      BY <1>1, <2>2, <3>1, EditorLoads, EditorEdits, EditorHandles
  <2> QED
    BY <2>1, <2>2 DEF EditorInv
<1>2. CASE UNCHANGED editorVars
  <2>1. EditorSame /\ typed' = typed
    BY <1>2 DEF editorVars, EditorSame
  <2>2. EditorUntouched => EditorUntouched'
    BY <2>1 DEF EditorSame, EditorUntouched, EditorSaving
  <2> QED
    BY <2>1, <2>2 DEF EditorInv
<1> QED
  BY <1>1, <1>2 DEF Step

\* Conflicts: as long as nothing was typed by hand, what is about to be saved is the shared text with what
\* was chosen last for every block, whatever the file, in whatever order the buttons were pressed.
THEOREM ButtonsAssemble == SideBySide => []PressesAssemble
<1>1. Start => EditorInv
  <2> SUFFICES ASSUME Start PROVE EditorInv
    OBVIOUS
  <2>1. Editor!Init
    BY DEF Start
  <2>2. /\ truth \in [Conflicted -> Merged] /\ disk = [x \in Conflicted |-> Editor!WithMarkers(truth[x])]
        /\ unmerged = Conflicted /\ listed = Conflicted /\ active = None /\ reading = None /\ file = None
        /\ resolved = <<>> /\ from = None /\ typed = 0 /\ saving = None
    BY <2>1 DEF Editor!Init
  <2>3. \A x \in Conflicted : Editor!WithMarkers(truth[x]) \in EditorText
    BY <2>2, EditorMarked
  <2>4. disk \in [Conflicted -> EditorText]
    BY <2>2, <2>3
  <2>5. <<>> \in EditorText
    BY DEF EditorText
  <2> QED
    BY <2>2, <2>4, <2>5 DEF EditorInv, EditorUntouched
<1>2. EditorInv => PressesAssemble
  <2> SUFFICES ASSUME EditorInv, file # None, typed = 0 PROVE resolved = Editor!Assembled
    BY DEF PressesAssemble, Editor!PressesAssemble
  <2> QED
    BY EditorAssembled DEF EditorInv, EditorUntouched
<1>3. EditorInv /\ [Step]_<<focus, vars, historyVars, labelsVars, viewVars, formVars, panesVars, stagingVars, editorVars>>
        => EditorInv'
  BY EditorStep
<1> QED
  BY <1>1, <1>2, <1>3, PTL DEF SideBySide
=============================================================================
