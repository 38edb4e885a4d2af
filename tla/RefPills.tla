------------------------------- MODULE RefPills -------------------------------
(***************************************************************************)
(* The refs of a commit as the window shows them and acts on them: git's        *)
(* decoration as parseRawLog reads it (src/main/git-service.ts), the pills of    *)
(* the graph (lib/refs.ts, lib/refFilter.ts, GraphView.tsx) with the kinds that   *)
(* can be hidden (hooks/useRefVisibility.ts), the rows of the sidebar            *)
(* (Sidebar.tsx), and what their menus and drags hand to App.tsx.               *)
(*                                                                         *)
(* A ref is the sequence of its segments: <<"feature", "x">> is a local branch  *)
(* unless "feature" is a remote. Left out: colours, tooltips, scrolling, and     *)
(* what the operations then do (modules WorkingCopy and Branches).             *)
(***************************************************************************)
EXTENDS Integers, Sequences, SequencesExt, FiniteSets

CONSTANTS Locals,      \* local branches
          Remotes,     \* names of remotes
          Tracked,     \* remote-tracking refs, aliases <<remote, "HEAD">> among them
          Others,      \* tags, mirrored changes and patch sets, refs/stash
          MaxRefs      \* bound: refs on a commit, apart from HEAD and its branch

VARIABLES commit,      \* the decorated commit: where HEAD is if it is here, and the other refs in order
          outdated,    \* Gerrit mode: it is an older patch set of an open change
          away,        \* local branches at other commits
          worktrees,   \* branches checked out in other worktrees
          visibility,  \* kind of pill -> whether it is drawn
          stored,      \* the same in localStorage; an older version has not stored every kind
          action       \* history: the last menu or drag since, on the pill of what, and the name it used

vars == <<commit, outdated, away, worktrees, visibility, stored, action>>

Kinds == {"local", "remote", "tags", "gerrit"}
HEAD == <<"HEAD">>
Detached == <<"HEAD (detached)">>
Standalone == <<"HEAD_standalone">>
Nowhere == <<>>
IsTag(r) == r[1] = "tag: "
IsChange(r) == r[1] = "change"
IsOlder(r) == r[1] \in {"patchset", "outdated"}
Refs == Locals \cup Tracked \cup Others

-----------------------------------------------------------------------------
(* The decoration *)

\* %D: "HEAD -> main" is split in two, "HEAD" of a detached one stands alone.
parseRawLog(c) ==
  CASE c.head = Nowhere -> c.refs
    [] c.head = Detached -> <<HEAD>> \o c.refs
    [] OTHER -> <<HEAD, c.head>> \o c.refs
\* A marker for an older patch set, unless its own ref is here.
displayRefs ==
  LET refs == parseRawLog(commit)
  IN IF outdated /\ \A i \in DOMAIN refs : refs[i][1] # "patchset"
     THEN Append(refs, <<"outdated", "1">>) ELSE refs

-----------------------------------------------------------------------------
(* Pills *)

isRemoteRef(r) == Len(r) > 1 /\ r[1] \in Remotes
branchBaseName(r) == IF isRemoteRef(r) THEN Tail(r) ELSE r

\* What HEAD points to, as the decoration tells: the name of the first branch behind it, which
\* for the alias of a remote's default branch is HEAD.
HeadTarget(refs) ==
  LET after == {i \in DOMAIN refs : /\ \E h \in 1..(i - 1) : refs[h] = HEAD
                                    /\ ~IsTag(refs[i]) /\ ~IsChange(refs[i]) /\ ~IsOlder(refs[i])}
  IN IF HEAD \notin ToSet(refs) THEN Nowhere
     ELSE IF after = {} THEN Standalone
     ELSE branchBaseName(refs[CHOOSE i \in after : \A j \in after : i <= j])

IsAlias(r) == r[Len(r)] = "HEAD"
\* Branches of one name share a pill, everything else has its own.
KeyOf(r) == IF IsTag(r) \/ IsChange(r) \/ IsOlder(r) THEN r ELSE branchBaseName(r)
Mine(refs, key) == {r \in ToSet(refs) : ~IsAlias(r) /\ KeyOf(r) = key}
\* The one of them that git lists first.
FirstOf(refs, mine) ==
  refs[CHOOSE i \in DOMAIN refs : refs[i] \in mine /\ \A j \in DOMAIN refs : refs[j] \in mine => i <= j]
Group(refs, key) ==
  LET mine == Mine(refs, key)
      plain == IsTag(key) \/ IsChange(key) \/ IsOlder(key)
  IN [name |-> key,
      isHead |-> ~plain /\ key = HeadTarget(refs),
      hasLocal |-> ~plain /\ \E r \in mine : ~isRemoteRef(r),
      hasRemote |-> ~plain /\ \E r \in mine : isRemoteRef(r),
      isTag |-> IsTag(key), isGerritChange |-> IsChange(key) \/ IsOlder(key),
      hasWorktree |-> ~plain /\ key \in worktrees,
      tooltip |-> mine, first |-> FirstOf(refs, mine)]
DetachedHead ==
  [name |-> HEAD, isHead |-> TRUE, hasLocal |-> FALSE, hasRemote |-> FALSE, isTag |-> FALSE,
   isGerritChange |-> FALSE, hasWorktree |-> FALSE, tooltip |-> {Detached},
   first |-> Detached]
groupRefs(refs) ==
  {Group(refs, KeyOf(r)) : r \in {q \in ToSet(refs) : ~IsAlias(q)}}
  \cup (IF HeadTarget(refs) = Standalone THEN {DetachedHead} ELSE {})

\* Mutant: a pill is drawn only while every kind it stands for is.
AllKindsOn(g) ==
  IF g.isTag THEN visibility["tags"]
  ELSE IF g.isGerritChange THEN visibility["gerrit"]
  ELSE /\ g.hasLocal => visibility["local"]
       /\ g.hasRemote => visibility["remote"]
       /\ g.hasLocal \/ g.hasRemote \/ visibility["local"]
isRefGroupVisible(g) ==
  IF g.isTag THEN visibility["tags"]
  ELSE IF g.isGerritChange THEN visibility["gerrit"]
  ELSE \/ g.hasLocal /\ visibility["local"]
       \/ g.hasRemote /\ visibility["remote"]
       \/ ~g.hasLocal /\ ~g.hasRemote /\ visibility["local"]
Pills == {g \in groupRefs(displayRefs) : isRefGroupVisible(g)}
\* The one that stands for the others where there is room for one: HEAD, a local branch, a tag.
pickPrimaryRefGroup(groups) ==
  LET rank(g) == IF g.isHead THEN 1 ELSE IF g.hasLocal THEN 2 ELSE IF g.isTag THEN 3 ELSE 4
  IN {g \in groups : \A h \in groups : rank(g) <= rank(h)}

-----------------------------------------------------------------------------
(* Acting on them *)

\* The local branch, or the first of the remote ones.
refName(g) == IF g.isTag \/ g.hasLocal THEN g.name ELSE g.first
kindOf(g) == IF g.isTag THEN "tag" ELSE IF g.hasRemote /\ ~g.hasLocal THEN "remote" ELSE "local"

Idle == [kind |-> "none", of |-> {}, name |-> Nowhere]
Acts(kind, of, name) == action' = [kind |-> kind, of |-> of, name |-> name]
handleRefContextMenu(g) ==
  /\ ~g.isGerritChange
  /\ Acts("menu", g.tooltip, refName(g))
  /\ UNCHANGED <<commit, outdated, away, worktrees, visibility, stored>>
\* A row of the sidebar: the alias of a remote's default branch has none.
groupRemoteBranches == {r \in Tracked : ~IsAlias(r)}
Rows == Locals \cup groupRemoteBranches

\* Dropped on a branch, of the graph or the sidebar. Names without their remote go to git.
runDragAction(g) ==
  /\ ~g.isTag /\ ~g.isGerritChange
  /\ \E target \in Rows : target # refName(g)
  /\ Acts("drag", g.tooltip, branchBaseName(refName(g)))
  /\ UNCHANGED <<commit, outdated, away, worktrees, visibility, stored>>

\* "Merge current branch into ...": a ref that is not HEAD, a tag or of a remote, or else what a
\* remote one would be checked out as.
BranchRefs == {r \in ToSet(displayRefs) : r # HEAD /\ ~IsTag(r)}
LocalBranch ==
  IF \E r \in BranchRefs : ~isRemoteRef(r) THEN {r \in BranchRefs : ~isRemoteRef(r)}
  ELSE {branchBaseName(r) : r \in BranchRefs}
handleCommitContextMenu(b) ==
  /\ b \in LocalBranch
  /\ Acts("merge into", ToSet(displayRefs), b)
  /\ UNCHANGED <<commit, outdated, away, worktrees, visibility, stored>>

-----------------------------------------------------------------------------
(* What is drawn, kept between launches *)

toggleKind(k) ==
  /\ visibility' = [visibility EXCEPT ![k] = ~@] /\ stored' = visibility'
  /\ action' = Idle
  /\ UNCHANGED <<commit, outdated, away, worktrees>>
normalizeRefVisibility(raw) == [k \in Kinds |-> IF k \in DOMAIN raw THEN raw[k] ELSE TRUE]
Relaunch ==
  /\ visibility' = normalizeRefVisibility(stored) /\ stored' = visibility'
  /\ action' = Idle
  /\ UNCHANGED <<commit, outdated, away, worktrees>>

-----------------------------------------------------------------------------

\* Refs of one commit, each once; HEAD's branch is one of the local ones.
Decorations ==
  {c \in [head : Locals \cup {Nowhere, Detached},
          refs : UNION {[1..n -> Refs] : n \in 0..MaxRefs}] :
     /\ IsInjective(c.refs) /\ c.head \notin ToSet(c.refs)}
Init ==
  /\ commit \in Decorations
  /\ outdated \in BOOLEAN
  /\ away = Locals \ (ToSet(commit.refs) \cup {commit.head})
  /\ worktrees = Locals \ {commit.head}
  /\ stored \in {[k \in Kinds |-> TRUE], [k \in Kinds \ {"gerrit"} |-> TRUE]}
  /\ visibility = normalizeRefVisibility(stored)
  /\ action = Idle

\* The labels of the toolbar's menu of refs.
RefsToggle == \E k \in Kinds : toggleKind(k)
Next ==
  \/ RefsToggle
  \/ Relaunch
  \/ \E g \in Pills : handleRefContextMenu(g) \/ runDragAction(g)
  \/ \E b \in LocalBranch : handleCommitContextMenu(b)

Spec == Init /\ [][Next]_vars

-----------------------------------------------------------------------------

\* Every ref of a commit, in whatever order git lists them, has one pill, drawn as long as a kind
\* of it is; none is drawn without one; of several refs one pill stands for the one its menu
\* names, the local branch first (lib/refs.ts:107-111, lib/refFilter.ts:43-53). HEAD is told: of a
\* branch by that branch's pill and no other, of none by a pill of its own if no branch is here.
PillsTellTheRefs ==
  LET refs == displayRefs
      pills == Pills
      Kind(r) == IF IsTag(r) THEN "tags" ELSE IF IsChange(r) \/ IsOlder(r) THEN "gerrit"
                 ELSE IF isRemoteRef(r) THEN "remote" ELSE "local"
      shown == {r \in ToSet(refs) : ~IsAlias(r)}
      Of(r) == {g \in pills : r \in g.tooltip}
  IN /\ \A r \in shown : Cardinality(Of(r)) <= 1 /\ (visibility[Kind(r)] => Of(r) # {})
     /\ \A g \in pills :
          \/ g = DetachedHead /\ visibility["local"]
          \/ /\ \E r \in g.tooltip : visibility[Kind(r)]
             /\ refName(g) \in shown
             /\ kindOf(g) = "remote" <=> \A r \in g.tooltip : Kind(r) = "remote"
     /\ pills # {} => pickPrimaryRefGroup(pills) # {}
     /\ commit.head \in Locals => \A g \in pills : g.isHead <=> commit.head \in g.tooltip
     /\ (commit.head = Detached /\ visibility["local"]
         /\ \A i \in DOMAIN commit.refs : Kind(commit.refs[i]) \in {"tags", "gerrit"})
        => DetachedHead \in pills

\* Refuted: "If HEAD was standalone (detached), add a HEAD group" (lib/refs.ts:227): before
\* origin/HEAD, which has no pill, a detached HEAD is taken for that, and nothing shows it.
HeadHasAPill ==
  commit.head # Nowhere /\ visibility["local"] => \E g \in Pills : g.isHead

\* Refuted: "HEAD always appears right before the branch it points to" (lib/refs.ts:122-123): a
\* detached HEAD stands before whatever branch git lists next.
HeadIsOnIt == \A g \in Pills : g.isHead /\ g # DetachedHead => commit.head = g.name

\* Refuted: "Prefer a local branch — can be checked out directly" (App.tsx:1193): the mirrored
\* changes and refs/stash count as local branches.
MergesIntoABranch ==
  action.kind = "merge into" =>
    action.name \in Locals \cup {branchBaseName(r) : r \in Tracked}

\* Refuted: a dragged pill acts on the commit it labels ("Normalize remote refs to their tracking
\* branch name", App.tsx:967): the local branch of that name may be elsewhere, or may be missing.
DragsWhatItLabels == action.kind = "drag" => action.name \notin away

TypeOK ==
  /\ visibility \in [Kinds -> BOOLEAN] /\ DOMAIN stored \subseteq Kinds
  /\ away \subseteq Locals /\ worktrees \subseteq Locals /\ outdated \in BOOLEAN
==============================================================================
