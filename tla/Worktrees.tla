------------------------------ MODULE Worktrees ------------------------------
(***************************************************************************)
(* The worktrees of one repository: git's own (`git worktree`), the dialog that *)
(* manages them (Worktrees.tsx) and the sidebar's menu with its dialog (App.tsx).*)
(*                                                                         *)
(* git refuses to remove a worktree with changes unless it is forced, to check   *)
(* one branch out twice, and to use a folder that is there. A path is known by    *)
(* the branch it is derived from (worktree-path.ts), or typed by hand.          *)
(***************************************************************************)
EXTENDS Naturals, FiniteSets

CONSTANTS Main,                    \* the path of the main worktree
          Paths, BranchNames,
          None, MaxTurns            \* bound: clicks and commands from outside

VARIABLES trees,       \* linked worktrees: path -> [branch, dirty]
          branches,    \* local branches
          here,        \* repoPath
          open,        \* the dialog: mounted or not
          list,        \* the linked worktrees it shows
          loads,       \* reads of the list under way: [by, answer], the answer None before git's
          removing, confirmForce,
          form,        \* newBranch and newPath as typed, or None
          pending,     \* pendingWorktree, behind the dialog of the sidebar's menu
          jobs,        \* removals under way: [path, force, by]; by "gone" once the dialog is closed
          read,        \* history: the path the menu's dialog named when it came up
          wiped,       \* history: forced removals, [asked, done]
          turns

dialog == <<open, list, loads, removing, confirmForce, form>>
git == <<trees, branches>>
vars == <<trees, branches, here, open, list, loads, removing, confirmForce, form, pending, jobs,
          read, wiped, turns>>

Turn == turns < MaxTurns /\ turns' = turns + 1
linked == DOMAIN trees
Load(by) == [by |-> by, answer |-> None]
\* The answers to a dialog that is gone change nothing on screen.
Orphaned(js) == {IF j.by = "dialog" THEN [j EXCEPT !.by = "gone"] ELSE j : j \in js}

-----------------------------------------------------------------------------
(* git worktree *)

\* An existing branch is checked out, any other is made first, and stays where the rest fails.
addWorktree(path, branch) ==
  LET exists == branch \in branches
      out == \E p \in linked : trees[p].branch = branch
      ok == path \notin linked \cup {Main} /\ ~(exists /\ out)
  IN /\ branches' = branches \cup {branch}
     /\ trees' = IF ok THEN [p \in linked \cup {path} |->
                              IF p = path THEN [branch |-> branch, dirty |-> FALSE] ELSE trees[p]]
                 ELSE trees
\* Mutant: IPC forces every removal.
ForcesAlways(path, force) == path \notin linked
Refuses(path, force) == path \notin linked \/ (trees[path].dirty /\ ~force)
removeWorktree(path, force) ==
  trees' = IF Refuses(path, force) THEN trees ELSE [p \in linked \ {path} |-> trees[p]]

-----------------------------------------------------------------------------
(* The dialog *)

OpenDialog ==
  /\ Turn /\ ~open /\ pending = None /\ open' = TRUE
  /\ list' = {} /\ loads' = {Load("mount")} /\ removing' = None /\ confirmForce' = None /\ form' = None
  /\ UNCHANGED <<git, here, pending, jobs, read, wiped>>
CloseDialog ==
  /\ Turn /\ open /\ open' = FALSE /\ loads' = {} /\ jobs' = Orphaned(jobs)
  /\ UNCHANGED <<git, here, list, removing, confirmForce, form, pending, read, wiped>>
getWorktrees(l) ==
  /\ l \in loads /\ l.answer = None /\ loads' = (loads \ {l}) \cup {[l EXCEPT !.answer = linked]}
  /\ UNCHANGED <<git, here, open, list, removing, confirmForce, form, pending, jobs, read, wiped, turns>>
\* What asked for it waits for it: the spinner of a removal goes, the Add button is enabled.
load(l) ==
  /\ l \in loads /\ l.answer # None /\ loads' = loads \ {l} /\ list' = l.answer
  /\ removing' = IF l.by = "remove" THEN None ELSE removing
  /\ UNCHANGED <<git, here, open, confirmForce, form, pending, jobs, read, wiped, turns>>

\* The path follows the branch until it is typed; both are required.
handleAdd(path, branch) ==
  /\ Turn /\ open /\ ~\E l \in loads : l.by = "add"
  /\ addWorktree(path, branch)
  /\ IF trees' = trees THEN form' = <<path, branch>> /\ UNCHANGED loads
     ELSE form' = None /\ loads' = loads \cup {Load("add")}
  /\ UNCHANGED <<here, open, list, removing, confirmForce, pending, jobs, read, wiped>>

\* Mutant: the prompt about an earlier worktree stays.
PromptStays(path) == confirmForce
PromptAfter(path) == None
\* Every row but the main one has the button, which is disabled while a removal is under way.
handleRemove(path) ==
  /\ Turn /\ open /\ removing = None /\ path \in list
  /\ confirmForce' = PromptAfter(path) /\ removing' = path
  /\ jobs' = jobs \cup {[path |-> path, force |-> FALSE, by |-> "dialog"]}
  /\ UNCHANGED <<git, here, open, list, loads, form, pending, read, wiped>>
handleForceRemove ==
  /\ Turn /\ open /\ confirmForce # None
  /\ confirmForce' = None /\ removing' = confirmForce
  /\ jobs' = jobs \cup {[path |-> confirmForce, force |-> TRUE, by |-> "dialog"]}
  /\ wiped' = [wiped EXCEPT !.asked = @ \cup {confirmForce}]
  /\ UNCHANGED <<git, here, open, list, loads, form, pending, read>>
Cancel ==
  /\ Turn /\ confirmForce # None /\ open /\ confirmForce' = None
  /\ UNCHANGED <<git, here, open, list, loads, removing, form, pending, jobs, read, wiped>>
\* Main opens it, then the tab follows and the dialog closes; a path that is gone is an error.
handleSwitch(path) ==
  /\ Turn /\ open /\ path \in list \cup {Main} /\ path # here
  /\ IF path \in linked \cup {Main}
     THEN /\ here' = path /\ open' = FALSE /\ loads' = {}
          /\ jobs' = Orphaned(jobs)
     ELSE UNCHANGED <<here, open, loads, jobs>>
  /\ UNCHANGED <<git, list, removing, confirmForce, form, pending, read, wiped>>

-----------------------------------------------------------------------------
(* The sidebar's menu, and the answers *)

\* Disabled for the main worktree and the open one.
RemoveFromMenu(path) ==
  /\ Turn /\ ~open /\ pending = None /\ path \in linked /\ path # here
  /\ jobs' = jobs \cup {[path |-> path, force |-> FALSE, by |-> "menu"]}
  /\ UNCHANGED <<git, here, dialog, pending, read, wiped>>
\* The dialog captures what it names before it clears it.
ConfirmForce ==
  /\ Turn /\ pending # None /\ pending' = None
  /\ jobs' = jobs \cup {[path |-> pending, force |-> TRUE, by |-> "menu"]}
  /\ wiped' = [wiped EXCEPT !.asked = @ \cup {pending}]
  /\ read' = [named |-> read.named, sent |-> pending]
  /\ UNCHANGED <<git, here, dialog>>
DeclineForce ==
  /\ Turn /\ pending # None /\ pending' = None
  /\ UNCHANGED <<git, here, dialog, jobs, read, wiped>>

\* git runs and its answer lands. A refusal asks whether to force; the menu's dialog comes up over
\* whatever is on screen, another one of its kind included.
Removed(j) ==
  LET ok == ~Refuses(j.path, j.force)
      asks == j.by = "menu" /\ ~ok /\ ~j.force
  IN /\ j \in jobs /\ removeWorktree(j.path, j.force)
     /\ jobs' = IF asks THEN Orphaned(jobs \ {j}) ELSE jobs \ {j}
     /\ wiped' = IF ok /\ trees[j.path].dirty THEN [wiped EXCEPT !.done = @ \cup {j.path}] ELSE wiped
     /\ IF j.by = "dialog"
        THEN IF ok \/ j.force
             THEN loads' = loads \cup {Load("remove")} /\ UNCHANGED <<removing, confirmForce>>
             ELSE removing' = None /\ confirmForce' = j.path /\ UNCHANGED loads
        ELSE UNCHANGED <<removing, confirmForce>> /\ loads' = IF asks THEN {} ELSE loads
     /\ IF asks
        THEN /\ pending' = j.path /\ open' = FALSE
             /\ read' = IF pending = None THEN [named |-> j.path, sent |-> None] ELSE read
        ELSE UNCHANGED <<pending, open, read>>
     /\ UNCHANGED <<branches, here, list, form, turns>>

\* Somebody works in a worktree, or commits there.
Works(path) ==
  /\ Turn /\ path \in linked /\ trees' = [trees EXCEPT ![path].dirty = ~@]
  /\ UNCHANGED <<branches, here, dialog, pending, jobs, read, wiped>>

Init ==
  /\ \E ps \in SUBSET Paths : trees \in [ps -> {[branch |-> b, dirty |-> d] : b \in BranchNames, d \in BOOLEAN}]
  /\ \A p, q \in linked : p # q => trees[p].branch # trees[q].branch
  /\ branches \in SUBSET BranchNames /\ {trees[p].branch : p \in linked} \subseteq branches
  /\ here \in linked \cup {Main}
  /\ open = FALSE /\ list = {} /\ loads = {} /\ removing = None /\ confirmForce = None /\ form = None
  /\ pending = None /\ jobs = {} /\ read = [named |-> None, sent |-> None]
  /\ wiped = [asked |-> {}, done |-> {}] /\ turns = 0

Next ==
  \/ OpenDialog \/ CloseDialog \/ handleForceRemove \/ Cancel \/ ConfirmForce \/ DeclineForce
  \/ \E l \in loads : getWorktrees(l) \/ load(l)
  \/ \E j \in jobs : Removed(j)
  \/ \E p \in Paths \cup {Main} :
       \/ handleRemove(p) \/ handleSwitch(p) \/ RemoveFromMenu(p) \/ Works(p)
       \/ \E b \in BranchNames : handleAdd(p, b)

Spec == Init /\ [][Next]_vars

-----------------------------------------------------------------------------

\* The dialog shows a removal exactly while its own is under way, and never has two: every Remove
\* waits for the answer, and the prompt to force an earlier one is taken down before the next
\* begins ("every remove is disabled until git answers", Worktrees.tsx:22-23).
OneRemovalAtATime ==
  LET own == {j \in jobs : j.by = "dialog"}
      after == {l \in loads : l.by = "remove"}
  IN open => /\ Cardinality(own) + Cardinality(after) <= 1
             /\ {j.path : j \in own} \subseteq {removing}
             /\ own \cup after = {} => removing = None

\* Changes in a worktree are deleted only where the user confirmed it of that worktree
\* (openspec/specs/worktree-management/spec.md:45-48).
NothingUnconfirmedIsLost == wiped.done \subseteq wiped.asked

\* Refuted: the worktree that is open is not removed ("its Remove action is disabled",
\* openspec/specs/worktree-management/spec.md:50-53): the dialog's button is disabled for the main
\* worktree only.
OpenIsKept == here \in linked \cup {Main}

\* Refuted: the force dialog answers about the worktree it came up with (App.tsx:1659): a second
\* refusal swaps it under the pointer.
AnswersWhatWasRead == read.sent # None => read.sent = read.named

\* Refuted: once nothing is under way the dialog lists git's worktrees ("the worktree list updates",
\* openspec/specs/worktree-management/spec.md:31): a removal from the menu does not
\* reach it, and the reads after an add and after a removal may land in either order.
ListIsGits == open /\ loads = {} /\ jobs = {} => list = linked

(* Why one removal is under way at most *)

Own == {j \in jobs : j.by = "dialog"}
After == {l \in loads : l.by = "remove"}
AtMostOne(S) == \A x, y \in S : x = y
\* A dialog that is closed has no removal; one that is open removes what it shows, then reads the list
\* for it, and asks about a worktree only when neither is under way.
RemovalIsShown ==
  /\ open \in BOOLEAN
  /\ \A j \in jobs : j \in [path : Paths \cup {Main}, force : BOOLEAN, by : {"dialog", "menu", "gone"}]
  /\ \A l \in loads : l.by \in {"mount", "add", "remove"} /\ l = [by |-> l.by, answer |-> l.answer]
  /\ {confirmForce, pending} \subseteq Paths \cup {Main, None}
  /\ ~open => Own = {} /\ loads = {}
  /\ open =>
       /\ AtMostOne(Own) /\ AtMostOne(After) /\ (Own = {} \/ After = {})
       /\ \A j \in Own : j.path = removing
       /\ (removing = None) = (Own \cup After = {})
       /\ confirmForce # None => removing = None

TypeOK ==
  /\ trees \in UNION {[ps -> [branch : BranchNames, dirty : BOOLEAN]] : ps \in SUBSET Paths}
  /\ branches \subseteq BranchNames /\ here \in Paths \cup {Main}
  /\ list \subseteq Paths /\ \A l \in loads : l.answer # None => l.answer \subseteq Paths
  /\ {removing, confirmForce, pending} \subseteq Paths \cup {None}
  /\ jobs \subseteq [path : Paths, force : BOOLEAN, by : {"dialog", "menu", "gone"}]
  /\ turns \in 0..MaxTurns
==============================================================================
