---------------------------- MODULE WorkingCopy ----------------------------
(***************************************************************************)
(* The working copy of one repository under GitService                     *)
(* (src/main/git-service.ts): the commands that put uncommitted work aside  *)
(* in a stash, move the branch under it and bring it back.                 *)
(*                                                                         *)
(* A piece of Work is one uncommitted change to one file; New is the pieces *)
(* that are untracked files. A commit is the set of files whose committed   *)
(* version it changes, so two commits differ in Diff and a piece is in the  *)
(* way of a move when its file is in that difference. What git itself does  *)
(* (refuse, stop on conflicts, keep a stash it could not re-apply) is       *)
(* external and modelled from how the service calls and classifies it.     *)
(*                                                                         *)
(* A run is one multi-command operation of the service; every await inside *)
(* it is a step, so the user, a terminal or a peer can act in between.      *)
(* Left out: which hunks of a file a piece is, the split between index and  *)
(* working tree, edits made while an operation is paused.                  *)
(***************************************************************************)
EXTENDS Integers, Sequences, FiniteSets

CONSTANTS Work,      \* pieces of uncommitted work
          New,       \* those that are untracked files
          Files, FileOf,
          Branches,
          Runs,      \* multi-command operations of the service
          User,      \* everyone else who makes a stash
          Commits,   \* commits a command may name
          Starts,    \* what the branches may hold to begin with
          None,
          MaxOthers  \* bound on the commands of everyone else

\* What git can be stopped in, as getConflictState names it.
Ops == {"merge", "rebase", "cherry-pick", "revert", "stash"}
\* Why it refuses, as classifyPullError names it.
Errors == {"dirty", "untracked", "in-progress", "failed"}

ASSUME WorkAssumption ==
  /\ MaxOthers \in Nat
  /\ New \subseteq Work
  /\ FileOf \in [Work -> Files]
  /\ User \notin Runs
  /\ None \notin Branches \cup Ops \cup Errors
  /\ Commits \subseteq SUBSET Files
  /\ Starts \subseteq [Branches -> SUBSET Files]

VARIABLES others,    \* how many commands everyone else has given
          content,   \* what each branch's commits change
          head,      \* the branch checked out
          tree,      \* uncommitted work in the working tree
          stash,     \* the stash list, newest first
          paused,    \* the operation git is stopped in, or None
          unmerged,  \* files a conflicted stash left unmerged
          aside,     \* what git's own --autostash holds during a rebase
          owed,      \* work done, neither committed nor thrown away by a
                     \* command that says so
          run        \* the operations of the service

repo == <<others, content, head, tree, stash, paused, unmerged, aside, owed>>
vars == <<others, content, head, tree, stash, paused, unmerged, aside, owed,
          run>>

FixKinds == {"merge", "pull", "pullRebase", "cherryPick", "revert", "checkout"}
Entry == [base : SUBSET Files, items : SUBSET Work, by : Runs \cup {User}]

\* `had`, `from` and `alone` are history: the tree and the branch the run
\* started from, and whether nobody else has touched the repository since.
\* `locked`: one of its own stash commands failed.
RunRec ==
  [pc : {"idle", "try", "push", "pop", "verify", "set-aside", "checkout",
         "merge", "return", "restore-branch", "done"},
   kind : FixKinds \cup {"into", "switch"}, target : Branches \cup {None},
   src : SUBSET Files, enabled : BOOLEAN, err : Errors \cup {None},
   blockers : SUBSET Work, stashes : Seq({"dirty", "untracked"}), left : Nat,
   undo : BOOLEAN, before : Nat, stashed : BOOLEAN,
   success : BOOLEAN, conflict : BOOLEAN, kept : {"dirty", "untracked", "all", None},
   had : SUBSET Work, from : Branches \cup {None}, alone : BOOLEAN, locked : BOOLEAN]

TypeOK ==
  /\ others \in 0..MaxOthers
  /\ content \in [Branches -> SUBSET Files]
  /\ head \in Branches
  /\ tree \in SUBSET Work
  /\ stash \in Seq(Entry)
  /\ paused \in Ops \cup {None}
  /\ unmerged \in SUBSET Files
  /\ aside \in SUBSET Work
  /\ owed \in SUBSET Work
  /\ run \in [Runs -> RunRec]

----------------------------------------------------------------------------
\* What git does.

Diff(X, Y) == (X \ Y) \cup (Y \ X)
Dirty == tree \ New
Loose == tree \cap New
InWay(pieces, X, Y) == {w \in pieces : FileOf[w] \in Diff(X, Y)}
Occupied(pieces) == {FileOf[w] : w \in pieces}
Without(s, i) ==
  [j \in 1..Len(s) - 1 |-> IF j < i THEN s[j] ELSE s[j + 1]]
ItemsOf(s) == UNION {s[i].items : i \in 1..Len(s)}
\* Where a piece that is neither committed nor thrown away can be found.
Held == tree \cup ItemsOf(stash) \cup aside
\* A command the user gave throws these pieces away where it leaves none of them.
Throws(pieces) == owed' = owed \ (pieces \ Held')

\* Why git refuses to move the working tree from the commit X to Y, as
\* classifyPullError names it.
Refusal(X, Y) ==
  IF paused # None THEN "in-progress"
  ELSE IF InWay(Dirty, X, Y) # {} THEN "dirty"
  ELSE IF InWay(Loose, X, Y) # {} THEN "untracked"
  ELSE None

\* With nothing to save git makes no entry.
Entries(items, by) ==
  IF items = {} THEN <<>>
  ELSE <<[base |-> content[head] \cap Occupied(items), items |-> items,
          by |-> by]>>

\* git stash push of `items`: exits 0 also when there is nothing to save.
Push(items, by) ==
  /\ paused = None
  /\ tree' = tree \ items
  /\ stash' = Entries(items, by) \o stash

\* git stash pop/apply of the i-th entry: refused, applied (`drop` takes the
\* entry off), stopped on conflicts, or applied but for the untracked files
\* that exist by now. Only a full application drops the entry.
Reapply(i, drop) ==
  IF paused # None \/ i > Len(stash)
     \/ Occupied(tree) \cap Occupied(stash[i].items \ New) # {}
  THEN UNCHANGED <<tree, stash, paused, unmerged>>
  ELSE LET e == stash[i]
           clash == InWay(e.items, e.base, content[head])
           exist == {w \in e.items \cap New :
                       w \in clash \/ FileOf[w] \in Occupied(tree)}
       IN /\ tree' = tree \cup (e.items \ exist)
          /\ \/ /\ stash' = IF drop /\ exist = {} THEN Without(stash, i) ELSE stash
                /\ UNCHANGED <<paused, unmerged>>
             \/ /\ clash \ New # {}
                /\ paused' = "stash"
                /\ unmerged' = Occupied(clash \ New)
                /\ UNCHANGED stash

----------------------------------------------------------------------------
Idle ==
  [pc |-> "idle", kind |-> "merge", target |-> None, src |-> {}, enabled |-> FALSE,
   err |-> None, blockers |-> {}, stashes |-> <<>>, left |-> 0, undo |-> FALSE,
   before |-> 0, stashed |-> FALSE, success |-> FALSE, conflict |-> FALSE,
   kept |-> None, had |-> {}, from |-> None, alone |-> TRUE, locked |-> FALSE]

Init ==
  /\ others = 0
  /\ content \in Starts
  /\ head \in Branches
  /\ tree \in SUBSET Work
  /\ Occupied(Loose) \cap content[head] = {}
  /\ \A v, w \in tree : FileOf[v] = FileOf[w] => v = w
  /\ stash = <<>>
  /\ paused = None
  /\ unmerged = {}
  /\ aside = {}
  /\ owed = tree
  /\ run = [r \in Runs |-> Idle]

\* A run that has ended and was disturbed is of no further interest.
Disturbed(me) ==
  IF me.pc \in {"idle", "done"} THEN [Idle EXCEPT !.pc = me.pc, !.alone = FALSE]
  ELSE [me EXCEPT !.alone = FALSE, !.had = {}]

\* r goes on with the record `next`, and every other run is no longer alone.
Goes(r, next) ==
  /\ others' = others
  /\ run' = [o \in Runs |-> IF o = r THEN next ELSE Disturbed(run[o])]
\* ... a step that reads only.
Reads(r, next) == run' = [run EXCEPT ![r] = next] /\ UNCHANGED repo
Disturbs ==
  /\ others < MaxOthers
  /\ others' = others + 1
  /\ run' = [o \in Runs |-> Disturbed(run[o])]

----------------------------------------------------------------------------
\* GitService.runAutoFix: pull, merge, cherry-pick, revert and checkout.

Goal(r) ==
  CASE run[r].kind = "checkout" -> content[run[r].target]
    [] run[r].kind = "revert" -> content[head] \ run[r].src
    [] OTHER -> content[head] \cup run[r].src

\* Mutant: an operation is taken for the one it was asked for.
PausesUnderItsName(kind) == {kind}
PausesAs(kind) ==
  CASE kind = "cherryPick" -> {"cherry-pick"}
    [] kind = "revert" -> {"revert"}
    [] kind = "pullRebase" -> {"rebase"}
    [] OTHER -> {"merge"}

LastOf(s) == IF s = <<>> THEN None ELSE s[Len(s)]

StartFix(r, k) ==
  /\ run[r].pc = "idle"
  /\ \E t \in IF k = "checkout" THEN Branches \ {head} ELSE {head},
        s \in IF k = "checkout" THEN {{}} ELSE Commits, on \in BOOLEAN :
       Reads(r, [Idle EXCEPT !.pc = "try", !.kind = k, !.target = t,
                   !.src = s, !.enabled = on, !.had = tree, !.from = head])

Ended(r, ok, conflict, kept) ==
  [run[r] EXCEPT !.pc = "done", !.success = ok, !.conflict = conflict,
                 !.kept = kept]

\* Mutant: a failure is reported at once.
ReportsAtOnce(r) == Ended(r, FALSE, FALSE, None)
\* The operation failed for good: put back what was stashed, newest first.
Unfixable(r) ==
  IF run[r].stashes = <<>> THEN Ended(r, FALSE, FALSE, None)
  ELSE [run[r] EXCEPT !.pc = "pop", !.undo = TRUE, !.left = Len(run[r].stashes)]

Try(r) ==
  LET me == run[r]
      why == IF me.kind = "pullRebase" /\ paused = None /\ Dirty # {}
             THEN "dirty"                   \* a rebase wants a clean tree
             ELSE Refusal(content[head], Goal(r))
  IN
  /\ me.pc = "try"
  /\ \/ /\ why = None                                   \* it went through
        /\ IF me.kind = "checkout"
           THEN head' = me.target /\ UNCHANGED content
           ELSE content' = [content EXCEPT ![head] = Goal(r)] /\ UNCHANGED head
        /\ Goes(r, [me EXCEPT !.pc = "return", !.success = TRUE,
                              !.left = Len(me.stashes)])
        /\ UNCHANGED <<tree, stash, paused, unmerged, aside, owed>>
     \/ /\ why = None                                   \* it stopped on conflicts
        /\ me.kind # "checkout"
        /\ Goal(r) # content[head]
        /\ paused' \in PausesAs(me.kind)
        /\ Goes(r, Ended(r, FALSE, TRUE, LastOf(me.stashes)))
        /\ UNCHANGED <<content, head, tree, stash, unmerged, aside, owed>>
     \/ /\ why = None                                   \* no network, no upstream ...
        /\ Reads(r, Unfixable(r))
     \/ /\ why = "in-progress"
        /\ Reads(r, IF me.kind = "checkout"             \* git's words are not recognised
                    THEN Ended(r, FALSE, TRUE, LastOf(me.stashes))
                    ELSE Unfixable(r))
     \/ /\ why \in {"dirty", "untracked"}
        /\ IF me.enabled /\ Len(me.stashes) < 2
           THEN Reads(r, [me EXCEPT !.pc = "push", !.err = why,
                            !.blockers = InWay(Loose, content[head], Goal(r))])
           ELSE Reads(r, Unfixable(r))

SetAside(r) ==
  LET me == run[r]
      items == IF me.err = "dirty" THEN Dirty ELSE Loose \cap me.blockers
  IN
  /\ me.pc = "push"
  /\ \/ /\ Push(items, r)
        /\ Goes(r, [me EXCEPT !.pc = "try", !.stashes = Append(me.stashes, me.err)])
        /\ UNCHANGED <<content, head, paused, unmerged, aside, owed>>
     \/ Reads(r, [Ended(r, FALSE, FALSE, None) EXCEPT !.locked = TRUE])

\* The operation succeeded: re-apply what was stashed, or keep it (checkout).
Return(r) ==
  LET me == run[r] IN
  /\ me.pc = "return"
  /\ Reads(r, IF me.stashes = <<>> THEN Ended(r, TRUE, FALSE, None)
              ELSE IF me.kind = "checkout"
              THEN Ended(r, TRUE, FALSE, LastOf(me.stashes))
              ELSE [me EXCEPT !.pc = "pop"])

\* One stash pop. What became of it is read afterwards from the stash count
\* and the unmerged paths.
Pop(r) ==
  LET me == run[r] IN
  /\ me.pc = "pop"
  /\ Reapply(1, TRUE)
  /\ Goes(r, [me EXCEPT !.pc = "verify", !.before = Len(stash)])
  /\ UNCHANGED <<content, head, aside, owed>>

Verify(r) ==
  LET me == run[r]
      applied == paused # "stash" /\ Len(stash) < me.before
      more == [me EXCEPT !.pc = "pop", !.left = me.left - 1]
  IN
  /\ me.pc = "verify"
  /\ me.kind \in FixKinds
  /\ \/ /\ applied /\ me.left > 1
        /\ Reads(r, more)
     \/ /\ applied /\ me.left <= 1
        /\ Reads(r, Ended(r, ~me.undo, FALSE, None))
     \/ /\ ~applied
        /\ Reads(r, Ended(r, ~me.undo, paused = "stash" /\ ~me.undo,
                          IF me.undo THEN None ELSE me.stashes[me.left]))

----------------------------------------------------------------------------
\* mergeCurrentInto and the merge of runDragAction: stash, check the target out,
\* merge the branch into it, come back, pop.

StartInto(r) ==
  /\ run[r].pc = "idle"
  /\ \E t \in Branches \ {head} :
       Reads(r, [Idle EXCEPT !.pc = IF tree = {} THEN "checkout" ELSE "set-aside",
                   !.kind = "into", !.target = t, !.had = tree, !.from = head])

\* checkoutAutostash: stash, switch, and leave the stash on the list.
StartSwitch(r) ==
  /\ run[r].pc = "idle"
  /\ \E t \in Branches \ {head} :
       Reads(r, [Idle EXCEPT !.pc = "set-aside", !.kind = "switch",
                   !.target = t, !.had = tree, !.from = head])

StashAll(r) ==
  LET me == run[r] IN
  /\ me.pc = "set-aside"
  /\ \/ /\ Push(tree, r)
        /\ Goes(r, [me EXCEPT !.pc = "checkout", !.stashed = TRUE])
        /\ UNCHANGED <<content, head, paused, unmerged, aside, owed>>
     \/ Reads(r, [me EXCEPT !.locked = TRUE,
                    !.pc = IF me.kind = "into" THEN "restore-branch" ELSE "done"])

\* Mutant: the `finally` pops whether or not the run stashed.
PopsRegardless(me) == [me EXCEPT !.pc = "pop"]
\* What the `finally` of the run does, once its outcome is known.
Finish(me) ==
  IF me.stashed THEN [me EXCEPT !.pc = "pop"] ELSE [me EXCEPT !.pc = "done"]

CheckoutTarget(r) ==
  LET me == run[r]
      why == Refusal(content[head], content[me.target])
      there == [me EXCEPT !.success = (me.kind = "switch")]
  IN
  /\ me.pc = "checkout"
  /\ \/ /\ why = None
        /\ head' = me.target
        /\ Goes(r, IF me.kind = "into" THEN [there EXCEPT !.pc = "merge"]
                   ELSE [there EXCEPT !.pc = "done", !.kept = "all"])
        /\ UNCHANGED <<content, tree, stash, paused, unmerged, aside, owed>>
     \/ /\ why # None \/ me.kind = "switch"   \* or the branch is in use elsewhere
        /\ Reads(r, IF me.kind = "into" THEN [me EXCEPT !.pc = "restore-branch"]
                    ELSE Finish(me))

MergeSource(r) ==
  LET me == run[r]
      goal == content[head] \cup content[me.from]
      why == Refusal(content[head], goal)
  IN
  /\ me.pc = "merge"
  /\ \/ /\ why = None
        /\ content' = [content EXCEPT ![head] = goal]
        /\ Goes(r, [me EXCEPT !.pc = "restore-branch", !.success = TRUE])
        /\ UNCHANGED <<head, tree, stash, paused, unmerged, aside, owed>>
     \/ /\ why = None
        /\ goal # content[head]
        /\ paused' = "merge"
        /\ Goes(r, [me EXCEPT !.pc = "restore-branch"])
        /\ UNCHANGED <<content, head, tree, stash, unmerged, aside, owed>>
     \/ why # None /\ Reads(r, [me EXCEPT !.pc = "restore-branch"])

\* Back to the original branch: part of the try when the merge went through,
\* best effort in the catch when it did not.
RestoreBranch(r) ==
  LET me == run[r]
      why == Refusal(content[head], content[me.from])
  IN
  /\ me.pc = "restore-branch"
  /\ \/ /\ why = None
        /\ head' = me.from
        /\ Goes(r, Finish(me))
        /\ UNCHANGED <<content, tree, stash, paused, unmerged, aside, owed>>
     \/ why # None /\ Reads(r, Finish([me EXCEPT !.success = FALSE]))

\* The pop of these runs is not verified.
PopDone(r) ==
  /\ run[r].pc = "verify"
  /\ run[r].kind \notin FixKinds
  /\ Reads(r, [run[r] EXCEPT !.pc = "done"])

RunStep(r) ==
  \/ Try(r) \/ SetAside(r) \/ Return(r) \/ Pop(r) \/ Verify(r)
  \/ StashAll(r) \/ CheckoutTarget(r) \/ MergeSource(r) \/ RestoreBranch(r)
  \/ PopDone(r)

----------------------------------------------------------------------------
\* Everyone else: the other commands of GitService, a terminal, a peer.

Edit(w) ==
  /\ w \notin owed \cup Held
  /\ paused = None
  /\ FileOf[w] \notin Occupied(tree)
  /\ w \in New => FileOf[w] \notin content[head]
  /\ tree' = tree \cup {w}
  /\ owed' = owed \cup {w}
  /\ Disturbs
  /\ UNCHANGED <<content, head, stash, paused, unmerged, aside>>

Commit ==
  /\ paused = None
  /\ \E S \in SUBSET tree \ {{}} :
       /\ tree' = tree \ S
       /\ owed' = owed \ S
       /\ content' = [content EXCEPT ![head] = @ \cup Occupied(S)]
  /\ Disturbs
  /\ UNCHANGED <<head, stash, paused, unmerged, aside>>

StashSave ==
  /\ tree # {}
  /\ Push(tree, User)
  /\ Disturbs
  /\ UNCHANGED <<content, head, paused, unmerged, aside, owed>>

StashPop(i) ==
  /\ Reapply(i, TRUE)
  /\ Disturbs
  /\ UNCHANGED <<content, head, aside, owed>>

StashApply(i) ==
  /\ Reapply(i, FALSE)
  /\ Disturbs
  /\ UNCHANGED <<content, head, aside, owed>>

StashDrop(i) ==
  /\ stash' = Without(stash, i)
  /\ Disturbs
  /\ UNCHANGED <<content, head, tree, paused, unmerged, aside>>
  /\ Throws(stash[i].items)

\* discardChanges of tracked files, discardUntracked and clean of the others.
Discard(w) ==
  /\ w \in tree
  /\ FileOf[w] \notin unmerged
  /\ tree' = tree \ {w}
  /\ Disturbs
  /\ UNCHANGED <<content, head, stash, paused, unmerged, aside>>
  /\ Throws({w})

\* reset --hard and restoreFromReflog: untracked files stay.
ResetHard ==
  /\ \E X \in Commits : content' = [content EXCEPT ![head] = X]
  /\ tree' = Loose
  /\ paused' = IF paused = "rebase" THEN paused ELSE None
  /\ unmerged' = {}
  /\ Disturbs
  /\ UNCHANGED <<head, stash, aside>>
  /\ Throws(Dirty)

\* rebaseTo, dropCommits, squashCommits, interactiveRebase and the rebase of
\* runDragAction: one git rebase with --autostash.
Rebase ==
  /\ paused = None
  /\ \E X \in Commits :
       /\ InWay(Loose, content[head], X) = {}
       /\ \/ /\ content' = [content EXCEPT ![head] = X]
             /\ \/ UNCHANGED <<stash, paused, unmerged>>
                \/ /\ InWay(Dirty, content[head], X) # {}
                   /\ stash' = Entries(Dirty, User) \o stash
                   /\ paused' = "stash"
                   /\ unmerged' = Occupied(InWay(Dirty, content[head], X))
             /\ UNCHANGED <<tree, aside>>
          \/ /\ X # content[head]
             /\ aside' = Dirty
             /\ tree' = Loose
             /\ paused' = "rebase"
             /\ UNCHANGED <<content, stash, unmerged>>
  /\ Disturbs
  /\ UNCHANGED <<head, owed>>

\* operationContinue and operationSkip once every file is staged. A rebase, a
\* cherry-pick or a revert can stop again; when a rebase ends git re-applies its
\* autostash or stores it as a stash. A conflicted stash has nothing to continue.
OperationContinue ==
  /\ paused # None
  /\ \/ /\ paused \in {"rebase", "cherry-pick", "revert"}
        /\ UNCHANGED <<content, tree, stash, paused, unmerged, aside>>
     \/ \E X \in Commits :
        /\ IF paused = "stash" THEN UNCHANGED content
           ELSE content' = [content EXCEPT ![head] = X]
        /\ paused' = None
        /\ unmerged' = {}
        /\ \/ tree' = tree \cup aside /\ UNCHANGED stash
           \/ aside # {} /\ stash' = Entries(aside, User) \o stash /\ UNCHANGED tree
        /\ aside' = {}
  /\ Disturbs
  /\ UNCHANGED <<head, owed>>

\* Mutant: the files git's autostash holds are not given back.
ForgetsTheAutostash ==
  /\ paused # None
  /\ paused' = None
  /\ unmerged' = {}
  /\ tree' = {w \in tree : w \in New \/ FileOf[w] \notin unmerged}
  /\ aside' = {}
  /\ Disturbs
  /\ UNCHANGED <<content, head, stash>>
  /\ Throws(Dirty)
\* operationAbort. Of a conflicted stash only the unmerged files are restored.
OperationAbort ==
  /\ paused # None
  /\ paused' = None
  /\ unmerged' = {}
  /\ tree' = {w \in tree : w \in New \/ FileOf[w] \notin unmerged} \cup aside
  /\ aside' = {}
  /\ Disturbs
  /\ UNCHANGED <<content, head, stash>>
  /\ Throws(Dirty)

\* The requests of the stash list, and of the panel of a paused operation.
Stashes ==
  \/ \E i \in 1..Len(stash) : StashPop(i) \/ StashApply(i) \/ StashDrop(i)
  \/ StashSave
Operation == OperationContinue \/ OperationAbort
\* What useCommitActions does to the commit the user right-clicked.
CommitMenu(r) ==
  \/ \E k \in {"merge", "cherryPick", "revert"} : StartFix(r, k)
  \/ StartInto(r) \/ Rebase \/ ResetHard
Others ==
  \/ \E w \in Work : Edit(w) \/ Discard(w)
  \/ Commit \/ Stashes \/ Operation

Next ==
  \/ \E r \in Runs :
       \/ CommitMenu(r)
       \/ \E k \in {"pull", "pullRebase", "checkout"} : StartFix(r, k)
       \/ StartSwitch(r) \/ RunStep(r)
  \/ Others

Spec == Init /\ [][Next]_vars
Fairness == \A r \in Runs : WF_vars(RunStep(r))
FairSpec == Spec /\ Fairness

----------------------------------------------------------------------------
(***************************************************************************)
(* Safety: no sequence of commands, of stashes popped over each other or of  *)
(* operations that fail half-way loses a piece of work. Every piece that was *)
(* neither committed nor thrown away by a command that throws it away is in   *)
(* the tree, in a stash or in git's autostash (git-service.ts:2606, "Nothing *)
(* is ever dropped").                                                      *)
(***************************************************************************)
NothingLost == owed \subseteq Held

(***************************************************************************)
(* Safety: an operation of the service that nobody disturbed, that did not   *)
(* stop on conflicts, names no stash and had no stash command fail gives     *)
(* back the tree and the branch it found, whether it succeeded or not, and   *)
(* leaves no entry of its own on the list. (checkoutAutostash is left out: on a clean tree   *)
(* its `stash push` makes no entry, and its pop takes someone else's.)        *)
(***************************************************************************)
Undisturbed(r) ==
  run[r].pc = "done" /\ run[r].alone /\ ~run[r].locked
GivesBackTheTree ==
  \A r \in Runs :
    Undisturbed(r) /\ ~run[r].conflict /\ run[r].kept = None /\ paused = None
      /\ run[r].kind # "switch" =>
      /\ tree = run[r].had
      /\ run[r].kind = "into" => head = run[r].from
      /\ \A i \in 1..Len(stash) : stash[i].by # r

(***************************************************************************)
(* Action property: `git stash pop` names no entry, so an operation takes    *)
(* whatever is newest. Undisturbed, it is always an entry it pushed itself.  *)
(***************************************************************************)
PopsItsOwn ==
  [][\A r \in Runs :
       run[r].pc = "pop" /\ run'[r].pc = "verify" /\ run[r].alone
         /\ run[r].kind # "switch" =>
       stash # <<>> /\ stash[1].by = r]_vars

(***************************************************************************)
(* Why they hold. What git set aside for a rebase is there only while the     *)
(* rebase is stopped, and no two pieces in one place are of one file. While    *)
(* nobody else acts, the newest entries are those the run made; they and the   *)
(* tree are, piece by piece, the tree it found; and until the branch moves    *)
(* each entry is based on the commit it will be applied to.                  *)
(***************************************************************************)
OneEach(pieces) == \A v, w \in pieces : FileOf[v] = FileOf[w] => v = w
Undivided ==
  /\ aside # {} => paused = "rebase"
  /\ OneEach(tree \cup aside)
  /\ \A i \in 1..Len(stash) : OneEach(stash[i].items)
  /\ \A r \in Runs : OneEach(run[r].had)
Mine(r, k) ==
  /\ k <= Len(stash)
  /\ \A i \in 1..Len(stash) : stash[i].by = r <=> i <= k
  /\ \A w \in Work : w \in run[r].had <=> w \in tree \/ \E i \in 1..k : w \in stash[i].items
  /\ \A i \in 1..k : /\ tree \cap stash[i].items = {}
                     /\ \A j \in 1..i - 1 : stash[i].items \cap stash[j].items = {}
Based(k, X) == \A i \in 1..k : stash[i].base = X \cap Occupied(stash[i].items)
Blocking(me) == IF me.err = "dirty" THEN Dirty ELSE Loose \cap me.blockers

\* Of every run, whoever acts.
Shaped(r) ==
  LET me == run[r] IN
  /\ me.pc = "idle" => \A i \in 1..Len(stash) : stash[i].by # r
  /\ me.pc \notin {"idle", "done"} => {me.target, me.from} \subseteq Branches
  /\ me.pc \in {"try", "push", "return"} => me.kind \in FixKinds
  /\ me.pc \in {"set-aside", "checkout", "merge", "restore-branch"} => me.kind \notin FixKinds
  /\ me.pc \in {"pop", "verify"} /\ me.kind \in FixKinds => me.left \in 1..Len(me.stashes)
  /\ me.pc = "return" => me.left = Len(me.stashes)
  /\ me.pc = "push" => me.err \in {"dirty", "untracked"}
\* Of one that is alone.
Fixing(r) ==
  LET me == run[r]
      count == Len(me.stashes)
  IN
  /\ me.pc \in {"try", "push"} => Mine(r, count) /\ Based(count, content[head]) /\ (count # 0 => paused = None)
  /\ me.pc = "push" => paused = None /\ Blocking(me) # {}
  /\ me.pc \in {"try", "push", "return"} => me.undo = FALSE
  /\ me.pc = "return" => Mine(r, count) /\ paused = None
  /\ me.pc = "pop" => /\ Mine(r, me.left) /\ paused = None
                      /\ me.undo = TRUE => Based(me.left, content[head])
  /\ me.pc = "verify" =>
       \/ /\ Mine(r, me.left - 1) /\ Len(stash) = me.before - 1 /\ paused = None
          /\ me.undo = TRUE => Based(me.left - 1, content[head])
       \/ me.undo = FALSE /\ Len(stash) = me.before
  /\ me.pc = "done" /\ me.conflict = FALSE /\ me.kept = None /\ paused = None => Mine(r, 0)
Merging(r) ==
  LET me == run[r]
      count == IF me.stashed = TRUE THEN 1 ELSE 0
  IN
  /\ me.pc # "done" => me.target # me.from
  /\ me.pc = "set-aside" => Mine(r, 0) /\ me.stashed = FALSE /\ head = me.from /\ tree # {}
  /\ me.pc \in {"checkout", "merge", "restore-branch", "pop"} =>
       Mine(r, count) /\ Based(count, content[me.from]) /\ tree = {}
  /\ me.pc = "checkout" => head = me.from
  /\ me.pc = "merge" => head = me.target
  /\ me.pc = "pop" => me.stashed = TRUE /\ (paused = None => head = me.from)
  /\ me.pc \in {"verify", "done"} /\ paused = None => Mine(r, 0) /\ head = me.from
Alone(r) ==
  run[r].alone = TRUE /\ run[r].pc # "idle" =>
    /\ run[r].locked = TRUE => run[r].pc = "done" \/ (run[r].pc = "restore-branch" /\ run[r].stashed = FALSE)
    /\ run[r].locked = FALSE /\ run[r].kind \in FixKinds => Fixing(r)
    /\ run[r].locked = FALSE /\ run[r].kind = "into" => Merging(r)
Inv == TypeOK /\ NothingLost /\ Undivided /\ \A r \in Runs : Shaped(r) /\ Alone(r)

(***************************************************************************)
(* Safety, as git-service.ts:2125 has it: merging into another branch       *)
(* "auto-stashes any uncommitted changes before switching branches and       *)
(* always restores them when done (even on failure)". Refuted: after a merge *)
(* that stops on conflicts git refuses both the checkout and the pop.       *)
(***************************************************************************)
RestoresEvenOnFailure ==
  \A r \in Runs :
    Undisturbed(r) /\ run[r].kind = "into" =>
      head = run[r].from /\ tree = run[r].had

(***************************************************************************)
(* Safety, as git-service.ts:2605 has it: when the operation fails for      *)
(* another reason after stashing, "the stashes are popped to restore the tree *)
(* exactly as it was". Refuted when the second `stash push` is what fails.   *)
(***************************************************************************)
FailureRestores ==
  \A r \in Runs :
    run[r].pc = "done" /\ run[r].alone /\ paused = None
      /\ run[r].kind \in FixKinds /\ ~run[r].success /\ ~run[r].conflict =>
      tree = run[r].had
=============================================================================
