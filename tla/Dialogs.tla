------------------------------- MODULE Dialogs -------------------------------
(***************************************************************************)
(* How App.tsx asks: one modal at a time in `modal`, what it is about in a       *)
(* `pending...` of its own, the pull prompt and the context menu beside it, and   *)
(* the right panel shared by bisect, patch (modals) and the reflog (a flag).     *)
(* Answers to calls that were made from a menu open and close modals later.     *)
(*                                                                         *)
(* What a modal is about is a member of Things: a commit, a ref, a stash, a tag, *)
(* a worktree or an author, by the slot it is kept in. The modals' contents are  *)
(* those of other modules (Worktrees, Panels, Integrations, Recovery).          *)
(***************************************************************************)
EXTENDS Naturals, FiniteSets

CONSTANTS Things, None,
          Repos,                 \* what the tabs hold
          MaxTurns               \* bound: clicks and keys

VARIABLES modal, pending,        \* AppModal; pendingSha, pendingRef and the others
          showReflog,
          pullPrompt,            \* None, dirty or diverged
          ctxMenu,               \* the open menu: [slot, of]
          repo,                  \* the repository on screen
          calls,                 \* calls a menu or a modal made that will touch modals when answered
          done,                  \* history: what was run last, [op, of, named, raised, on]
          raised,                \* history: the repository on screen when the modal came up
          named,                 \* history: what the user chose that the modal came up for, [kind, of]
          overrun,               \* history: modals an answer took away that were not its own
          turns

vars == <<modal, pending, showReflog, pullPrompt, ctxMenu, repo, calls, done, raised, named, overrun, turns>>
asking == <<modal, pending, raised, named>>
others == <<showReflog, pullPrompt, ctxMenu, repo>>

Slots == {"sha", "ref", "stash", "tag", "author", "worktree"}
\* Which slot a modal reads; the others are about the repository as a whole.
Kinds ==
  [slot \in Slots |->
     CASE slot = "sha" -> {"branch-here", "tag-here", "confirm-reset-hard", "interactive-rebase"}
       [] slot = "ref" -> {"rename-branch", "confirm-delete-branch", "confirm-delete-remote-branch"}
       [] slot = "stash" -> {"confirm-drop-stash", "stash-branch"}
       [] slot = "tag" -> {"branch-from-tag", "rename-tag"}
       [] slot = "author" -> {"edit-author"}
       [] slot = "worktree" -> {"confirm-remove-worktree"}]
SlotOf(kind) == CHOOSE slot \in Slots : kind \in Kinds[slot]
About == UNION {Kinds[slot] : slot \in Slots}
Plain == {"new-branch", "toolbar-stash", "peers"}
SidePanels == {"bisect", "patch"}

Turn == turns < MaxTurns /\ turns' = turns + 1
Nothing == [slot \in Slots |-> None]
\* A modal is drawn once what it is about is there.
Visible(kind) == modal = kind /\ (kind \in About => pending[SlotOf(kind)] # None)
\* A modal covers the page; the menu and the right panel are under it.
Covered == pullPrompt # None \/ \E kind \in About \cup Plain : Visible(kind)
Run(op, of) == done' = [op |-> op, of |-> of, named |-> named, raised |-> raised, on |-> repo]

-----------------------------------------------------------------------------
(* Menus *)

openCtx(slot, of) ==
  /\ Turn /\ ~Covered /\ ctxMenu' = [slot |-> slot, of |-> of]
  /\ UNCHANGED <<asking, showReflog, pullPrompt, repo, calls, done, overrun>>
\* Mutant: what a slot still holds stays in it.
PutsIfEmpty(kind, of) ==
  pending' = [pending EXCEPT ![SlotOf(kind)] = IF @ = None THEN of ELSE @]
\* The slot of the modal; HEAD's author is read for a commit, which is set as well.
Puts(kind, of) ==
  pending' = [slot \in Slots |->
    IF slot = SlotOf(kind) \/ (kind = "edit-author" /\ slot = "sha") THEN of ELSE pending[slot]]
Raise(kind, of) ==
  Puts(kind, of) /\ modal' = kind /\ raised' = repo /\ named' = [kind |-> kind, of |-> of]

\* An entry that only asks: what it is about, then the modal. The menu closes first.
Ask(kind) ==
  /\ Turn /\ ctxMenu # None /\ kind \in Kinds[ctxMenu.slot]
  /\ kind \notin {"confirm-delete-branch", "confirm-remove-worktree", "edit-author"}
  /\ Raise(kind, ctxMenu.of) /\ ctxMenu' = None
  /\ UNCHANGED <<showReflog, pullPrompt, repo, calls, done, overrun>>
\* Entries that call first: delete a branch, remove a worktree, read HEAD's author.
CallFirst(kind) ==
  /\ Turn /\ ctxMenu # None /\ kind \in Kinds[ctxMenu.slot]
  /\ kind \in {"confirm-delete-branch", "confirm-remove-worktree", "edit-author"}
  /\ calls' = calls \cup {[by |-> kind, of |-> ctxMenu.of]} /\ ctxMenu' = None
  /\ UNCHANGED <<asking, showReflog, pullPrompt, repo, done, overrun>>

\* git took it, or refused it as unmerged or dirty: then the modal comes up, over whatever is there.
AnswerAsks(c, ok) ==
  /\ c \in calls /\ c.by \in About /\ calls' = calls \ {c}
  /\ IF ok /\ c.by # "edit-author"
     THEN UNCHANGED <<asking, overrun>>
     ELSE /\ Raise(c.by, c.of)
          /\ overrun' = IF modal \in {None, c.by} THEN overrun ELSE overrun \cup {modal}
  /\ UNCHANGED <<showReflog, pullPrompt, ctxMenu, repo, done, turns>>

-----------------------------------------------------------------------------
(* Modals *)

openModal(kind) ==
  /\ Turn /\ ~Covered /\ kind \in Plain /\ modal' = kind /\ ctxMenu' = None /\ raised' = repo /\ named' = None
  /\ UNCHANGED <<pending, showReflog, pullPrompt, repo, calls, done, overrun>>
\* Every slot but the worktree's is emptied; PeerModal empties none.
closeModal == modal' = None /\ pending' = [Nothing EXCEPT !["worktree"] = pending["worktree"]] /\ named' = None /\ UNCHANGED raised
closeWorktree == modal' = None /\ pending' = Nothing /\ named' = None /\ UNCHANGED raised
setModalNull == modal' = None /\ named' = None /\ UNCHANGED <<pending, raised>>
onClose(kind) ==
  \/ kind = "peers" /\ setModalNull
  \/ kind = "confirm-remove-worktree" /\ closeWorktree
  \/ kind \notin {"peers", "confirm-remove-worktree"} /\ closeModal
Cancel(kind) ==
  /\ Turn /\ Visible(kind) /\ onClose(kind)
  /\ UNCHANGED <<others, calls, done, overrun>>
\* Closed, then run: what it is about was captured when the modal was drawn.
Confirm(kind) ==
  /\ Turn /\ kind \in About /\ Visible(kind) /\ onClose(kind)
  /\ Run(kind, pending[SlotOf(kind)])
  /\ UNCHANGED <<others, calls, overrun>>
\* NewBranchModal closes when git has answered, PeerModal when a repository's path is known.
ConfirmAndWait(kind) ==
  /\ Turn /\ kind \in {"new-branch", "peers"} /\ Visible(kind)
  /\ calls' = calls \cup {[by |-> kind, of |-> None]}
  /\ UNCHANGED <<asking, others, done, overrun>>
AnswerCloses(c) ==
  /\ c \in calls /\ c.by \in Plain /\ calls' = calls \ {c} /\ onClose(c.by)
  /\ overrun' = IF modal \in {None, c.by} THEN overrun ELSE overrun \cup {modal}
  /\ UNCHANGED <<others, done, turns>>

\* Stash changes: it closes first and needs nothing.
StashChanges ==
  /\ Turn /\ Visible("toolbar-stash") /\ closeModal /\ Run("toolbar-stash", None)
  /\ UNCHANGED <<showReflog, pullPrompt, ctxMenu, repo, calls, overrun>>

-----------------------------------------------------------------------------
(* The pull prompt, the side panels, the keyboard *)

doPull ==
  /\ Turn /\ ~Covered /\ calls' = calls \cup {[by |-> "pull", of |-> None]}
  /\ UNCHANGED <<asking, showReflog, pullPrompt, ctxMenu, repo, done, overrun>>
PullAnswered(c, how) ==
  /\ c \in calls /\ c.by = "pull" /\ calls' = calls \ {c}
  /\ pullPrompt' = IF how = None THEN pullPrompt ELSE how
  /\ UNCHANGED <<asking, showReflog, ctxMenu, repo, done, overrun, turns>>
\* Stash and pull, or a strategy; the next answer may prompt again.
AnswerPrompt(yes) ==
  /\ Turn /\ pullPrompt # None /\ pullPrompt' = None
  /\ calls' = IF yes THEN calls \cup {[by |-> "pull", of |-> None]} ELSE calls
  /\ UNCHANGED <<asking, showReflog, ctxMenu, repo, done, overrun>>

\* Mutant: the reflog stays open under the panel.
KeepsTheReflog == showReflog
ReflogAfter == FALSE
openSidePanel(panel) ==
  /\ Turn /\ ~Covered /\ showReflog' = ReflogAfter /\ modal' = panel /\ ctxMenu' = None /\ raised' = repo /\ named' = None
  /\ UNCHANGED <<pending, pullPrompt, repo, calls, done, overrun>>
toggleReflog ==
  /\ Turn /\ ~Covered
  /\ modal' = (IF modal \in SidePanels THEN None ELSE modal)
  /\ showReflog' = ~showReflog /\ ctxMenu' = None
  /\ UNCHANGED <<pending, raised, named, pullPrompt, repo, calls, done, overrun>>
\* The × of the panel that is drawn: the reflog comes first.
ClosePanel ==
  /\ Turn /\ ~Covered
  /\ IF showReflog THEN showReflog' = FALSE /\ UNCHANGED asking
     ELSE modal \in SidePanels /\ closeModal /\ UNCHANGED showReflog
  /\ UNCHANGED <<pullPrompt, ctxMenu, repo, calls, done, overrun>>

\* The window's keys do not ask what is open.
Escape ==
  /\ Turn /\ closeModal /\ ctxMenu' = None
  /\ UNCHANGED <<showReflog, pullPrompt, repo, calls, done, overrun>>
OpenRepository(r) ==
  /\ Turn /\ repo' = r /\ r # repo
  /\ UNCHANGED <<asking, showReflog, pullPrompt, ctxMenu, calls, done, overrun>>

Init ==
  /\ modal = None /\ pending = Nothing /\ showReflog = FALSE /\ pullPrompt = None /\ ctxMenu = None
  /\ repo \in Repos /\ calls = {} /\ overrun = {} /\ turns = 0
  /\ raised = repo /\ named = None
  /\ done = [op |-> None, of |-> None, named |-> None, raised |-> None, on |-> None]

Next ==
  \/ \E slot \in Slots, of \in Things : openCtx(slot, of)
  \/ \E kind \in About : Ask(kind) \/ CallFirst(kind) \/ Confirm(kind)
  \/ \E kind \in About \cup Plain : Cancel(kind)
  \/ \E kind \in Plain : openModal(kind) \/ ConfirmAndWait(kind)
  \/ \E c \in calls : \/ AnswerCloses(c) \/ \E ok \in BOOLEAN : AnswerAsks(c, ok)
                      \/ \E how \in {None, "dirty", "diverged"} : PullAnswered(c, how)
  \/ StashChanges \/ doPull \/ toggleReflog \/ ClosePanel \/ Escape
  \/ \E yes \in BOOLEAN : AnswerPrompt(yes)
  \/ \E panel \in SidePanels : openSidePanel(panel)
  \/ \E r \in Repos : OpenRepository(r)

Spec == Init /\ [][Next]_vars

-----------------------------------------------------------------------------

\* A modal about a thing is about the thing chosen for it, in the menu or the call that raised it,
\* although kinds share slots, closings leave the worktree's slot full, and answers to older calls
\* put modals up and take them away meanwhile; what was turned down or confirmed does not come back
\* by itself; and so what is confirmed runs of what was chosen.  Force pushes and the deletion of
\* tags run unasked (App.tsx:803-914).
NothingUnchosen ==
  /\ \A kind \in About : Visible(kind) => named = [kind |-> kind, of |-> pending[SlotOf(kind)]]
  /\ done.op \in About => done.named = [kind |-> done.op, of |-> done.of]

\* The right panel has one occupant ("Opening one must close the others", App.tsx:300).
OnePanel == ~(showReflog /\ modal \in SidePanels)

\* Refuted: a modal stays until it is answered: an answer to an earlier call replaces or closes it
\* (App.tsx:729, 1267, 1674, 1706).
OwnModalOnly == overrun = {}

\* Refuted: what is confirmed is run in the repository it was asked of: Cmd+O works under a modal
\* (App.tsx:1080).
AskedHere == done.op \in About => done.on = done.raised

TypeOK ==
  /\ modal \in About \cup Plain \cup SidePanels \cup {None}
  /\ pending \in [Slots -> Things \cup {None}]
  /\ showReflog \in BOOLEAN /\ pullPrompt \in {None, "dirty", "diverged"}
  /\ ctxMenu # None => ctxMenu \in [slot : Slots, of : Things]
  /\ {repo, raised} \subseteq Repos /\ turns \in 0..MaxTurns
  /\ calls \subseteq [by : About \cup Plain \cup {"pull"}, of : Things \cup {None}]
==============================================================================
