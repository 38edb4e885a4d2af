------------------------------ MODULE Workspace ------------------------------
(***************************************************************************)
(* Which repository the window works on: the hook useGitRepo of the renderer *)
(* (src/renderer/hooks/useGitRepo.ts) and the services, the active one and   *)
(* the saved session of the main process (src/main/index.ts).               *)
(*                                                                         *)
(* The renderer names a repository only when it opens it. Everything else it *)
(* asks for goes to the service that is active in the main process when the   *)
(* request arrives, so the two must agree on which one that is. An operation  *)
(* of the hook is a chain of requests; the part of its code between two of    *)
(* them is one step, which ends with the next request arriving (requests      *)
(* keep their order, answers do not).                                        *)
(*                                                                         *)
(* A path is a repository or a linked worktree of one. What the window shows  *)
(* is abstracted to the path it was read from. Left out: the selection, the   *)
(* dialogs, recent projects, commands other than reads, and loading, which     *)
(* disables nothing.                                                        *)
(***************************************************************************)
EXTENDS Integers, Sequences, FiniteSets

CONSTANTS Paths,      \* what can be opened
          MainOf,     \* the main worktree of the repository of a path
          Peers,      \* the paths that live on another machine
          MaxOps,     \* bound: operations at once
          MaxActs,    \* bound: what the user and the world do
          Nothing     \* null: no path

VARIABLES loaded,     \* main process: the paths with a service
          active,     \* main process: activeRepoPath
          saved,      \* main process: the file of tabs
          repoPath,   \* hook: the path that is shown
          mainPath,   \* hook: the tab that is shown
          tabs,       \* hook: openTabs
          shown,      \* hook: what the log, and the rest, were read from
          error,      \* hook: an error takes the place of the graph
          fetchPath,  \* hook: fetchPathRef
          ops,        \* hook: the operations under way
          gone,       \* paths that do not answer: deleted, or the peer is away
          settled,    \* history: the last change of tab ran alone and succeeded
          acts        \* what the user and the world have done

state == <<loaded, active, saved, repoPath, mainPath, tabs, shown, error, fetchPath>>
vars == <<loaded, active, saved, repoPath, mainPath, tabs, shown, error,
          fetchPath, ops, gone, settled, acts>>

Maps == {MainOf[p] : p \in Paths}
Tab == [main : Maps \cup Paths, worktree : Paths]
Mains(ts) == {ts[i].main : i \in DOMAIN ts}
TabOf(ts, m) == ts[CHOOSE i \in DOMAIN ts : ts[i].main = m]
WithWorktree(ts, m, p) ==
  [i \in DOMAIN ts |-> IF ts[i].main = m THEN [ts[i] EXCEPT !.worktree = p] ELSE ts[i]]
Upsert(ts, m, p) ==
  IF m \in Mains(ts) THEN WithWorktree(ts, m, p)
  ELSE Append(ts, [main |-> m, worktree |-> p])
\* Array.filter(): the tabs of K, in their order.
Filter(ts, K) ==
  LET kept[n \in 0..Len(ts)] ==
        IF n = 0 THEN <<>> ELSE IF ts[n] \in K THEN Append(kept[n - 1], ts[n]) ELSE kept[n - 1]
  IN kept[Len(ts)]
WithoutTab(ts, m) == Filter(ts, {t \in Tab : t.main # m})
Moved(ts, i, j) ==
  LET rest == [k \in 1..(Len(ts) - 1) |-> IF k < i THEN ts[k] ELSE ts[k + 1]]
  IN [k \in 1..Len(ts) |-> IF k < j THEN rest[k] ELSE IF k = j THEN ts[i] ELSE rest[k - 1]]

NoData == [log |-> Nothing, rest |-> Nothing]

-----------------------------------------------------------------------------
(* Operations under way.                                                   *)

Kinds == {"load", "tab", "worktree", "refresh", "close", "fallback", "restore"}
\* Where an operation stands, named for the answer it waits for: the first
\* open, the open of the main worktree instead, the listing of the worktrees,
\* the eight reads of fetchAll, the closing, the adding of the saved tabs.
Stages == {"opening", "falling", "resolving", "reading", "closing", "adding"}

\* base: mainPath of the render the handler belongs to; ok: what the open under
\* way will answer, Nothing while isRepo() runs; read: what the reads went to;
\* alone: nothing else happened while it ran.
Op == [kind : Kinds, stage : Stages, path : Paths \cup {Nothing},
       main : Paths \cup {Nothing}, base : Paths \cup {Nothing},
       ok : BOOLEAN \cup {Nothing}, read : Paths \cup {Nothing}, alone : BOOLEAN]

Busy == DOMAIN ops
Slots == 1..MaxOps
Free == CHOOSE s \in Slots \ Busy : \A x \in Slots \ Busy : s <= x
\* It counts as alone for as long as no other one begins.
Begin(o) ==
  /\ Busy # Slots
  /\ ops' = [x \in Busy \cup {Free} |->
               IF x = Free THEN [o EXCEPT !.alone = Busy = {}]
               ELSE [ops[x] EXCEPT !.alone = FALSE]]
\* Something else happens while they run.
Disturb == ops' = [s \in Busy |-> [ops[s] EXCEPT !.alone = FALSE]]
Continue(s, o) == ops' = [ops EXCEPT ![s] = o]
Finish(s) == ops' = [x \in Busy \ {s} |-> ops[x]]
NewOp(kind, stage, path, main) ==
  [kind |-> kind, stage |-> stage, path |-> path, main |-> main, base |-> mainPath,
   ok |-> Nothing, read |-> Nothing, alone |-> TRUE]

\* git:open-path arrives: a path with a service becomes the active one at once,
\* another one only when isRepo() has said so.
OpenPath(p) ==
  /\ active' = IF p \in loaded THEN p ELSE active
  /\ UNCHANGED loaded
Opening(o) == [o EXCEPT !.ok = IF o.path \in loaded THEN TRUE ELSE Nothing]

\* The eight reads arrive together; handlers without a service, and errors,
\* give empty answers.
Answer == IF active \in gone THEN Nothing ELSE active
Reading(o) == [o EXCEPT !.stage = "reading", !.read = Answer]

\* Mutants: the list is saved as it was; the tab takes the place of its worktree.
SaveTheOldList(ts, m) == saved' = [tabs |-> tabs, active |-> m]
TheTabItself(o) == o.main

\* app:save-tabs.
Persist(ts, m) == saved' = [tabs |-> ts, active |-> m]

\* setOpenTabs with an update that also saves the list.
SetTabs(ts, m) == tabs' = ts /\ Persist(ts, m)
\* What an operation leaves in repoPath.
Landed(o) == o.path

-----------------------------------------------------------------------------
(* The handlers, up to their first request.                                *)

\* loadRepo: from the dialog, the recent projects, a clone, a peer.
LoadRepo(p) ==
  /\ Begin(Opening(NewOp("load", "opening", p, Nothing)))
  /\ OpenPath(p)
  /\ error' = FALSE
  /\ settled' = FALSE
  /\ UNCHANGED <<saved, repoPath, mainPath, tabs, shown, fetchPath, gone>>

\* switchTab.
SwitchTab(m) ==
  /\ m # mainPath /\ m \in Mains(tabs)
  /\ LET p == TabOf(tabs, m).worktree IN
       /\ Begin(Opening(NewOp("tab", "opening", p, m)))
       /\ OpenPath(p)
  /\ error' = FALSE
  /\ settled' = FALSE
  /\ UNCHANGED <<saved, repoPath, mainPath, tabs, shown, fetchPath, gone>>

\* switchWorktree.
SwitchWorktree(p) ==
  /\ mainPath # Nothing /\ p # repoPath
  /\ MainOf[p] = mainPath
  /\ Begin(Opening(NewOp("worktree", "opening", p, mainPath)))
  /\ OpenPath(p)
  /\ settled' = (settled /\ Busy = {})
  /\ UNCHANGED <<saved, repoPath, mainPath, tabs, shown, error, fetchPath, gone>>

\* closeTab, with git:close-tab: the services of the tab's main worktree and of
\* the worktree that was open in it go, and nothing is active if one of them was.
CloseTab(m) ==
  /\ m \in Mains(tabs)
  /\ LET dropped == {m, TabOf(tabs, m).worktree} IN
       /\ loaded' = loaded \ dropped
       /\ active' = IF active \in dropped THEN Nothing ELSE active
       /\ settled' = (settled /\ Busy = {} /\ (active \in dropped <=> m = mainPath))
  /\ Begin(NewOp("close", "closing", Nothing, m))
  /\ UNCHANGED <<saved, repoPath, mainPath, tabs, shown, error, fetchPath, gone>>

\* reorderTabs.
ReorderTabs(i, j) ==
  /\ i # j /\ {i, j} \subseteq DOMAIN tabs
  /\ SetTabs(Moved(tabs, i, j), mainPath)
  /\ UNCHANGED <<loaded, active, repoPath, mainPath, shown, error, fetchPath, ops,
                 gone, settled>>

\* refresh: on focus, after a command, on a change in the repository, on Retry.
Refresh ==
  /\ repoPath # Nothing
  /\ Begin(Reading(NewOp("refresh", "reading", Nothing, Nothing)))
  /\ settled' = (settled /\ Busy = {})
  /\ UNCHANGED <<state, gone>>

\* handleGoHome.
GoHome ==
  /\ repoPath' = Nothing
  /\ mainPath' = Nothing
  /\ error' = FALSE
  /\ Disturb
  /\ UNCHANGED <<loaded, active, saved, tabs, shown, fetchPath, gone, settled>>

-----------------------------------------------------------------------------
(* The answers.                                                            *)

\* isRepo() in git:open-path ends: makeService and isRepo() fail for a path that
\* is gone.
Probed(s) ==
  LET o == ops[s] IN
  /\ o.stage \in {"opening", "falling"} /\ o.ok = Nothing
  /\ LET ok == o.path \notin gone IN
       /\ loaded' = IF ok THEN loaded \cup {o.path} ELSE loaded
       /\ active' = IF ok THEN o.path ELSE active
       /\ Continue(s, [o EXCEPT !.ok = ok])
  /\ UNCHANGED <<saved, repoPath, mainPath, tabs, shown, error, fetchPath, gone, settled>>

\* loadRepo goes on: it asks the active service for the worktrees, whatever
\* it has become, and takes the first to be the tab.
Resolve(s) ==
  LET o == ops[s] IN
  /\ o.kind = "load" /\ o.stage = "opening" /\ o.ok = TRUE
  /\ fetchPath' = o.path
  /\ Continue(s, [o EXCEPT !.stage = "resolving",
                           !.main = IF Answer = Nothing THEN o.path ELSE MainOf[active]])
  /\ UNCHANGED <<loaded, active, saved, repoPath, mainPath, tabs, shown, error, gone,
                 settled>>
Resolved(s) ==
  LET o == ops[s] IN
  /\ o.stage = "resolving"
  /\ Continue(s, Reading(o))
  /\ UNCHANGED <<state, gone, settled>>

\* switchTab goes on, with the worktree of the tab or with its main worktree.
TabOpened(s) ==
  LET o == ops[s] IN
  /\ o.kind = "tab" /\ o.stage \in {"opening", "falling"} /\ o.ok = TRUE
  /\ fetchPath' = o.path
  /\ Continue(s, Reading(o))
  /\ UNCHANGED <<loaded, active, saved, repoPath, mainPath, tabs, shown, error, gone,
                 settled>>
FallBackToMain(s) ==
  LET o == ops[s] IN
  /\ o.kind = "tab" /\ o.stage = "opening" /\ o.ok = FALSE /\ o.path # o.main
  /\ Continue(s, Opening([o EXCEPT !.stage = "falling", !.path = o.main]))
  /\ OpenPath(o.main)
  /\ UNCHANGED <<saved, repoPath, mainPath, tabs, shown, error, fetchPath, gone, settled>>

\* A load, a switch to a tab or to a worktree whose path could not be opened.
OpenFailed(s) ==
  LET o == ops[s] IN
  /\ o.kind \in {"load", "tab", "worktree"} /\ o.ok = FALSE
  /\ ~(o.kind = "tab" /\ o.stage = "opening" /\ o.path # o.main)
  /\ error' = (error \/ o.kind # "worktree")
  /\ Finish(s)
  /\ UNCHANGED <<loaded, active, saved, repoPath, mainPath, tabs, shown, fetchPath, gone,
                 settled>>

\* switchWorktree shows the new path before it reads it.
WorktreeOpened(s) ==
  LET o == ops[s] IN
  /\ o.kind = "worktree" /\ o.ok = TRUE /\ o.stage = "opening"
  /\ repoPath' = o.path
  /\ fetchPath' = o.path
  /\ SetTabs(WithWorktree(tabs, o.main, o.path), o.main)
  /\ Continue(s, Reading(o))
  /\ UNCHANGED <<loaded, active, mainPath, shown, error, gone, settled>>

\* closeTab goes on. The tab it takes to be shown is the one of its render.
TabClosed(s) ==
  LET o == ops[s]
      next == WithoutTab(tabs, o.main) IN
  /\ o.stage = "closing"
  /\ IF o.main # o.base
     THEN /\ SetTabs(next, o.base)
          /\ Finish(s)
          /\ UNCHANGED <<loaded, active, repoPath, mainPath, shown, error>>
     ELSE IF next = <<>>
     THEN /\ SetTabs(next, Nothing)
          /\ repoPath' = Nothing /\ mainPath' = Nothing
          /\ shown' = NoData /\ error' = FALSE
          /\ Finish(s)
          /\ UNCHANGED <<loaded, active>>
     ELSE LET t == next[Len(next)] IN
          /\ SetTabs(next, t.main)
          /\ Continue(s, Opening([o EXCEPT !.kind = "fallback", !.stage = "opening",
                                           !.path = t.worktree, !.main = t.main]))
          /\ OpenPath(t.worktree)
          /\ UNCHANGED <<repoPath, mainPath, shown, error>>
  /\ UNCHANGED <<fetchPath, gone, settled>>

\* The tab that takes over is shown whether or not it opened; if not, its main
\* worktree is opened without waiting for the answer.
FallenBack(s) ==
  LET o == ops[s]
      target == IF o.ok THEN o.path ELSE o.main IN
  /\ o.kind = "fallback" /\ o.stage = "opening" /\ o.ok # Nothing
  /\ repoPath' = target
  /\ mainPath' = o.main
  /\ fetchPath' = target
  /\ IF o.ok THEN UNCHANGED <<loaded, active>>
     ELSE IF o.main \in loaded \cup gone THEN OpenPath(o.main)
     ELSE loaded' = loaded \cup {o.main} /\ active' = o.main
  /\ Continue(s, [Reading(o) EXCEPT !.read =
                    IF o.ok THEN Answer
                    ELSE IF o.main \in loaded \ gone THEN o.main ELSE Answer])
  /\ settled' = (settled /\ o.ok)
  /\ UNCHANGED <<saved, tabs, shown, error, gone>>

\* fetchAll stores what it read. A peer that did not answer is an error, raised
\* once the log has been stored.
Failed(o) == o.read = Nothing /\ fetchPath \in Peers
Store(s) ==
  LET o == ops[s] IN
  /\ o.stage = "reading"
  /\ shown' = [log |-> o.read, rest |-> IF Failed(o) THEN shown.rest ELSE o.read]
  /\ error' = (error \/ (/\ Failed(o)
                         /\ \/ o.kind \in {"load", "tab"}
                            \/ o.kind = "restore" /\ o.path \in Peers))
  /\ IF o.kind \in {"load", "tab"} /\ ~Failed(o)
     THEN /\ repoPath' = Landed(o)
          /\ mainPath' = o.main
          /\ SetTabs(IF o.kind = "load" THEN Upsert(tabs, o.main, o.path)
                     ELSE WithWorktree(tabs, o.main, o.path), o.main)
     ELSE UNCHANGED <<repoPath, mainPath, tabs, saved>>
  /\ settled' = IF o.kind \in {"load", "tab"}
                THEN o.alone /\ o.read # Nothing
                ELSE settled /\ o.alone /\ ~Failed(o)
  /\ Finish(s)
  /\ UNCHANGED <<loaded, active, fetchPath, gone>>

-----------------------------------------------------------------------------
(* The session.                                                            *)

\* The application ends and starts again; the hook mounts and asks for the
\* saved tabs.
Restart ==
  /\ loaded' = {} /\ active' = Nothing
  /\ repoPath' = Nothing /\ mainPath' = Nothing /\ fetchPath' = Nothing
  /\ tabs' = <<>> /\ shown' = NoData /\ error' = FALSE
  /\ ops' = IF saved.tabs = <<>> THEN <<>>
            ELSE [s \in {1} |->
                    [NewOp("restore", "adding", Nothing, Nothing) EXCEPT !.base = Nothing]]
  /\ settled' = FALSE
  /\ UNCHANGED <<saved, gone>>

\* git:add-tab for every saved tab: one of a peer is taken without asking, the
\* others must be there, with their main worktree as a second choice.
Addable(p) == p \in loaded \cup Peers \/ p \notin gone
Restored ==
  LET kept == Filter(saved.tabs, {t \in Tab : Addable(t.worktree) \/ Addable(t.main)})
  IN [i \in DOMAIN kept |->
        IF Addable(kept[i].worktree) THEN kept[i]
        ELSE [kept[i] EXCEPT !.worktree = kept[i].main]]
\* ... and the tab that was shown last is activated.
Restore(s) ==
  LET o == ops[s]
      ts == Restored
      t == IF saved.active \in Mains(ts) THEN TabOf(ts, saved.active) ELSE ts[Len(ts)] IN
  /\ o.stage = "adding"
  /\ IF ts = <<>>
     THEN Finish(s) /\ UNCHANGED <<state, settled>>
     ELSE /\ loaded' = loaded \cup {ts[i].worktree : i \in DOMAIN ts}
          /\ active' = t.worktree
          /\ tabs' = ts
          /\ repoPath' = t.worktree /\ mainPath' = t.main /\ fetchPath' = t.worktree
          /\ Continue(s, [o EXCEPT !.stage = "reading", !.path = t.worktree,
                            !.main = t.main,
                            !.read = IF t.worktree \in gone THEN Nothing ELSE t.worktree])
          /\ settled' = (o.alone /\ ts = saved.tabs)
          /\ UNCHANGED <<saved, shown, error>>
  /\ UNCHANGED gone

\* A worktree is deleted, a peer goes away or comes back.
Vanish(p) ==
  /\ gone' = gone \cup {p}
  /\ p \notin gone
  /\ Disturb
  /\ UNCHANGED <<state, settled>>
Return(p) ==
  /\ p \in gone \cap Peers
  /\ gone' = gone \ {p}
  /\ UNCHANGED <<state, ops, settled>>

-----------------------------------------------------------------------------
Init ==
  /\ loaded = {} /\ active = Nothing
  /\ saved = [tabs |-> <<>>, active |-> Nothing]
  /\ repoPath = Nothing /\ mainPath = Nothing /\ fetchPath = Nothing
  /\ tabs = <<>> /\ shown = NoData /\ error = FALSE
  /\ ops = <<>>
  /\ gone = {}
  /\ settled = FALSE
  /\ acts = 0

Act ==
  /\ acts < MaxActs
  /\ acts' = acts + 1
  /\ \/ \E p \in Paths : LoadRepo(p) \/ SwitchWorktree(p) \/ Vanish(p) \/ Return(p)
     \/ \E m \in Paths : SwitchTab(m) \/ CloseTab(m)
     \/ \E i, j \in DOMAIN tabs : ReorderTabs(i, j)
     \/ Refresh \/ GoHome \/ Restart

Go(s) ==
  /\ UNCHANGED acts
  /\ \/ Probed(s) \/ Resolve(s) \/ Resolved(s) \/ TabOpened(s) \/ FallBackToMain(s)
     \/ OpenFailed(s) \/ WorktreeOpened(s) \/ TabClosed(s) \/ FallenBack(s)
     \/ Store(s) \/ Restore(s)

Next == Act \/ \E s \in Busy : Go(s)

Spec == Init /\ [][Next]_vars

-----------------------------------------------------------------------------
Idle == Busy = {}

\* useGitRepo.ts:19-20: "`mainPath` is the repo's main worktree — the tab's
\* identity." Refuted: loadRepo asks the active service which repository it has
\* opened, and another switch may have changed that one.
TabsKeepTheirOwn == \A i \in DOMAIN tabs : tabs[i].main = MainOf[tabs[i].worktree]

\* Whatever went wrong before (switches that overlapped, failed, fell back), an
\* opening or a switch that runs alone and succeeds brings everything together:
\* the service that commands go to, the path, the tab and its worktree, and the
\* data on the screen are of one repository.
SwitchesRealign ==
  Idle /\ settled /\ TabsKeepTheirOwn /\ repoPath # Nothing =>
    /\ active = repoPath
    /\ {shown.log, shown.rest} \subseteq {repoPath, Nothing}
    /\ mainPath = MainOf[repoPath]
    /\ mainPath \in Mains(tabs) /\ TabOf(tabs, mainPath).worktree = repoPath

\* From then on the file of tabs holds the list that is open, in its order and
\* with each tab's worktree, and names the tab that is shown: what the next
\* launch restores is what the user left.
SessionIsSaved ==
  Idle /\ settled =>
    /\ saved.tabs = tabs
    /\ repoPath # Nothing /\ saved.active \in Mains(tabs) => saved.active = mainPath

\* useGitRepo.ts:18-19: "`repoPath` is the ACTIVE WORKTREE path (what all git
\* reads/writes target)". Refuted: a switch to a tab whose peer does not answer
\* fails after the main process has made it the active one.
GitTargetsTheShownPath == Idle /\ repoPath # Nothing => active = repoPath

\* peer-remote-repos/spec.md:39: the tab "shows \"Peer <name> is offline\" with
\* Retry, and recovers when the peer returns". Refuted: refresh never clears
\* the error, so the graph stays replaced by it.
RetryRecovers ==
  [][\A s \in Busy : (ops[s].kind = "refresh" /\ ops[s].read = repoPath /\ ops' = [x \in Busy \ {s} |-> ops[x]])
        => ~error']_vars

\* The tab that is shown is one of the open ones. Refuted: the tab that takes
\* over from a closed one may have been closed meanwhile (usePeers' forget
\* closes several at once, App.tsx:1676).
ShownTabIsOpen == Idle /\ mainPath # Nothing => mainPath \in Mains(tabs)
=============================================================================
