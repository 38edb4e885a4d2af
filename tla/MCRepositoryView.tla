--------------------------- MODULE MCRepositoryView ---------------------------
(***************************************************************************)
(* The parts of the repository view beside each other: the drawing of the      *)
(* graph (GraphLayout), its labels (RefPills), what is selected and shown of it   *)
(* (Viewing), the rewriting of history (HistoryRewrite), the working tree with    *)
(* its commit form (Committing), the clean, patch and stash panels (Panels), the  *)
(* hunks that are staged (Staging) and the editor of conflicts (Conflicts). They  *)
(* share no state, so in a behaviour one of them moves, chosen at the start, and  *)
(* the others rest in one of their initial states.                           *)
(***************************************************************************)
EXTENDS GraphLayout, FiniteSets, TLC

CONSTANTS None, Folder,
          Total, MaxPlan,                                              \* of HistoryRewrite
          f, g, log,                                                   \* files
          Patched, Lines, HunkOf, Phrase, MaxActs, MaxReads, MaxJobs,  \* of Staging
          Locals, Tracked, Others, Remotes, MaxRefs,                   \* of RefPills
          Logs, Big, TabOf, WORKTREE, Queries, Hits, Found, MaxClicks, \* of Viewing
          Edited, MaxTexts, MaxDeeds,                                 \* of Committing
          Untidy, Ignored, InFolder, MaxOutside, MaxCommands, MaxStashes, \* of Panels
          Merged, Conflicted, Chars, Marks, Heading, NL, MaxEdits     \* of Conflicts

VARIABLES focus,
          before, order, plan, line, todo, pc, files, stops, skipped,
          commit, outdated, elsewhere, checkedOut, visibility, storedKinds, action,
          commits, drawn, worker, selected, many, anchor, fileList, detailReads, stat, statAsk, rangeDiff,
          search, finds, matches, turns, toggled,
          onDisk, inList, lock, lockedOp, picked, focused, at, confirming, panelOpen, text, amend, draft,
          refreshes, commitRuns, committing, deeds, typedTexts, mine, clicked, broken, thrown,
          present, marked, modal, previews, building, status, stashList, shownStashes, entries, outside,
          commands, kept, previewed, cleaned, staged, dropped,
          head, index, work, view, diff, loading, reads, armed, timers, armedOn, jobs, temp, pressed, acts,
          truth, disk, unmerged, listed, active, reading, file, resolved, choices, from, typed, confirm,
          saving

\* Two blocks whose sides share lines, and the same line around them.
Texts(s) == [i \in 1..Len(s) |-> <<s[i]>>]
Shared(t) == [kind |-> "shared", text |-> t]
Conflict(c, i) == [kind |-> "conflict", current |-> c, incoming |-> i]
TwoBlocks ==
  <<Shared(Texts(<<"a">>)), Conflict(Texts(<<"a">>), Texts(<<"b", "a">>)),
    Shared(Texts(<<"a">>)), Conflict(<<>>, Texts(<<"b">>))>>
Merges == {TwoBlocks}
Characters == [lt |-> "<", sep |-> "=", gt |-> ">"]
\* Two lines in each of two places, which read alike.
Hunked == <<1, 1, 2, 2>>
Reading == <<"a", "b", "a", "b">>
\* Branches, refs of remotes and their default's alias, a tag, a change, an old patch set and a stash.
LocalBranches == {<<"main">>, <<"feature", "x">>}
RemoteRefs == {<<"origin", "main">>, <<"origin", "HEAD">>}
OtherRefs == {<<"tag: ", "v1">>, <<"change", "1">>, <<"patchset", "1">>, <<"refs", "stash">>}
\* A log, the same one with changes in the working tree, and another tab's.
Clean == <<1, 2, 3>>
Dirty == <<0, 1, 2, 3>>
OtherTab == <<4, 5>>
Listings == {Clean, Dirty, OtherTab}
Large == {Dirty, OtherTab}
TabOfListing == (Clean :> 1) @@ (Dirty :> 1) @@ (OtherTab :> 2) @@ (<<>> :> 0)
ByMessage == (<<"a", "b">> :> {1, 2}) @@ (<<"a", "c">> :> {3})
ByContent == (<<"a", "b">> :> <<2, 1>>) @@ (<<"a", "c">> :> <<3>>)
Words == {<<>>} \cup DOMAIN ByMessage
Straight == [c \in 1..Total |-> IF c = 1 THEN <<>> ELSE <<c - 1>>]

History == INSTANCE HistoryRewrite WITH
  N <- Total, parents <- before, asked <- plan
Labels == INSTANCE RefPills WITH
  worktrees <- checkedOut, stored <- storedKinds, away <- elsewhere
View == INSTANCE Viewing WITH
  MaxTurns <- MaxClicks, files <- fileList, reads <- detailReads, diff <- rangeDiff, nodes <- drawn,
  log <- commits
Form == INSTANCE Committing WITH
  Files <- Edited, MaxTurns <- MaxDeeds, tree <- onDisk, focus <- focused, confirm <- confirming,
  open <- panelOpen, reads <- refreshes, runs <- commitRuns, typed <- typedTexts, shown <- inList,
  turns <- deeds
Panes == INSTANCE Panels WITH
  Files <- Untidy, MaxTurns <- MaxCommands, Closed <- None, disk <- present, index <- marked,
  stashes <- stashList, turns <- commands
Staged == INSTANCE Staging WITH
  Files <- Patched, asked <- reads
Editor == INSTANCE Conflicts WITH
  Files <- Conflicted

\* No ref has a name that stands for a detached HEAD, no branch that of a tag or of a mirrored change.
ASSUME LabelsAssumption ==
  /\ MaxRefs \in Nat
  /\ \A b \in Locals : /\ ~Labels!IsTag(b) /\ ~Labels!IsChange(b) /\ ~Labels!IsOlder(b)
                       /\ ~Labels!IsAlias(b) /\ Labels!branchBaseName(b) # Labels!Standalone
  /\ Labels!Detached \notin Labels!Refs /\ Labels!Nowhere \notin Locals
  /\ \A r \in Labels!Refs : Labels!isRemoteRef(r) =>
       ~Labels!IsTag(Tail(r)) /\ ~Labels!IsChange(Tail(r)) /\ ~Labels!IsOlder(Tail(r))
ASSUME HistoryAssumption == Total \in Nat \ {0}
ASSUME ViewAssumption == None \notin Big
\* Lines of one place read differently, and no patch is None.
ASSUME StagedAssumption ==
  /\ MaxJobs \in Nat
  /\ \A l, m \in Lines : HunkOf[l] = HunkOf[m] /\ Phrase[l] = Phrase[m] => l = m
  /\ None \notin [file : Patched, old : SUBSET Lines, new : SUBSET Lines, hunks : SUBSET Staged!Hunks,
                  post : SUBSET Lines, want : SUBSET Lines]
ASSUME PanesAssumption == Folder \notin Untidy
\* The sections of a merged file are lines of characters.
MergedLines == Seq(Seq(Chars))
ASSUME EditorAssumption ==
  /\ Merged \subseteq Seq([kind : {"shared"}, text : MergedLines]
                           \cup [kind : {"conflict"}, current : MergedLines, incoming : MergedLines])
  /\ {NL, Marks.lt, Marks.sep, Marks.gt} \subseteq Chars

historyVars == <<before, order, plan, line, todo, pc, files, stops, skipped>>
labelsVars == <<commit, outdated, elsewhere, checkedOut, visibility, storedKinds, action>>
viewVars == <<commits, drawn, worker, selected, many, anchor, fileList, detailReads, stat, statAsk, rangeDiff,
              search, finds, matches, turns, toggled>>
formVars == <<onDisk, inList, lock, lockedOp, picked, focused, at, confirming, panelOpen, text, amend, draft,
              refreshes, commitRuns, committing, deeds, typedTexts, mine, clicked, broken, thrown>>
panesVars == <<present, marked, modal, previews, building, status, stashList, shownStashes, entries, outside,
               commands, kept, previewed, cleaned, staged, dropped>>
stagingVars == <<head, index, work, view, diff, loading, reads, armed, timers, armedOn, jobs, temp, pressed, acts>>
editorVars == <<truth, disk, unmerged, listed, active, reading, file, resolved, choices, from, typed, confirm,
                saving>>

Start ==
  /\ focus \in {"graph", "history", "labels", "viewing", "committing", "panels", "staging", "conflicts"}
  /\ Init
  /\ focus # "history" => before = Straight
  /\ History!Init
  /\ focus # "labels" => commit = [head |-> <<>>, refs |-> <<>>] /\ outdated = FALSE /\ storedKinds = [k \in {"local", "remote", "tags"} |-> TRUE]
  /\ Labels!Init
  /\ View!Init
  /\ focus # "committing" => onDisk = [i \in Edited |-> "clean"]
  /\ Form!Init
  /\ focus # "panels" => present = {}
  /\ Panes!Init
  /\ Staged!Init
  /\ focus = "staging" \/ (view.file = f /\ work = [x \in Patched |-> {l \in Lines : l % 2 = 0}])
  /\ Editor!Init

Step ==
  \/ /\ focus = "graph" /\ Next
     /\ UNCHANGED <<focus, historyVars, labelsVars, viewVars, formVars, panesVars, stagingVars, editorVars>>
  \/ /\ focus = "history" /\ History!Next
     /\ UNCHANGED <<focus, vars, labelsVars, viewVars, formVars, panesVars, stagingVars, editorVars>>
  \/ /\ focus = "labels" /\ Labels!Next
     /\ UNCHANGED <<focus, vars, historyVars, viewVars, formVars, panesVars, stagingVars, editorVars>>
  \/ /\ focus = "viewing" /\ View!Next
     /\ UNCHANGED <<focus, vars, historyVars, labelsVars, formVars, panesVars, stagingVars, editorVars>>
  \/ /\ focus = "committing" /\ Form!Next
     /\ UNCHANGED <<focus, vars, historyVars, labelsVars, viewVars, panesVars, stagingVars, editorVars>>
  \/ /\ focus = "panels" /\ Panes!Next
     /\ UNCHANGED <<focus, vars, historyVars, labelsVars, viewVars, formVars, stagingVars, editorVars>>
  \/ /\ focus = "staging" /\ Staged!Next
     /\ UNCHANGED <<focus, vars, historyVars, labelsVars, viewVars, formVars, panesVars, editorVars>>
  \/ /\ focus = "conflicts" /\ Editor!Next
     /\ UNCHANGED <<focus, vars, historyVars, labelsVars, viewVars, formVars, panesVars, stagingVars>>
SideBySide == Start /\ [][Step]_<<focus, vars, historyVars, labelsVars, viewVars, formVars, panesVars, stagingVars, editorVars>>

\* HistoryRewrite: a squash loses no commit, a drop of one line only what it drops, wherever it stops.
NothingElseIsLost == focus = "history" => History!NothingElseIsLost
\* RefPills: every ref of a commit has one pill, drawn as long as a kind of it is shown, and HEAD
\* is on that of its branch, or on one of its own where no branch is.
PillsTellTheRefs == focus = "labels" => Labels!PillsTellTheRefs
\* Viewing: rows, statistics, diff and matches are of the log and the selection on screen.
DerivedIsOfTheShown == focus = "viewing" => View!DerivedIsOfTheShown
\* Committing: a draft is in the box or put aside through the round trip of amending, until it is
\* typed over, committed or the panel is left. Excused is a draft typed while a read or a commit is
\* under way, or clicked about a second time while HEAD's message is read.
DraftIsKept == focus = "committing" => Form!DraftIsKept
\* Panels: a clean removes nothing the user unchecked and nothing git tracks by then.
UncheckedSurvive == Panes!UncheckedSurvive
\* Staging: a patch that fits in its own place only changes exactly the lines asked for, and one cut
\* from what is still there is not refused.
PatchesAreExact == Staged!PatchesAreExact
\* Conflicts: the buttons of the blocks assemble the text, until it is changed by hand.
PressesAssemble == focus = "conflicts" => Editor!PressesAssemble
==============================================================================
