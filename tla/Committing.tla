----------------------------- MODULE Committing -----------------------------
(***************************************************************************)
(* The working-tree panel (WorkingTree.tsx): the rows of changed files and     *)
(* what is picked among them, staging and unstaging with the dialog about a     *)
(* left-over .git/index.lock, discarding behind a dialog, and the commit box    *)
(* with its amend switch and the commits under way.                          *)
(*                                                                         *)
(* The rows are those of the last status read; `refresh` reads it again. A text *)
(* is known by a number: 0 is empty, HeadText is what HEAD's message reads.    *)
(* Left out: hooks' output, the flags of a commit, sizes of the two halves.    *)
(***************************************************************************)
EXTENDS Integers, Sequences, SequencesExt, FiniteSets

CONSTANTS Files, MaxTexts, MaxTurns,   \* bounds: texts typed; clicks, keys and outside events
          None

VARIABLES tree,        \* what git status would say of each file
          shown,       \* what it said last
          lock,        \* who left index.lock: a crashed process, one that is at work, or None
          lockedOp,    \* the operation parked behind the lock dialog
          picked, focus, at,   \* selectedKeys, focusedIdx, selAnchor; 0 is null
          confirm,     \* the rows the discard dialog is about
          open,        \* whether the panel is mounted
          text, amend, draft,  \* the commit box, its switch, draftBeforeAmend
          reads,       \* reads of HEAD's message under way
          runs,        \* commits under way
          committing,
          turns, typed,
          mine,        \* history: the draft last typed, while nothing has used it up; 0 for none
          clicked,     \* history: the row the anchor was set on
          broken,      \* history: locks removed while their process was at work
          thrown       \* history: what was discarded last, and what the dialog was about

files == <<tree, lock>>
rowState == <<picked, focus, at, clicked>>
dialogs == <<lockedOp, confirm>>
box == <<text, amend, draft, mine>>
work == <<reads, runs, committing>>
vars == <<tree, shown, lock, lockedOp, picked, focus, at, confirm, open, text, amend, draft,
          reads, runs, committing, turns, typed, mine, clicked, broken, thrown>>

HeadText == MaxTexts + 1
Unstaged == {"modified", "both"}
Staged == {"staged", "both"}
Turn == open /\ turns < MaxTurns /\ turns' = turns + 1

-----------------------------------------------------------------------------
(* Rows *)

InState(status, kinds) == SetToSortSeq({f \in Files : status[f] \in kinds}, LAMBDA f, g : f < g)
Keyed(section, fs) == [i \in DOMAIN fs |-> <<section, fs[i]>>]
rows == Keyed("u", InState(shown, Unstaged)) \o Keyed("t", InState(shown, {"untracked"}))
        \o Keyed("s", InState(shown, Staged))
Between(a, b) == {rows[i] : i \in {j \in DOMAIN rows : j \in a..b \cup b..a}}

Toggled(i) ==
  LET seed == IF picked = {} /\ focus \in DOMAIN rows /\ focus # i THEN {rows[focus]} ELSE picked
  IN IF rows[i] \in seed THEN seed \ {rows[i]} ELSE seed \cup {rows[i]}
handleRowClick(i, mod) ==
  /\ Turn /\ i \in DOMAIN rows
  /\ focus' = i
  /\ \/ mod = "meta" /\ picked' = Toggled(i) /\ at' = i /\ clicked' = rows[i]
     \/ /\ mod = "shift"
        /\ picked' = Between(IF at # 0 THEN at ELSE IF focus # 0 THEN focus ELSE i, i)
        /\ UNCHANGED <<at, clicked>>
     \/ mod = "plain" /\ picked' = {} /\ at' = i /\ clicked' = rows[i]
  /\ UNCHANGED <<files, shown, dialogs, open, box, work, typed, broken, thrown>>

\* Arrows walk once a row was clicked, and take the anchor along unless shift is held.
handleKeyDown(step, shift) ==
  LET to == IF focus + step < 1 THEN 1 ELSE IF focus + step > Len(rows) THEN Len(rows) ELSE focus + step
      from == IF at # 0 THEN at ELSE focus
  IN /\ Turn /\ rows # <<>> /\ focus # 0
     /\ focus' = to
     /\ picked' = IF shift THEN Between(from, to) ELSE {}
     /\ at' = IF shift THEN from ELSE to
     /\ clicked' = IF shift THEN clicked ELSE rows[to]
     /\ UNCHANGED <<files, shown, dialogs, open, box, work, typed, broken, thrown>>
Escape ==
  /\ Turn /\ picked' = {}
  /\ UNCHANGED <<files, shown, dialogs, open, focus, at, clicked, box, work, typed, broken, thrown>>

-----------------------------------------------------------------------------
(* Staging, and the lock *)

stage(status, fs) == [f \in Files |-> IF f \in fs /\ status[f] # "clean" THEN "staged" ELSE status[f]]
unstage(status, fs) ==
  [f \in Files |-> IF f \in fs /\ status[f] \in Staged THEN "modified" ELSE status[f]]
IndexOp(kind, fs) == [kind |-> kind, files |-> fs]

\* git writes the index under index.lock; one that is there parks the operation behind the dialog.
runIndexOp(o) ==
  IF lock # None
  THEN lockedOp' = o /\ UNCHANGED tree
  ELSE /\ tree' = IF o.kind = "stage" THEN stage(tree, o.files) ELSE unstage(tree, o.files)
       /\ UNCHANGED lockedOp
\* One row, or all of a half.
IndexOps ==
  {IndexOp("stage", fs) : fs \in {{rows[i][2]} : i \in {j \in DOMAIN rows : rows[j][1] # "s"}}
                                 \cup {{f \in Files : shown[f] \in Unstaged \cup {"untracked"}}}}
  \cup {IndexOp("unstage", fs) : fs \in {{rows[i][2]} : i \in {j \in DOMAIN rows : rows[j][1] = "s"}}
                                        \cup {{f \in Files : shown[f] \in Staged}}}
handleStage ==
  /\ Turn /\ lockedOp = None /\ confirm = None
  /\ \E o \in IndexOps : o.files # {} /\ runIndexOp(o)
  /\ shown' = tree'
  /\ UNCHANGED <<lock, rowState, confirm, open, box, work, typed, broken, thrown>>

\* POSIX lets anybody unlink a lock, its holder at work or not.
removeLockAndRetry ==
  /\ Turn /\ lockedOp # None
  /\ lock' = None
  /\ broken' = broken + (IF lock = "live" THEN 1 ELSE 0)
  /\ tree' = IF lockedOp.kind = "stage" THEN stage(tree, lockedOp.files) ELSE unstage(tree, lockedOp.files)
  /\ shown' = tree' /\ lockedOp' = None
  /\ UNCHANGED <<rowState, confirm, open, box, work, typed, thrown>>
CloseDialog ==
  /\ Turn /\ (lockedOp # None \/ confirm # None)
  /\ lockedOp' = None /\ confirm' = None
  /\ UNCHANGED <<files, shown, rowState, open, box, work, typed, broken, thrown>>

-----------------------------------------------------------------------------
(* Discarding *)

\* The whole selection, if the row is of it; keys that are no rows any more do not count.
handleDiscard(i) ==
  /\ Turn /\ lockedOp = None /\ confirm = None /\ i \in DOMAIN rows
  /\ confirm' = IF Cardinality(picked) > 1 /\ rows[i] \in picked THEN picked \cap ToSet(rows) ELSE {rows[i]}
  /\ UNCHANGED <<files, shown, lockedOp, rowState, open, box, work, typed, broken, thrown>>
handleDiscardAll ==
  LET all == {r \in ToSet(rows) : r[1] # "s"}
  IN /\ Turn /\ lockedOp = None /\ confirm = None /\ all # {}
     /\ confirm' = all
     /\ UNCHANGED <<files, shown, lockedOp, rowState, open, box, work, typed, broken, thrown>>
\* Untracked files are deleted; the others are restored, which needs the index.
doDiscard ==
  LET Named(k) == {f \in Files : <<k, f>> \in confirm}
      gone == {f \in Named("t") : tree[f] = "untracked"}
      back == IF lock = None THEN {f \in Named("u") : tree[f] \in Unstaged}
                                  \cup {f \in Named("s") : tree[f] \in Staged} ELSE {}
  IN /\ Turn /\ confirm # None
     /\ tree' = [f \in Files |->
          CASE f \in gone -> "clean"
            [] f \in back -> IF tree[f] = "both" /\ <<"s", f>> \notin confirm THEN "staged" ELSE "clean"
            [] OTHER -> tree[f]]
     /\ thrown' = [files |-> gone \cup back, asked |-> {r[2] : r \in confirm}, picked |-> picked]
     /\ shown' = tree' /\ confirm' = None /\ picked' = {}
     /\ UNCHANGED <<lock, lockedOp, focus, at, clicked, open, box, work, typed, broken>>

-----------------------------------------------------------------------------
(* The commit box *)

\* Type replaces the subject; a draft is what is typed with the switch off.
Type ==
  /\ Turn /\ lockedOp = None /\ confirm = None /\ typed < MaxTexts
  /\ typed' = typed + 1 /\ text' = typed + 1
  /\ mine' = IF amend THEN mine ELSE IF reads > 0 \/ \E r \in runs : r.here THEN 0 ELSE typed + 1
  /\ UNCHANGED <<files, shown, dialogs, rowState, open, amend, draft, work, broken, thrown>>

\* The draft is put aside before HEAD's message is asked for.
AmendOn ==
  /\ Turn /\ lockedOp = None /\ confirm = None /\ ~amend
  /\ draft' = text /\ reads' = reads + 1
  /\ mine' = IF reads > 0 THEN 0 ELSE mine
  /\ UNCHANGED <<files, shown, dialogs, rowState, open, text, amend, runs, committing, typed,
                 broken, thrown>>
\* The answer, which leaves the fields alone where there is no message.
MessageRead(message) ==
  /\ reads > 0 /\ reads' = reads - 1
  /\ text' = IF message = 0 THEN text ELSE message
  /\ amend' = TRUE
  /\ UNCHANGED <<files, shown, dialogs, rowState, open, draft, mine, runs, committing, turns, typed,
                 broken, thrown>>
\* Mutant: the switch goes off and the message stays.
AmendOffKeepsTheMessage ==
  /\ Turn /\ lockedOp = None /\ confirm = None /\ amend
  /\ amend' = FALSE /\ draft' = 0
  /\ UNCHANGED <<files, shown, dialogs, rowState, open, text, mine, work, typed, broken, thrown>>
AmendOff ==
  /\ Turn /\ lockedOp = None /\ confirm = None /\ amend
  /\ amend' = FALSE /\ text' = draft /\ draft' = 0
  /\ UNCHANGED <<files, shown, dialogs, rowState, open, mine, work, typed, broken, thrown>>

\* The button is disabled while a commit runs or nothing is staged; Cmd+Enter asks for a subject only.
handleCommit(byKey) ==
  /\ Turn /\ lockedOp = None /\ confirm = None /\ text # 0
  /\ byKey \/ (~committing /\ (amend \/ \E f \in Files : shown[f] \in Staged))
  /\ Cardinality(runs) < 2
  /\ runs' = runs \cup {[amend |-> amend, here |-> TRUE, nth |-> Cardinality(runs) + 1]}
  /\ committing' = TRUE
  /\ UNCHANGED <<files, shown, dialogs, rowState, open, box, reads, typed, broken, thrown>>

\* Mutant: the fields are cleared in the finally block.
ClearsAnyway(r, ok) == r.here
\* A success empties the box it was started from: text, switch and the draft put aside.
Clears(r, ok) == r.here /\ ok
commitStreaming(r, ok) ==
  /\ r \in runs /\ runs' = runs \ {r}
  /\ ok => lock = None /\ (r.amend \/ \E f \in Files : tree[f] \in Staged)
  /\ tree' = IF ok THEN [f \in Files |-> CASE tree[f] = "staged" -> "clean" [] tree[f] = "both" -> "modified"
                                           [] OTHER -> tree[f]] ELSE tree
  /\ shown' = IF ok THEN tree' ELSE shown
  /\ committing' = (committing /\ ~r.here)
  /\ IF Clears(r, ok) THEN text' = 0 /\ amend' = FALSE /\ draft' = 0 ELSE UNCHANGED <<text, amend, draft>>
  /\ mine' = IF ok /\ r.here THEN 0 ELSE mine
  /\ UNCHANGED <<lock, dialogs, rowState, open, reads, turns, typed, broken, thrown>>

-----------------------------------------------------------------------------
(* Around it *)

\* Another program edits, stages, takes the lock and gives it back, or dies with it.
Outside ==
  /\ Turn
  /\ \/ \E f \in Files, to \in {"clean", "modified", "staged", "both", "untracked"} :
          to # tree[f] /\ tree' = [tree EXCEPT ![f] = to] /\ UNCHANGED lock
     \/ lock' = (IF lock = None THEN "live" ELSE None) /\ lock # "crashed" /\ UNCHANGED tree
     \/ lock = "live" /\ lock' = "crashed" /\ UNCHANGED tree
  /\ UNCHANGED <<shown, dialogs, rowState, open, box, work, typed, broken, thrown>>
refresh ==
  /\ shown # tree /\ shown' = tree
  /\ UNCHANGED <<files, dialogs, rowState, open, box, work, turns, typed, broken, thrown>>
\* Selecting a commit shows another panel: everything typed and picked is gone.
Leave ==
  /\ Turn /\ lockedOp = None /\ confirm = None
  /\ open' = FALSE /\ reads' = 0 /\ committing' = FALSE
  /\ runs' = {[r EXCEPT !.here = FALSE] : r \in runs}
  /\ text' = 0 /\ amend' = FALSE /\ draft' = 0 /\ mine' = 0
  /\ picked' = {} /\ focus' = 0 /\ at' = 0 /\ clicked' = <<>>
  /\ UNCHANGED <<files, shown, dialogs, typed, broken, thrown>>
Return ==
  /\ ~open /\ turns < MaxTurns /\ open' = TRUE
  /\ UNCHANGED <<files, shown, dialogs, rowState, box, work, turns, typed, broken, thrown>>

Init ==
  /\ tree \in [Files -> {"clean", "modified", "untracked"}] /\ shown = tree
  /\ lock = None /\ lockedOp = None /\ confirm = None /\ open = TRUE
  /\ picked = {} /\ focus = 0 /\ at = 0 /\ clicked = <<>>
  /\ text = 0 /\ amend = FALSE /\ draft = 0
  /\ reads = 0 /\ runs = {} /\ committing = FALSE
  /\ turns = 0 /\ typed = 0 /\ mine = 0 /\ broken = 0
  /\ thrown = [files |-> {}, asked |-> {}, picked |-> {}]

Next ==
  \/ \E i \in 1..(2 * Cardinality(Files)) :
       handleDiscard(i) \/ \E mod \in {"plain", "meta", "shift"} : handleRowClick(i, mod)
  \/ \E step \in {-1, 1}, shift \in BOOLEAN : handleKeyDown(step, shift)
  \/ Escape \/ handleStage \/ removeLockAndRetry \/ CloseDialog \/ handleDiscardAll \/ doDiscard
  \/ Type \/ AmendOn \/ AmendOff
  \/ \E message \in {0, HeadText} : MessageRead(message)
  \/ \E byKey \in BOOLEAN : handleCommit(byKey)
  \/ \E r \in runs, ok \in BOOLEAN : commitStreaming(r, ok)
  \/ Outside \/ refresh \/ Leave \/ Return

Spec == Init /\ [][Next]_vars

-----------------------------------------------------------------------------

\* A draft is lost by a successful commit, by leaving the panel, and where it was typed, or the
\* switch clicked once more, while HEAD's message was still being read or a commit still running,
\* and in no other way: a failing hook, a held lock, a round trip through amending, a discard or a refresh keeps it, in
\* the box or put aside ("Stashed previous draft so toggling back restores it", WorkingTree.tsx:39).
DraftIsKept == mine # 0 => mine = text \/ mine = draft

\* Refuted: the range a shift-click selects starts at the row that was clicked before
\* ("extends the range from the last anchor", WorkingTree.tsx:223): the anchor is a position, and
\* a refresh moves the rows under it.
AnchorIsTheClicked == at # 0 => at \in DOMAIN rows /\ rows[at] = clicked

\* Refuted: a lock that a live process holds is not removed (git-service.ts:1291-1292).
LiveLockIsKept == broken = 0

\* Refuted: the button shows "Committing" as long as a commit runs (WorkingTree.tsx:477-483):
\* Cmd+Enter starts a second one and the first to end switches it off.
RunningIsShown == (\E r \in runs : r.here) => committing

\* Refuted: a successful amend gives back the draft put aside for it (WorkingTree.tsx:38-39).
AmendGivesBack == [][\A r \in runs : runs' = runs \ {r} /\ amend /\ ~amend' => text' = draft]_vars

TypeOK ==
  /\ {tree, shown} \subseteq [Files -> {"clean", "modified", "staged", "both", "untracked"}]
  /\ lock \in {None, "live", "crashed"}
  /\ lockedOp # None => lockedOp \in [kind : {"stage", "unstage"}, files : SUBSET Files]
  /\ {text, draft} \subseteq 0..HeadText /\ {typed, mine} \subseteq 0..MaxTexts
  /\ {amend, open, committing} \subseteq BOOLEAN
  /\ reads \in 0..MaxTurns /\ turns \in 0..MaxTurns /\ broken \in 0..MaxTurns
  /\ Cardinality(runs) <= 2
==============================================================================
