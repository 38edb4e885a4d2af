------------------------------- MODULE Staging -------------------------------
(***************************************************************************)
(* Staging, unstaging and discarding parts of a file: DiffViewer             *)
(* (src/renderer/components/DiffViewer/DiffViewer.tsx), the file lists of     *)
(* WorkingTree, and the diffs and patches of GitService. The viewer cuts a    *)
(* patch out of the diff it shows; git applies it to what the file has become. *)
(*                                                                         *)
(* The text of a file is a set of its lines, in their order. Lines lie close       *)
(* together in places, one to a hunk; what separates the places is the same in    *)
(* all of them that read alike, and git may find a hunk in any of these. Left      *)
(* out: untracked and binary files, diffs of commits, the views that hide white   *)
(* space or mark words, highlighting, and finding.                              *)
(***************************************************************************)
EXTENDS Integers, FiniteSets, Functions

CONSTANTS Files, Lines,
          HunkOf,     \* the hunk a line belongs to, in their order
          Phrase,     \* what the line reads like: lines of one hunk differ
          MaxActs,    \* bound: what the user and other programs do
          MaxReads,   \* bound: diffs being read at a time
          MaxJobs,    \* bound: patches under way at a time
          None

VARIABLES head, index, work,  \* the lines of each file in the three places
          view,       \* DiffViewer's filePath and staged
          diff,       \* the diff it shows
          loading,    \* whether it shows that it is loading instead
          asked,      \* reads of a diff under way
          armed,      \* discardArmed: where the button is that was pressed once
          timers,     \* the timeouts that will disarm it
          armedOn,    \* history: the patch that was on screen at that press
          jobs,       \* applyPatch calls under way
          temp,       \* name of a patch file -> the patch in it
          pressed,    \* history: the last discard, as [first, second] press
          acts        \* what the user and other programs have done

vars == <<head, index, work, view, diff, loading, asked, armed, timers, armedOn, jobs,
          temp, pressed, acts>>
repo == <<head, index, work>>
buttons == <<armed, timers, armedOn, pressed>>
viewer == <<view, diff, loading, buttons>>

Hunks == {HunkOf[l] : l \in Lines}
InHunks(H) == {l \in Lines : HunkOf[l] \in H}
Changed(d) == (d.old \ d.new) \cup (d.new \ d.old)
HunksOf(d) == {HunkOf[l] : l \in Changed(d)}

\* getFileDiff: the index against HEAD, or the working tree against the index.
DiffOf(v) == [file |-> v.file,
              old |-> IF v.staged THEN head[v.file] ELSE index[v.file],
              new |-> IF v.staged THEN index[v.file] ELSE work[v.file]]

-----------------------------------------------------------------------------
(* Patches: hunks of a diff, what they become, and the lines asked for.        *)

Cut(d, H) == [file |-> d.file, old |-> d.old, new |-> d.new, hunks |-> H,
              post |-> d.new \cap InHunks(H), want |-> Changed(d) \cap InHunks(H)]
Pre(p) == p.old \cap InHunks(p.hunks)
buildChunkPatch(d, h) == Cut(d, {h})
buildAllPatch(d) == Cut(d, HunksOf(d))

\* Mutant: the other added lines of the hunk are not left out.
KeepsTheOtherLines(d, l) ==
  [Cut(d, {HunkOf[l]}) EXCEPT !.want = {l}]
\* The other added lines are left out, the other removed ones made context.
buildLinePatch(d, l) ==
  LET p == Cut(d, {HunkOf[l]})
  IN [p EXCEPT !.post = IF l \in d.new THEN Pre(p) \cup {l} ELSE Pre(p) \ {l},
               !.want = {l}]

-----------------------------------------------------------------------------
(* git apply.                                                              *)

From(j, p) == IF j.reverse THEN p.post ELSE Pre(p)
To(j, p) == IF j.reverse THEN Pre(p) ELSE p.post
Side(j, p) == IF j.reverse THEN p.new ELSE p.old
Words(S, h) == {Phrase[l] : l \in {m \in S : HunkOf[m] = h}}

\* A hunk is found where the text reads like it; no two in one place.
Landings(j, p, text) ==
  {to \in Injection(p.hunks, Hunks) :
     \A h \in p.hunks : /\ Words(Lines, to[h]) = Words(Lines, h)
                        /\ Words(text, to[h]) = Words(From(j, p), h)}
InPlace(p) == [h \in p.hunks |-> h]
\* The line numbers of a hunk count the whole diff: they are right when nothing differs before
\* it, and no earlier hunk is left out.
NumbersAreRight(j, p, text) ==
  \A k \in p.hunks :
    /\ \A l \in Lines : HunkOf[l] < k => (l \in text <=> l \in Side(j, p))
    /\ \A h \in HunksOf(p) \ p.hunks : k < h
\* The search starts there; from wrong numbers any place may be the nearest.
Lands(j, p, text) ==
  IF NumbersAreRight(j, p, text) /\ InPlace(p) \in Landings(j, p, text)
  THEN {InPlace(p)} ELSE Landings(j, p, text)
Placed(j, p, text, to) ==
  {l \in Lines :
     IF \E h \in p.hunks : to[h] = HunkOf[l]
     THEN \E h \in p.hunks : to[h] = HunkOf[l] /\ Phrase[l] \in Words(To(j, p), h)
     ELSE l \in text}

\* The row a hunk begins in: the first one always follows the four lines of the
\* header.
Row(d, h) ==
  IF \E g \in HunksOf(d) : g < h
  THEN 1 + Cardinality((d.old \cup d.new) \cap InHunks({g \in HunksOf(d) : g < h}))
  ELSE 0
All == -1

-----------------------------------------------------------------------------
(* The viewer.                                                             *)

\* refreshDiff; what is true of the repository when git runs is what it reads.
Ask(v) ==
  /\ asked' = asked \cup {[view |-> v, got |-> None]}
  /\ Cardinality(asked') <= MaxReads
  /\ loading' = TRUE

\* A file is picked in the lists, or the other side of it.
Select(f, s) ==
  /\ view' = [file |-> f, staged |-> s]
  /\ view' # view
  /\ Ask(view')
  /\ UNCHANGED <<repo, diff, buttons, jobs, temp>>
Read(a) ==
  /\ a.got = None
  /\ asked' = (asked \ {a}) \cup {[a EXCEPT !.got = DiffOf(a.view)]}
  /\ UNCHANGED <<repo, viewer, jobs, temp>>
Show(a) ==
  /\ a.got # None
  /\ diff' = a.got
  /\ loading' = FALSE
  /\ asked' = asked \ {a}
  /\ UNCHANGED <<repo, view, buttons, jobs, temp>>

\* applyPatch sends the patches, whatever is under way; the main process writes each to a file
\* named after the time, so that those of one millisecond share it and hold the last one.
Ids == 1..MaxJobs
Free == {i \in Ids : \A j \in jobs : j.id # i /\ j.temp # i}
Least(S) == CHOOSE i \in S : \A k \in S : i <= k
Job(i, p, cached, reverse, name) ==
  [id |-> i, patch |-> p, cached |-> cached, reverse |-> reverse, view |-> view, temp |-> name,
   stage |-> "written", run |-> None]
\* A name of its own, or that of a file git has not read yet.
NamesFor(i) == {i} \cup {j.temp : j \in {k \in jobs : k.stage = "written"}}
Send(js, p) ==
  /\ jobs' = jobs \cup js
  /\ loading' = TRUE
  /\ temp' = [n \in Ids |-> IF \E j \in js : j.temp = n THEN p ELSE temp[n]]

\* handleStageChunk, handleStageAll, handleStageLine. The keys for hunks work on
\* the last diff also while the next is loading; a line must be on screen.
StagePatch(p) ==
  /\ Free # {}
  /\ LET i == Least(Free) IN
       \E name \in NamesFor(i) : Send({Job(i, p, TRUE, view.staged, name)}, p)
  /\ UNCHANGED <<repo, view, diff, buttons, asked>>
Stage ==
  \/ \E h \in HunksOf(diff) : StagePatch(buildChunkPatch(diff, h))
  \/ HunksOf(diff) # {} /\ StagePatch(buildAllPatch(diff))
  \/ ~loading /\ \E l \in Changed(diff) : StagePatch(buildLinePatch(diff, l))

\* The working tree, and the index too when the staged side is shown.
SendDiscards(p) ==
  /\ Free # {}
  /\ LET i == Least(Free) IN
       \E name \in NamesFor(i) :
         \/ ~view.staged /\ Send({Job(i, p, FALSE, TRUE, name)}, p)
         \/ /\ view.staged /\ Free # {i}
            /\ LET k == Least(Free \ {i}) IN
                 \E other \in {name, k} :
                   Send({Job(i, p, FALSE, TRUE, name), Job(k, p, TRUE, TRUE, other)}, p)

\* handleDiscardChunk, handleDiscardAll: the first press arms, the second acts.
Press(row, p) ==
  IF armed # row
  THEN /\ armed' = row
       /\ armedOn' = p
       /\ timers' = timers \cup {row}
       /\ UNCHANGED <<view, diff, loading, pressed, jobs, temp>>
  ELSE /\ armed' = None
       /\ pressed' = [first |-> armedOn, second |-> p]
       /\ SendDiscards(p)
       /\ UNCHANGED <<view, diff, timers, armedOn>>
Discard ==
  /\ \/ \E h \in HunksOf(diff) : Press(Row(diff, h), buildChunkPatch(diff, h))
     \/ HunksOf(diff) # {} /\ Press(All, buildAllPatch(diff))
  /\ UNCHANGED <<repo, asked>>

\* handleDiscardLine acts at once.
DiscardLine ==
  /\ ~loading
  /\ \E l \in Changed(diff) : SendDiscards(buildLinePatch(diff, l))
  /\ UNCHANGED <<repo, view, diff, buttons, asked>>

\* The three seconds after a press.
Disarm(row) ==
  /\ row \in timers
  /\ timers' = timers \ {row}
  /\ armed' = IF armed = row THEN None ELSE armed
  /\ UNCHANGED <<repo, view, diff, loading, asked, armedOn, jobs, temp, pressed>>

-----------------------------------------------------------------------------
(* applyPatch in the main process: git reads the file of its patch.          *)

Text(j, p) == IF j.cached THEN index[p.file] ELSE work[p.file]
Becomes(j, stage, run) ==
  /\ jobs' = (jobs \ {j}) \cup {[j EXCEPT !.stage = stage, !.run = run]}
  /\ UNCHANGED <<head, viewer, asked, temp>>
\* The index is locked while a patch is applied to it.
Busy(j) == j.cached /\ \E k \in jobs \ {j} : k.cached /\ k.stage = "written"

Refuse(j) ==
  /\ j.stage = "written"
  /\ LET p == temp[j.temp]
     IN p = None \/ Busy(j) \/ (p # None /\ Lands(j, p, Text(j, p)) = {})
  /\ Becomes(j, "refused", None)
  /\ UNCHANGED <<index, work>>

Run(j, p, to) == [patch |-> p, base |-> Text(j, p), out |-> Placed(j, p, Text(j, p), to)]
\* To the index, or what the working tree's file is to become.
Apply(j) ==
  LET p == temp[j.temp] IN
    /\ j.stage = "written" /\ p # None
    /\ \E to \in Lands(j, p, Text(j, p)) :
         IF j.cached
         THEN /\ index' = [index EXCEPT ![p.file] = Run(j, p, to).out]
              /\ Becomes(j, "applied", Run(j, p, to))
         ELSE Becomes(j, "read", Run(j, p, to)) /\ UNCHANGED index
    /\ UNCHANGED work
Write(j) ==
  /\ j.stage = "read"
  /\ work' = [work EXCEPT ![j.run.patch.file] = j.run.out]
  /\ Becomes(j, "applied", j.run)
  /\ UNCHANGED index

\* The file goes, and the viewer reads again what it showed when it was pressed.
Finish(j) ==
  /\ j.stage \in {"applied", "refused"}
  /\ jobs' = jobs \ {j}
  /\ temp' = [temp EXCEPT ![j.temp] = None]
  /\ Ask(j.view)
  /\ UNCHANGED <<repo, view, diff, buttons>>

-----------------------------------------------------------------------------
(* Whole files, and other programs.                                        *)

\* stage, unstage, discardChanges (confirmed in a dialog), commit.
StageFile(f) == index' = [index EXCEPT ![f] = work[f]] /\ UNCHANGED <<head, work>>
UnstageFile(f) == index' = [index EXCEPT ![f] = head[f]] /\ UNCHANGED <<head, work>>
DiscardFile(f) == work' = [work EXCEPT ![f] = index[f]] /\ UNCHANGED <<head, index>>
DiscardStagedFile(f) ==
  /\ index' = [index EXCEPT ![f] = head[f]]
  /\ work' = [work EXCEPT ![f] = head[f]]
  /\ UNCHANGED head
Commit == head' = index /\ UNCHANGED <<index, work>>
Edit(f, l) ==
  /\ work' = [work EXCEPT ![f] = IF l \in @ THEN @ \ {l} ELSE @ \cup {l}]
  /\ UNCHANGED <<head, index>>
\* The requests of the changes panel about whole files.
IndexWrites(f) == StageFile(f) \/ UnstageFile(f) \/ DiscardFile(f) \/ DiscardStagedFile(f)
Elsewhere ==
  /\ \/ \E f \in Files : IndexWrites(f)
     \/ Commit
     \/ \E f \in Files, l \in Lines : Edit(f, l)
  /\ UNCHANGED <<viewer, asked, jobs, temp>>

-----------------------------------------------------------------------------
Init ==
  /\ head = [f \in Files |-> {l \in Lines : l % 2 = 1}]
  /\ index = head
  /\ work \in [Files -> {{l \in Lines : l % 2 = 0}, Lines}]
  /\ \E f \in Files :
       /\ view = [file |-> f, staged |-> FALSE]
       /\ diff = DiffOf(view)
  /\ asked = {} /\ loading = FALSE
  /\ armed = None /\ timers = {} /\ armedOn = None /\ pressed = None
  /\ jobs = {} /\ temp = [n \in Ids |-> None]
  /\ acts = 0

Act ==
  /\ acts < MaxActs
  /\ acts' = acts + 1
  /\ \/ \E f \in Files, s \in BOOLEAN : Select(f, s)
     \/ Stage \/ Discard \/ DiscardLine \/ Elsewhere

Go ==
  /\ UNCHANGED acts
  /\ \/ \E a \in asked : Read(a) \/ Show(a)
     \/ \E j \in jobs : Apply(j) \/ Refuse(j) \/ Write(j) \/ Finish(j)
     \/ \E row \in timers : Disarm(row)

Next == Act \/ Go
Spec == Init /\ [][Next]_vars

-----------------------------------------------------------------------------
Delta(a, b) == (a \ b) \cup (b \ a)
Ends(j, k, stage) == j.id = k.id /\ j.stage \in {"written", "read"} /\ k.stage = stage
\* The lines of a patch change, in the file whose diff was shown, and nothing of the other side.
ChangesWhatWasAsked(j) ==
  \A f \in Files :
    /\ Delta(index[f], index'[f]) = IF j.cached /\ f = j.patch.file THEN j.patch.want ELSE {}
    /\ Delta(work[f], work'[f]) = IF ~j.cached /\ f = j.patch.file THEN j.patch.want ELSE {}

AppliesExactly ==
  \A j \in jobs, k \in jobs' :
    (/\ Ends(j, k, "applied")
     /\ k.run.patch = j.patch /\ k.run.base = Text(j, j.patch)
     /\ Lands(j, j.patch, k.run.base) = {InPlace(j.patch)})
    => ChangesWhatWasAsked(j)
\* The hunks of a diff, as opposed to one line, or one line going forward.
CutToFit(j) == ~j.reverse \/ j.patch.want = Changed(j.patch) \cap InHunks(j.patch.hunks)
TakesTheFresh ==
  \A j \in jobs, k \in jobs' :
    Ends(j, k, "refused") =>
      \/ temp[j.temp] # j.patch \/ Busy(j) \/ ~CutToFit(j)
      \/ Text(j, j.patch) # Side(j, j.patch)
AppliesOrTells == AppliesExactly /\ TakesTheFresh

\* Staging, unstaging and discarding of hunks and lines (DiffViewer, applyPatch), however old the
\* diff on screen is: a patch that git finds to belong in its own place only changes exactly the
\* lines asked for, if its file was not overwritten by that of another press and the text not
\* written to between git's reading and writing it; and hunks, or a line going forward, of a text
\* that is still as it was shown are not refused, unless another patch has locked the index.
PatchesAreExact == [][AppliesOrTells]_vars

\* interactive-add/spec.md:26-29: "WHEN focus is on a hunk header in unstaged mode AND the user
\* presses `s` THEN that hunk is staged". Refuted: the line numbers of a hunk count the earlier
\* ones that are left out, and where the text repeats git finds another place for it, with a diff
\* just read; and a second press in the same millisecond overwrites the patch of the first
\* (git-service.ts:2479-2480), whose place it takes.
ThatHunkIsStaged ==
  [][\A j \in jobs, k \in jobs' :
       Ends(j, k, "applied") /\ j.cached /\ ~j.reverse => ChangesWhatWasAsked(j)]_vars

\* DiffViewer.tsx:40-42: "first click arms the button on that hunk, second click
\* within 3s commits. Auto-disarms when the hunk index changes or on timeout."
\* Refuted: what is armed is a row, and the first hunk of every file is in the
\* same one.
SecondPressIsTheFirst ==
  pressed # None => /\ pressed.first.file = pressed.second.file
                    /\ pressed.first.hunks = pressed.second.hunks

\* interactive-add/spec.md:40-42: "that single line's change is discarded from the
\* working tree". Refuted, even if nothing happens in between: the patch of a
\* line is cut for going forward and is then applied in reverse, which fits only
\* where the line is the whole change of its hunk.
LineDiscardsApply ==
  [][\A j \in jobs, k \in jobs' :
       (/\ Ends(j, k, "refused") /\ ~j.cached /\ Cardinality(j.patch.want) = 1
        /\ Text(j, j.patch) = Side(j, j.patch))
       => temp[j.temp] # j.patch]_vars

\* DiffViewer.tsx:447-448: discarding takes the chunk "from both index + working
\* tree (staged)". Refuted: the two patches are independent, and one may fit and
\* the other not; sent in one millisecond they may share their file.
StagedDiscardIsWhole ==
  ~\E j, k \in jobs : j.stage = "applied" /\ k.stage = "refused"
=============================================================================
