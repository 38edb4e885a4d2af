------------------------------ MODULE Conflicts ------------------------------
(***************************************************************************)
(* Resolving conflicts by hand: the file git leaves with markers in it, the    *)
(* editor that cuts it into blocks (ConflictEditor.tsx, lib/conflictDiff.ts),   *)
(* the panel that lists what is unresolved (ConflictPanel.tsx) and the          *)
(* functions of GitService they call. What continuing, skipping and aborting    *)
(* the paused operation do is in WorkingCopy.                                 *)
(*                                                                         *)
(* A text is a sequence of characters, one of which ends a line. Left out: the   *)
(* marks for words, colours, scrolling, finding, and rerere.                   *)
(***************************************************************************)
EXTENDS Integers, FiniteSets, SequencesExt

CONSTANTS Merged,     \* what git may make of a file: sequences of sections
          Files,
          Marks,      \* [lt, sep, gt]: the characters that stand for markers
          Heading,    \* a line of text that begins as the separator does
          MaxEdits,   \* bound: changes typed by hand
          NL, None

VARIABLES truth,      \* the sections git found in each file
          disk, unmerged,
          listed,     \* status.conflict.conflictedFiles at the last refresh
          active,     \* App's activeConflictFile, the editor's filePath
          reading,    \* the reply the editor waits for
          file, resolved, choices,
          from,       \* history: the file whose text the editor holds
          typed,      \* history: how often a text was changed by hand
          confirm, saving

vars == <<truth, disk, unmerged, listed, active, reading, file, resolved, choices, from,
          typed, confirm, saving>>
editor == <<file, resolved, choices, from, confirm>>

Sides == {"current", "incoming"}
Choice == Sides \cup {"both", "custom"}
Shared(t) == [kind |-> "shared", text |-> t]
Conflict(c, i) == [kind |-> "conflict", current |-> c, incoming |-> i]

\* join and split on the character that ends a line.
Join(texts) ==
  LET joined[i \in 0..Len(texts)] ==
        IF i = 0 THEN <<>> ELSE IF i = 1 THEN texts[1] ELSE joined[i - 1] \o <<NL>> \o texts[i]
  IN joined[Len(texts)]
LineEnds(lines, c) ==
  IF c = NL THEN Append(lines, <<>>) ELSE [lines EXCEPT ![Len(lines)] = Append(@, c)]
Split(text) ==
  LET lines[i \in 0..Len(text)] == IF i = 0 THEN <<<<>>>> ELSE LineEnds(lines[i - 1], text[i])
  IN lines[Len(text)]
Mapped(f(_), s) == [i \in 1..Len(s) |-> f(s[i])]

-----------------------------------------------------------------------------
(* git's file and the blocks found in it. Here a side is its lines; an empty   *)
(* side has none.                                                          *)

WithMarkers(sections) ==
  Join(FlattenSeq(Mapped(LAMBDA s :
    IF s.kind = "shared" THEN s.text
    ELSE <<<<Marks.lt>>>> \o s.current \o <<<<Marks.sep>>>> \o s.incoming
         \o <<<<Marks.gt>>>>, sections)))
SideOf(side, sections) ==
  Join(FlattenSeq(Mapped(LAMBDA s :
    IF s.kind = "shared" THEN s.text ELSE s[side], sections)))

\* A separator is a line that begins like one.
Separates(line) == line \in {<<Marks.sep>>, <<Heading>>}
\* A line is read in the shared text, on one side, or on the other.
Parse(st, line) ==
  CASE st.in = "shared" /\ line = <<Marks.lt>> ->
         [in |-> "current", cur |-> <<>>, inc |-> <<>>, buf |-> <<>>,
          out |-> IF st.buf = <<>> THEN st.out ELSE Append(st.out, Shared(Join(st.buf)))]
    [] st.in = "shared" /\ line # <<Marks.lt>> -> [st EXCEPT !.buf = Append(@, line)]
    [] st.in = "current" /\ Separates(line) -> [st EXCEPT !.in = "incoming"]
    [] st.in = "current" /\ ~Separates(line) -> [st EXCEPT !.cur = Append(@, line)]
    [] st.in = "incoming" /\ line = <<Marks.gt>> ->
         [st EXCEPT !.in = "shared", !.out = Append(@, Conflict(Join(st.cur), Join(st.inc)))]
    [] OTHER -> [st EXCEPT !.inc = Append(@, line)]
getConflictFile(text) ==
  LET lines == Split(text)
      state[i \in 0..Len(lines)] ==
        IF i = 0 THEN [in |-> "shared", cur |-> <<>>, inc |-> <<>>, buf |-> <<>>, out |-> <<>>]
        ELSE Parse(state[i - 1], lines[i])
      end == state[Len(lines)]
  IN IF end.in # "shared" THEN Append(end.out, Conflict(Join(end.cur), Join(end.inc)))
     ELSE IF end.buf = <<>> THEN end.out
     ELSE Append(end.out, Shared(Join(end.buf)))

-----------------------------------------------------------------------------
(* diffBlock: which lines the two sides of a block share.                     *)

\* Mutant: the walk follows the shorter of the two ways.
LeavesTheLonger(down, right) == down <= right
FollowsDown(down, right) == down >= right
\* lcsFlags: the table of lengths from the end, and the walk from the start, as
\* the pairs of places at which the sides agree.
lcsFlags(a, b) ==
  LET n == Len(a)
      m == Len(b)
      dp[i \in 1..(n + 1), j \in 1..(m + 1)] ==
        IF i > n \/ j > m THEN 0
        ELSE IF a[i] = b[j] THEN dp[i + 1, j + 1] + 1
        ELSE LET down == dp[i + 1, j] right == dp[i, j + 1]
             IN IF down > right THEN down ELSE right
      walk[i \in 1..(n + 1), j \in 1..(m + 1)] ==
        IF i > n \/ j > m THEN {}
        ELSE IF a[i] = b[j] THEN {<<i, j>>} \cup walk[i + 1, j + 1]
        ELSE IF FollowsDown(dp[i + 1, j], dp[i, j + 1]) THEN walk[i + 1, j]
        ELSE walk[i, j + 1]
  IN walk[1, 1]
diffBlock(s) == lcsFlags(Split(s.current), Split(s.incoming))

-----------------------------------------------------------------------------
(* The resolved text.                                                       *)

blockText(s, side) ==
  IF side \in Sides THEN s[side]
  ELSE IF s.current = <<>> THEN s.incoming
  ELSE IF s.incoming = <<>> THEN s.current
  ELSE s.current \o <<NL>> \o s.incoming

\* The sections that are blocks, numbered in their order.
Blocks == {i \in 1..Len(file) : file[i].kind = "conflict"}
BlockOf(i) == Cardinality({k \in Blocks : k <= i})
Chosen(i) == IF choices[BlockOf(i)] = "custom" THEN "current" ELSE choices[BlockOf(i)]
TextOf(i) == IF file[i].kind = "shared" THEN file[i].text ELSE blockText(file[i], Chosen(i))
Assembled == Join([i \in 1..Len(file) |-> TextOf(i)])

\* Mutant: the line breaks between the sections are not counted.
BreaksNotCounted(i) ==
  LET off[k \in 1..i] == IF k = 1 THEN 0 ELSE off[k - 1] + Len(TextOf(k - 1)) IN off[i]
expectedOffset(i) ==
  LET off[k \in 1..i] == IF k = 1 THEN 0 ELSE off[k - 1] + Len(TextOf(k - 1)) + 1 IN off[i]

Dist(x, y) == IF x > y THEN x - y ELSE y - x
Occurrences(hay, needle) ==
  {at \in 0..(Len(hay) - Len(needle)) : SubSeq(hay, at + 1, at + Len(needle)) = needle}
findNearest(hay, needle, expected) ==
  CHOOSE at \in Occurrences(hay, needle) :
    \A o \in Occurrences(hay, needle) :
      \/ Dist(at, expected) < Dist(o, expected)
      \/ Dist(at, expected) = Dist(o, expected) /\ at <= o

Spliced(at, len, text) ==
  SubSeq(resolved, 1, at) \o text \o SubSeq(resolved, at + len + 1, Len(resolved))
Put(at, len, text) == resolved' = Spliced(at, len, text)

\* The text of the last choice is replaced where it is nearest; without it the
\* new text goes in at the cursor.
applyChoice(i, side) ==
  LET b == BlockOf(i)
      next == blockText(file[i], side)
      expected == expectedOffset(i)
      prev == IF choices[b] = "custom" THEN None ELSE blockText(file[i], choices[b])
  IN \/ /\ prev = <<>>
        /\ Put(IF expected < Len(resolved) THEN expected ELSE Len(resolved), 0, next)
        /\ choices' = [choices EXCEPT ![b] = side]
        /\ UNCHANGED typed
     \/ /\ prev \notin {None, <<>>} /\ Occurrences(resolved, prev) # {}
        /\ Put(findNearest(resolved, prev, expected), Len(prev), next)
        /\ choices' = [choices EXCEPT ![b] = side]
        /\ UNCHANGED typed
     \/ /\ prev # <<>>
        /\ prev = None \/ Occurrences(resolved, prev) = {}
        /\ \E at \in 0..Len(resolved) : Put(at, 0, next \o <<NL>>)
        /\ choices' = [choices EXCEPT ![b] = "custom"]
        /\ typed < MaxEdits /\ typed' = typed + 1
takeAll(side) ==
  /\ resolved' = Join(Mapped(LAMBDA s : IF s.kind = "shared" THEN s.text ELSE s[side], file))
  /\ choices' = [b \in 1..Cardinality(Blocks) |-> side]
  /\ UNCHANGED typed

\* Keys, and clicks on a line of a side, which insert it;
\* what is pasted may hold a marker.
Type ==
  /\ typed < MaxEdits
  /\ typed' = typed + 1
  /\ \/ \E at \in 0..(Len(resolved) - 1) : Put(at, 1, <<>>)
     \/ \E at \in 0..Len(resolved) : Put(at, 0, <<Marks.sep, NL>>)
  /\ UNCHANGED choices

Edit ==
  /\ active # None /\ file # None
  /\ \/ \E i \in Blocks, side \in Choice \ {"custom"} : applyChoice(i, side)
     \/ \E side \in Sides : takeAll(side)
     \/ Type
  /\ UNCHANGED <<truth, disk, unmerged, listed, active, reading, file, from, confirm, saving>>

-----------------------------------------------------------------------------
(* Opening, saving and closing.                                             *)

Blank ==
  /\ file' = None /\ resolved' = <<>> /\ choices' = <<>>
  /\ from' = None /\ confirm' = FALSE
Close == active' = None /\ reading' = None /\ Blank /\ UNCHANGED typed

\* Another file may be opened over the one being edited: the editor stays, with
\* the text it has, until the reply comes.
Open(f) ==
  /\ f \in listed /\ f # active
  /\ active' = f
  /\ reading' = [file |-> f, got |-> None]
  /\ IF active = None THEN Blank ELSE UNCHANGED editor
  /\ UNCHANGED <<truth, disk, unmerged, listed, typed, saving>>
ReadFile ==
  /\ reading # None /\ reading.got = None
  /\ reading' = [reading EXCEPT !.got = getConflictFile(disk[reading.file])]
  /\ UNCHANGED <<truth, disk, unmerged, listed, active, editor, typed, saving>>
Load ==
  /\ reading # None /\ reading.got # None
  /\ file' = reading.got
  /\ resolved' = Join(Mapped(LAMBDA s : IF s.kind = "shared" THEN s.text ELSE s.current, file'))
  /\ choices' = [b \in 1..Cardinality(Blocks') |-> "current"]
  /\ from' = reading.file
  /\ reading' = None
  /\ UNCHANGED <<truth, disk, unmerged, listed, active, typed, confirm, saving>>

hasMarkers == \E line \in ToSet(Split(resolved)) : line \in {<<Marks[k]>> : k \in DOMAIN Marks}
doSave ==
  /\ saving' = [path |-> active, text |-> resolved, of |-> from, written |-> FALSE]
  /\ confirm' = FALSE
  /\ UNCHANGED <<truth, disk, unmerged, listed, active, reading, file, resolved, choices,
                 from, typed>>
handleSave ==
  /\ active # None /\ file # None /\ saving = None
  /\ IF hasMarkers
     THEN /\ confirm' = TRUE
          /\ UNCHANGED <<truth, disk, unmerged, listed, active, reading, file, resolved,
                         choices, from, typed, saving>>
     ELSE doSave
SaveAnyway == active # None /\ confirm /\ saving = None /\ doSave
Dismiss ==
  /\ confirm /\ confirm' = FALSE
  /\ UNCHANGED <<truth, disk, unmerged, listed, active, reading, file, resolved, choices,
                 from, typed, saving>>
\* The file is written, then staged, then whatever editor is open is closed and
\* the status read again.
Write ==
  /\ saving # None /\ ~saving.written
  /\ disk' = [disk EXCEPT ![saving.path] = saving.text]
  /\ saving' = [saving EXCEPT !.written = TRUE]
  /\ UNCHANGED <<truth, unmerged, listed, active, reading, editor, typed>>
MarkResolved ==
  /\ saving # None /\ saving.written
  /\ unmerged' = unmerged \ {saving.path}
  /\ saving' = None
  /\ Close
  /\ UNCHANGED <<truth, disk, listed>>
CloseEditor ==
  /\ active # None
  /\ Close
  /\ UNCHANGED <<truth, disk, unmerged, listed, saving>>

\* "Mark resolved" in the panel, or git add in another program.
Staged(f) ==
  /\ f \in unmerged
  /\ unmerged' = unmerged \ {f}
  /\ UNCHANGED <<truth, disk, listed, active, reading, editor, typed, saving>>
\* A status that no longer lists the file closes the editor.
Refresh ==
  /\ listed' = unmerged
  /\ listed' # listed
  /\ IF active \in listed' \cup {None} THEN UNCHANGED <<active, reading, editor, typed>> ELSE Close
  /\ UNCHANGED <<truth, disk, unmerged, saving>>

-----------------------------------------------------------------------------
Init ==
  /\ truth \in [Files -> Merged]
  /\ disk = [f \in Files |-> WithMarkers(truth[f])]
  /\ unmerged = Files /\ listed = Files
  /\ active = None /\ reading = None
  /\ file = None /\ resolved = <<>> /\ choices = <<>> /\ from = None /\ typed = 0
  /\ confirm = FALSE /\ saving = None

\* What the main process does for the editor.
Answers == ReadFile \/ Write \/ MarkResolved
Next ==
  \/ \E f \in Files : Open(f) \/ Staged(f)
  \/ Load \/ Edit \/ handleSave \/ SaveAnyway \/ Dismiss \/ Answers \/ CloseEditor \/ Refresh
Spec == Init /\ [][Next]_vars

-----------------------------------------------------------------------------
\* As long as nothing was typed, the resolved text is the shared text with what
\* was chosen last for every block, in whatever order the buttons were pressed and
\* however often a block's text occurs in the file: each swap found its own place.
PressesAssemble == file # None /\ typed = 0 => resolved = Assembled

\* The lines shown as shared by both sides are a longest common subsequence.
Common(a, b, P) ==
  \A p, q \in P : a[p[1]] = b[p[2]] /\ (p[1] < q[1] <=> p[2] < q[2])
SharedLinesAreMost ==
  reading # None /\ reading.got # None =>
    \A s \in {t \in ToSet(reading.got) : t.kind = "conflict"} :
      LET a == Split(s.current)
          b == Split(s.incoming)
      IN /\ Common(a, b, diffBlock(s))
         /\ \A P \in SUBSET ((1..Len(a)) \X (1..Len(b))) :
              Common(a, b, P) => Cardinality(P) <= Cardinality(diffBlock(s))

\* openspec/specs/conflict-resolution/spec.md:55-56: "WHEN the user saves a
\* resolved file from the resolver THEN the file is written and marked resolved".
\* Refuted: between choosing another file and the reply with its text, what is
\* saved under its name is the text of the one before.
SavedIsItsOwn == saving # None => saving.of = saving.path

\* ConflictEditor.tsx:150-151: "Seed the resolved buffer with the current side's
\* full file." Refuted: a side without lines leaves an empty line, and a line of
\* text that begins with seven equals signs ends the side.
SeedIsTheCurrentSide ==
  from \in unmerged /\ typed = 0 /\ (\A b \in DOMAIN choices : choices[b] = "current")
    => resolved = SideOf("current", truth[from])
=============================================================================
