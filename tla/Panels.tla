-------------------------------- MODULE Panels --------------------------------
(***************************************************************************)
(* What the side panels and dialogs of the window do to files from a list they  *)
(* read earlier: the Clean dialog (CleanModal.tsx), the patch of uncommitted    *)
(* changes (PatchPanel.tsx) and the stash entries by index (App.tsx), over the  *)
(* operations of GitService, next to a terminal in the same working copy.      *)
(*                                                                         *)
(* A directory is clean's one item for what is in it as long as git tracks      *)
(* nothing there. Left out: the contents of files and patches, conflicts of a   *)
(* re-applied stash (module WorkingCopy), and saving or applying a patch.      *)
(***************************************************************************)
EXTENDS Integers, Sequences, SequencesExt

CONSTANTS Files, Ignored,     \* Ignored: those .gitignore names
          InFolder,           \* the files of the one directory there is
          Folder,             \* clean's item for it
          MaxOutside,         \* bound: commands given in the terminal
          MaxTurns,           \* bound: questions, generations and dialogs of the window in all
          MaxStashes,         \* bound: stash entries ever made
          Closed

VARIABLES disk,       \* files that exist
          index,      \* per file: not in it, "intent" (add -N), "added", or "tracked" as committed
          modal,      \* the one that is open: "clean", "patch" or a stash command; or Closed
          previews,   \* cleanPreview calls under way
          building,   \* buildWorkingPatch calls under way
          status,     \* the untracked files of the last refresh
          stashes, shownStashes,
          entries,    \* stash entries ever made
          outside, turns,
          kept,       \* history: items the person unchecked in the list on screen
          previewed,  \* history: files under the items of that list when git listed them
          cleaned,    \* history: files the last clean removed
          staged,     \* history: files the person added that nobody took back out
          dropped     \* history: the entry the last drop was asked for, and the one it dropped

work == <<disk, index>>
cleaning == <<previews, kept, previewed, cleaned>>
stashing == <<stashes, entries, dropped>>
shown == <<status, shownStashes>>
vars == <<disk, index, status, modal, previews, kept, previewed, cleaned, building,
          stashes, shownStashes, entries, dropped, staged, outside, turns>>

Open(kind) == modal # Closed /\ modal.kind = kind
\* Clean and the dialogs cover the window; the patch panel does not, and gives way to them.
Free == modal = Closed \/ Open("patch")
Untracked == {f \in disk : index[f] = "none"}
\* The calls under way answer to no panel any more.
Unheard == {[b EXCEPT !.live = FALSE] : b \in building}
Cleanable(ignored) == IF ignored THEN Untracked ELSE Untracked \ Ignored
WholeFolder == \A f \in InFolder : index[f] = "none"
Under(item) == IF item = Folder THEN InFolder ELSE {item}
Covered(items) == UNION {Under(i) : i \in items}

-----------------------------------------------------------------------------
(* Clean *)

\* git clean -n, with -d and -x by the boxes.
cleanPreview(dirs, ignored) ==
  LET found == Cleanable(ignored)
  IN IF WholeFolder
     THEN (found \ InFolder) \cup (IF dirs /\ found \cap InFolder # {} THEN {Folder} ELSE {})
     ELSE found

Asks(d, i) == previews' = {[p EXCEPT !.live = FALSE] : p \in previews}
                          \cup {[dirs |-> d, ignored |-> i, live |-> TRUE]}
OpenClean ==
  /\ Free /\ turns < MaxTurns
  /\ modal' = [kind |-> "clean", dirs |-> TRUE, ignored |-> FALSE,
                paths |-> {}, checked |-> {}, loading |-> TRUE]
  /\ Asks(TRUE, FALSE)
  /\ kept' = {} /\ previewed' = {} /\ turns' = turns + 1
  /\ building' = Unheard
  /\ UNCHANGED <<work, shown, cleaned, stashing, staged, outside>>
\* The effect runs again: what the old one asked for is not live any more.
SetScope(d, i) ==
  /\ Open("clean") /\ <<d, i>> # <<modal.dirs, modal.ignored>> /\ turns < MaxTurns
  /\ modal' = [modal EXCEPT !.dirs = d, !.ignored = i, !.loading = TRUE]
  /\ Asks(d, i)
  /\ kept' = {} /\ turns' = turns + 1
  /\ UNCHANGED <<work, shown, previewed, cleaned, building, stashing, staged, outside>>
\* Mutant: a late answer is taken as well.
AnyAnswer(p) == TRUE
IsLive(p) == p.live
\* All of it is checked.
PreviewArrives(p) ==
  /\ p \in previews
  /\ previews' = previews \ {p}
  /\ LET items == cleanPreview(p.dirs, p.ignored)
     IN IF Open("clean") /\ IsLive(p)
        THEN /\ modal' = [modal EXCEPT !.paths = items, !.checked = items, !.loading = FALSE]
             /\ previewed' = Covered(items) \cap disk
        ELSE UNCHANGED <<modal, previewed>>
  /\ UNCHANGED <<work, shown, kept, cleaned, building, stashing, staged, outside, turns>>
\* The list is not on screen while it is being read.
Toggle(item) ==
  /\ Open("clean") /\ ~modal.loading /\ item \in modal.paths
  /\ LET out == item \in modal.checked
     IN /\ modal' = [modal EXCEPT !.checked = IF out THEN @ \ {item} ELSE @ \cup {item}]
        /\ kept' = IF out THEN kept \cup {item} ELSE kept \ {item}
  /\ UNCHANGED <<work, shown, previews, previewed, cleaned, building, stashing, staged, outside, turns>>

\* git clean -f -- <paths>; the boxes still say whether ignored files go.
clean(items, ignored) == Cleanable(ignored) \cap Covered(items)
\* "delete" was typed. Nothing asks whether the list is still being read.
RunClean ==
  /\ Open("clean")
  /\ LET selected == modal.paths \cap modal.checked
     IN /\ selected # {}
        /\ cleaned' = clean(selected, modal.ignored)
        /\ disk' = disk \ clean(selected, modal.ignored)
  /\ modal' = Closed
  /\ previews' = {[p EXCEPT !.live = FALSE] : p \in previews}
  /\ status' = {f \in disk' : index[f] = "none"} \ Ignored /\ shownStashes' = stashes
  /\ UNCHANGED <<index, kept, previewed, building, stashing, staged, outside, turns>>
CancelClean ==
  /\ Open("clean") /\ modal' = Closed
  /\ previews' = {[p EXCEPT !.live = FALSE] : p \in previews}
  /\ UNCHANGED <<work, shown, kept, previewed, cleaned, building, stashing, staged, outside, turns>>

-----------------------------------------------------------------------------
(* The patch of uncommitted changes: new files are marked for as long as the diff takes *)

OpenPatch ==
  /\ modal = Closed /\ turns < MaxTurns
  /\ modal' = [kind |-> "patch", selected |-> status, patch |-> {}]
  /\ turns' = turns + 1
  /\ UNCHANGED <<work, shown, cleaning, building, stashing, staged, outside>>
ToggleFile(f) ==
  /\ Open("patch") /\ f \in status
  /\ modal' = [modal EXCEPT !.patch = {},
                            !.selected = IF f \in @ THEN @ \ {f} ELSE @ \cup {f}]
  /\ UNCHANGED <<work, shown, cleaning, building, stashing, staged, outside, turns>>
Loading == \E b \in building : b.live
\* add -N: nothing is marked if one of them is gone; one that was added by now stays added.
MarkIntent ==
  /\ Open("patch") /\ ~Loading /\ modal.selected # {} /\ modal.selected \subseteq disk
  /\ turns < MaxTurns /\ turns' = turns + 1
  /\ building' = building \cup {[marked |-> modal.selected, live |-> TRUE]}
  /\ index' = [f \in Files |-> IF f \in modal.selected /\ index[f] = "none"
                               THEN "intent" ELSE index[f]]
  /\ UNCHANGED <<disk, modal, shown, cleaning, stashing, staged, outside>>
\* Mutant: only what the panel still shows is taken back.
ResetSelected(marked) == [f \in Files |-> IF f \in marked /\ Open("patch") /\ f \in modal.selected
                                           /\ index[f] # "tracked" THEN "none" ELSE index[f]]
\* reset -- <marked>: what the index has for them goes, whoever put it there.
ResetMarked(marked) == [f \in Files |-> IF f \in marked /\ index[f] # "tracked"
                                         THEN "none" ELSE index[f]]
buildWorkingPatch(b) ==
  /\ b \in building /\ building' = building \ {b}
  /\ index' = ResetMarked(b.marked)
  /\ modal' = IF b.live /\ Open("patch") THEN [modal EXCEPT !.patch = b.marked] ELSE modal
  /\ UNCHANGED <<disk, shown, cleaning, stashing, staged, outside, turns>>
ClosePatch ==
  /\ Open("patch") /\ modal' = Closed /\ building' = Unheard
  /\ UNCHANGED <<work, shown, cleaning, stashing, staged, outside, turns>>

-----------------------------------------------------------------------------
(* Stash entries by index *)

\* Stashing in the terminal, or for a checkout, puts an entry first; here it takes no files.
stashSave ==
  /\ entries < MaxStashes
  /\ entries' = entries + 1
  /\ stashes' = <<entries + 1>> \o stashes
  /\ UNCHANGED <<work, shown, modal, cleaning, building, dropped, staged, outside, turns>>
\* A menu of the sidebar, and for a drop or a branch the dialog it opens: an index is kept.
ChooseStash(kind, i) ==
  /\ Free /\ i \in DOMAIN shownStashes /\ turns < MaxTurns
  /\ modal' = [kind |-> kind, index |-> i, entry |-> shownStashes[i]]
  /\ turns' = turns + 1 /\ building' = Unheard
  /\ UNCHANGED <<work, shown, cleaning, stashing, staged, outside>>
\* stash drop, pop, apply or branch of stash@{index}; only apply leaves the entry.
StashCommand ==
  /\ modal # Closed /\ modal.kind \in {"drop", "pop", "apply", "branch"}
  /\ modal' = Closed
  /\ IF modal.index \in DOMAIN stashes
     THEN /\ stashes' = IF modal.kind = "apply" THEN stashes ELSE RemoveAt(stashes, modal.index)
          /\ dropped' = IF modal.kind = "apply" THEN dropped
                        ELSE <<modal.entry, stashes[modal.index]>>
     ELSE UNCHANGED <<stashes, dropped>>
  /\ shownStashes' = stashes' /\ status' = Untracked \ Ignored
  /\ UNCHANGED <<work, cleaning, building, entries, staged, outside, turns>>

-----------------------------------------------------------------------------

\* A changed list of files selects all of them again.
refresh ==
  /\ status' = Untracked \ Ignored /\ shownStashes' = stashes
  /\ modal' = IF Open("patch") /\ status' # status
              THEN [modal EXCEPT !.selected = status', !.patch = {}] ELSE modal
  /\ UNCHANGED <<work, cleaning, building, stashing, staged, outside, turns>>

\* A file is made, added, committed or taken out of the index, outside the app.
Outside ==
  /\ outside < MaxOutside /\ outside' = outside + 1
  /\ \E f \in Files :
       \/ /\ f \notin disk /\ disk' = disk \cup {f} /\ UNCHANGED <<index, staged>>
       \/ /\ f \in disk /\ index[f] \in {"none", "intent"}
          /\ index' = [index EXCEPT ![f] = "added"] /\ staged' = staged \cup {f}
          /\ UNCHANGED disk
       \/ /\ index[f] = "added"
          /\ index' = [index EXCEPT ![f] = "tracked"] /\ UNCHANGED <<disk, staged>>
       \/ /\ index[f] \in {"added", "intent"}
          /\ index' = [index EXCEPT ![f] = "none"] /\ staged' = staged \ {f} /\ UNCHANGED disk
  /\ UNCHANGED <<shown, modal, cleaning, building, stashing, turns>>

Init ==
  /\ disk \in SUBSET Files /\ index = [f \in Files |-> "none"]
  /\ status = disk \ Ignored
  /\ modal = Closed /\ previews = {} /\ building = {}
  /\ stashes = <<2, 1>> /\ shownStashes = stashes /\ entries = 2
  /\ outside = 0 /\ turns = 0
  /\ kept = {} /\ previewed = {} /\ cleaned = {} /\ staged = {} /\ dropped = <<0, 0>>

Next ==
  \/ OpenClean \/ RunClean \/ CancelClean
  \/ \E d, i \in BOOLEAN : SetScope(d, i)
  \/ \E p \in previews : PreviewArrives(p)
  \/ \E item \in Files \cup {Folder} : Toggle(item)
  \/ OpenPatch \/ MarkIntent \/ ClosePatch
  \/ \E b \in building : buildWorkingPatch(b)
  \/ \E f \in Files : ToggleFile(f)
  \/ stashSave \/ StashCommand
  \/ \E kind \in {"drop", "pop", "apply", "branch"}, i \in 1..MaxStashes : ChooseStash(kind, i)
  \/ refresh \/ Outside

Spec == Init /\ [][Next]_vars

-----------------------------------------------------------------------------

\* A clean takes nothing under an unchecked item, nothing git tracks by then, and what is ignored only
\* if the box says so.
Spares ==
  /\ cleaned' \cap Covered(kept) = {}
  /\ \A f \in cleaned' : index[f] = "none"
  /\ cleaned' \cap Ignored # {} => modal.ignored
\* What the person unchecked in the list of the scope in force survives the clean, whatever older
\* previews still answered, and so does everything git tracks by then ("unchecked files are
\* preserved", openspec/specs/clean-untracked/spec.md; CleanModal.tsx:24-36).
UncheckedSurvive == [][RunClean => Spares]_vars

\* A file is marked in the index only while a patch of it is being built: the index is given back
\* as it was, for every order of generations, refreshes and commands of a terminal
\* (git-service.ts:2433-2437).
MarksAreTakenBack ==
  \A f \in Files : index[f] = "intent" => \E b \in building : f \in b.marked

\* Refuted: clean removes "the exact paths" that the dialog previewed (CleanModal.tsx:12): a
\* directory goes with what was put there since.
RemovesThePreviewed == [][RunClean => cleaned' \subseteq previewed]_vars

\* Refuted: "the user's index is left as-is" (git-service.ts:2437): a file that was added while its
\* patch was built, or since the last refresh, is taken out of the index again.
IndexIsLeft == \A f \in staged : index[f] # "none"

\* Refuted: the entry a stash command takes is the one whose menu was opened: the index is kept
\* ("stash@{${index}} deleted.", App.tsx:706), and a stash made meanwhile moves every entry.
TakesTheChosen == dropped[1] = dropped[2]

TypeOK ==
  /\ disk \subseteq Files /\ index \in [Files -> {"none", "intent", "added", "tracked"}]
  /\ Open("clean") => /\ {modal.dirs, modal.ignored, modal.loading} \subseteq BOOLEAN
                      /\ modal.checked \subseteq modal.paths
                      /\ modal.paths \subseteq Files \cup {Folder}
  /\ Open("patch") => modal.selected \subseteq Files /\ modal.patch \subseteq Files
  /\ previews \subseteq [dirs : BOOLEAN, ignored : BOOLEAN, live : BOOLEAN]
  /\ building \subseteq [marked : SUBSET Files, live : BOOLEAN]
  /\ stashes \in Seq(1..MaxStashes)
==============================================================================
