------------------------------- MODULE Viewing -------------------------------
(***************************************************************************)
(* What the window shows around the graph: the rows as the layout worker has    *)
(* drawn them (GraphView.tsx), the selection of one or several commits and the   *)
(* side panel about it (App.tsx, lib/selection.ts, CommitDetail.tsx,            *)
(* MultiSelectDetail.tsx), and the search that dims the rest (SearchBar.tsx).   *)
(*                                                                         *)
(* Effects of React run before anything else happens, so they are part of the   *)
(* action that changes what they depend on. Left out: drawing, scrolling, stash *)
(* nodes, and what is done with a selection (modules HistoryRewrite and         *)
(* WorkingCopy).                                                            *)
(***************************************************************************)
EXTENDS Integers, Sequences, SequencesExt, FiniteSets

CONSTANTS Logs,        \* listings of commits, WORKTREE first where the tree is dirty
          Big,         \* those that are laid out in a worker
          TabOf,       \* listing -> the tab it is of
          WORKTREE,
          Queries, Hits, Found,  \* query -> commits matching by message, and by content
          MaxTurns,    \* bound: clicks, keys, refreshes and answers to a search's typing in all
          None

VARIABLES log, nodes, worker,        \* the listing, the one drawn, the one being laid out
          selected, many, anchor,    \* selectedSha, selectedShas, selectionAnchor
          files, reads,              \* the commit whose files the detail panel lists, and reads under way
          stat, statAsk,             \* the combined diffstat and the range it was last asked for
          diff,                      \* the open diff: the commit, and the one whose list it was opened from
          search, finds, matches,    \* the search bar, pickaxe runs under way, what is not dimmed
          turns,
          toggled                    \* history: the selection before the last ctrl-click, and its commit

graph == <<log, nodes, worker>>
selection == <<selected, many, anchor>>
panel == <<files, reads, stat, statAsk, diff>>
searching == <<search, finds, matches>>
vars == <<log, nodes, worker, selected, many, anchor, files, reads, stat, statAsk, diff,
          search, finds, matches, turns, toggled>>

Commits == UNION {ToSet(l) : l \in Logs} \ {WORKTREE}
Turn == turns < MaxTurns /\ turns' = turns + 1

-----------------------------------------------------------------------------
(* Selections (lib/selection.ts) *)

Row(order, sha) == CHOOSE i \in DOMAIN order : order[i] = sha
rangeBetween(order, a, b) ==
  LET i == Row(order, a) j == Row(order, b)
  IN {order[k] : k \in (IF i < j THEN i..j ELSE j..i)}
isContiguous(order, shas) ==
  /\ shas # {} /\ shas \subseteq ToSet(order)
  /\ \A a, b \in shas : rangeBetween(order, a, b) \subseteq shas

\* What bulk actions are about.
opSelected(set) == set \ {WORKTREE}
\* The panel on the right: several commits, one, or the working tree.
PanelOf(sel, set) ==
  IF sel \in {None, WORKTREE} THEN "tree"
  ELSE IF Cardinality(opSelected(set)) > 1 THEN "many" ELSE "one"
Run(order, set) == IF isContiguous(order, opSelected(set)) THEN opSelected(set) ELSE None

-----------------------------------------------------------------------------
(* Effects *)

\* Nothing selected and a dirty tree: its node. Something outside the selection: it alone.
Primary(sel, order) == IF sel = None /\ WORKTREE \in ToSet(order) THEN WORKTREE ELSE sel
\* A panel that goes takes its state with it; one that comes or changes reads anew.
Shows(sel, set, order) ==
  LET here == PanelOf(selected, many) there == PanelOf(sel, set)
      again == there = "one" /\ (here # "one" \/ sel # selected)
  IN /\ files' = IF there = "one" /\ here = "one" THEN files ELSE None
     /\ reads' = IF there # "one" THEN {}
                 ELSE IF again THEN (IF here = "one" THEN reads ELSE {}) \cup {sel} ELSE reads
     /\ IF there = "many" /\ here = "many" /\ set = many /\ order = log
        THEN UNCHANGED <<stat, statAsk>>
        ELSE /\ stat' = None
             /\ statAsk' = IF there = "many" THEN Run(order, set) ELSE None
     /\ diff' = IF diff # None /\ (diff.sha # sel \/ TabOf[order] # TabOf[log]) THEN None ELSE diff
Selects(sel, set, at, order) ==
  LET s == Primary(sel, order)
      in == s = None \/ s \in set
  IN /\ selected' = s
     /\ many' = IF in THEN set ELSE {s}
     /\ anchor' = IF in THEN at ELSE s
     /\ Shows(s, many', order)

results(s, order) ==
  IF Len(s.query) < 2 THEN <<>>
  ELSE IF s.mode = "content" THEN s.found
  ELSE SelectSeq(order, LAMBDA c : c \in Hits[s.query])
isSearching(s) == s.open /\ Len(s.query) >= 2 /\ ~(s.mode = "content" /\ s.loading)
\* New results are what stays lit, and the first of them is selected.
Publishes(s, order, sel, set, at) ==
  LET news == <<results(s, order), isSearching(s)>> # <<results(search, log), isSearching(search)>>
      found == results(s, order)
      focus == news /\ isSearching(s) /\ found # <<>>
  IN /\ search' = IF news THEN [s EXCEPT !.active = 1] ELSE s
     /\ log' = order
     /\ matches' = IF ~isSearching(s) THEN None ELSE IF news THEN ToSet(found) ELSE matches
     /\ IF focus THEN Selects(found[1], {found[1]}, found[1], order)
        ELSE Selects(sel, set, at, order)

-----------------------------------------------------------------------------
(* The listing and its layout *)

\* Mutant: the worker of the listing before is not ended.
AnyWorker(order) == IF worker # None THEN worker ELSE order
\* A worker is ended with the listing it was started for.
Worker(order) == IF order \in Big THEN order ELSE None
\* A refresh, or another tab with nothing selected. A small listing is drawn at once.
Show(order) ==
  /\ Turn /\ order # log
  /\ worker' = Worker(order)
  /\ nodes' = IF order \notin Big THEN order ELSE IF log \in Big THEN nodes ELSE <<>>
  /\ LET sel == IF TabOf[order] # TabOf[log] THEN None ELSE selected
     IN Publishes(search, order, sel, many, anchor)
  /\ UNCHANGED <<finds, toggled>>
Drawn ==
  /\ worker # None
  /\ nodes' = worker /\ worker' = None
  /\ UNCHANGED <<log, selection, panel, searching, turns, toggled>>

-----------------------------------------------------------------------------
(* Clicks and keys *)

handleSelectCommit(sha, mod) ==
  /\ Turn /\ sha \in ToSet(nodes)
  /\ \/ /\ mod = "shift" /\ {anchor, sha} \subseteq ToSet(log)
        /\ Selects(sha, rangeBetween(log, anchor, sha), anchor, log) /\ UNCHANGED toggled
     \/ /\ mod = "meta"
        /\ toggled' = <<many, sha>>
        /\ Selects(sha, IF sha \in many THEN many \ {sha} ELSE many \cup {sha}, sha, log)
     \/ /\ mod = "none" \/ (mod = "shift" /\ ~({anchor, sha} \subseteq ToSet(log)))
        /\ Selects(sha, {sha}, sha, log) /\ UNCHANGED toggled
  /\ UNCHANGED <<graph, searching>>
\* Up and down from the selected row, among the rows that are drawn.
handleKeyDown(step, shift) ==
  LET cur == IF selected \in ToSet(nodes) THEN Row(nodes, selected) ELSE 0
      next == IF cur = 0 THEN 1 ELSE cur + step
  IN /\ next \in DOMAIN nodes /\ handleSelectCommit(nodes[next], IF shift THEN "shift" ELSE "none")
\* A branch, tag or stash in the sidebar: its commit need not be listed.
handleSelectRef(sha) ==
  /\ Turn /\ Selects(sha, many, anchor, log)
  /\ UNCHANGED <<graph, searching, toggled>>
clearMultiSelect ==
  /\ PanelOf(selected, many) = "many" /\ Turn
  /\ Selects(selected, {selected}, selected, log)
  /\ UNCHANGED <<graph, searching, toggled>>
\* Inside a selection it is about all of it.
handleCommitContextMenu(sha) ==
  /\ Turn /\ sha \in ToSet(nodes) \ {WORKTREE}
  /\ ~(Cardinality(opSelected(many)) > 1 /\ sha \in many)
  /\ Selects(sha, {sha}, sha, log)
  /\ UNCHANGED <<graph, searching, toggled>>

-----------------------------------------------------------------------------
(* What the panels read *)

\* Files and message of a commit: the answer that comes last stays.
loadDetails(sha) ==
  /\ sha \in reads
  /\ reads' = reads \ {sha} /\ files' = sha
  /\ UNCHANGED <<graph, selection, stat, statAsk, diff, searching, turns, toggled>>
\* A row opens the diff of its file in the selected commit; the same row closes it.
onSelectFile ==
  /\ files # None /\ Turn
  /\ diff' = IF diff = [sha |-> selected, from |-> files] THEN None
             ELSE [sha |-> selected, from |-> files]
  /\ UNCHANGED <<graph, selection, files, reads, stat, statAsk, searching, toggled>>
\* The diffstat of oldest^..newest; an answer to an older question is not live any more.
rangeStat ==
  /\ statAsk # None /\ stat = None
  /\ stat' = statAsk
  /\ UNCHANGED <<graph, selection, files, reads, statAsk, diff, searching, turns, toggled>>

-----------------------------------------------------------------------------
(* Search *)

Closed == [open |-> FALSE, mode |-> "message", query |-> <<>>, found |-> <<>>, loading |-> FALSE,
           timer |-> FALSE, active |-> 1]
\* Typing by content starts the timer again; what is under way goes on.
Asked(s) ==
  IF s.mode # "content" THEN [s EXCEPT !.timer = FALSE]
  ELSE IF Len(s.query) < 2 THEN [s EXCEPT !.found = <<>>, !.loading = FALSE, !.timer = FALSE]
  ELSE [s EXCEPT !.loading = TRUE, !.timer = TRUE]
OpenSearch ==
  /\ ~search.open /\ Turn
  /\ search' = [Closed EXCEPT !.open = TRUE]
  /\ UNCHANGED <<graph, selection, panel, finds, matches, toggled>>
CloseSearch ==
  /\ search.open
  /\ search' = Closed /\ matches' = None /\ finds' = {}
  /\ UNCHANGED <<graph, selection, panel, turns, toggled>>
TypeOrSwitch(query, mode) ==
  /\ search.open /\ <<query, mode>> # <<search.query, search.mode>> /\ Turn
  /\ Publishes(Asked([search EXCEPT !.query = query, !.mode = mode]), log, selected, many, anchor)
  /\ UNCHANGED <<nodes, worker, finds, toggled>>
Debounced ==
  /\ search.open /\ search.timer
  /\ search' = [search EXCEPT !.timer = FALSE]
  /\ finds' = finds \cup {search.query}
  /\ UNCHANGED <<graph, selection, panel, matches, turns, toggled>>
logPickaxe(query) ==
  /\ query \in finds /\ finds' = finds \ {query}
  /\ Publishes([search EXCEPT !.found = Found[query], !.loading = FALSE], log, selected, many, anchor)
  /\ UNCHANGED <<nodes, worker, turns, toggled>>
\* To an older or newer match, round the end; only the selection moves.
go(step) ==
  LET found == results(search, log)
      next == ((search.active - 1 + step) % Len(found)) + 1
  IN /\ search.open /\ found # <<>> /\ Turn
     /\ search' = [search EXCEPT !.active = next]
     /\ Selects(found[next], {found[next]}, found[next], log)
     /\ UNCHANGED <<graph, finds, matches, toggled>>

-----------------------------------------------------------------------------

Init ==
  /\ log \in Logs \ Big /\ nodes = log /\ worker = None
  /\ selected = Primary(None, log) /\ many = {selected} \ {None} /\ anchor = selected
  /\ files = None /\ reads = {} /\ stat = None /\ statAsk = None /\ diff = None
  /\ search = Closed /\ finds = {} /\ matches = None
  /\ turns = 0 /\ toggled = <<{}, None>>

Next ==
  \/ \E order \in Logs : Show(order)
  \/ Drawn
  \/ \E sha \in Commits \cup {WORKTREE}, mod \in {"none", "shift", "meta"} : handleSelectCommit(sha, mod)
  \/ \E step \in {-1, 1}, shift \in BOOLEAN : handleKeyDown(step, shift)
  \/ \E sha \in Commits :
       handleSelectRef(sha) \/ handleCommitContextMenu(sha) \/ loadDetails(sha)
  \/ clearMultiSelect \/ onSelectFile \/ rangeStat
  \/ OpenSearch \/ CloseSearch \/ Debounced
  \/ \E query \in Queries : logPickaxe(query) \/ \E mode \in {"message", "content"} : TypeOrSwitch(query, mode)
  \/ \E step \in {-1, 1} : go(step)

Spec == Init /\ [][Next]_vars

-----------------------------------------------------------------------------

\* Whatever was asked for and answered in between, what the window derives from the listing and the
\* selection is of those on screen: with no worker running the rows are the listing's, the diffstat
\* is that of the commits selected, the diff is of the selected commit, and nothing is dimmed
\* without a search (GraphView.tsx:142-155, MultiSelectDetail.tsx:43-51, App.tsx:259-263).
DerivedIsOfTheShown ==
  /\ worker = None => nodes = log
  /\ stat # None => stat = opSelected(many) /\ isContiguous(log, stat)
  /\ diff # None => diff.sha = selected
  /\ selected # None => selected \in many
  /\ ~search.open => matches = None

\* Refuted: "the right panel updates to that commit's details" (openspec/specs/commit-graph/spec.md:125):
\* the files of a commit selected before may answer last.
DetailIsOfTheSelected == files # None /\ reads = {} => files = selected

\* Refuted: ctrl-click "SHALL toggle a commit in/out of the selection"
\* (openspec/specs/commit-graph/spec.md:67): it selects the commit that is toggled out, which is
\* then not in the selection, so the effect for selections from outside makes it the only one.
ToggleTogglesOut ==
  [][toggled' # toggled /\ toggled'[2] \in toggled'[1] /\ Cardinality(toggled'[1]) > 1
       => many' = toggled'[1] \ {toggled'[2]}]_vars

\* Refuted: the graph dims what does not match the search (SearchBar.tsx:20-21): the answer for an
\* older text may come last, and ends the waiting for the newer one.
LitIsWhatMatches ==
  isSearching(search) /\ search.mode = "content" /\ ~search.timer
    => search.found = Found[search.query]

\* Refuted: a click in the graph is on a commit of the repository shown: a large listing's rows stay
\* until the next large one is laid out ("a huge history doesn't block the main thread on load",
\* GraphView.tsx:26-27).
RowsAreOfTheTab == nodes # <<>> => TabOf[nodes] = TabOf[log]

TypeOK ==
  /\ log \in Logs /\ nodes \in Logs \cup {<<>>} /\ worker \in Big \cup {None}
  /\ selected \in Commits \cup {WORKTREE, None} /\ many \subseteq Commits \cup {WORKTREE}
  /\ reads \subseteq Commits /\ finds \subseteq Queries
  /\ turns \in 0..MaxTurns
==============================================================================
