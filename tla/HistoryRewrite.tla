--------------------------- MODULE HistoryRewrite ---------------------------
(***************************************************************************)
(* The commands of GitService that rewrite the branch that is checked out    *)
(* (src/main/git-service.ts): squashCommits, dropCommits and                *)
(* interactiveRebase, with the checks that come before them and the ways a   *)
(* stopped rebase goes on.                                                 *)
(*                                                                         *)
(* Commits are numbered so that parents come first, the last one is HEAD.    *)
(* A commit that is no merge carries one patch, named after it. What matters *)
(* of the rewritten branch is its line: the patches and the messages of its  *)
(* commits, oldest first (git's rebase flattens merges). Left out: trees,    *)
(* dates, authors, and uncommitted work, which module WorkingCopy is about.  *)
(***************************************************************************)
EXTENDS Integers, Sequences, FiniteSets

CONSTANTS N,          \* how many commits there are
          MaxPlan     \* bound on the commits of one plan

VARIABLES parents,    \* the history before the rewrite
          order,      \* its commits as git rev-list gives them, newest first
          asked,      \* what the user asked for
          line,       \* the branch
          todo,       \* what git still has to replay, oldest first
          pc,         \* where the rewrite stands
          files,      \* whether the directory with the new messages exists
          stops,      \* history: whether the rebase stopped on its way
          skipped     \* history: the patches the user skipped

vars == <<parents, order, asked, line, todo, pc, files, stops, skipped>>

Commits == 1..N
HEAD == N
Actions == {"pick", "reword", "squash", "fixup", "drop"}

\* A message is the set of texts it was put together from.
Own(c) == {<<"own", c>>}
New(c) == {<<"new", c>>}
Typed == {<<"typed", 0>>}
Texts == {"own", "new", "typed"} \X (0..N)

RangeOf(s) == {s[i] : i \in DOMAIN s}
Reverse(s) == [i \in 1..Len(s) |-> s[Len(s) + 1 - i]]
Without(s) == [i \in 1..(Len(s) - 1) |-> s[i]]
\* What is in C of a sequence, in its order.
Filter(s, C) ==
  LET found[i \in 0..Len(s)] ==
        IF i = 0 THEN <<>> ELSE IF s[i] \in C THEN Append(found[i - 1], s[i]) ELSE found[i - 1]
  IN found[Len(s)]

Histories ==
  {p \in [Commits -> {<<>>} \cup {<<a>> : a \in Commits}
                     \cup {s \in Commits \X Commits : s[1] # s[2]}] :
     \A c \in Commits :
       /\ p[c] = <<>> <=> c = 1
       /\ \A i \in DOMAIN p[c] : p[c][i] < c}

\* A commit and everything below it.
Below(c) ==
  LET A[d \in 0..N] ==
        IF d = 0 THEN {}
        ELSE {d} \cup UNION {A[parents[d][i]] : i \in DOMAIN parents[d]}
  IN A[c]
IsMerge(c) == Len(parents[c]) > 1
Plain(C) == {c \in C : ~IsMerge(c)}
\* What c^ names; 0 when c is the root.
Parent(c) == IF parents[c] = <<>> THEN 0 ELSE parents[c][1]

\* git rev-list --topo-order HEAD: a commit comes once its children are out,
\* the one that became ready last first.
Children(c) == {d \in Below(HEAD) : c \in RangeOf(parents[d])}
Out(s) ==
  LET c == s.stack[Len(s.stack)]
      out == Append(s.out, c)
      ready == Filter(parents[c], {q \in Commits : Children(q) \subseteq RangeOf(out)})
  IN [stack |-> Without(s.stack) \o ready, out |-> out]
TopoOrder ==
  LET walk[n \in 0..N] ==
        IF n = 0 THEN [stack |-> <<HEAD>>, out |-> <<>>]
        ELSE IF walk[n - 1].stack = <<>> THEN walk[n - 1] ELSE Out(walk[n - 1])
  IN walk[N].out
IndexOf(c) == CHOOSE i \in DOMAIN order : order[i] = c

\* The plain commits of C, oldest first.
Oldest1st(C) == Filter(Reverse(order), Plain(C))

Entry == [patches : SUBSET Commits, msg : SUBSET Texts]
AsItWas(c) == [patches |-> {c}, msg |-> Own(c)]
LineOf(C) == LET s == Oldest1st(C) IN [i \in 1..Len(s) |-> AsItWas(s[i])]
PatchesOf(l) == UNION {l[i].patches : i \in DOMAIN l}

Instr == [do : {"pick", "squash", "fixup", "drop", "amend"}, of : Commits]
Picks(C) ==
  LET s == Oldest1st(C) IN [i \in 1..Len(s) |-> [do |-> "pick", of |-> s[i]]]

----------------------------------------------------------------------------
\* Mutant: a selection with gaps is taken.
IsOnTheBranch(sel) ==
  /\ Cardinality(sel) >= 2
  /\ sel \subseteq Below(HEAD)
  /\ \A c \in sel : ~IsMerge(c)
\* resolveLinearRange: the selected commits are on the branch, adjacent in
\* git's order, and none is a merge.
IsRange(sel) ==
  /\ Cardinality(sel) >= 2
  /\ sel \subseteq Below(HEAD)
  /\ \E i, j \in DOMAIN order : sel = {order[k] : k \in i..j}
  /\ \A c \in sel : ~IsMerge(c)
OldestOf(sel) == CHOOSE c \in sel : \A d \in sel : IndexOf(d) <= IndexOf(c)
NewestOf(sel) == CHOOSE c \in sel : \A d \in sel : IndexOf(c) <= IndexOf(d)

\* getRebaseCommits: from sha to HEAD, no merge among them, sha one of them.
Listed(sha) == Below(HEAD) \ Below(Parent(sha))
CanList(sha) ==
  /\ Cardinality(Listed(sha)) <= MaxPlan
  /\ sha \in Listed(sha)
  /\ \A c \in Listed(sha) : ~IsMerge(c)

Nothing == [do |-> "nothing", sel |-> {}, plan |-> <<>>]
Step == [do : Actions, of : Commits]

TypeOK ==
  /\ parents \in [Commits -> Seq(Commits)]
  /\ order \in Seq(Commits)
  /\ asked.do \in {"nothing", "squash", "drop", "plan"}
  /\ asked.sel \in SUBSET Commits
  /\ asked.plan \in Seq(Step)
  /\ line \in Seq(Entry)
  /\ todo \in Seq(Instr)
  /\ pc \in {"idle", "running", "stopped", "done", "aborted"}
  /\ files \in BOOLEAN
  /\ stops \in BOOLEAN
  /\ skipped \in SUBSET Commits

Init ==
  /\ parents \in Histories
  /\ order = TopoOrder
  /\ asked = Nothing
  /\ line = LineOf(Below(HEAD))
  /\ todo = <<>>
  /\ pc = "idle"
  /\ files = FALSE
  /\ stops = FALSE
  /\ skipped = {}

----------------------------------------------------------------------------
\* git rebase --onto base upstream: replay what upstream does not have.
Onto(base, upstream) ==
  /\ line' = base
  /\ todo' = Picks(Below(HEAD) \ Below(upstream))
  /\ pc' = IF todo' = <<>> THEN "done" ELSE "running"

\* dropCommits: the commits after the range go onto what was before it.
\* Mutant: the oldest of the range is taken for what was before it.
DropKeepsTheOldest(sel) ==
  /\ IsRange(sel) /\ Parent(OldestOf(sel)) # 0
  /\ asked' = [Nothing EXCEPT !.do = "drop", !.sel = sel]
  /\ Onto(LineOf(Below(OldestOf(sel))), NewestOf(sel))
  /\ UNCHANGED <<parents, order, files, stops, skipped>>
dropCommits(sel) ==
  /\ IsRange(sel) /\ Parent(OldestOf(sel)) # 0
  /\ asked' = [Nothing EXCEPT !.do = "drop", !.sel = sel]
  /\ Onto(LineOf(Below(Parent(OldestOf(sel)))), NewestOf(sel))
  /\ UNCHANGED <<parents, order, files, stops, skipped>>

\* squashCommits: one commit with the newest one's tree on the oldest one's
\* parent, and the commits after the range on top of it.
Squashed(sel) ==
  LET base == Below(Parent(OldestOf(sel))) IN
  Append(LineOf(base),
         [patches |-> Plain(Below(NewestOf(sel)) \ base), msg |-> Typed])
squashCommits(sel) ==
  /\ IsRange(sel) /\ Parent(OldestOf(sel)) # 0
  /\ asked' = [Nothing EXCEPT !.do = "squash", !.sel = sel]
  /\ IF NewestOf(sel) = HEAD                          \* reset --soft
     THEN line' = Squashed(sel) /\ todo' = <<>> /\ pc' = "done"
     ELSE Onto(Squashed(sel), NewestOf(sel))
  /\ UNCHANGED <<parents, order, files, stops, skipped>>

----------------------------------------------------------------------------
\* The dialog's plans for the commits listed from sha, oldest first: any order,
\* any action for each; the first one kept may not be folded.
Orders(C) == {s \in [1..Cardinality(C) -> C] : RangeOf(s) = C}
Plans(C) ==
  {s \in [1..Cardinality(C) -> [do : Actions, of : C]] :
     /\ {s[i].of : i \in DOMAIN s} = C
     /\ \A i \in DOMAIN s :
          s[i].do \in {"squash", "fixup"} =>
            \E j \in 1..(i - 1) : s[j].do \notin {"drop", "squash", "fixup"}}

\* Mutant: git's own reword, for which no editor opens.
PicksOnly(s) ==
  <<[do |-> IF s.do = "reword" THEN "pick" ELSE s.do, of |-> s.of]>>
\* A reword is a pick and a command that amends it.
Instructions(s) ==
  IF s.do = "reword"
  THEN <<[do |-> "pick", of |-> s.of], [do |-> "amend", of |-> s.of]>>
  ELSE <<s>>
TodoFor(plan) ==
  LET t[i \in 0..Len(plan)] ==
        IF i = 0 THEN <<>> ELSE t[i - 1] \o Instructions(plan[i])
  IN t[Len(plan)]

\* interactiveRebase: git is started on the parent of the plan's first commit.
interactiveRebase(plan) ==
  /\ asked' = [Nothing EXCEPT !.do = "plan", !.plan = plan]
  /\ line' = LineOf(Below(Parent(plan[1].of)))
  /\ todo' = TodoFor(plan)
  /\ pc' = "running"
  /\ files' = TRUE
  /\ UNCHANGED <<parents, order, stops, skipped>>

----------------------------------------------------------------------------
\* git replays one instruction.

\* The commit before the folded one may have been skipped: with --root git
\* then folds into the empty commit it began with.
Fold(c, more) ==
  LET last == line[Len(line)] IN
  IF line = <<>> THEN <<[patches |-> {c}, msg |-> more]>>
  ELSE Append(Without(line),
              [patches |-> last.patches \cup {c}, msg |-> last.msg \cup more])
Amend(c) == Append(Without(line), [line[Len(line)] EXCEPT !.msg = New(c)])

\* The branch after the instruction went through.
After(i) ==
  CASE i.do = "drop" -> line
    [] i.do = "amend" -> Amend(i.of)
    [] i.do = "pick" -> IF i.of \in PatchesOf(line) THEN line  \* nothing left of it
                        ELSE Append(line, AsItWas(i.of))
    [] i.do = "squash" -> Fold(i.of, Own(i.of))
    [] i.do = "fixup" -> Fold(i.of, {})

\* A pick onto the parent it had is a fast-forward and cannot conflict.
InPlace(c) == RangeOf(line) = {AsItWas(d) : d \in Plain(Below(Parent(c)))}

\* Why git stops before it goes past the instruction i.
MustStop(i) ==
  \/ i.do = "amend" /\ ~files                           \* its message is gone
  \/ i.do = "pick" /\ i.of \in PatchesOf(line) /\ asked.do = "plan"   \* empty
MayStop(i) ==
  \/ MustStop(i)
  \/ i.do \in {"pick", "squash", "fixup"} /\ ~InPlace(i.of)

\* Mutant: the directory is left behind.
LeavesTheMessages(s) == files' = files
\* The `finally` of interactiveRebase, when git's command has ended.
Returns(s) == files' = (files /\ s = "running")

Replay ==
  /\ pc = "running"
  /\ ~MustStop(Head(todo))
  /\ line' = After(Head(todo))
  /\ todo' = Tail(todo)
  /\ pc' = IF todo' = <<>> THEN "done" ELSE "running"
  /\ Returns(pc')
  /\ UNCHANGED <<parents, order, asked, stops, skipped>>

Stop ==
  /\ pc = "running"
  /\ MayStop(Head(todo))
  /\ pc' = "stopped"
  /\ stops' = TRUE
  /\ Returns(pc')
  /\ UNCHANGED <<parents, order, asked, line, todo, skipped>>

\* operationContinue, once the conflicts are resolved; a command that failed is
\* not run again.
operationContinue ==
  /\ pc = "stopped"
  /\ line' = IF Head(todo).do = "amend" THEN line ELSE After(Head(todo))
  /\ todo' = Tail(todo)
  /\ pc' = IF todo' = <<>> THEN "done" ELSE "running"
  /\ UNCHANGED <<parents, order, asked, files, stops, skipped>>

operationSkip ==
  /\ pc = "stopped"
  /\ skipped' = IF Head(todo).do = "amend" THEN skipped
                ELSE skipped \cup ({Head(todo).of} \ PatchesOf(line))
  /\ todo' = Tail(todo)
  /\ pc' = IF todo' = <<>> THEN "done" ELSE "running"
  /\ UNCHANGED <<parents, order, asked, line, files, stops>>

operationAbort ==
  /\ pc = "stopped"
  /\ line' = LineOf(Below(HEAD))
  /\ todo' = <<>>
  /\ pc' = "aborted"
  /\ UNCHANGED <<parents, order, asked, files, stops, skipped>>

\* The menu of several selected commits, and the rebase dialog of one.
BulkActions ==
  /\ pc = "idle"
  /\ \E sel \in SUBSET Commits : dropCommits(sel) \/ squashCommits(sel)
RebaseDialog ==
  /\ pc = "idle"
  /\ \E sha \in Below(HEAD) :
       CanList(sha) /\ \E plan \in Plans(Listed(sha)) : interactiveRebase(plan)
\* What the main process is asked for.
Requests == BulkActions \/ RebaseDialog
Next ==
  \/ Requests
  \/ Replay \/ Stop \/ operationContinue \/ operationSkip \/ operationAbort

Spec == Init /\ [][Next]_vars

----------------------------------------------------------------------------
(***************************************************************************)
(* Safety: a squash loses no patch, and a drop none that was not selected     *)
(* when the selection is of one line, the oldest below the newest: whatever   *)
(* the shape of the history around it, merges in it, a range at its end,      *)
(* conflicts on the way. Only what the user skips is missing.                *)
(***************************************************************************)
OneLine(sel) == OldestOf(sel) \in Below(NewestOf(sel))
OthersAreThere == Plain(Below(HEAD)) \ (asked.sel \cup skipped) \subseteq PatchesOf(line)
NothingElseIsLost ==
  pc = "done" /\ asked.do \in {"squash", "drop"} /\ (asked.do = "drop" => OneLine(asked.sel)) => OthersAreThere

(***************************************************************************)
(* Safety: on a history without merges a squash or a drop does what it says: *)
(* the selected commits are gone, or are one commit with the typed message,  *)
(* and the others are there in their order.                                *)
(***************************************************************************)
Straight == \A c \in Below(HEAD) : ~IsMerge(c)
Remaining(l) == SelectSeq(l, LAMBDA e : e.patches \cap asked.sel = {})
RangesAreRewritten ==
  pc = "done" /\ Straight /\ skipped = {} /\ asked.do \in {"squash", "drop"} =>
    /\ Remaining(line) = Remaining(LineOf(Below(HEAD)))
    /\ {e \in RangeOf(line) : e.patches \cap asked.sel # {}}
         = IF asked.do = "drop" THEN {}
           ELSE {[patches |-> asked.sel, msg |-> Typed]}

(***************************************************************************)
(* Safety: a new message is given to its own commit only, also when the      *)
(* rebase stopped and the commit was skipped: the command that would amend   *)
(* then finds no message to read.                                          *)
(***************************************************************************)
MessagesStayWithTheirCommit ==
  \A i \in DOMAIN line : \A c \in Commits :
    New(c) \subseteq line[i].msg => c \in line[i].patches

\* What a plan asks for: folded commits join the one before them.
Carried(plan) ==
  LET l[i \in 0..Len(plan)] ==
        LET c == plan[i].of
            last == l[i - 1][Len(l[i - 1])]
            Into(m) == Append(Without(l[i - 1]),
                         [patches |-> last.patches \cup {c}, msg |-> last.msg \cup m])
        IN IF i = 0 THEN <<>>
           ELSE CASE plan[i].do = "pick" -> Append(l[i - 1], AsItWas(c))
                  [] plan[i].do = "reword" ->
                       Append(l[i - 1], [patches |-> {c}, msg |-> New(c)])
                  [] plan[i].do = "squash" -> Into(Own(c))
                  [] plan[i].do = "fixup" -> Into({})
                  [] plan[i].do = "drop" -> l[i - 1]
  IN l[Len(plan)]
StartsWithTheOldest(plan) ==
  \A i \in DOMAIN plan : IndexOf(plan[i].of) <= IndexOf(plan[1].of)
Listing(plan) == {plan[i].of : i \in DOMAIN plan}
AsPlanned(plan) == LineOf(Below(HEAD) \ Listing(plan)) \o Carried(plan)

(***************************************************************************)
(* Safety: a rebase that was not stopped and whose plan still begins with    *)
(* the oldest commit leaves the branch the plan describes.                  *)
(***************************************************************************)
PlansAreCarriedOut ==
  pc = "done" /\ asked.do = "plan" /\ ~stops
    /\ StartsWithTheOldest(asked.plan) =>
    line = AsPlanned(asked.plan)

(***************************************************************************)
(* Safety, as git-service.ts:2195 has it: the rebase runs "with the plan from *)
(* the rebase dialog", so one that reports success has carried it out.       *)
(* Refuted: git is started on the parent of the plan's first commit, which is *)
(* a commit of the plan once the user has moved another one to the front.    *)
(***************************************************************************)
SuccessIsThePlan ==
  pc = "done" /\ asked.do = "plan" /\ ~stops => line = AsPlanned(asked.plan)

(***************************************************************************)
(* Safety, as git-service.ts:2197 has it: "a reword amends the picked commit  *)
(* with the new message", also when a conflict has let the conflict panel    *)
(* take over. Refuted: the message files are removed when the call returns.   *)
(***************************************************************************)
RewordsAreKept ==
  pc = "done" /\ asked.do = "plan" /\ skipped = {}
    /\ StartsWithTheOldest(asked.plan) =>
    \A i \in DOMAIN asked.plan :
      asked.plan[i].do = "reword" =>
        \E e \in RangeOf(line) : New(asked.plan[i].of) \subseteq e.msg

(***************************************************************************)
(* Safety, as git-service.ts:1865 has it: the selection is checked to be "a  *)
(* contiguous, merge-free block" before it is dropped, so it is gone          *)
(* afterwards. Refuted: the two sides of a merge are adjacent in git's order. *)
(***************************************************************************)
DroppedAreGone ==
  pc = "done" /\ asked.do = "drop" => asked.sel \cap PatchesOf(line) = {}

(***************************************************************************)
(* Safety, as git-service.ts:1865-1868 has it: the selection is verified to  *)
(* be "a contiguous, merge-free block" because a drop rewrites "a single     *)
(* span of history", so it leaves the commits that are not of it. Refuted:    *)
(* of two commits adjacent in git's order, of different lines, the older one's *)
(* parent need not have what the newer one is built on. In Braid, 3 and 4 are *)
(* dropped, and 2 is gone, which 3 is built on and 4 is not.                  *)
(***************************************************************************)
OnlyTheSpanGoes == pc = "done" /\ asked.do = "drop" => OthersAreThere
Braid == << <<>>, <<1>>, <<2>>, <<1>>, <<2>>, <<4, 3>>, <<5, 6>> >>
Braided == parents = Braid /\ Spec
=============================================================================
