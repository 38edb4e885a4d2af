------------------------------ MODULE Recovery ------------------------------
(***************************************************************************)
(* The two panels that look for a commit that went missing or went wrong: the  *)
(* reflog (ReflogPanel.tsx), which lists where HEAD has been and resets to it,   *)
(* and the bisect wizard (BisectWizard.tsx) over `git bisect`.                 *)
(*                                                                         *)
(* Main answers every request about the worktree it has active, the renderer    *)
(* follows it with a render of its own (useGitRepo), and neither panel is keyed  *)
(* by the worktree; git bisects in each worktree apart. Worktrees share their    *)
(* commits, numbered along one line of history; commits before FirstBad pass the   *)
(* test. The requests of one service run one after the other, so a request is      *)
(* taken, run and answered in one step, in the order they were sent.             *)
(***************************************************************************)
EXTENDS Integers, Sequences, SequencesExt

CONSTANTS Trees, None,
          Commits, FirstBad,          \* the line is 1..Commits
          MaxTurns                   \* bound: clicks, switches and commands from outside

VARIABLES active,      \* the worktree main answers about
          landing,     \* switches main has made and the renderer has yet to render
          shown,       \* repoPath
          logs,        \* what git reflog lists in each worktree, newest first
          panel,       \* the right panel: "reflog", "bisect", or None
          entries, loading,
          asked,       \* getReflog calls under way: [of, live, answer]
          confirmSha,
          session,     \* git's bisect in each worktree: None or [from, good, bad]
          wizard,      \* the state of BisectWizard: idle, running, done
          output,      \* the commit its last output names as the culprit, or None
          calls,       \* what handlers of the renderer await: [by, todo, live, sure], in the order sent
          spoilt,      \* history: worktrees whose session was misled, by a wrong end or by a verdict sent in a hurry
          doubt,       \* history: the wizard's last answer came from such a session
          reset,       \* history: the last restore, [named, of, tree]
          turns

reflog == <<entries, loading, asked, confirmSha, reset>>
bisect == <<session, wizard, output, calls, spoilt, doubt>>
trees == <<active, landing, shown, logs>>
vars == <<active, landing, shown, logs, panel, entries, loading, asked, confirmSha,
          session, wizard, output, calls, spoilt, doubt, reset, turns>>

Line == 1..Commits
Turn == turns < MaxTurns /\ turns' = turns + 1
head(t) == logs[t][1]
\* What HEAD does is logged.
Moved(t, c) == [logs EXCEPT ![t] = <<c>> \o @]

-----------------------------------------------------------------------------
(* The reflog *)

\* Mutant: every answer is taken.
AnyAnswer(a) == panel = "reflog"
\* The effect's cleanup has marked the answers of earlier worktrees.
IsLive(a) == panel = "reflog" /\ a.live

\* The effect: a fresh read, and no answer of an earlier one counts.
getReflog(t) ==
  /\ loading' = TRUE
  /\ asked' = {[a EXCEPT !.live = FALSE] : a \in asked} \cup {[of |-> t, live |-> TRUE, answer |-> <<>>]}
\* Something moves under the requests that are under way.
Unsure == [i \in DOMAIN calls |-> [calls[i] EXCEPT !.sure = FALSE]]
\* The wizard goes with its panel: what it awaits is answered to nobody.
CloseWizard ==
  /\ wizard' = "idle" /\ output' = None
  /\ calls' = [i \in DOMAIN calls |-> [calls[i] EXCEPT !.live = FALSE]]
OpenReflog ==
  /\ Turn /\ panel # "reflog" /\ panel' = "reflog"
  /\ entries' = <<>> /\ confirmSha' = 0 /\ getReflog(shown)
  /\ IF panel = "bisect" THEN CloseWizard ELSE UNCHANGED <<wizard, output, calls>>
  /\ UNCHANGED <<trees, session, spoilt, doubt, reset>>
\* git runs in the worktree that is active when the request arrives.
ReflogRead(a) ==
  /\ a \in asked /\ a.answer = <<>>
  /\ asked' = (asked \ {a}) \cup {[a EXCEPT !.answer = logs[active]]}
  /\ UNCHANGED <<trees, panel, entries, loading, confirmSha, bisect, reset, turns>>
ReflogShown(a) ==
  /\ a \in asked /\ a.answer # <<>> /\ asked' = asked \ {a}
  /\ IF IsLive(a) THEN entries' = a.answer /\ loading' = FALSE ELSE UNCHANGED <<entries, loading>>
  /\ UNCHANGED <<trees, panel, confirmSha, bisect, reset, turns>>

\* A row's button, or Enter on the row that has the focus.
AskRestore(i) ==
  /\ Turn /\ panel = "reflog" /\ confirmSha = 0 /\ ~loading /\ i \in DOMAIN entries
  /\ confirmSha' = entries[i]
  /\ reset' = [named |-> entries[i], of |-> shown, tree |-> None]
  /\ UNCHANGED <<trees, panel, entries, loading, asked, bisect>>
\* reset --hard; the panel closes and the graph follows.
doRestore ==
  /\ Turn /\ panel = "reflog" /\ confirmSha # 0
  /\ logs' = Moved(active, confirmSha)
  /\ reset' = [reset EXCEPT !.tree = active]
  /\ confirmSha' = 0 /\ panel' = None
  /\ asked' = {[a EXCEPT !.live = FALSE] : a \in asked} /\ calls' = Unsure
  /\ UNCHANGED <<active, landing, shown, entries, loading, session, wizard, output, spoilt, doubt>>
ClosePanel ==
  /\ Turn /\ panel # None /\ panel' = None
  /\ asked' = {[a EXCEPT !.live = FALSE] : a \in asked} /\ confirmSha' = 0
  /\ CloseWizard
  /\ UNCHANGED <<trees, entries, loading, session, spoilt, doubt, reset>>

-----------------------------------------------------------------------------
(* Bisect *)

Verdicts == {"good", "bad"}
\* What the test says of a commit.
Tested(c) == IF c < FirstBad THEN "good" ELSE "bad"
\* A bisect command, with a commit or, for 0, about what is checked out.
Command(op, sha) == [op |-> op, sha |-> sha]
\* A handler sends its first request. It is sure if nothing else is under way and no switch of worktrees is.
Send(by, todo) ==
  calls' = Append(calls, [by |-> by, todo |-> todo, live |-> TRUE, sure |-> calls = <<>> /\ active = shown])

OpenBisect ==
  /\ Turn /\ panel # "bisect" /\ panel' = "bisect"
  /\ asked' = {[a EXCEPT !.live = FALSE] : a \in asked} /\ confirmSha' = 0
  /\ CloseWizard
  /\ UNCHANGED <<trees, entries, loading, session, spoilt, doubt, reset>>
\* start, bad and good, one after the other; no bad commit means HEAD.
handleStart(good, bad) ==
  /\ Turn /\ panel = "bisect" /\ wizard = "idle"
  /\ Send("start", <<Command("start", 0), Command("bad", bad), Command("good", good)>>)
  /\ UNCHANGED <<trees, panel, reflog, session, wizard, output, spoilt, doubt>>
\* Mutant: the two verdicts are swapped on the way.
SwappedVerdict(v) == IF v = "good" THEN "bad" ELSE "good"
Verdict(v) == v
\* The buttons stay enabled while a verdict is under way: the user has tested what is checked out in
\* the worktree on screen.
mark ==
  /\ Turn /\ panel = "bisect" /\ wizard = "running"
  /\ Send("mark", <<Command(Verdict(Tested(head(shown))), 0)>>)
  /\ UNCHANGED <<trees, panel, reflog, session, wizard, output, spoilt, doubt>>
handleReset ==
  /\ Turn /\ panel = "bisect"
  /\ Send("reset", <<Command("reset", 0)>>)
  /\ UNCHANGED <<trees, panel, reflog, session, wizard, output, spoilt, doubt>>
\* The graph's menu, while the worktree on screen bisects: a commit by its name.
bisectMark(c) ==
  /\ Turn /\ session[shown] # None
  /\ Send("menu", <<Command(Tested(c), c)>>)
  /\ UNCHANGED <<trees, panel, reflog, session, wizard, output, spoilt, doubt>>

\* The handler goes on with its next request, or is through.
Awaited ==
  IF Len(calls[1].todo) = 1 THEN Tail(calls) ELSE Append(Tail(calls), [calls[1] EXCEPT !.todo = Tail(@)])
Asks(ops) == calls # <<>> /\ calls[1].todo[1].op \in ops
\* The wizard that sent the request is still there, and has its last answer.
Answers(by) == calls[1].by = by /\ calls[1].live /\ Len(calls[1].todo) = 1
HeadAt(c) == logs' = IF c = head(active) THEN logs ELSE Moved(active, c)
\* A session that is under way is given up, and HEAD goes back to where it began.
Begun(s) == IF s = None THEN head(active) ELSE s.from
bisectStart ==
  LET s == session[active]
  IN /\ Asks({"start"}) /\ calls' = Awaited
     /\ session' = [session EXCEPT ![active] = [from |-> Begun(s), good |-> 0, bad |-> Commits + 1]]
     /\ HeadAt(Begun(s)) /\ spoilt' = spoilt \ {active}
     /\ UNCHANGED <<active, landing, shown, panel, reflog, wizard, output, doubt, turns>>
\* git keeps the newest good commit and the last bad one it was told.
Marked(s, v, c) ==
  IF v = "bad" THEN [s EXCEPT !.bad = c] ELSE [s EXCEPT !.good = IF c > @ THEN c ELSE @]
Known(s) == s.good > 0 /\ s.bad <= Commits
Culprit(s) == IF Known(s) /\ s.bad = s.good + 1 THEN s.bad ELSE None
\* git marks a commit and checks out the middle one of those in doubt, unless it cannot. Without a
\* session it refuses, which reaches the renderer as an empty answer.
bisectGoodOrBad(stays) ==
  LET v == calls[1].todo[1].op
      c == IF calls[1].todo[1].sha = 0 THEN head(active) ELSE calls[1].todo[1].sha
      refused == session[active] = None
      s == Marked(session[active], v, c)
      wrong == \/ calls[1].by = "start" /\ v # Tested(c)
               \/ calls[1].by = "mark" /\ ~calls[1].sure
      named == IF refused THEN None ELSE Culprit(s)
  IN /\ Asks(Verdicts) /\ calls' = Awaited
     /\ session' = IF refused THEN session ELSE [session EXCEPT ![active] = s]
     /\ HeadAt(IF ~refused /\ Known(s) /\ s.good + 1 < s.bad /\ ~stays THEN (s.good + s.bad) \div 2 ELSE head(active))
     /\ spoilt' = IF wrong THEN spoilt \cup {active} ELSE spoilt
     /\ IF Answers("start") \/ Answers("mark")
        THEN /\ output' = named
             /\ wizard' = IF Answers("start") THEN "running" ELSE IF named # None THEN "done" ELSE wizard
             /\ doubt' = (active \in spoilt')
        ELSE UNCHANGED <<output, wizard, doubt>>
     /\ UNCHANGED <<active, landing, shown, panel, reflog, turns>>
bisectReset ==
  /\ Asks({"reset"}) /\ calls' = Awaited
  /\ HeadAt(Begun(session[active])) /\ session' = [session EXCEPT ![active] = None]
  /\ IF Answers("reset") THEN wizard' = "idle" /\ output' = None ELSE UNCHANGED <<wizard, output>>
  /\ UNCHANGED <<active, landing, shown, panel, reflog, spoilt, doubt, turns>>

-----------------------------------------------------------------------------
(* Around them *)

\* Main turns to another worktree first; the renderer follows, and the panel's effect runs again.
openPath(t) ==
  /\ Turn /\ t # active /\ active' = t /\ landing' = Append(landing, t) /\ calls' = Unsure
  /\ UNCHANGED <<shown, logs, panel, reflog, session, wizard, output, spoilt, doubt>>
setRepoPath ==
  /\ landing # <<>> /\ landing' = Tail(landing) /\ shown' = landing[1]
  /\ IF panel = "reflog" /\ shown' # shown THEN getReflog(shown') ELSE UNCHANGED <<asked, loading>>
  /\ UNCHANGED <<active, logs, panel, entries, confirmSha, reset, bisect, turns>>
\* HEAD moves by a commit, a checkout or another program.
HeadMoves(t, c) ==
  /\ Turn /\ c # head(t) /\ logs' = Moved(t, c) /\ calls' = Unsure
  /\ UNCHANGED <<active, landing, shown, panel, reflog, session, wizard, output, spoilt, doubt>>

Init ==
  /\ active \in Trees /\ shown = active /\ landing = <<>>
  /\ logs \in [Trees -> {<<c>> : c \in {1, Commits}}]
  /\ \A t, u \in Trees : t # u => head(t) # head(u)
  /\ panel = None /\ entries = <<>> /\ loading = TRUE /\ asked = {} /\ confirmSha = 0
  /\ session = [t \in Trees |-> None] /\ wizard = "idle" /\ output = None /\ calls = <<>>
  /\ spoilt = {} /\ doubt = FALSE
  /\ reset = [named |-> 0, of |-> None, tree |-> None] /\ turns = 0

\* What the user asks for, and what the main process does for the wizard and for the panel.
Wizard ==
  \/ \E good \in Line, bad \in Line \cup {0} : handleStart(good, bad)
  \/ mark \/ handleReset \/ \E c \in Line : bisectMark(c)
Bisect == bisectStart \/ bisectReset \/ \E stays \in BOOLEAN : bisectGoodOrBad(stays)
Reflog == doRestore \/ \E a \in asked : ReflogRead(a)
Next ==
  \/ OpenReflog \/ ClosePanel \/ OpenBisect \/ setRepoPath \/ Wizard \/ Bisect \/ Reflog
  \/ \E a \in asked : ReflogShown(a)
  \/ \E i \in DOMAIN entries : AskRestore(i)
  \/ \E t \in Trees : openPath(t) \/ \E c \in {1, Commits} : HeadMoves(t, c)

Spec == Init /\ [][Next]_vars

-----------------------------------------------------------------------------

\* Once every switch has landed, a list that is shown as loaded is one of the worktree on screen,
\* at most short of its newest entries, however late the answers to earlier reads come, which git
\* gave about whatever was active then (ReflogPanel.tsx:25-30).
EntriesAreOfTheShown ==
  panel = "reflog" /\ ~loading /\ landing = <<>> => IsSuffix(entries, logs[shown])

\* What git lists is commits of the line, also where it is under way or on the screen.
Listed ==
  /\ active \in Trees /\ landing \in Seq(Trees)
  /\ logs \in [Trees -> Seq(Line) \ {<<>>}]
  /\ entries \in Seq(Line)
  /\ \A a \in asked : a = [of |-> a.of, live |-> a.live, answer |-> a.answer] /\ a.answer \in Seq(Line)
  /\ confirmSha \in 0..Commits
\* In a session that was not misled the fault stays between the ends, and a verdict that is sure is at
\* the head of the line and right about what is checked out where it will be taken.
Bracketed ==
  /\ \A t \in Trees : session[t] # None =>
       /\ session[t] = [from |-> session[t].from, good |-> session[t].good, bad |-> session[t].bad]
       /\ session[t].from \in Line /\ {session[t].good, session[t].bad} \subseteq Int
       /\ t \notin spoilt => session[t].good < FirstBad /\ FirstBad <= session[t].bad
  /\ wizard = "done" /\ ~doubt => output = FirstBad

\* A user who gives ends on their sides of the fault, and a verdict only when no request and no
\* switch of worktrees is under way, has the first commit that fails named, whatever sessions other
\* worktrees are in, whatever else is marked from the graph, and although every verdict goes to
\* whichever worktree main has active: a verdict is excused only if something moved under it
\* between the press and git.
CulpritIsTheFirstBad == wizard = "done" /\ ~doubt => output = FirstBad

\* Refuted: a verdict is about the commit it marks ("Marks the commit git checked out for testing",
\* BisectWizard.tsx:36): a second press marks a commit nobody has seen, and one that is under way
\* while the worktree is switched marks what is checked out in the other.
VerdictsAreOfTheTested ==
  calls # <<>> /\ calls[1].by = "mark" => calls[1].todo[1].op = Tested(head(active))

\* Refuted: the wizard runs only while git bisects (BisectWizard.tsx:33): IPC answers a refusal
\* with no output, which the wizard takes for a step.
RunningIsBisecting == wizard = "running" => session[active] # None

\* Refuted: a restore resets the worktree whose entry it was ("HEAD now points at the chosen SHA",
\* openspec/specs/reflog-recovery/spec.md:36): a switch may land under the open dialog.
RestoresTheListed == reset.tree # None => reset.tree = reset.of

TypeOK ==
  /\ {active, shown} \subseteq Trees /\ landing \in Seq(Trees)
  /\ logs \in [Trees -> Seq(Line)] /\ entries \in Seq(Line)
  /\ panel \in {None, "reflog", "bisect"} /\ wizard \in {"idle", "running", "done"}
  /\ confirmSha \in 0..Commits /\ output \in Line \cup {None}
  /\ loading \in BOOLEAN /\ doubt \in BOOLEAN /\ spoilt \subseteq Trees
  /\ turns \in 0..MaxTurns
==============================================================================
