------------------------------- MODULE Console -------------------------------
(***************************************************************************)
(* The console dock (ConsoleDock.tsx) and what feeds it in the main process:   *)
(* commands typed at the worktree root (index.ts, console:run) and the log of   *)
(* the git commands the application runs (emitActivity).                      *)
(*                                                                         *)
(* The two processes talk over one ordered channel, `wire`. The main process   *)
(* changes its active repository as soon as it is asked to; the window shows   *)
(* it when everything of it has been read. A state the window has set is      *)
(* `queued` until React renders it.                                          *)
(* Left out: what a command prints, the caps on both lists (4000 and 500       *)
(* entries), scrolling, copying, the recall of earlier commands.              *)
(***************************************************************************)
EXTENDS Naturals, Sequences, FiniteSets

CONSTANTS Repos, Remote,         \* the repositories; those on another machine
          None,
          MaxRuns, MaxOutput,    \* bounds: commands typed, chunks a command prints
          MaxTurns               \* bound: everything else that begins something

VARIABLES active,     \* the repository the main process works in
          shown,      \* the repository the window shows
          landing,    \* the one it is about to show, or None
          procs,      \* consoleProcs, and where each process runs
          dead,       \* those whose spawn failed and that have yet to close
          wire,       \* what the main process has sent and the window not yet seen
          runId, queued, runIdRef,
          lines, entries,  \* the runs with a line in the console; the repositories with one in the log
          count,      \* commands typed so far
          here,       \* history: runs typed since the console was last reset
          said, heard,     \* history: chunks sent and chunks shown of each run
          placed,     \* history: where each run ran, and what was on screen when it was typed
          dropped,    \* history: whether a reset dropped activity of the repository it showed
          turns

main == <<active, procs, dead>>
window == <<shown, landing, here>>
console == <<runId, queued, runIdRef, lines>>
past == <<placed, dropped>>
vars == <<active, shown, landing, procs, dead, wire, runId, queued, runIdRef, lines, entries, count,
          here, said, heard, placed, dropped, turns>>

Ids == 1..MaxRuns
Turn == turns < MaxTurns /\ turns' = turns + 1
Chunk(id) == [type |-> "chunk", of |-> id]
Done(id) == [type |-> "done", of |-> id]
Reply(id) == [type |-> "reply", of |-> id]      \* of a run that failed: its text is shown again
Record(r) == [type |-> "activity", of |-> r]
Events == [type : {"chunk", "done", "reply", "activity"}, of : Ids \cup Repos]
Send(events) == wire' = wire \o events
OnWire(e) == Cardinality({i \in DOMAIN wire : wire[i] = e})

-----------------------------------------------------------------------------
(* The main process *)

\* Mutant: the log gets every service's commands.
LogsEverything(r) == TRUE
emitActivity(r) == r = active
Activity(r) ==
  /\ Turn /\ IF emitActivity(r) THEN Send(<<Record(r)>>) ELSE UNCHANGED wire
  /\ UNCHANGED <<main, window, console, entries, count, said, heard, past>>

Prints(id) ==
  /\ id \in DOMAIN procs /\ said[id] < MaxOutput
  /\ said' = [said EXCEPT ![id] = @ + 1] /\ Send(<<Chunk(id)>>)
  /\ UNCHANGED <<main, window, console, entries, count, heard, past, turns>>
Without(f, x) == [y \in DOMAIN f \ {x} |-> f[y]]
\* The process ends by itself or by Stop's SIGTERM.
Closes(id) ==
  /\ id \in DOMAIN procs /\ procs' = Without(procs, id) /\ Send(<<Done(id)>>)
  /\ UNCHANGED <<active, dead, window, console, entries, count, said, heard, past, turns>>
\* The shell could not be started: an error, and later a close that says done once more.
Errs(id) ==
  /\ id \in DOMAIN procs /\ said[id] = 0
  /\ procs' = Without(procs, id) /\ dead' = dead \cup {id}
  /\ said' = [said EXCEPT ![id] = 1] /\ Send(<<Chunk(id), Done(id), Reply(id)>>)
  /\ UNCHANGED <<active, window, console, entries, count, heard, past, turns>>
ClosesDead(id) ==
  /\ id \in dead /\ dead' = dead \ {id} /\ Send(<<Done(id)>>)
  /\ UNCHANGED <<active, procs, window, console, entries, count, said, heard, past, turns>>

-----------------------------------------------------------------------------
(* The console *)

\* Mutant: the reference is only set by the next render.
RefAtTheRender(id) == runIdRef
\* A command may print before React renders: the reference is set at once.
RefFor(id) == id
\* Enter. The main process runs it where it is now, unless that is another machine.
run ==
  LET id == count + 1
  IN /\ count < MaxRuns /\ runId = None /\ queued = None
     /\ count' = id /\ queued' = id /\ runIdRef' = RefFor(id)
     /\ lines' = lines \cup {id} /\ here' = here \cup {id}
     /\ placed' = [placed EXCEPT ![id] = [ran |-> active, said |-> shown]]
     /\ IF active \in Remote
        THEN /\ Send(<<Chunk(id), Done(id), Reply(id)>>) /\ said' = [said EXCEPT ![id] = 1]
             /\ UNCHANGED procs
        ELSE /\ procs' = [p \in DOMAIN procs \cup {id} |-> IF p = id THEN active ELSE procs[p]]
             /\ UNCHANGED <<wire, said>>
     /\ UNCHANGED <<active, dead, shown, landing, runId, entries, heard, dropped, turns>>
Render ==
  /\ <<runId, runIdRef>> # <<queued, queued>>
  /\ runId' = queued /\ runIdRef' = queued
  /\ UNCHANGED <<main, window, queued, wire, lines, entries, count, said, heard, past, turns>>
Clear ==
  /\ Turn /\ \/ lines' = {} /\ UNCHANGED entries
             \/ entries' = {} /\ UNCHANGED lines
  /\ UNCHANGED <<main, window, runId, queued, runIdRef, wire, count, said, heard, past>>

\* Mutant: what any run prints is shown.
AnyRun(e) == TRUE
\* Output of another run than the one the console waits for is dropped.
IsItsOwn(e) == e.of = runIdRef
onConsoleOutput ==
  /\ wire # <<>> /\ wire' = Tail(wire)
  /\ LET e == Head(wire)
     IN \/ /\ e.type = "chunk" /\ IsItsOwn(e)
           /\ lines' = lines \cup {e.of} /\ heard' = [heard EXCEPT ![e.of] = @ + 1]
           /\ UNCHANGED queued
        \/ /\ e.type = "done" /\ IsItsOwn(e)
           /\ lines' = lines \cup {e.of} /\ queued' = None /\ UNCHANGED heard
        \/ /\ e.type \in {"chunk", "done"} /\ ~IsItsOwn(e)
           /\ UNCHANGED <<lines, queued, heard>>
        \/ /\ e.type = "reply"
           /\ lines' = lines \cup {e.of} /\ UNCHANGED <<queued, heard>>
  /\ UNCHANGED <<main, window, runId, runIdRef, entries, count, said, past, turns>>
onGitActivity ==
  /\ wire # <<>> /\ Head(wire).type = "activity" /\ wire' = Tail(wire)
  /\ entries' = entries \cup {Head(wire).of}
  /\ UNCHANGED <<main, window, console, count, said, heard, past, turns>>

-----------------------------------------------------------------------------
(* Switching: the main process at once, the window once everything is read *)

openPath(r) ==
  /\ Turn /\ landing = None /\ r # shown
  /\ active' = r /\ landing' = r
  /\ UNCHANGED <<procs, dead, shown, here, console, wire, entries, count, said, heard, past>>
setRepoPath ==
  /\ landing # None /\ shown' = landing /\ landing' = None
  /\ lines' = {} /\ entries' = {} /\ here' = {}
  /\ queued' = None /\ runId' = None /\ runIdRef' = None
  /\ dropped' = (dropped \/ landing \in entries)
  /\ UNCHANGED <<main, wire, count, said, heard, placed, turns>>
\* Something of it could not be read: the window stays where it was.
LandingFails ==
  /\ landing # None /\ landing' = None
  /\ UNCHANGED <<main, shown, here, console, wire, entries, count, said, heard, past, turns>>

Init ==
  /\ active \in Repos /\ shown = active /\ landing = None
  /\ procs = <<>> /\ dead = {} /\ wire = <<>>
  /\ runId = None /\ queued = None /\ runIdRef = None /\ lines = {} /\ entries = {}
  /\ count = 0 /\ here = {} /\ turns = 0 /\ dropped = FALSE
  /\ said = [id \in Ids |-> 0] /\ heard = [id \in Ids |-> 0]
  /\ placed = [id \in Ids |-> [ran |-> None, said |-> None]]

Next ==
  \/ \E r \in Repos : Activity(r) \/ openPath(r)
  \/ \E id \in Ids : Prints(id) \/ Closes(id) \/ Errs(id) \/ ClosesDead(id)
  \/ run \/ Render \/ Clear \/ onConsoleOutput \/ onGitActivity \/ setRepoPath \/ LandingFails

Spec == Init /\ [][Next]_vars

-----------------------------------------------------------------------------
Says(type, id) == \E i \in DOMAIN wire : wire[i] = [type |-> type, of |-> id]
\* Runs have their numbers in turn.
Numbered ==
  /\ count \in Nat /\ wire \in Seq(Events) /\ said \in [Ids -> Nat] /\ heard \in [Ids -> Nat]
  /\ here \subseteq Ids /\ dead \subseteq Ids
  /\ \A id \in Ids : id > count => /\ id \notin here \cup dead \cup DOMAIN procs
                                   /\ ~Says("chunk", id) /\ ~Says("done", id) /\ said[id] = 0 /\ heard[id] = 0
\* A run says done after its last chunk, and what still runs has said nothing of the kind.
DoneIsLast ==
  \A id \in Ids :
    /\ Says("done", id) \/ id \in dead => id \notin DOMAIN procs
    /\ \A i, j \in DOMAIN wire : wire[i] = Done(id) /\ wire[j] = Chunk(id) => j < i
\* The console waits for the run that has something to say.
Awaited ==
  \A id \in here : id \in DOMAIN procs \/ Says("chunk", id) => queued = id /\ runIdRef = id

(* Safety: until the window shows another repository, every chunk a typed       *)
(* command prints is shown or under way, those printed before React rendered    *)
(* the run included (ConsoleDock.tsx:102-105).                                  *)
WholeOutput == \A id \in here : said[id] = heard[id] + OnWire(Chunk(id))

(* Safety: Stop reaches whatever was typed since the console was reset: while a   *)
(* command runs the console waits for it and for no other.                       *)
StopReachesIt == \A id \in DOMAIN procs : id \in here => queued = id

(* Refuted (command-console/spec.md:36, "The user SHALL be able to                *)
(* cancel/terminate a command that is still running"): the switch to another     *)
(* repository forgets the run, which goes on.                                    *)
RunningCanBeStopped == \A id \in DOMAIN procs : queued = id

(* Refuted (command-console/spec.md:27, "The console SHALL show the current       *)
(* working directory as a prompt"): until the next repository is read the prompt  *)
(* is the old one's, and what is typed runs in the new one.                      *)
RunsWhereItSays == \A id \in Ids : placed[id].ran = placed[id].said

(* Refuted (git-activity-log/spec.md:8, "record every git command the application *)
(* runs against the active repository ... and stream each record to the           *)
(* renderer"): the reset drops what opening the repository ran.                   *)
EveryCommandIsLogged == ~dropped

(* Refuted (git-activity-log/spec.md:60, "scoped to the active                     *)
(* repository/worktree and reset when the user switches"): a switch that fails    *)
(* leaves the log of one repository collecting another's commands.               *)
LogIsOfTheShown == landing = None => entries \subseteq {shown}

(* Refuted: what a run that could not start reports is shown once, in the console *)
(* of its repository. It is sent as output and as the call's answer.              *)
ErrorsAreShownHere == lines \subseteq here

TypeOK ==
  /\ active \in Repos /\ shown \in Repos /\ landing \in Repos \cup {None}
  /\ DOMAIN procs \subseteq Ids /\ dead \subseteq Ids /\ here \subseteq Ids
  /\ {runId, queued, runIdRef} \subseteq Ids \cup {None}
  /\ count \in 0..MaxRuns /\ turns \in 0..MaxTurns
=============================================================================
