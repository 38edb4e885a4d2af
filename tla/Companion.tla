------------------------------ MODULE Companion ------------------------------
(***************************************************************************)
(* The machines a phone is paired with (apps/companion: AppState, store,       *)
(* peerClient and the screens Machines, Pair, Repos and Repo). The list is     *)
(* state of the app and is written out whole with every change, by functions    *)
(* that hold the list of the render they were made in: a check of the machines    *)
(* goes on for many answers and changes the list it began with, and so do a        *)
(* pairing and a question whether to forget one. Every change of the list while     *)
(* Machines is in view begins another check.                                   *)
(***************************************************************************)
EXTENDS FiniteSets, Integers, TLC

CONSTANTS None,
          Machines,     \* the hosts, by the peer id they answer with
          Facts,        \* what a host may answer: [lastGood, features, scopes]
          NoScopes,     \* the scopes of a machine just paired
          MaxRefreshes, \* bound: checks under way at once
          MaxStreams,   \* bound: event streams open at once
          MaxTaps       \* bound: pairings, questions, checks asked for, ends of streams and of the app, changes at the hosts

VARIABLES hosts,      \* host -> the facts it answers with at present, or None when out of reach
          granted,    \* host -> the token it accepts of this phone, 0 for none
          machines,   \* the list rendered: peer id -> its entry
          refreshes,  \* the checks under way: [seen, left, of, at, found]
          scan,       \* the pairing under way: [of, seen, at, found], or None
          alert,      \* "Forget machine?", asked or confirmed: [of, seen, confirmed], or None
          view,       \* the screen in view: [at, of]
          streams,    \* the event streams open: [entry, mounted], the entry asked with, the screen still there
          closeRef,   \* the stream the Repo screen closes
          timers,     \* streams to open again: [entry, mounted]
          kept,       \* history: peer id -> the token answered last, of the machines not forgotten
          newest,     \* history: the check begun last, None once it is through
          changed,    \* history: the hosts that answer otherwise since that check began
          met,        \* history: a pairing or forgetting met something older under way
          taps

vars == <<hosts, granted, machines, refreshes, scan, alert, view, streams, closeRef, timers, kept, newest,
          changed, met, taps>>

Entry == [token : Nat, lastGood : {f.lastGood : f \in Facts}, features : {f.features : f \in Facts},
          scopes : {f.scopes : f \in Facts} \cup {NoScopes}]
Lists == UNION {[s -> Entry] : s \in SUBSET Machines}
Check == [seen : Lists, left : SUBSET Machines, of : Machines \cup {None},
          at : {"probe", "features", "repos", "whoami"}, found : Facts \cup {None}]
Slots == 1..MaxRefreshes
Streams == 1..MaxStreams
Nothing == [m \in {} |-> None]
At(screen, m) == [at |-> screen, of |-> m]
InView == view.at = "machines"
TokensOf(list) == [m \in DOMAIN list |-> list[m].token]
Tapped == taps < MaxTaps /\ taps' = taps + 1

Init ==
  /\ hosts \in [Machines -> Facts \cup {None}]
  /\ granted = [m \in Machines |-> 0]
  /\ machines = Nothing /\ kept = Nothing
  /\ refreshes = [s \in Slots |-> None] /\ newest = None
  /\ scan = None /\ alert = None /\ view = At("machines", None)
  /\ streams = [n \in Streams |-> None] /\ closeRef = None /\ timers = {}
  /\ changed = {} /\ met = FALSE /\ taps = 0

-----------------------------------------------------------------------------
FirstFree(s, f) == f[s] = None /\ \A t \in DOMAIN f : t < s => f[t] # None

\* A check of `list` begins, beside the checks `others`; over an empty list it is through at once.
refresh(list, others) ==
  /\ changed' = {}
  /\ IF DOMAIN list = {} THEN refreshes' = others /\ newest' = None
     ELSE \E s \in Slots :
            /\ FirstFree(s, others)
            /\ refreshes' = [others EXCEPT ![s] = [seen |-> list, left |-> DOMAIN list, of |-> None,
                                                   at |-> "probe", found |-> None]]
            /\ newest' = s

\* The Repo screen opens a stream with an entry, beside the streams `others`.
Opened(entry) == [entry |-> entry, mounted |-> TRUE]
events(entry, others) ==
  \E n \in Streams : FirstFree(n, others) /\ streams' = [others EXCEPT ![n] = Opened(entry)] /\ closeRef' = n

\* What is left of the streams when the Repo screen closes the one it knows.
Closed == IF closeRef = None THEN streams ELSE [streams EXCEPT ![closeRef] = None]

\* The machine of the screen as a list has it.
Shown(list) == IF view.of \in DOMAIN list THEN list[view.of] ELSE None
\* The machine of the Repo screen is another one in `list`: its effect closes the stream and opens one.
Effect(list) ==
  IF view.at = "repo" /\ Shown(list) # Shown(machines)
    THEN IF view.of \in DOMAIN list THEN events(list[view.of], Closed)
                                    ELSE streams' = Closed /\ closeRef' = None
    ELSE UNCHANGED <<streams, closeRef>>

\* Mutant: what the checks wrote is not checked again.
persistQuietly(next, others) ==
  machines' = next /\ Effect(next) /\ refreshes' = others /\ UNCHANGED <<newest, changed>>
\* persist: the list is rendered, and its writing begins; `others` are the checks as the caller leaves them.
persist(next, others) ==
  /\ machines' = next
  /\ Effect(next)
  /\ IF InView THEN refresh(next, others)
               ELSE refreshes' = others /\ UNCHANGED <<newest, changed>>

\* Nothing is changed in the list: only the check goes on.
GoesOn(others) == refreshes' = others /\ UNCHANGED <<machines, streams, closeRef, newest, changed>>

-----------------------------------------------------------------------------
\* Check s is done with the machine it is at.
Past(s) ==
  LET left == refreshes[s].left \ {refreshes[s].of}
  IN [refreshes EXCEPT ![s] = IF left = {} THEN None
                              ELSE [@ EXCEPT !.left = left, !.of = None, !.at = "probe", !.found = None]]
PassedBy(s, others) ==
  /\ refreshes' = others
  /\ newest' = IF newest = s /\ others[s] = None THEN None ELSE newest
  /\ UNCHANGED <<machines, streams, closeRef, changed>>

\* updateMachine of the check's render: the list it saw, with one entry patched.
updated(s, m, field, value) == [refreshes[s].seen EXCEPT ![m] = [@ EXCEPT ![field] = value]]

\* A request to an address answers when that is the host's present one; an earlier one may answer too.
Answers(m, address) == {ok \in BOOLEAN : /\ ok => hosts[m] # None
                                         /\ hosts[m] # None /\ hosts[m].lastGood = address => ok}

\* The features the host told are compared with the ones seen.
CompareFeatures(s, m, features, others) ==
  IF features # refreshes[s].seen[m].features
    THEN persist(updated(s, m, "features", features), others)
    ELSE GoesOn(others)

\* probeAny answers for the next machine, or no address of it does.
ProbeAnswered(s) ==
  /\ refreshes[s] # None /\ refreshes[s].at = "probe"
  /\ \E m \in refreshes[s].left :
       LET c == [refreshes[s] EXCEPT !.of = m, !.found = hosts[m]]
       IN IF hosts[m] = None
            THEN PassedBy(s, LET left == c.left \ {m}
                             IN [refreshes EXCEPT ![s] = IF left = {} THEN None ELSE [@ EXCEPT !.left = left]])
          ELSE IF hosts[m].lastGood # c.seen[m].lastGood
            THEN persist(updated(s, m, "lastGood", hosts[m].lastGood),
                         [refreshes EXCEPT ![s] = [c EXCEPT !.at = "features"]])
          ELSE CompareFeatures(s, m, hosts[m].features, [refreshes EXCEPT ![s] = [c EXCEPT !.at = "repos"]])
  /\ UNCHANGED <<hosts, granted, scan, alert, view, timers, kept, met, taps>>

\* The address is written: the features are next.
AddressWritten(s) ==
  /\ refreshes[s] # None /\ refreshes[s].at = "features"
  /\ CompareFeatures(s, refreshes[s].of, refreshes[s].found.features, [refreshes EXCEPT ![s].at = "repos"])
  /\ UNCHANGED <<hosts, granted, scan, alert, view, timers, kept, met, taps>>

\* listRepos answers; the token is refused, or the host does not answer, and the check goes on to the next machine.
ReposAnswered(s) ==
  /\ refreshes[s] # None /\ refreshes[s].at = "repos"
  /\ LET m == refreshes[s].of
     IN \E ok \in Answers(m, refreshes[s].found.lastGood) :
          IF ok /\ granted[m] = refreshes[s].seen[m].token
            THEN GoesOn([refreshes EXCEPT ![s].at = "whoami"])
            ELSE PassedBy(s, Past(s))
  /\ UNCHANGED <<hosts, granted, scan, alert, view, timers, kept, met, taps>>

\* whoami answers with the scopes granted, or with nothing.
WhoamiAnswered(s) ==
  /\ refreshes[s] # None /\ refreshes[s].at = "whoami"
  /\ LET m == refreshes[s].of
     IN \E ok \in Answers(m, refreshes[s].found.lastGood) :
          IF ok /\ granted[m] = refreshes[s].seen[m].token /\ hosts[m].scopes # refreshes[s].seen[m].scopes
            THEN persist(updated(s, m, "scopes", hosts[m].scopes), Past(s))
            ELSE PassedBy(s, Past(s))
  /\ UNCHANGED <<hosts, granted, scan, alert, view, timers, kept, met, taps>>

\* The list is pulled down.
Pulled ==
  /\ InView /\ Tapped /\ refresh(machines, refreshes)
  /\ UNCHANGED <<hosts, granted, machines, scan, alert, view, streams, closeRef, timers, kept, met>>

-----------------------------------------------------------------------------
\* pairWith: a code is scanned, and the list is the one of this render.
Scanned(m) ==
  /\ view.at = "pair" /\ scan = None /\ Tapped
  /\ scan' = [of |-> m, seen |-> machines, at |-> "probe", found |-> None, token |-> 0]
  /\ UNCHANGED <<hosts, granted, machines, refreshes, alert, view, streams, closeRef, timers, kept, newest,
                 changed, met>>

\* The host answers the probe; out of reach, it ends the pairing.
ScanProbed ==
  /\ scan # None /\ scan.at = "probe"
  /\ scan' = IF hosts[scan.of] = None THEN None ELSE [scan EXCEPT !.at = "pair", !.found = hosts[scan.of]]
  /\ UNCHANGED <<hosts, granted, machines, refreshes, alert, view, streams, closeRef, timers, kept, newest,
                 changed, met, taps>>

\* The host takes the code: a new token for this phone, in the place of an earlier one (external).
HostPairs ==
  /\ scan # None /\ scan.at = "pair" /\ hosts[scan.of] # None
  /\ granted' = [granted EXCEPT ![scan.of] = taps]
  /\ scan' = [scan EXCEPT !.at = "answer", !.token = taps]
  /\ changed' = changed \cup {scan.of}
  /\ UNCHANGED <<hosts, machines, refreshes, alert, view, streams, closeRef, timers, kept, newest, met,
                 taps>>

\* The code is refused, or the answer is lost.
PairingFailed ==
  /\ scan # None /\ scan.at # "probe" /\ scan' = None
  /\ UNCHANGED <<hosts, granted, machines, refreshes, alert, view, streams, closeRef, timers, kept, newest,
                 changed, met, taps>>

\* machineFromPairing: what the probe and the answer told.
machineFromPairing ==
  [token |-> scan.token, lastGood |-> scan.found.lastGood, features |-> scan.found.features, scopes |-> NoScopes]

Checking == \E s \in Slots : refreshes[s] # None
\* Something that began with an older list may still be answered.
Overlaps(others) == Checking \/ others # None

\* addMachine: the list of the render the code was scanned in, with the machine last; then Repos replaces Pair.
Paired ==
  /\ scan # None /\ scan.at = "answer"
  /\ LET entry == machineFromPairing
     IN persist([m \in DOMAIN scan.seen \cup {scan.of} |-> IF m = scan.of THEN entry ELSE scan.seen[m]], refreshes)
  /\ kept' = [m \in DOMAIN kept \cup {scan.of} |-> IF m = scan.of THEN scan.token ELSE kept[m]]
  /\ met' = (met \/ Overlaps(alert))
  /\ view' = IF view.at = "pair" THEN At("repos", scan.of) ELSE view
  /\ scan' = None
  /\ UNCHANGED <<hosts, granted, alert, timers, taps>>

\* "Forget this machine" is pressed: the question holds the list of this render.
ForgetAsked ==
  /\ view.at = "repos" /\ view.of \in DOMAIN machines /\ alert = None /\ Tapped
  /\ alert' = [of |-> view.of, seen |-> machines, confirmed |-> FALSE]
  /\ UNCHANGED <<hosts, granted, machines, refreshes, scan, view, streams, closeRef, timers, kept, newest,
                 changed, met>>
ForgetCancelled ==
  /\ alert # None /\ ~alert.confirmed /\ alert' = None
  /\ UNCHANGED <<hosts, granted, machines, refreshes, scan, view, streams, closeRef, timers, kept, newest,
                 changed, met, taps>>

\* removeMachine, of the list the question holds.
Without(list, m) == [x \in DOMAIN list \ {m} |-> list[x]]
Forgotten ==
  /\ alert # None /\ ~alert.confirmed
  /\ persist(Without(alert.seen, alert.of), refreshes)
  /\ kept' = Without(kept, alert.of)
  /\ met' = (met \/ Overlaps(scan))
  /\ alert' = [alert EXCEPT !.confirmed = TRUE]
  /\ UNCHANGED <<hosts, granted, scan, view, timers, taps>>

-----------------------------------------------------------------------------
\* A Repo screen goes: its stream is closed, what it wanted opened again is not called off.
Unmount(f) == [n \in Streams |-> IF f[n] = None THEN None ELSE [f[n] EXCEPT !.mounted = FALSE]]
Leaves ==
  IF view.at = "repo"
    THEN /\ streams' = Unmount(Closed) /\ closeRef' = None
         /\ timers' = {[t EXCEPT !.mounted = FALSE] : t \in timers}
    ELSE UNCHANGED <<streams, closeRef, timers>>

\* Machines comes into view, by Back or popToTop, and checks what it lists.
ToMachines ==
  /\ Tapped /\ view.at \in {"pair", "repos"} /\ (alert # None => alert.confirmed)
  /\ view' = At("machines", None) /\ alert' = None
  /\ refresh(machines, refreshes)
  /\ UNCHANGED <<hosts, granted, machines, scan, streams, closeRef, timers, kept, met>>

\* Pair, or the repositories of a machine, or back to these from one of them.
ToScreen ==
  /\ alert = None
  /\ \/ InView /\ view' = At("pair", None)
     \/ \E m \in DOMAIN machines : InView /\ view' = At("repos", m)
     \/ view.at = "repo" /\ view' = At("repos", view.of)
  /\ Leaves
  /\ UNCHANGED <<hosts, granted, machines, refreshes, scan, alert, kept, newest, changed, met, taps>>

\* A repository is opened: its screen follows the events.
ToRepo ==
  /\ alert = None /\ view.at = "repos" /\ view.of \in DOMAIN machines
  /\ view' = At("repo", view.of)
  /\ events(machines[view.of], streams)
  /\ UNCHANGED <<hosts, granted, machines, refreshes, scan, alert, timers, kept, newest, changed, met,
                 taps>>

\* A stream ends: it is opened again in five seconds, with the entry it had, whatever has become of
\* its screen and of the list.
StreamEnded(n) ==
  /\ streams[n] # None /\ Tapped
  /\ streams' = [streams EXCEPT ![n] = None] /\ timers' = timers \cup {streams[n]}
  /\ UNCHANGED <<hosts, granted, machines, refreshes, scan, alert, view, closeRef, kept, newest, changed, met>>
StreamRetried(t) ==
  /\ timers' = timers \ {t}
  /\ \E n \in Streams : /\ FirstFree(n, streams) /\ streams' = [streams EXCEPT ![n] = t]
                        /\ closeRef' = IF t.mounted THEN n ELSE closeRef
  /\ UNCHANGED <<hosts, granted, machines, refreshes, scan, alert, view, kept, newest, changed, met, taps>>

-----------------------------------------------------------------------------
\* The app is ended and started: the list is read back.
Restarted ==
  /\ Tapped
  /\ refresh(machines, [s \in Slots |-> None])
  /\ scan' = None /\ alert' = None /\ view' = At("machines", None)
  /\ streams' = [n \in Streams |-> None] /\ closeRef' = None /\ timers' = {}
  /\ UNCHANGED <<hosts, granted, machines, kept, met>>

\* At a host: it moves, goes, comes back, or its owner changes what it offers or allows (external).
HostChanges(m) ==
  /\ Tapped
  /\ \E f \in Facts \cup {None} : f # hosts[m] /\ hosts' = [hosts EXCEPT ![m] = f]
  /\ changed' = changed \cup {m}
  /\ UNCHANGED <<granted, machines, refreshes, scan, alert, view, streams, closeRef, timers, kept, newest, met>>
HostRevokes(m) ==
  /\ granted[m] # 0 /\ Tapped
  /\ granted' = [granted EXCEPT ![m] = 0] /\ changed' = changed \cup {m}
  /\ UNCHANGED <<hosts, machines, refreshes, scan, alert, view, streams, closeRef, timers, kept, newest, met>>

Next ==
  \/ \E s \in Slots : ProbeAnswered(s) \/ AddressWritten(s) \/ ReposAnswered(s) \/ WhoamiAnswered(s)
  \/ Pulled \/ ScanProbed \/ HostPairs \/ PairingFailed \/ Paired
  \/ ForgetAsked \/ ForgetCancelled \/ Forgotten \/ ToMachines \/ ToScreen \/ ToRepo \/ Restarted
  \/ \E n \in Streams : StreamEnded(n)
  \/ \E t \in timers : StreamRetried(t)
  \/ \E m \in Machines : Scanned(m) \/ HostChanges(m) \/ HostRevokes(m)

-----------------------------------------------------------------------------
\* No machine is lost and none comes back: unless a pairing or forgetting met a check, a pairing or a
\* question that held an older list, the list is of the machines paired and not forgotten, each with the
\* token its host answered last.
NoneIsLost == met \/ TokensOf(machines) = kept

\* Once the checks are through, Machines lists what the hosts answer: checks overwrite each other's patches,
\* but every change has a check behind it. A host that changed meanwhile is left for the next.
ChecksConverge ==
  InView /\ ~Checking =>
    \A m \in DOMAIN machines :
      hosts[m] # None /\ m \notin changed =>
        /\ machines[m].lastGood = hosts[m].lastGood /\ machines[m].features = hosts[m].features
        /\ granted[m] = machines[m].token => machines[m].scopes = hosts[m].scopes

MachinesAreKept == NoneIsLost /\ ChecksConverge

\* Refuted: "The SSE stream is open only while this screen is mounted" (RepoScreen.tsx:16). The timer
\* that opens a stream again outlives the effect it belongs to: it opens one of a screen that is gone,
\* or with an entry the list has no more, and then nobody closes the one it takes the place of.
StreamIsOfTheScreen ==
  \A n \in Streams :
    streams[n] # None => /\ n = closeRef /\ view.at = "repo" /\ view.of \in DOMAIN machines
                         /\ streams[n].entry = machines[view.of]
=============================================================================
