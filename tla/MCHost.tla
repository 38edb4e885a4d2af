-------------------------------- MODULE MCHost --------------------------------
(***************************************************************************)
(* The main process of a machine beside itself: the commands that stash and    *)
(* restore the working copy (WorkingCopy), branches, tags and what is pushed     *)
(* (Branches), worktrees (Worktrees), what is shared with other machines        *)
(* (Sharing) and its window (PeerDialog), what a paired device may call          *)
(* (RemoteCalls), what happens at most so often (Limits) and what the peer       *)
(* feature keeps on disk (Storage). They share no state, so in a behaviour one   *)
(* of them moves, chosen at the start.                                       *)
(***************************************************************************)
EXTENDS WorkingCopy, TLC

CONSTANTS f, g, w1, w2, n, main, topic,               \* files, changes to them, branches
          TagNames, MaxCommits, MaxCommands,          \* of Branches
          MainTree, Paths, MaxClicks,                 \* of Worktrees
          Ports, Names, Urls, Addresses, Dns, Taken, PORT_SEARCH_SPAN, MaxSets, MaxMoves,   \* of Sharing
          Machines, MaxCodes, MaxPorts, MaxPresses,   \* of PeerDialog
          Ids, READ_METHODS, WRITE_METHODS, OtherMethods, Denied, MaxChanges, MaxRpcs,            \* of RemoteCalls
          DEBOUNCE, Subscriptions, WINDOW, LOCKOUT, LOCKOUT_MAX, MAX_ATTEMPTS, MaxRequests, MaxTime,  \* of Limits
          Devices, Absent, Torn, MaxStoreCalls, MaxStarts, MaxFaults                        \* of Storage

VARIABLES focus,
          commands, commits, local, checkedOut, upstream, tracking, tags, remote, remoteTags, pushed, op,
          here, listed, given, pushedOver,
          trees, branches, cwd, dialogOpen, rows, loads, removing, confirmForce, addForm, pending, jobs, read,
          wiped, clicks,
          settings, asked, taken, server, bound, opening, failed, beacon, link, overlapped, address, air,
          seen, known, conn, dialed, savedAs, sets, moves,
          pairedWith, near, online, serving, pairingCode, boundPort, publishDue, wire, snapshot, selection,
          found, looking, form, detail, questions, qr, asks, presses,
          readOnly, records, current, expired, shared, held, rpcs, choices, sent,
          now, enabled, subscriber, lastSent, timers, due, to, untold, attempts, lockedUntil, lockout,
          requests, failures,
          disk, up, peer, relay, paired, knownPeers, tls, sealed, calling, todo, serials, aged, revoked, void,
          failedSteps, storeCalls, starts, faults

\* Two changes to the same tracked file and an untracked file.
TwoFiles == w1 :> f @@ w2 :> f @@ n :> g
\* topic is ahead of main by changes to one or both of the files.
Ahead == {main :> {} @@ topic :> X : X \in {{f}, {f, g}}}

Repository == INSTANCE Branches WITH
  BranchNames <- Branches, Main <- main, Nobody <- None, head <- checkedOut, asked <- commands,
  made <- commits, server <- pushed, seen <- listed
Trees == INSTANCE Worktrees WITH
  Main <- MainTree, BranchNames <- Branches, MaxTurns <- MaxClicks, here <- cwd, open <- dialogOpen,
  list <- rows, turns <- clicks, form <- addForm
Desktop == INSTANCE Sharing WITH
  MaxCalls <- MaxSets, calls <- sets
Peers == INSTANCE PeerDialog WITH
  MaxTurns <- MaxPresses, known <- pairedWith, shown <- snapshot, due <- publishDue,
  calls <- questions, turns <- presses, port <- boundPort, code <- pairingCode, sel <- selection
Device == INSTANCE RemoteCalls WITH
  MaxCalls <- MaxRpcs, Others <- OtherMethods, changes <- choices, calls <- sent
Clock == INSTANCE Limits
Store == INSTANCE Storage WITH
  MaxTurns <- MaxStoreCalls, known <- knownPeers, failed <- failedSteps, made <- serials,
  turns <- storeCalls, call <- calling

\* No call of the store and no pair is the mark for none, and no number of a key one of a file's.
ASSUME StoreAssumption ==
  /\ None \notin [name : Store!CallNames, of : Devices \cup {None}, before : Nat] \cup [key : Nat, cert : Nat]
  /\ {Absent, Torn} \cap Nat = {}
\* There is a main branch; a method is read or write; no time, port or path is the mark for none.
ASSUME RepositoryAssumption == main \in Branches
ASSUME DesktopAssumption == None \notin Ports
ASSUME DeviceAssumption == MaxChanges \in Nat /\ READ_METHODS \cap WRITE_METHODS = {}
ASSUME ClockAssumption == DEBOUNCE \in Nat /\ None \notin Int
\* A lock outlasts the window (both are a minute), and one failure at least is borne.
ASSUME LimiterAssumption ==
  /\ {WINDOW, LOCKOUT, LOCKOUT_MAX} \subseteq Int /\ MAX_ATTEMPTS \in Nat \ {0}
  /\ 0 < WINDOW /\ WINDOW <= LOCKOUT /\ WINDOW <= LOCKOUT_MAX
ASSUME TreesAssumption == None \notin Paths \cup {MainTree}

repositoryVars == <<commands, commits, local, checkedOut, upstream, tracking, tags, remote, remoteTags, pushed, op,
                    here, listed, given, pushedOver>>
treesVars == <<trees, branches, cwd, dialogOpen, rows, loads, removing, confirmForce, addForm, pending, jobs, read,
               wiped, clicks>>
desktopVars == <<settings, asked, taken, server, bound, opening, failed, beacon, link, overlapped, address, air,
                 seen, known, conn, dialed, savedAs, sets, moves>>
peersVars == <<pairedWith, near, online, serving, pairingCode, boundPort, publishDue, wire, snapshot, selection,
               found, looking, form, detail, questions, qr, asks, presses>>
deviceVars == <<readOnly, records, current, expired, shared, held, rpcs, choices, sent>>
clockVars == <<now, enabled, subscriber, lastSent, timers, due, to, untold, attempts, lockedUntil, lockout,
               requests, failures>>
storeVars == <<disk, up, peer, relay, paired, knownPeers, tls, sealed, calling, todo, serials, aged, revoked, void,
               failedSteps, storeCalls, starts, faults>>

Start ==
  /\ focus \in {"working copy", "branches", "worktrees", "desktop", "peers", "device", "clock", "store"}
  /\ focus # "working copy" => tree = {} /\ head = main /\ content = (main :> {} @@ topic :> {f})
  /\ Init
  /\ Repository!Init
  /\ focus # "worktrees" => trees = <<>> /\ branches = {} /\ cwd = MainTree
  /\ Trees!Init
  /\ Desktop!Init
  /\ focus = "desktop" \/ (~settings.enabled /\ settings.relayUrl = None /\ taken = {})
  /\ focus # "peers" => pairedWith = {} /\ near = {}
  /\ Peers!Init
  /\ focus # "device" => readOnly = FALSE
  /\ Device!Init
  /\ Clock!Init
  /\ Store!Init

Step ==
  \/ /\ focus = "working copy" /\ Next
     /\ UNCHANGED <<focus, repositoryVars, treesVars, desktopVars, peersVars, deviceVars, clockVars, storeVars>>
  \/ /\ focus = "branches" /\ Repository!Next
     /\ UNCHANGED <<focus, vars, treesVars, desktopVars, peersVars, deviceVars, clockVars, storeVars>>
  \/ /\ focus = "worktrees" /\ Trees!Next
     /\ UNCHANGED <<focus, vars, repositoryVars, desktopVars, peersVars, deviceVars, clockVars, storeVars>>
  \/ /\ focus = "desktop" /\ Desktop!Next
     /\ UNCHANGED <<focus, vars, repositoryVars, treesVars, peersVars, deviceVars, clockVars, storeVars>>
  \/ /\ focus = "peers" /\ Peers!Next
     /\ UNCHANGED <<focus, vars, repositoryVars, treesVars, desktopVars, deviceVars, clockVars, storeVars>>
  \/ /\ focus = "device" /\ Device!Next
     /\ UNCHANGED <<focus, vars, repositoryVars, treesVars, desktopVars, peersVars, clockVars, storeVars>>
  \/ /\ focus = "clock" /\ Clock!Next
     /\ UNCHANGED <<focus, vars, repositoryVars, treesVars, desktopVars, peersVars, deviceVars, storeVars>>
  \/ /\ focus = "store" /\ Store!Next
     /\ UNCHANGED <<focus, vars, repositoryVars, treesVars, desktopVars, peersVars, deviceVars, clockVars>>
SideBySide == Start /\ [][Step]_<<focus, vars, repositoryVars, treesVars, desktopVars, peersVars, deviceVars, clockVars, storeVars>>

\* Branches: a push, forced or not, takes out of a remote branch only commits this clone has fetched.
PushesOverTheKnown == focus = "branches" => Repository!PushesOverTheKnown
\* Worktrees: the dialog has one removal under way at most, the one it shows.
OneRemovalAtATime == focus = "worktrees" => Trees!OneRemovalAtATime
\* Sharing: unless calls met, the app listens, announces and registers as the settings say.
SharingIsTheSettings == focus = "desktop" => Desktop!SharingIsTheSettings
\* PeerDialog: a fingerprint to compare is of the machine that the pairing code will go to.
CertificateIsOfTheHost == focus = "peers" => Peers!CertificateIsOfTheHost
\* RemoteCalls: what the host or its owner did not allow does not run while that stands.
OwnersChoiceHolds == focus = "device" => Device!OwnersChoiceHolds
\* Limits: an event that is not told at once has a timer that tells it within the debounce.
NothingIsLeftUntold == focus = "clock" => Clock!NothingIsLeftUntold
\* Limits: unless pairing is locked, fewer failures than the limit lie in the last window.
FailuresLockOut == focus = "clock" => Clock!FailuresLockOut
\* Storage: no certificate made before an answered rotation is served after it, in this run or the next.
PinBreaks == focus = "store" => Store!PinBreaks
==============================================================================
