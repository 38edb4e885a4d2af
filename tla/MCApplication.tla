---------------------------- MODULE MCApplication ----------------------------
(***************************************************************************)
(* The parts of the programs around the repository beside each other: the     *)
(* window of the desktop app (Workspace), its dialogs (Dialogs), its console     *)
(* (Console), its recovery tools (Recovery), its Gerrit mode (Gerrit) and its    *)
(* accounts (Integrations), the updater (Updates), the daemon (Daemon), and the   *)
(* phone: its pull requests (PullRequests) and its machines (Companion). They share no state, so in a behaviour  *)
(* one of them moves, chosen at the start, and the others rest in an initial     *)
(* state.                                                                 *)
(***************************************************************************)
EXTENDS Integers, Sequences, TLC

CONSTANTS None, Gone, Broken,
          a, aw, ap, a2,                      \* a repository, its worktree, a peer's, another repository
          lan, other, missing, r1, r2, d, ds, \* interfaces, relays, directories
          c1, c2, q1, q2,                     \* changes of the first repository; things, requests
          Paths, MainOf, Peers, MaxOps, MaxActs,                        \* of Workspace
          Things, Screens, MaxClicks,                                     \* of Dialogs
          Consoles, Remote, MaxRuns, MaxOutput, MaxSteps,               \* of Console
          Trees, Commits, FirstBad, MaxTries,                           \* of Recovery
          MaxFlows, MaxPolls, MaxMounts, MaxCalls, Tokens, Folders,     \* of Integrations
          Versions, Rank, First, MaxChecks, MaxStarts,                  \* of Updates
          Configs, AddressOf, OwnAddresses, Dirs, ScanRoot, MaxEdits,   \* of Daemon
          Files, Requests, MaxAsked, MaxVersions, DIFF_CACHE_ENTRIES, DIFF_CACHE_BYTES, Bytes, \* of PullRequests
          Projects, Changes, ProjectOf, MaxPatchsets, MaxListings, MaxSwitches, MaxWrites, \* of Gerrit
          m1, m2, Machines, Facts, NoScopes, MaxRefreshes, MaxStreams, MaxTaps      \* of Companion

VARIABLES focus,
          loaded, active, saved, repoPath, mainPath, tabs, shown, error, fetchPath, ops, gone, settled, acts,
          modal, asking, showReflog, pullPrompt, ctxMenu, onScreen, pendingCalls, outcome, raised, named,
          overrun, opened,
          workingIn, titled, loadingNow, procs, dead, wire, runId, queued, runIdRef, lines, logged, typedRuns,
          sinceReset, said, heard, placed, dropped, steps,
          inMain, arriving, inWindow, logs, pane, rows, reading, readings, confirmSha, session, wizard,
          output, commands, spoilt, doubt, resetTo, attempts,
          octokit, tokenFile, auth, account, flows, interval, mount, screen, signInPanel, clonePane,
          waiting, repoShown, origin, taken,
          published, installed, replaced, running, channel, checks, workDir, readyBundle, download, script,
          chip, checked, starts,
          configuration, disk, up, cfg, bindAddress, listening, cert, tls, presented, relay, dialing, joined,
          beacon, cache, old, served, watchers, pairing, applied, late, edits,
          log, pulls, reviews, diffs, diffBytes, inflight, calls, asked, list, slots, stale, viewed, stored,
          gerrit, switch, mirror, repository, path, fetching, mode, queue, lastSync, listings, fetchSeq,
          syncs, write, switches, writes, mirrored, crossed,
          hosts, granted, machines, refreshes, scan, alert, view, streams, closeRef, timers, kept, newest, changed,
          met, taps

\* A newer minor version, its development builds in the order of their numbers, and the release.
Version(minor, pre) == [core |-> <<1, minor, 0>>, pre |-> pre]
Dev(n) == <<<<1, 1>>, <<0, n>>>>
Order == <<Version(10, <<>>), Version(11, Dev(9)), Version(11, Dev(10)), Version(11, <<>>)>>
Released == {Order[i] : i \in DOMAIN Order}
OrderOf == [v \in Released |-> CHOOSE i \in DOMAIN Order : Order[i] = v]

Oldest == Order[2]

Bindings == [b \in {lan, other, missing} |-> IF b = missing THEN None ELSE b]
Config(b, l, t, g, h, r, sc) ==
  [bind |-> b, url |-> l, token |-> t, discovery |-> g, push |-> h, repos |-> r, scan |-> sc]
Texts == {Config(lan, r1, 1, TRUE, TRUE, {d}, TRUE), Config(lan, r2, 1, FALSE, TRUE, {}, TRUE),
          Config(other, r2, 2, TRUE, FALSE, {d}, FALSE),
          Config(missing, None, 1, FALSE, TRUE, {d}, FALSE)}
\* The worktree is one of the repository, the changes are of its project, diffs are of two units.
Mains == (a :> a) @@ (aw :> a) @@ (ap :> ap)
ChangesOfA == (c1 :> a) @@ (c2 :> a)
Lengths == <<2, 2>>
\* What a host tells a phone: an address, whether it has a forge, what it allows.
Told(address, forge, allowed) == [lastGood |-> address, features |-> forge, scopes |-> allowed]
AtHome == Told("lan", "none", "fetch")
Tellings == {AtHome, Told("relay", "none", "pull"), Told("lan", "forge", "pull")}

Window == INSTANCE Workspace WITH
  Nothing <- None
Shell == INSTANCE Dialogs WITH
  Repos <- Screens, MaxTurns <- MaxClicks, pending <- asking, repo <- onScreen, calls <- pendingCalls, done <- outcome,
  turns <- opened
Dock == INSTANCE Console WITH
  Repos <- Consoles, MaxTurns <- MaxSteps, active <- workingIn, shown <- titled, landing <- loadingNow,
  entries <- logged, count <- typedRuns, here <- sinceReset, turns <- steps
Tools == INSTANCE Recovery WITH
  MaxTurns <- MaxTries, active <- inMain, landing <- arriving, shown <- inWindow, loading <- reading,
  asked <- readings, panel <- pane, reset <- resetTo, turns <- attempts, entries <- rows, calls <- commands
Accounts == INSTANCE Integrations WITH
  file <- tokenFile, stored <- account, calls <- waiting, active <- repoShown, pane <- clonePane,
  panel <- signInPanel
Updater == INSTANCE Updates
Server == INSTANCE Daemon WITH
  MaxActs <- MaxEdits, file <- configuration, stale <- old, acts <- edits
Phone == INSTANCE PullRequests WITH
  Ids <- Requests
Review == INSTANCE Gerrit WITH
  Repos <- Projects, MaxAsked <- MaxListings, server <- gerrit, active <- repository, shown <- path,
  changes <- queue, loading <- fetching, config <- switch
Handset == INSTANCE Companion

\* What the constants are, beyond their values in a run.
\* A path is a worktree of one of the repositories, and null is neither a path nor an answer.
ASSUME WindowAssumption == MainOf \in [Paths -> Paths] /\ None \notin Paths /\ None \notin BOOLEAN
ASSUME ShellAssumption == None \notin Shell!About
ASSUME DockAssumption == MaxRuns \in Nat /\ None \notin Nat
ASSUME ToolsAssumption == Commits \in Nat \ {0} /\ FirstBad \in 1..Commits
\* compareVersions is the order of the ranks.
ASSUME UpdaterAssumption ==
  /\ First \in Versions /\ {None, Gone} \cap Versions = {} /\ None \notin {"remove", "move", Gone}
  /\ Rank \in [Versions -> Int] /\ \A v, w \in Versions : Rank[v] = Rank[w] => v = w
  /\ \A v, w \in Versions : Updater!compareVersions(v, w) <=> Rank[v] < Rank[w]
ASSUME ServerAssumption ==
  Broken \notin Configs /\ \A c \in Configs : None \notin [url : {c.url}, token : {c.token}, nth : Int]
\* A diff has a length, and the limits of the cache are numbers.
ASSUME PhoneAssumption ==
  /\ MaxVersions \in Nat \ {0} /\ \A h \in 1..MaxVersions : Bytes[h] \in Nat
  /\ DIFF_CACHE_ENTRIES \in Nat /\ DIFF_CACHE_BYTES \in Nat
\* A mode, and the write of one, is not the absence of one.
ASSUME ReviewAssumption ==
  /\ None \notin [of : Projects, enabled : {"unset", "on", "off"}]
  /\ None \notin [enabled : {"on", "off"}, clears : BOOLEAN, written : BOOLEAN]

\* What is held in the phone is not the absence of it.
ASSUME HandsetAssumption ==
  None \notin Handset!Entry \cup Handset!Check \cup Handset!Slots \cup Handset!Streams

windowVars == <<loaded, active, saved, repoPath, mainPath, tabs, shown, error, fetchPath, ops, gone, settled, acts>>
shellVars == <<modal, asking, showReflog, pullPrompt, ctxMenu, onScreen, pendingCalls, outcome, raised, named,
               overrun, opened>>
dockVars == <<workingIn, titled, loadingNow, procs, dead, wire, runId, queued, runIdRef, lines, logged, typedRuns,
              sinceReset, said, heard, placed, dropped, steps>>
toolsVars == <<inMain, arriving, inWindow, logs, pane, rows, reading, readings, confirmSha, session, wizard,
               output, commands, spoilt, doubt, resetTo, attempts>>
accountsVars == <<octokit, tokenFile, auth, account, flows, interval, mount, screen, signInPanel, clonePane,
                  waiting, repoShown, origin, taken>>
updaterVars == <<published, installed, replaced, running, channel, checks, workDir, readyBundle, download, script,
                 chip, checked, starts>>
serverVars == <<configuration, disk, up, cfg, bindAddress, listening, cert, tls, presented, relay, dialing,
                joined, beacon, cache, old, served, watchers, pairing, applied, late, edits>>
phoneVars == <<log, pulls, reviews, diffs, diffBytes, inflight, calls, asked, list, slots, stale, viewed, stored>>
reviewVars == <<gerrit, switch, mirror, repository, path, fetching, mode, queue, lastSync, listings, fetchSeq,
                syncs, write, switches, writes, mirrored, crossed>>
handsetVars == <<hosts, granted, machines, refreshes, scan, alert, view, streams, closeRef, timers, kept, newest,
                changed, met, taps>>

Start ==
  /\ focus \in {"window", "dialogs", "console", "recovery", "accounts", "updater", "server", "phone", "review", "handset"}
  /\ Window!Init
  /\ focus # "dialogs" => onScreen = a
  /\ Shell!Init
  /\ focus # "console" => workingIn = a
  /\ Dock!Init
  /\ focus # "recovery" => inMain = a /\ logs = [t \in Trees |-> <<IF t = a THEN 1 ELSE Commits>>]
  /\ Tools!Init
  /\ Accounts!Init
  /\ Updater!Init
  /\ focus # "server" => configuration = (CHOOSE c \in Configs : TRUE) /\ disk = {}
  /\ Server!Init
  /\ Phone!Init
  /\ focus # "review" => repository = a /\ switch = [r \in Projects |-> "unset"]
  /\ Review!Init
  /\ hosts = [m \in Machines |-> AtHome]
  /\ Handset!Init

Step ==
  \/ /\ focus = "window" /\ Window!Next
     /\ UNCHANGED <<focus, shellVars, dockVars, toolsVars, accountsVars, updaterVars, serverVars, phoneVars, reviewVars,
                    handsetVars>>
  \/ /\ focus = "dialogs" /\ Shell!Next
     /\ UNCHANGED <<focus, windowVars, dockVars, toolsVars, accountsVars, updaterVars, serverVars, phoneVars, reviewVars,
                    handsetVars>>
  \/ /\ focus = "console" /\ Dock!Next
     /\ UNCHANGED <<focus, windowVars, shellVars, toolsVars, accountsVars, updaterVars, serverVars, phoneVars,
                    reviewVars, handsetVars>>
  \/ /\ focus = "recovery" /\ Tools!Next
     /\ UNCHANGED <<focus, windowVars, shellVars, dockVars, accountsVars, updaterVars, serverVars, phoneVars, reviewVars,
                    handsetVars>>
  \/ /\ focus = "accounts" /\ Accounts!Next
     /\ UNCHANGED <<focus, windowVars, shellVars, dockVars, toolsVars, updaterVars, serverVars, phoneVars, reviewVars,
                    handsetVars>>
  \/ /\ focus = "updater" /\ Updater!Next
     /\ UNCHANGED <<focus, windowVars, shellVars, dockVars, toolsVars, accountsVars, serverVars, phoneVars, reviewVars,
                    handsetVars>>
  \/ /\ focus = "server" /\ Server!Next
     /\ UNCHANGED <<focus, windowVars, shellVars, dockVars, toolsVars, accountsVars, updaterVars, phoneVars, reviewVars,
                    handsetVars>>
  \/ /\ focus = "phone" /\ Phone!Next
     /\ UNCHANGED <<focus, windowVars, shellVars, dockVars, toolsVars, accountsVars, updaterVars, serverVars, reviewVars,
                    handsetVars>>
  \/ /\ focus = "review" /\ Review!Next
     /\ UNCHANGED <<focus, windowVars, shellVars, dockVars, toolsVars, accountsVars, updaterVars, serverVars, phoneVars,
                    handsetVars>>
  \/ /\ focus = "handset" /\ Handset!Next
     /\ UNCHANGED <<focus, windowVars, shellVars, dockVars, toolsVars, accountsVars, updaterVars, serverVars, phoneVars,
                    reviewVars>>
SideBySide == Start /\ [][Step]_<<focus, windowVars, shellVars, dockVars, toolsVars, accountsVars, updaterVars, serverVars, phoneVars,
                                  reviewVars, handsetVars>>

\* The requests of the phone are alike, the changes, and its machines.
Alike == Permutations({q1, q2}) \cup Permutations({c1, c2}) \cup Permutations({m1, m2})

\* Workspace: after a change of tab that ran alone, main process, window and tab name one repository.
SwitchesRealign == focus = "window" => Window!SwitchesRealign
\* Dialogs: a modal is about what was chosen for it, and what is confirmed is run of that.
NothingUnchosen == focus = "dialogs" => Shell!NothingUnchosen
\* Console: every chunk a command printed since the last reset is shown or under way.
WholeOutput == focus = "console" => Dock!WholeOutput
\* Recovery: a bisect between a good and a bad commit, marked one at a time, names the first bad one.
CulpritIsTheFirstBad == focus = "recovery" => Tools!CulpritIsTheFirstBad
\* Integrations: the repositories on offer are those of the service that is selected.
ListIsOfItsSource == focus = "accounts" => Accounts!ListIsOfItsSource
\* Updates: whatever is checked, downloaded and installed when, the app never becomes older.
NeverDowngrades == focus = "updater" => Updater!NeverDowngrades
\* Daemon: however it is reloaded, the relay, the beacon and the watchers follow one configuration.
OneConfiguration == focus = "server" => Server!OneConfiguration
\* PullRequests: every diff is cached under its own head, once, within the limits of the cache.
CacheIsSound == focus = "phone" => Phone!CacheIsSound
\* Companion: unless they met something older, pairings and forgettings are kept; checks that are through leave
\* what the hosts answer.
MachinesAreKept == focus = "handset" => Handset!MachinesAreKept
\* The phone: what its host caches of the forge, and what the phone itself holds of its hosts.
PhoneIsSound == CacheIsSound /\ MachinesAreKept
\* Gerrit: unless operations met, the refs are the patch sets of the changes listed last.
MirrorIsTheListing == focus = "review" => Review!MirrorIsTheListing
==============================================================================
