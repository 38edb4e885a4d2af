----------------------------- MODULE EventStreams -----------------------------
(***************************************************************************)
(* How an edit on a host reaches the tab a peer has open on it: the event  *)
(* streams of PeerServer.handleEvents, the allow-list and worktree lookup  *)
(* of createRepoHost, the watchers of createRepoWatcher with their two     *)
(* timers, and the refresh at the client.                                  *)
(*                                                                         *)
(* One client, whose connection holds one stream at a time (how it gets    *)
(* there is the subject of module PeerConnection).  Left out: activity     *)
(* records, .gitignore events, pings, repositories that turn out not to be *)
(* one, and tabs in the background (they are read when they are shown).  A *)
(* path is a shared repository or a worktree of one.                       *)
(***************************************************************************)
CONSTANTS
  Streams,     \* requests for /gitgud/events
  Shared,      \* repositories the host may have in its tabs and recents
  Worktrees,
  OwnerOf,     \* the repository each worktree belongs to
  Tabs,        \* what the client has open, and subscribes to
  None

Repos == Shared \cup Worktrees

ASSUME OwnerAssumption == OwnerOf \in [Worktrees -> Shared]
ASSUME SharedAssumption == Shared \cap Worktrees = {}
ASSUME FreshAssumption == None \notin Streams \cup Repos
ASSUME TabsAssumption == Tabs \subseteq Repos

VARIABLES
  allowed,     \* host: allowList()
  owners,      \* host: the keys of worktreeOwner
  scanDue,     \* host: the last worktree scan is ten seconds old
  handler,     \* host: handleEvents() for every request
  watcher,     \* host: the watcher of every request and repository
  current,     \* client: the stream it reads
  inbox,       \* repo-changed events on their way on the current stream
  due,         \* client: repositories it has been told to refresh
  stale,       \* tabs that do not show the last edit of their repository
  missed,      \* history: why a stale tab may stay so, if nobody will tell it
  hindered     \* history: streams whose scan cannot be expected to find all

hostVars == <<allowed, owners, scanDue, handler, watcher>>
clientVars == <<current, inbox, due, stale>>
vars == <<hostVars, clientVars, missed, hindered>>

-----------------------------------------------------------------------------
(* at: how far the handler is; serving: it has registered its close        *)
(* listener.  left: the paths it has not resolved yet, of which it is busy *)
(* with asking; todo: the repositories its worktree scan still has to ask. *)
(* up: the response is not closed yet.                                     *)
Handler ==
  [at: {"free", "looping", "scanning", "resolved", "serving"}, left: SUBSET Tabs,
   asking: Tabs \cup {None}, todo: SUBSET Shared, up: BOOLEAN]

Free == [at |-> "free", left |-> {}, asking |-> None, todo |-> {}, up |-> FALSE]

\* createRepoWatcher(): the debounce timer is armed, or its own event was
\* emitted less than 1.5 s ago.
Watcher == {"none", "idle", "armed", "busy"}
Watching(r, p) == watcher[r][p] # "none"
Unwatched == [p \in Tabs |-> "none"]

-----------------------------------------------------------------------------
(* The request: handleEvents().                                            *)

\* The client has opened its stream with the repositories of its tabs as the
\* query; the host answers 200 and lists the client.
handleEvents(r) ==
  /\ current = None /\ handler[r] = Free
  /\ handler' = [handler EXCEPT ![r] =
       [at |-> "looping", left |-> Tabs, asking |-> None, todo |-> {}, up |-> TRUE]]
  /\ current' = r
  /\ inbox' = {}
  /\ UNCHANGED <<allowed, owners, scanDue, watcher, due, stale, missed, hindered>>

Served(p, known) ==
  \/ p \in allowed
  \/ p \in known /\ OwnerOf[p] \in allowed

Scanning == {r \in Streams : handler[r].at = "scanning"}

\* resolveRepo(p) up to its first await: the path is served, unknown, or looked
\* for among the worktrees, unless the last scan is too recent.  A new scan
\* empties the map that older ones, still waiting for git, are filling.
resolveRepo(r, p) ==
  /\ handler[r].at = "looping" /\ p \in handler[r].left
  /\ \/ /\ Served(p, owners)
        /\ handler' = [handler EXCEPT ![r].at = "resolved", ![r].asking = p]
        /\ UNCHANGED <<owners, scanDue, hindered>>
     \/ /\ ~Served(p, owners) /\ (p \in owners \/ ~scanDue)
        /\ handler' = [handler EXCEPT ![r].left = @ \ {p}]
        /\ UNCHANGED <<owners, scanDue, hindered>>
     \/ /\ p \notin allowed \cup owners /\ scanDue
        /\ handler' = [handler EXCEPT ![r].at = "scanning", ![r].asking = p,
                                      ![r].todo = allowed]
        /\ owners' = {} /\ scanDue' = FALSE
        /\ hindered' = hindered \cup Scanning
  /\ UNCHANGED <<allowed, watcher, clientVars, missed>>

\* Mutant: what git lists of one repository replaces what is known of others.
rescanReplaces(r, m) ==
  /\ handler[r].at = "scanning" /\ m \in handler[r].todo
  /\ handler' = [handler EXCEPT ![r].todo = @ \ {m}]
  /\ owners' = {w \in Worktrees : OwnerOf[w] = m}
  /\ UNCHANGED <<allowed, scanDue, watcher, clientVars, missed, hindered>>

\* rescanWorktrees(): git lists the worktrees of one repository, or fails to.
rescanWorktrees(r, m) ==
  /\ handler[r].at = "scanning" /\ m \in handler[r].todo
  /\ handler' = [handler EXCEPT ![r].todo = @ \ {m}]
  /\ \/ /\ owners' = owners \cup {w \in Worktrees : OwnerOf[w] = m}
        /\ UNCHANGED hindered
     \/ /\ hindered' = hindered \cup {r}
        /\ UNCHANGED owners
  /\ UNCHANGED <<allowed, scanDue, watcher, clientVars, missed>>

ScanEnds(r) ==
  /\ handler[r].at = "scanning" /\ handler[r].todo = {}
  /\ LET p == handler[r].asking IN
     handler' = IF Served(p, owners)
                THEN [handler EXCEPT ![r].at = "resolved"]
                ELSE [handler EXCEPT ![r].at = "looping", ![r].asking = None, ![r].left = @ \ {p}]
  /\ hindered' = hindered \ {r}
  /\ UNCHANGED <<allowed, owners, scanDue, watcher, clientVars, missed>>

\* The service is there: the repository is watched for this stream.
watchRepo(r) ==
  /\ handler[r].at = "resolved"
  /\ LET p == handler[r].asking IN
     /\ watcher' = [watcher EXCEPT ![r][p] = "idle"]
     /\ handler' = [handler EXCEPT ![r].at = "looping", ![r].asking = None, ![r].left = @ \ {p}]
  /\ UNCHANGED <<allowed, owners, scanDue, clientVars, missed, hindered>>

\* The loop is over; from here on the end of the response is noticed.
Listens(r) ==
  /\ handler[r].at = "looping" /\ handler[r].left = {}
  /\ handler' = [handler EXCEPT ![r].at = "serving"]
  /\ UNCHANGED <<allowed, owners, scanDue, watcher, clientVars, missed, hindered>>

\* The response is closed: cleanup() runs if the listener is registered.
ResponseCloses(r) ==
  /\ handler[r].up /\ current # r
  /\ IF handler[r].at = "serving"
     THEN /\ handler' = [handler EXCEPT ![r] = Free]
          /\ watcher' = [watcher EXCEPT ![r] = Unwatched]
     ELSE /\ handler' = [handler EXCEPT ![r].up = FALSE]
          /\ UNCHANGED watcher
  /\ UNCHANGED <<allowed, owners, scanDue, clientVars, missed, hindered>>

-----------------------------------------------------------------------------
(* The watchers: createRepoWatcher().                                      *)

\* Mutant: an event that arrives while the timer runs is taken for an echo.
EditBusyWhenArmed(p) ==
  /\ stale' = stale \cup {p}
  /\ watcher' = [r \in Streams |->
       [watcher[r] EXCEPT ![p] = CASE @ = "idle" -> "armed" [] @ = "armed" -> "busy" [] OTHER -> @]]
  /\ missed' = [missed EXCEPT ![p] =
       IF current = None \/ ~Watching(current, p) THEN "unwatched"
       ELSE IF watcher[current][p] = "busy" /\ @ = "no" THEN "dropped" ELSE @]
  /\ UNCHANGED <<allowed, owners, scanDue, handler, current, inbox, due, hindered>>

\* A file or a ref changes.  Every watcher starts its timer, or starts it
\* again, unless it takes the change for an echo of its own refresh.
Edit(p) ==
  /\ stale' = stale \cup {p}
  /\ watcher' = [r \in Streams |->
       [watcher[r] EXCEPT ![p] = IF @ = "idle" THEN "armed" ELSE @]]
  /\ missed' = [missed EXCEPT ![p] =
       IF current = None \/ ~Watching(current, p) THEN "unwatched"
       ELSE IF watcher[current][p] = "busy" /\ @ = "no" THEN "dropped" ELSE @]
  /\ UNCHANGED <<allowed, owners, scanDue, handler, current, inbox, due, hindered>>

\* Mutant: the event is taken for written without having been.
TimerFiresSilently(r, p) ==
  /\ watcher[r][p] = "armed"
  /\ watcher' = [watcher EXCEPT ![r][p] = "busy"]
  /\ UNCHANGED <<allowed, owners, scanDue, handler, clientVars, missed, hindered>>

\* 500 ms without a change: the event is written to the stream.
TimerFires(r, p) ==
  /\ watcher[r][p] = "armed"
  /\ watcher' = [watcher EXCEPT ![r][p] = "busy"]
  /\ inbox' = IF r = current THEN inbox \cup {p} ELSE inbox
  /\ UNCHANGED <<allowed, owners, scanDue, handler, current, due, stale, missed, hindered>>

BusyEnds(r, p) ==
  /\ watcher[r][p] = "busy"
  /\ watcher' = [watcher EXCEPT ![r][p] = "idle"]
  /\ UNCHANGED <<allowed, owners, scanDue, handler, clientVars, missed, hindered>>

-----------------------------------------------------------------------------
(* The client, and the user of the host.                                   *)

\* Mutant: the event names the repository a worktree belongs to.
onPeerEventOfOwner(p) ==
  /\ p \in inbox
  /\ inbox' = inbox \ {p}
  /\ due' = due \cup {IF p \in Worktrees THEN OwnerOf[p] ELSE p}
  /\ UNCHANGED <<hostVars, current, stale, missed, hindered>>

\* onPeerEvent().
onPeerEvent(p) ==
  /\ p \in inbox
  /\ inbox' = inbox \ {p}
  /\ due' = due \cup {p}
  /\ UNCHANGED <<hostVars, current, stale, missed, hindered>>

\* The tab reads the repository again.
refresh(p) ==
  /\ p \in due
  /\ due' = due \ {p}
  /\ stale' = stale \ {p}
  /\ missed' = [missed EXCEPT ![p] = "no"]
  /\ UNCHANGED <<hostVars, current, inbox, hindered>>

\* The window gets the focus.
Focus ==
  /\ due' = Tabs
  /\ UNCHANGED <<hostVars, current, inbox, stale, missed, hindered>>

\* The client closes its stream, or the connection breaks, or the host stops
\* sharing: what the stream still had to say is lost.
StreamEnds ==
  /\ current # None
  /\ current' = None
  /\ inbox' = {}
  /\ missed' = [p \in Tabs |-> IF p \in stale THEN "unwatched" ELSE missed[p]]
  /\ UNCHANGED <<hostVars, due, stale, hindered>>

\* The user of the host opens or closes a tab.
ListChanges ==
  /\ allowed' \in SUBSET Shared
  /\ hindered' = IF allowed' \subseteq allowed THEN hindered ELSE hindered \cup Scanning
  /\ UNCHANGED <<owners, scanDue, handler, watcher, clientVars, missed>>

ScanIsDue ==
  /\ ~scanDue /\ scanDue' = TRUE
  /\ UNCHANGED <<allowed, owners, handler, watcher, clientVars, missed, hindered>>

-----------------------------------------------------------------------------
Init ==
  /\ allowed = Shared
  /\ owners = {}
  /\ scanDue = TRUE
  /\ handler = [r \in Streams |-> Free]
  /\ watcher = [r \in Streams |-> Unwatched]
  /\ current = None
  /\ inbox = {}
  /\ due = {}
  /\ stale = {}
  /\ missed = [p \in Tabs |-> "no"]
  /\ hindered = {}

HandlerNext(r) ==
  \/ \E p \in Tabs : resolveRepo(r, p)
  \/ \E m \in Shared : rescanWorktrees(r, m)
  \/ ScanEnds(r) \/ watchRepo(r) \/ Listens(r) \/ ResponseCloses(r)

UserNext == (\E p \in Tabs : Edit(p)) \/ Focus \/ StreamEnds \/ ListChanges

Next ==
  \/ \E r \in Streams :
       \/ handleEvents(r) \/ HandlerNext(r)
       \/ \E p \in Tabs : TimerFires(r, p) \/ BusyEnds(r, p)
  \/ \E p \in Tabs : onPeerEvent(p) \/ refresh(p)
  \/ UserNext
  \/ ScanIsDue

Spec == Init /\ [][Next]_vars

\* Timers fire, what is awaited is answered, what is written arrives.
Fairness ==
  /\ \A r \in Streams :
       /\ WF_vars(HandlerNext(r))
       /\ \A p \in Tabs : WF_vars(TimerFires(r, p)) /\ WF_vars(BusyEnds(r, p))
  /\ \A p \in Tabs : WF_vars(onPeerEvent(p)) /\ WF_vars(refresh(p))
FairSpec == Spec /\ Fairness

-----------------------------------------------------------------------------
(* Properties.                                                             *)

TypeOK ==
  /\ allowed \subseteq Shared
  /\ owners \subseteq Worktrees
  /\ scanDue \in BOOLEAN
  /\ handler \in [Streams -> Handler]
  /\ watcher \in [Streams -> [Tabs -> Watcher]]
  /\ current \in Streams \cup {None}
  /\ inbox \subseteq Tabs
  /\ due \subseteq Tabs
  /\ stale \subseteq Tabs
  /\ missed \in [Tabs -> {"no", "unwatched", "dropped"}]
  /\ hindered \subseteq Streams

\* A scan that ends finds the worktree it was made for, if the repository that
\* owns it is on the list, although other streams add to the same map, empty
\* it and change what they resolve meanwhile; unless git failed for a repository,
\* a later scan emptied the map, or the list got longer before it was over.
ScansFind ==
  [][\A r \in Streams : \A w \in Worktrees :
       /\ handler[r].at = "scanning" /\ handler[r].asking = w
       /\ handler'[r].at = "looping" /\ OwnerOf[w] \in allowed
       => r \in hindered]_vars

\* What it rests on: what a scan has not found yet it still has to ask for.
ScanIsAhead ==
  \A r \in Scanning \ hindered : \A w \in Worktrees :
    OwnerOf[w] \in allowed => w \in owners \/ OwnerOf[w] \in handler[r].todo

\* A tab that is stale will be told: a timer runs, an event or a refresh
\* is on its way; except for edits made while nobody watched and for those
\* taken for an echo.  Debouncing a burst loses nothing.
StaleIsAnnounced ==
  \A p \in Tabs :
    p \in stale /\ missed[p] = "no"
      => p \in inbox \cup due \/ (current # None /\ watcher[current][p] = "armed")

\* What the last one rests on: a path that is still to be resolved is not
\* watched, nothing is on its way without a stream, and a slot that no request
\* uses is empty.  Of a response that closes while its loop is under way they
\* say nothing: see WatchersEnd.
LoopIsAhead ==
  \A r \in Streams :
    /\ \A p \in handler[r].left : ~Watching(r, p)
    /\ handler[r].at \in {"scanning", "resolved"} => handler[r].asking \in handler[r].left

NoStreamNoEvents == current = None => inbox = {}

FreeIsEmpty ==
  \A r \in Streams :
    handler[r].at = "free" => handler[r] = Free /\ watcher[r] = Unwatched

\* The inductive invariant is TypeOK /\ Safe.
Safe ==
  FreeIsEmpty /\ StaleIsAnnounced /\ LoopIsAhead /\ NoStreamNoEvents /\ ScanIsAhead

\* Once the users rest, a tab catches up with every edit its watcher saw.
TabsCatchUp ==
  \A p \in Tabs :
    <>[][~UserNext]_vars => <>[](missed[p] = "no" => p \notin stale)

-----------------------------------------------------------------------------
(* What the documents say, and the code does not do.                       *)

\* daemon.ts:128 "SSE watchers only exist while a client is connected".
WatchersEnd ==
  \A r \in Streams : handler[r].at = "serving" /\ watcher[r] # Unwatched => handler[r].up

\* peer-sharing/spec.md:65 "so the peer's view updates within about a second of
\* an edit on the host -- without any focus event on the peer": when a watched
\* repository is quiet, the peer shows its last version.
EditsReachTheView ==
  \A p \in Tabs :
    /\ current # None /\ watcher[current][p] = "idle"
    /\ p \notin inbox \cup due /\ missed[p] # "unwatched"
    => p \notin stale

\* peer-host-core.ts:132 "Worktrees of shared repos are servable too": a worktree
\* of a repository that stays on the list is never turned down.
WorktreesAreServed ==
  [][\A r \in Streams : \A w \in Worktrees :
       OwnerOf[w] \in allowed /\ w \in handler[r].left /\ w \notin handler'[r].left
         => Watching(r, w)']_vars

=============================================================================
