# A TLA+ model of Git Gud

Git Gud is a desktop Git client (Electron: a main process that runs git, a
window, and a preload bridge between them). Instances of it, a headless daemon
and a phone app can share their open repositories with each other over HTTPS
with pinned certificates, on the local network or through a small relay. Most
of what can go wrong in it is about time: an answer that arrives after what it
was asked about has changed, a command of several steps that fails in the
middle, two processes that each name "the" repository, connections that fail
while they are replaced. This directory models those parts, checks them with
TLC, and proves invariants of them with TLAPS.

Contents: [the system](#1-the-system), [the modules](#2-the-modules),
[the runs](#3-the-runs), [the proofs](#4-the-proofs),
[where documents and code disagree](#5-where-documents-and-code-disagree),
[what is not modelled](#6-what-is-not-modelled), [the plan](#7-the-plan).
Paths are relative to the repository's root.

## 1. The system

| Component | State it keeps | Operations | Talks to | Module |
|---|---|---|---|---|
| `GitService` (`src/main/git-service.ts`) | none of its own: working copy, refs, stashes and worktrees of a repository, as git keeps them | commands of one or several git calls | git | `WorkingCopy`, `HistoryRewrite`, `Branches`, `Worktrees`, `Staging`, `Conflicts`, `Panels`, `Recovery` |
| Main process (`src/main/index.ts`) | the active repository, the saved session, the console's processes | one handler per request of the window | `GitService`, the window | `Workspace`, `Console` |
| `useGitRepo` and the tabs | the path shown, the tabs, what was read | `loadRepo`, `refresh`, `fetch`, switching | main process | `Workspace` |
| The window (`App.tsx`) | the modal and what it is about, the selection | menus, drags, dialogs | everything | `Dialogs`, `Viewing`, `RefPills`, `Branches` |
| Graph (`graphLayout.ts`, `GraphView.tsx`) | lanes, edges, labels | layout in a worker, drawing | `App.tsx` | `GraphLayout`, `RefPills`, `Viewing` |
| Working tree, diff viewer, conflict editor, side panels | picked rows, draft, patch on screen, blocks | stage, discard, commit, resolve, clean, stash | `GitService` | `Committing`, `Staging`, `Conflicts`, `Panels` |
| Gerrit mode, accounts, forges | listed changes, tokens, caches by head | list, mirror, sign in and out, review | REST services | `Gerrit`, `Integrations`, `PullRequests` |
| `MacUpdater` and channels | the downloaded bundle, the swap | check, download, unpack, install | update feed | `Updates` |
| `PeerConnection` (`src/main/peer-client.ts`) | wanted or not, status, the stream, the retry timer | connect, disconnect, rpc, callbacks | `PeerServer`, relay | `PeerConnection`, `RemoteCalls` |
| `RelayLink`, `RelayServer` (`src/main/peer-relay.ts`, `src/relay/main.ts`) | control sockets, table of hosts, pending calls, bound tokens | register, connect, accept, splice | hosts and callers | `Rendezvous`, `Introductions` |
| `PeerService`, `PeerDiscovery` | settings, server, beacon, link, address book | `setServer`, pairing, beacons | everything above | `Sharing`, `Credentials`, `PeerDialog` |
| `PeerServer`, `PeerStore` | pairing code, streams, devices, tokens, TLS identity; one file each | `/pair`, `/events`, `/rpc`, writes | `RepoHost`, files | `Credentials`, `EventStreams`, `RemoteCalls`, `Storage` |
| `RepoHost`, watchers | allow-list, worktree table, timers | resolve, rescan, watch | git, file system | `EventStreams` |
| `PushNotifier`, `PairRateLimiter` | timers, failures, lockouts | notify, fire, record, reset | push service, `PeerServer` | `Limits` |
| Headless daemon (`src/headless`) | configuration, identity, pairing window | start, reload, rotate | server and host core | `Daemon` |
| Companion app (`apps/companion`) | the machines it is paired with, in memory and on the phone; pull requests by head | check, pair, forget, follow a repository's events, review | `PeerServer`, forge host | `Companion`, `PullRequests` |

They meet along three paths. *The window and the main process*: the renderer
names a repository only when it opens it; every other request goes to whatever
is active in the main process when it arrives, and answers come back in any
order. *The main process and git*: a command of the service is a chain of git
calls, each of which may fail or be overtaken by a terminal. *One machine and
another*: `PeerService` keeps one connection per known peer, directly or
through the relay; the stream's query names the tabs; the host watches them
and announces edits; pairing makes the tokens, rotation replaces them.

What is hard, and what makes each part correct:

* **Answers that come late.** A probe, a preview, a diff, a list of changes, a
  layout, a listing of files is asked for, something else is shown meanwhile,
  and the answer lands. Correct means: what is on screen, and what is acted on,
  belongs to what is shown and was asked about (`Workspace`, `Viewing`,
  `Dialogs`, `Panels`, `PeerDialog`, `Gerrit`, `Staging`, `PullRequests`,
  `Integrations`, `Console`, `Recovery`).
* **Commands of several steps.** A drag stashes, checks out, merges and pops; a
  rebase stops, is continued, skipped, aborted. Correct means: no work and no
  commit is lost that the user did not give up (`WorkingCopy`,
  `HistoryRewrite`), a forced push takes out only what is known (`Branches`).
* **Callbacks that outlive their request** (`PeerConnection`) and **two ends of
  every socket** (`Rendezvous`): nothing is held after `disconnect()`, a host
  has never zero or two ways to a registration, a call is matched once and with
  the right host.
* **Answers that are lost** (`Credentials`): a code pairs one device, a revoked
  device stays out, an undisturbed exchange leaves both ends with one token.
* **Crashes between two writes** (`Storage`, `Updates`), **reloads by parts**
  (`Daemon`), **switches that are flipped during an await** (`Sharing`,
  `RemoteCalls`, `EventStreams`).
* **Lists that are written whole** (`Companion`): a check of the machines, a
  pairing and a question each hold the list of the moment they began in, and
  write all of it back. Correct means: no machine is lost or comes back, and what
  is listed ends up as the hosts answer.
* **Clocks**: debounce, mute, backoff, lockout and timeout timers that
  overwrite, cancel or outlive each other (`Limits`, `EventStreams`).
* **Arithmetic of positions** (`GraphLayout`, `Conflicts`): an edge must not
  pass through a commit it does not belong to, the block a button changes must
  be the one it stands beside.

`PROJECT.json` lists these hazards at their lines, each with the properties
that would notice it go wrong.

## 2. The modules

One module per component; none depends on another, except where the table says
so. Every action carries the name of the function or handler it models; `map`
in `PROJECT.json` gives its lines. An operator whose comment says "Mutant" is a
faulty variant of the definition after it; it is no part of the specification
and shows that a property notices the fault. A variable marked "history" is not
in the code and influences no step.

| Module | Models | What makes it move |
|---|---|---|
| `WorkingCopy` | every operation of `GitService` that puts work aside, moves the branch and brings it back | the steps of one or two runs, failing commands, the user, a terminal |
| `HistoryRewrite` | squash, drop, interactive rebase over every history of a few commits | the plan, stops, continue, skip, abort |
| `Branches` | branches, tags, pull, push, fast-forward, upstreams, and the menus that ask for them | the window, a terminal, somebody else's pushes |
| `Worktrees` | `git worktree`, the dialog and the sidebar's menu | clicks, answers, work in a worktree |
| `Staging` | patches of hunks and lines cut out of the diff on screen, and where git puts them | presses that overlap, edits of the file, late diffs |
| `Conflicts` | files with markers, the editor's blocks and buttons | presses, edits, another file chosen |
| `Panels` | clean, patch, stash entries by index | previews that come late, a terminal |
| `Committing` | the working-tree panel and the commit box with amend | clicks, typing, runs, refreshes |
| `Recovery` | the reflog panel and the bisect wizard, git's session in each worktree | marks, answers one request at a time, switches of worktree |
| `Workspace` | which repository the window, its tab and the main process work on | opening, switching, closing, refreshing, fetching, a peer that is away |
| `Dialogs` | modals, what they are about, the shared right panel | menus, confirmations, answers to earlier calls |
| `Console` | the console dock and the activity log over one ordered channel | typing, output, a switch of repository |
| `Viewing` | the rows drawn by the worker, selection, statistics, diff, search | clicks, late answers |
| `RefPills` | decorations as parsed, pills, menus and drags | reading, hiding kinds, another worktree |
| `GraphLayout` | the lanes, row by row, and the edges drawn from them | the history, made up as the sweep meets it |
| `Gerrit` | listing changes and mirroring their patch sets | switches of repository and mode, pushes |
| `Integrations` | the device flow, hosted accounts, the panel and the clone dialog | polls, sign-ins, unmounts |
| `PullRequests` | the forge host's caches by head and the phone's screens | pushes, reviews, late answers |
| `Companion` | the phone's list of machines: checks, pairing, forgetting, the stream of the Repo screen | the hosts' answers, taps, restarts of the app |
| `Updates` | `MacUpdater`: check, download, unpack, swap; channels and versions | releases, restarts, failures |
| `Daemon` | start, reload by parts that may fail, links that are stopped while they dial, rotation, the pairing window | edits of the file, commands, the relay |
| `Sharing` | `setServer`, the ports, the beacon, the relay link, the address book | settings, awaits, beacons, addresses |
| `PeerDialog` | the Peers window, its forms and QR code over a published snapshot | clicks, probes, codes, publications |
| `RemoteCalls` | calls of a paired device and what the host admits | calls, the owner's changes |
| `Storage` | the files of the peer store, write by write | calls, a dying process, failing steps |
| `Limits` | the push notifier and the pairing limiter on one clock | events, failures, time |
| `PeerConnection` | one client-side connection | the user, sockets, timers |
| `Rendezvous` | `RelayLink`, `relayDial`, `RelayServer` together | hosts, callers, failing sockets, restarts |
| `Introductions` | abstract: what the relay promises about calls | |
| `Credentials` | pairing, rotation, revocation, forgetting, restarts | exchanges, lost answers |
| `EventStreams` | event streams, watching, refreshing | edits, timers, scans, closings |

`PeerConnection`, `Rendezvous`, `Credentials` and `EventStreams` each have an
`MC` module. `MCHost`, `MCApplication` and `MCRepositoryView` are suites: each
sets components side by side that share no state in the code. The initial state
picks one of them, `focus`, which then moves alone while the others rest in an
initial state; so a suite has the reachable states of each component, and not
their product. Its properties are the components' own, for the focus.

Some correspondences are not obvious from the names:

* **Requests and answers.** A request under way is a record with the values it
  was sent with; its answer is a separate action that may come in any order,
  unless the code's channel keeps order (`wire` in `Console`, `PeerDialog` and
  `Workspace`). What React does in effects right after a change is part of the
  action that makes the change; a state that is set but not rendered yet is a
  variable of its own where the difference shows (`queued` in `Console`).
* **`PeerConnection`.** A request is a record in `reqs` whose `phase` goes
  `free`, `pending`, `live`, `closing` (destroyed, its error still to come), or,
  through the relay, `dialing` and `handshaking` first. `timer` says whether
  `retryTimer` holds an armed timer, `strays` counts armed timers whose handle
  was overwritten. `misattributed` is history: a callback of one request was
  taken for the failure of another, which the code's own test (`this.stream` is
  set) cannot exclude.
* **`Rendezvous`.** A link has the fields of `RelayLink` plus its `life` and
  `opening`, the await of `connectRelay()` that `stop()` does not cancel. A
  connection is one record with two ends that fail separately, and the frames
  going down. `hosts` is the relay's table, `bound` and `saved` its tokens in
  memory and on disk. `Promise` maps all this to `Introductions`, in which a
  call is asked, matched once with a party of the wanted peer, or refused.
* **`Credentials`.** Tokens are named by the exchange that made them. `doubt` is
  history: pairs whose last exchange was cut short or overlapped another one,
  for which no agreement is claimed.
* **`EventStreams`.** A handler goes through `handleEvents()` one await at a
  time. `missed` is history: the edit came when nobody watched, or was taken for
  the echo of an announcement. So is `hindered`: the streams whose scan for
  worktrees git failed, a later scan emptied, or began before the list got longer.
* **`Dialogs`.** `pending` has a slot for each of the app's `pending...` values,
  which kinds of modal share; `named` is history: what the user chose that the
  modal came up for, recorded when it is raised and compared with what it reads
  when it is drawn and confirmed.
* **`Recovery`.** Main answers about the worktree it has `active`; the window
  follows later (`landing`, `shown`). A handler of the wizard awaits one request
  after the other (`todo`); the requests of one service run in the order they
  were sent. A verdict is `sure` if nothing was under way, and nothing has moved
  since, when it was sent; `spoilt` and `doubt` are history.
* **`Staging`.** A text is a set of lines in places; `Phrase` says which read
  alike. Where git may put a hunk is `Landings`, and `Lands` what it picks from:
  the numbers of a hunk are right only if nothing differs before it. A job is
  written to a file whose name it may share, read, and applied in steps.
* **`Daemon`.** `joined` are the links that are connected to their relay,
  `dialing` those that wait for `connectRelay`; `late`, which is history, those
  that were stopped meanwhile. `applied` is the configuration of the last reload
  that went through, `cfg` the one that is read.
* **`WorkingCopy`.** A piece of work is one uncommitted change to one file, a
  commit the set of files it changes; what git does with them (refuse, stop on
  conflicts, keep a stash) is external and modelled by how the service calls and
  classifies it.
* **`HistoryRewrite`.** A history is a function from commits to their parents,
  `order` what `git rev-list --topo-order` makes of it, walked as git walks. `todo`
  is what git has still to replay; `skipped` is history.
* **`Companion`.** The functions of the app's context close over the list of the
  render they were made in; `seen` of a check, a pairing or a question is that
  list. A change of the list while Machines is in view begins a check, in the same
  action as React does in its effect. `kept`, `newest`, `changed` and `met`
  are history: what should be there, and what met something older under way.
* **`Storage`.** A write opens its file, which empties it, and then fills it; the
  process may die in between.

Data is abstracted throughout: bodies, names and addresses are model values;
the text of errors, logging and statistics are left out; delays are counted in
`Limits` only, elsewhere it matters only whether a timer is armed.

## 3. The runs

Run one with `tlc -config <cfg> <module>`.

| Run | Module, configuration | Distinct states | Asks |
|---|---|---|---|
| `connection` | `MCPeerConnection`, `MCPeerConnection.cfg` | 642,292 | the invariants of one connection |
| `connection_live` | `MCPeerConnection`, `MCPeerConnectionLive.cfg` | 45,744 | does a wanted connection settle |
| `relay_registration` | `MCRendezvous`, `MCRendezvous.cfg` | 230,032 | links, sockets and the relay's table |
| `relay_calls` | `MCRendezvous`, `MCRendezvousCalls.cfg` | 570,922 | where calls go; does the relay implement `Introductions` |
| `relay_live` | `MCRendezvous`, `MCRendezvousLive.cfg` | 269,965 | does a wanted link register |
| `credentials` | `MCCredentials`, `MCCredentials.cfg` | 1,168,199 | codes, revocation, agreement on tokens |
| `event_streams` | `MCEventStreams`, `MCEventStreams.cfg` | 142,048 | watchers, announcements, scans, refreshes |
| `host` | `MCHost`, `MCHost.cfg` | 1,042,889 | the main process: working copy, branches, worktrees, sharing, calls, limits, files |
| `application` | `MCApplication`, `MCApplication.cfg` | 1,270,757 | the window, its dialogs and tools, accounts, updater, daemon, phone |
| `repository_view` | `MCRepositoryView`, `MCRepositoryView.cfg` | 2,084,497 | graph, labels, selection, commit form, panels, patches, conflicts, history |

These pass. Two more runs end in a counterexample, see section 5. What the
properties say (each is stated with its code at its definition):

| Run | Property | Says |
|---|---|---|
| `connection` | `IdleWhenUnwanted` | after `disconnect()` no stream and no armed `retryTimer` |
| | `StreamIsCurrent` | the held stream is open, or being dialled, for the subscriptions and the address in force |
| `connection_live` | `Settles` | a wanted connection ends up connected or with a final status |
| `relay_registration` | `TableNamesTheLive` | a table entry is a live registration of that peer, and the live registration is the entry |
| `relay_calls` | `AnnouncedToThePinnedHost` | a call on its way down is at the host and the certificate the caller pinned |
| | `KeepsThePromise` | the refinement of `Introductions` |
| `relay_live` | `Registers` | a wanted link registers |
| `credentials` | `OneCodeOnePairing` | a code pairs one device at most |
| | `OnlyPairingAdmits` | no step but an accepted pairing makes a token of a device that had none valid |
| | `Agreement` | an undisturbed exchange leaves both ends with one token |
| `event_streams` | `StaleIsAnnounced`, `TabsCatchUp` | a stale tab has something on its way, and becomes fresh, unless the edit was missed |
| | `ScansFind` | a scan that ends finds the worktree it was made for, whatever other streams do to the map it fills, unless git failed, a later scan emptied the map, or the list got longer |
| `host` | `NothingLost`, `GivesBackTheTree` | every piece of work is in the tree, a stash, a commit, or was given up; a run that reports success has restored what it put aside |
| | `PushesOverTheKnown` | a push takes out of a remote branch only commits this clone has fetched |
| | `OneRemovalAtATime` | the worktree dialog shows a removal exactly while one of its own is under way |
| | `SharingIsTheSettings` | unless calls of `setServer` met, what listens, announces and registers is what the settings say |
| | `CertificateIsOfTheHost` | a fingerprint to compare belongs to the machine the code will go to |
| | `OwnersChoiceHolds` | a write that was barred when it arrived does not run as long as that stands |
| | `NothingIsLeftUntold`, `FailuresLockOut` | an untold event has a timer due within the debounce; unless locked, fewer failures than the limit lie in the window |
| | `PinBreaks` | after an answered rotation no older certificate is served, in this run or the next |
| `application` | `SwitchesRealign` | after a switch that ran alone, main process, window and tab name one repository |
| | `NothingUnchosen` | a modal is about the thing chosen for it, and what is confirmed runs of that, whatever late answers raise and close; force pushes and the deletion of tags ask nothing (`App.tsx:803-914`) |
| | `WholeOutput` | every chunk a command printed is shown or under way |
| | `CulpritIsTheFirstBad` | a session with right ends and verdicts sent while nothing was under way names the first bad commit, whatever other worktrees bisect and the graph's menu marks |
| | `ListIsOfItsSource` | the repositories on offer are of the service selected, however late the answers for others come |
| | `NeverDowngrades` | the app never becomes older, whatever is checked, downloaded and installed when |
| | `OneConfiguration` | the link held, beacon and watchers follow the last configuration applied in whole; a link given up is neither connected nor dials, but for a dial under way when it was stopped |
| | `PhoneIsSound` | `CacheIsSound`: every diff is cached under its own head, once, within the limits; and `MachinesAreKept`: no machine is lost or comes back unless two changes met, and the list is what the hosts answer once its checks are through |
| | `MirrorIsTheListing` | unless operations met, the mirrored refs are the patch sets listed last, from the first listing on that names a change; none once the mode is off |
| `repository_view` | `NoFalseEdges` | no edge is drawn through a commit that is neither end of it |
| | `NothingElseIsLost` | a squash loses no patch, and the drop of commits of one line none that was not selected; only what the user skips is missing |
| | `PillsTellTheRefs` | every ref has one pill, drawn as long as a kind of it is shown; HEAD's branch is told by its pill and no other, a HEAD without any branch beside it by its own |
| | `DerivedIsOfTheShown` | rows, statistics, diff and matches are of the log and selection on screen |
| | `DraftIsKept` | a draft is in the box or put aside while amending is switched on and off, until it is committed or the panel left; a draft typed into while HEAD's message is read or a commit runs, and a second click while it is read, are excused |
| | `UncheckedSurvive` | a clean removes nothing that was unchecked or is tracked by then |
| | `PatchesAreExact` | a patch that fits its own place only changes exactly the lines asked for, unless its file or the text was overwritten meanwhile; hunks of a text still as shown are not refused |
| | `PressesAssemble` | the buttons of the blocks assemble the text, until it is changed by hand |

**Bounds.** *Connection*: three request slots (one held, one replaced and one
destroyed, all with callbacks to come), two addresses, one relay, two backoff
values, one stray timer; the liveness run has two slots and one address. *Relay*:
two links of one host are what a changed relay setting produces; three sockets
let one be replaced while another's close is on its way; one restart; links and
calls meet in the table only, so they are checked in separate runs.
*Credentials*: two instances that are both host and client, two ceremonies, one
rotation, one change of code per host. *Event streams*: two streams, so that
the handler of one goes on while its successor is served; two shared
repositories, so that a scan takes more than one step and two scans can meet half-way.

In the suites most bounds count what a person or another program does, since
steps of the code end by themselves: a hazard here needs a first action, a second one
that overtakes its answer, and sometimes a third that repairs or repeats, so two
to six are allowed. *Working copy*: two files, one changed twice and one
untracked, one run and two actions from outside. *Limits*: six units of time,
windows and debounce of two, a limit of three failures with as many requests
under way. *Storage*: three calls, a restart, one failing step. *Graph*: every
history of five rows with two parents; proved for every number of rows.
*History*: every history of four commits, every plan of three; proved for every
size. *Bisect*: two worktrees, three commits of which the second fails, so that a
verdict is needed; four clicks, switches or moves. *Patches*: four lines in two
places that may read alike, two jobs at a time. *Daemon*: two edits, clones or
rotations, which leaves two links beside each other. *Machines of the phone*: two of them, which answer with one of a few sets of
facts or not at all, two checks and two streams at once, four taps or changes at
the hosts: a check, a second one that overtakes it, and two changes between. Components were
also checked alone with larger bounds: `WorkingCopy` with three actions from
outside (1,200,261 states), `Branches` with seven commands (252,368), `Panels`
with three turns (234,884), `Dialogs` with five (44,298).

Type invariants are proved for the modules of section 4; those of the other
modules were checked with TLC on the component alone.

Symmetry is used for request slots, sockets, exchange slots, requests of the
phone and changes, in runs without liveness only.

**Deadlock** is checked for the connection and the event streams.
`CHECK_DEADLOCK FALSE` stands where links, calls, exchanges or the actions of
users are bounded: the instance comes to an end.

**Fairness.** `PeerConnection!Fairness`: armed timers fire, a request that was
sent is answered or fails (its socket has a timeout), the relay answers or the
dial times out, a destroyed request reports its error. `FairSpec` adds that a
TLS handshake inside a spliced connection ends; the code sets no timer for
that, see `AttemptsEnd` below. `Rendezvous!Fairness`: connection attempts that
can succeed do (they may also fail, which `Registers` assumes stops), timers
fire, frames are read, and a destroyed socket is noticed by the end that
destroyed it. A host notices a dead relay because it writes to it every
`RELAY_KEEPALIVE_MS`; the relay only answers, so no fairness makes it notice a
dead host. `EventStreams!Fairness`: what a handler awaits is answered, timers
fire, events arrive; nothing is assumed of users. All of it is weak fairness.
`Settles` and `Registers` are conditional: *if* from some point on the network
holds and users are quiet, then the system settles. Both premises can be met:
their mutants are found violated under the same configurations.

## 4. The proofs

`tlapm <Module>.tla` checks them. They hold for all values of the constants that
satisfy the named assumptions: that the "none" values differ from the sets they
extend, that having no token is not a token a host has issued, that bounds are naturals, that the two backoffs are ordered, that links
belong to peers and worktrees to repositories, that no call has the name of
a frame kind, that there is a main branch, that no RPC method is both a read and
a write, that a lock of pairing lasts at least the window its failures lie in (in
the code both are a minute) and one failure is borne, that `compareVersions`
orders the versions as some ranks do, that a line of commits has a first bad
one, that lines of one place read differently, that a text that does not parse is no configuration, that a history has at least one commit, that the sections of a merged file are lines of characters, and that no ref is named as a detached HEAD is shown, no branch of a remote
as a tag or a mirrored change, and no file as the directory it is in. No finiteness is assumed. The assumptions of a suite stand in its `MC`
module, where TLC evaluates them.

| Module | Theorems |
|---|---|
| `PeerConnectionProofs` | `TypeCorrect`, `Disconnects`, `HoldsCurrentStream`, `HoldsOneStream`, `KeepsTrying`, `ReportsStream` |
| `RendezvousProofs` | `TypeCorrect`, `OneWay`, `Pings`, `Table`, `Announced`, `PromiseKept` |
| `CredentialsProofs` | `TypeCorrect`, `OneCode`, `OnlyPairing`, `BothEndsAgree` |
| `EventStreamsProofs` | `TypeCorrect`, `ScansFindTheirs`, `EditsAreAnnounced` |
| `HostProofs` | `NothingIsLost`, `GivesBack`, `PopsOwn` (of `WorkingCopy`), `PushesOverKnown`, `OneRemoval`, `SharingFollows`, `CertificateOfTheHost`, `OwnersChoice`, `NothingLeftUntold`, `LockedOut`, `StoreInvariant`, `PinsBreak`, `RevokedDevicesStayOut` |
| `ApplicationProofs` | `ListsAreOfTheirSource`, `NothingUnasked`, `ReloadsApply`, `UpdatesOnlyRise`, `BisectFindsTheFault`, `NoOutputIsLost`, `WindowsRealign`, `CachesAreSound`, `MachinesKept`, `PhonesAreSound`, `MirrorsAgree` |
| `GraphLayoutProofs` | `NoFalseEdgesHolds`, `LinesAreToldHolds` (for every number of rows and parents) |
| `RepositoryViewProofs` | `PillsTell`, `WhatIsShownIsDerived`, `DraftsAreKept`, `RewritesKeepTheRest` (for every history), `UncheckedAreSpared`, `PatchesChangeWhatWasAsked`, `ButtonsAssemble` (for every merged file) |

* **Connection.** `TypeOK /\ Safe` is inductive. The six parts need each other:
  that a late error cannot open a second stream needs that a held stream is
  open; that the status is backed needs that a timer excludes a stream; and
  `DialIsRelay` (a placeholder is held for the relay only) is there because a
  failed dial looks at `via`.
* **Relay, links and table.** `Inv == TypeOK /\ LinkInv /\ TableNamesTheLive`.
  `LinkInv` is `OneWayToRegister`, `PingsItsSocket` and a third part,
  `OneSocket`, taken link by link: of all sockets of a link at most one is not
  closed, it is the one held or one that is failing after it was let go, and
  there is none while the link connects. Without it `fail()` for an old socket
  could clear the ping of its successor. It holds because the close event of a
  failing socket precedes the retry timer (at least a second later), which is
  the guard of `RetryTimer`. Types are not inductive alone: that a table entry
  is a connection in use comes from `TableNamesTheLive`. Most steps do not
  touch a given link; the lemma `Untouched` disposes of them.
* **Relay, calls.** `CallInv` adds `AnnouncedOnce` (a call is in at most one
  queue, once, and then the host has not dialled back for it) and
  `MatchesAreMade` (neither end knows of a match the relay has not made, and the
  relay makes it with a link of the wanted peer). With both, every step is one
  step of `Introductions` or none: `relayDial` is `Ask`; a refused, timed out or
  abandoned call, and all that a restart drops, is `Refuse`; `acceptHost` is
  `Match`; `onSocket` and an accepted `DialAnswered` are `Tell`. The lemma
  `PromiseSteps` does the mapping once, for any step that touches one call.
* **Credentials.** `TypeOK /\ CodesSpent /\ OneCodeOnePairing`: a code that was
  accepted is older than the one shown, hence never accepted again.
  `OnlyPairingAdmits` follows from the actions and the types.
  `AgreementInv` is behind `Agreement`. `Book` is about the exchanges: a ceremony
  that is alone is the only one under way between its ends, and whatever
  overlaps, or is not waited for, has its ends in doubt. `Tokens` says what the
  host holds of an exchange that is halfway: `Given` and `Turned`, with
  `Linkless` (no connection without a stored token), and that two ends agree
  unless they are in doubt or `Amid` an exchange. Most steps are `Quiet`: they
  leave every pair `Calm` (tokens stay, or go), which preserves all of it
  (`TokensQuiet`). Four are not, an accepted ceremony, its answer, a rotation
  and its answer, and each concerns one pair, of which `Book` says that nothing
  else of it is under way undoubted.
* **Event streams.** `TypeOK /\ Safe`: `LoopIsAhead` says that a path still to be resolved is
  not watched yet, `NoStreamNoEvents` why an announcement that is lost with its
  stream is not counted as on its way. `ScanIsAhead` is behind `ScansFind`: what a
  scan that is not hindered has not put in the map it still has to ask for. Of a
  response that closes while its loop is under way nothing good can be said: the
  watchers stay, see `WatchersEnd` in section 5.
* **Working copy.** `WorkingCopy!Inv` says what a run knows at each `pc`. `git
  stash pop` names no entry, so the argument is about positions: as long as
  nobody else acts (`alone`), the newest entries are exactly those the run
  pushed (`Mine`), and these with the tree are, piece by piece, the work it
  found; `Based` adds that each entry is based on the commit it will be popped
  on, so that an undo applies cleanly. `Fixing` and `Merging` are these facts
  at each step of `withAutoStash` and `mergeBranchInto`; `Undivided` (no place
  holds two pieces of one file) is what makes a refused pop leave both places as they
  were. `NothingLost` holds whoever acts, hence is a part of its own.
  `PopsItsOwn` is an action property that follows from `Mine`.
* **The host.** A step of `MCHost` moves one component; each section of
  `HostProofs` restricts the step to the variables of its component and shows
  that the component's invariant is inductive:
  * `Storage!Inv`: of a call under way, what is left to do (`todo`) is the
    rest of one of the handlers' programs, and what it has still to write or to remove is all
    that separates the disk from what the handler has answered. A pair older than
    an answered rotation is then on disk only while an unlink is due or has
    failed, which `PinBreaks` excuses; a revoked device is not in a list that
    any write still under way could bring back.
  * `Branches!RefsAreKnown`: all that any local or tracking ref reaches was
    listed by a fetch or made here; so what `push --force-with-lease`
    overwrites was known.
  * `Worktrees!OneRemovalAtATime` with the orphans: a load that comes after a
    removal belongs to a job that has been answered.
  * `Sharing!OneStart`: one `listen` under way at most, and while it is nothing
    is bound, announced or linked; at rest all four follow the settings.
  * `PeerDialog!ProbesAreOfTheForm`: a probe whose answer will be used is about
    the host of the form on screen, a lookup that will be used is the only one.
  * `RemoteCalls!Inv`: a request is barred only by what still stands, and the
    device of a request barred by its owner was recorded as read-only.
  * `Limits!TimersRun`: a timer is armed exactly while it is due, within one
    debounce of the event that waits for it.
  * `Limits!FailuresAreCounted`: the failures that the limiter no longer counts lie before a
    lock that ends after their window does, so as long as pairing is not locked
    the last window holds none but those counted.
* **The application.** `ApplicationProofs` does the same for `MCApplication`:
  * `AccountsInv`: the answer of the clone dialog that is listened to is of the
    mount and the number asked last, and that one is of the source selected; all
    others are of older numbers, which never come back.
  * `NothingUnchosen` is inductive as it stands: kinds have one slot each
    (`ShellKinds`), and what raises a modal, closes it or empties a slot does so with `named`
    (`ShellRaises`, `ShellCloses`).
  * `ServerInv`: `Daemon!Applies`, that nothing runs while the daemon is down, with
    the property. A link that is stopped is connected no more, and dials only as
    one of the late (`ServerStops`); a reload that fails leaves `applied` as it was.
  * `Updates!Ordered /\ Updates!OnlyHigher`: what is published has a highest
    version, so `pickRelease` returns one that is above the running one or
    nothing; what is downloaded, unpacked or being moved in place stays above what
    it replaces, because nothing else is installed meanwhile.
  * `Recovery!Listed /\ Recovery!Bracketed`: the first bad commit lies between
    the ends of every session that was not misled, each in its worktree. `ToolsQueued`
    says of the requests under way that a verdict that is still sure is the first of
    them and right about what is checked out where it will be taken (`ToolsSends`,
    `ToolsUnsure`); each verdict narrows the bracket and keeps it (`ToolsNarrows`).
  * `Console!Numbered /\ DoneIsLast /\ Awaited /\ WholeOutput`: a run says done
    after its last chunk, so the console waits for it as long as a chunk of it is
    on the wire, and no chunk is taken off the wire unseen. `DockSent` and `DockTaken` count
    the chunks of a run on the wire as it is sent on and as its head is delivered.
  * `ReviewInv`: as long as nothing met and nothing failed, listings and synchronisations
    are those of the repository on screen while its mode is on; there is one
    synchronisation at most, and it carries the listing recorded last; a
    mode that is off has cleared what it mirrored, or is about to. That a second
    synchronisation would have met the first (`ReviewSecond`) is what the guard
    on the signature of a listing is for. The signature of an empty listing is the
    one it is reset to, so the invariant speaks of what was `mirrored` since.
  * `WindowInv`: the window is settled when every operation that unsettled it
    has been stored with nothing beside it. `WindowCalm` says what the one operation
    that may then be under way (of a worktree, a closed tab, a refresh) leaves agreed
    at each stage, `WindowLed` what an operation that has run alone since it began can count on:
    its service is the active one, its tab is there, the log it has
    read is its own. `filter()` over the tabs is a recursive
    function, which tabs it keeps an induction on their number (`WindowFilterTabs`).
  * `PhoneInv`, of the host's cache of diffs: a fetch under way is of a head the pull
    request had, and the diff it got is of a head between that one and the one read
    after it, so a head that is the same before and after is the diff's; fetches are
    one per head and of heads that are not in the cache. The budget is a sum over the
    cache, a recursive function, and what eviction and insertion do to it are lemmas by
    induction (`PhoneGrowth`, `PhoneTotalSplit`, `PhoneReordered`).
  * `HandsetInv`, of the phone's machines, in two parts. `HandsetHeld`: unless
    changes met, every list that anything under way holds has the tokens answered
    last, so writing it back loses nothing. `HandsetConverging`: while Machines is in
    view, the newest check has ahead of it every machine whose entry is not what its
    host answers; a patch of an older check makes a check of its own.
* **The repository view.** `RepositoryViewProofs` for `MCRepositoryView`:
  * The graph, in a module of its own, `GraphLayoutProofs`: `IInv` speaks of the lanes reserved below the row of the
    sweep as well, and the two theorems say of it what is drawn.
  * Labels: of any decoration, the groups are one per name (`OwnGroup`), the refs of a
    name that is not a tag's or a change's are branches (`OfOneKind`), and so what is
    drawn and the name that is acted on are told by the refs (`GroupTells`). That
    a first of several refs exists is the well-foundedness of the naturals. A branch HEAD is on
    stands right behind it, so `HeadTarget` is its name and no other group's.
  * `ViewInv`: a range diff is of the commit selected, statistics are of a run of
    the listing on screen, and so is one still asked for; a worker that is at work lays
    out the listing on screen. `Selects` and `Publishes`, which every handler goes
    through, keep it (`ViewSelects`, `ViewPublishes`).
  * `FormInv`: where the draft is at each state of `amend` and of the reads
    of HEAD's message, as long as it is `mine`.
  * `HistoryInv`: what `git rev-list --topo-order` gives is sorted (`HistoryOrdered`:
    everything below HEAD once, a commit before its parents), which is an invariant of
    git's walk, `HistorySwept`. `Below` is the least set with a commit that is closed
    under parents (`HistoryLeast`). So in a run of the order whose oldest is below its
    newest and that has no merge, all that is below the newest is of the run or below
    the parent of its oldest (`HistorySpan`); and from then on every patch that was
    not selected or skipped is on the branch or in git's list, `HistoryCovers`. A
    squash needs none of this, as its commit takes all that is between. What
    `HistorySpan` cannot do without, the oldest below the newest, is not checked by the
    code: `drops_a_span` in section 5 came out of this proof.
  * `PanesInv`: one preview at most is listened to, and then the list counts as
    being read and nothing in it is unchecked; no two items of a list share a file, so
    the checked ones cover none of an unchecked one.
  * `StagedInv`: a patch that is sent takes the old lines of its hunks to others, and
    those asked for are the difference (`StagedCut`, and `StagedLine` for a single one), also of a file that
    several jobs share. Lines of one place read differently, so text that reads as a hunk in its own place
    has its lines (`StagedWords`, `StagedPlaces`), and what is put there are those
    asked for (`StagedFits`); a text as it was shown has the hunks where they were, so a
    refusal has another reason (`StagedRefuse`).
  * `EditorInv`: as long as nothing was typed, the text is the sections put together, each
    shared or as chosen (`EditorTexts`), and whatever waits to be loaded was parsed from a
    text. So the text a button replaces begins exactly where `expectedOffset`
    counts it to (`EditorOffset`, `EditorSwap`), `findNearest` returns that place even if the
    same text stands elsewhere (`EditorNearest`), and what comes out is the sections
    put together with the new choice (`EditorChooses`). Parsing, joining and counting
    are recursive functions of a text. Each is handled by one induction,
    `EditorInduction`, over a set of numbers: `EditorRecursion` (such a function exists),
    `EditorParse`, `EditorJoin`, `EditorSplit`, `EditorNumbers`.

`HoldsOneStream`, `KeepsTrying`, `ReportsStream`, `OneWay`, `Pings`,
`LinesAreToldHolds`, `PopsOwn` and `RevokedDevicesStayOut` are about properties
that no run lists: they were checked with TLC on the component alone, as every
auxiliary invariant was before it was proved. `CachesAreSound` and `MachinesKept`
are the two halves of `PhoneIsSound`.

Every invariant and action property that a passing run checks is thus proved.
Only model-checked are the liveness properties `Settles`, `Registers` and `TabsCatchUp`: liveness under
fairness is out of the prover's reach. That a shown diff marks a longest common
subsequence of the two sides (`Conflicts!SharedLinesAreMost`) was checked with TLC
on the component alone, on lines that repeat.

## 5. Where documents and code disagree

Two runs end in a counterexample; each checks a sentence of a document or a comment.
`PROJECT.json` has the quotations and lines.

| Run | The text says | The code does |
|---|---|---|
| `drops_a_span` | a selection is verified to be one span of history before it is dropped (`git-service.ts:1864-1868`) | two commits that are adjacent in git's order need not be of one line; dropping them takes away what only the newer one is built on, and may leave the older one. The history `Braid` of seven commits, two merges, shows it; git does the same with it |
| `runs_where_it_says` | the console shows the working directory as a prompt | a command typed while a repository is being opened runs in the new one under the old prompt |

Further sentences are stated in the modules, marked "Refuted", and violated in
the same way: add the name to the `INVARIANT` or `PROPERTY` list of a
configuration of the module and TLC shows the run.

| Module | Refuted properties and the sentences they state |
|---|---|
| `PeerConnection` | `SubscriptionIsTheQuery` (the query string *is* the subscription), `CertChangedIsGenuine`, `CertChangedSticks` (`peer-client.ts:36`), `ConnectedIsLive` (`peer-discovery-pairing/spec.md:46`), `NewAddressIsTriedDirectly` (`peer-client.ts:143`), `AttemptsEnd` (`peer-discovery-pairing/spec.md:42`, under `TimedSpec`) |
| `Rendezvous` | `OneConnectionPerHost`, `ForgetUnbinds` (`relay/main.ts:22`) |
| `Credentials` | `RotationKeepsAccess`, `OfferIsPreRegistered` (`peer-protocol/src/index.ts:61`), `FreshTokenReplaces` (`peer-service.ts:424`) |
| `EventStreams` | `WatchersEnd` (`daemon.ts:128`: a response that closes while `handleEvents` awaits leaves its watchers), `WorktreesAreServed`, `EditsReachTheView` (`peer-sharing/spec.md:65`) |
| `WorkingCopy` | `RestoresEvenOnFailure` (`git-service.ts:2125-2126`), `FailureRestores` (2605-2606) |
| `HistoryRewrite` | `SuccessIsThePlan` (`git-service.ts:2195`), `RewordsAreKept` (2196-2198), `DroppedAreGone` (1864-1870) |
| `Branches` | `DiscardsWhatWasShown`, `PushesWhatWasAsked` |
| `Worktrees` | `OpenIsKept` (`worktree-management/spec.md:50-53`: the dialog disables Remove for the main worktree, not for the open one), `AnswersWhatWasRead` (`App.tsx:1659`), `ListIsGits` (`worktree-management/spec.md:31`) |
| `Staging` | `ThatHunkIsStaged` (`interactive-add/spec.md:26-29`: git finds another place where the text repeats, and presses of one millisecond share a file), `SecondPressIsTheFirst` (`DiffViewer.tsx:40-42`), `StagedDiscardIsWhole` (447-448), `LineDiscardsApply` (`interactive-add/spec.md:40-42`) |
| `Conflicts` | `SavedIsItsOwn` (`conflict-resolution/spec.md:55-56`), `SeedIsTheCurrentSide` (`ConflictEditor.tsx:150-151`) |
| `Panels` | `RemovesThePreviewed`, `IndexIsLeft`, `TakesTheChosen` |
| `Committing` | `AnchorIsTheClicked` (`WorkingTree.tsx:222-223`), `LiveLockIsKept` (`git-service.ts:1291-1292`), `RunningIsShown` (`WorkingTree.tsx:459-467`), `AmendGivesBack` (38-39) |
| `Recovery` | `VerdictsAreOfTheTested` (`BisectWizard.tsx:36`), `RunningIsBisecting` (33), `RestoresTheListed` (`reflog-recovery/spec.md:36`) |
| `Workspace` | `GitTargetsTheShownPath` (`useGitRepo.ts:18-19`), `TabsKeepTheirOwn` (19-20), `RetryRecovers` (`peer-remote-repos/spec.md:39`), `ShownTabIsOpen` (`App.tsx:1676`) |
| `Dialogs` | `OwnModalOnly` (`App.tsx:729`), `AskedHere` (1080) |
| `Console` | `RunningCanBeStopped` (`command-console/spec.md:36`), `EveryCommandIsLogged` (`git-activity-log/spec.md:8`), `LogIsOfTheShown` (60), `ErrorsAreShownHere` |
| `Viewing` | `DetailIsOfTheSelected` (`commit-graph/spec.md:125`), `ToggleTogglesOut` (67), `LitIsWhatMatches` (`SearchBar.tsx:20-21`), `RowsAreOfTheTab` (`GraphView.tsx:26-27`) |
| `RefPills` | `HeadHasAPill` (`lib/refs.ts:227`: a detached HEAD before `origin/HEAD` is not shown), `HeadIsOnIt` (122-123), `MergesIntoABranch` (`App.tsx:1193`), `DragsWhatItLabels` (967) |
| `Gerrit` | `DisabledIsBaseline` (`useGerrit.ts:197`), `ClosedArePruned`, `OwnRefsOnly` (`git-service.ts:1760-1761`) |
| `Integrations` | `OneAccount` (`index.ts:68-80`: a file that cannot be removed outlives its session), `EndsItsOwnFlow` (`GitHubPanel.tsx:211-212`), `SignsInOnScreen` (171-174), `RemoteOfTheAsker` (107) |
| `Companion` | `StreamIsOfTheScreen` (`RepoScreen.tsx:16`) |
| `PullRequests` | `OneHeadOnScreen` (`PullFilesScreen.tsx:61-62`), `BarMeansNewCommits`, `TicksStay` (97) |
| `Updates` | `AppIsReplaced` (`mac-updater.ts:12-13`), `ReadyIsUnpacked` (91), `ReadyStaysVisible` (`App.tsx:1008-1010`), `QuitInstalls` (1002-1003) |
| `Daemon` | `PreviousIsKept` (`daemon.ts:207`), `CodesMatchTheServer` (`headless/main.ts:143`), `ReportedIsServed` (`daemon.ts:197`), `ServedAreWatched` (128) |
| `Sharing` | `DisabledIsSilent`, `RelayIsWhatWasAsked` |
| `PeerDialog` | `FingerprintEqualsTheHosts` (`add-peer-connections/specs/peer-sharing/spec.md:21`), `ReposAreOfThePeer` (`PeerModal.tsx:370`), `StaleQrIsNeverShown` (408-409) |
| `RemoteCalls` | `HostSwitchWins` (`peer-server.ts:342`) |
| `Limits` | `OnePerWindow` (`peer-push.ts:35-36`), `OnlyWhenOptedIn` (`companion-app/spec.md:10`) |
| `Storage` | `GeneratedOnce` (`peer-store.ts:128`) |

Seen while reading and not modelled: `cherryPickMany` and `revertMany` order by
commit date (`git-service.ts:1911-1921`, against the comment at 1998); "Push to
remote" in the menu of a branch that is not checked out pushes the current one
(`App.tsx:807`); `parseRawLog` drops commits whose subject begins with "index
on" or "untracked files on" (`git-service.ts:2818-2830`); a spawn failure in
`commitStreaming` logs two activity records (1425-1440); a `worktree add -b`
that fails leaves its branch behind.

## 6. What is not modelled

* **Of the modelled components.** `PeerConnection`: the SSE parser and `probe`.
  Relay: callers that name the host in the TLS handshake (they wait in the same
  table and are joined the same way), the bytes after a splice, malformed
  frames. `PeerService`: expiry of a token during a ceremony. `PeerServer`:
  methods of the host itself but for token rotation and the forge's.
  `PeerStore`: the settings file, which is written as the others are.
  `RepoHost`: activity records, `.gitignore` events, the service cache.
  `GitService`: the parsing of what git prints but for decorations, blame, file
  history, statistics, configuration. Main process: windows, menus, the preload
  surface, which forwards. Window: pixels, colours, scrolling, highlighting.
  `HistoryRewrite`: which patches conflict (any pick off its place may).
  `Companion`: what the screens show of a repository, the dots that say whether a
  machine answers, fetch, pull and push with a scope, the certificate's pin, the
  registration for notifications, the update of the app; a list is written to
  the phone's store in the step that renders it, and a check goes through the
  machines in any order.
* **Whole components.** The CLI, log and
  audit output, QR encoding and shell path, styles, settings pages and help,
  the documentation site, deployment scripts and videos. They keep no state
  that several actors change, or are not part of the program.
* The order between `PeerServer.start()` and its socket's listening event was
  examined and not modelled: listening on an IP literal completes before other
  work can observe the difference.

## 7. The plan

Still wanted: liveness of the host's commands (that a run of `WorkingCopy` which git
answers ends) beside that of connections; the registration for push messages and the update of the
companion's app, which section 6 leaves out.
