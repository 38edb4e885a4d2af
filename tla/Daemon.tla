------------------------------- MODULE Daemon --------------------------------
(***************************************************************************)
(* The headless host: startDaemon (src/headless/daemon.ts), its configuration *)
(* file (config.ts), the repositories it offers (repos.ts, createRepoHost in   *)
(* peer-host-core.ts) and the commands of its control socket. The file is      *)
(* edited while the daemon runs, and reload applies it part by part: some parts *)
(* read the configuration when they are used, some were given a value once.     *)
(*                                                                         *)
(* Pairing itself is Credentials, the relay link Rendezvous.                  *)
(***************************************************************************)
EXTENDS Integers, FiniteSets

CONSTANTS Configs,      \* texts that parse and validate: [bind, url, token, discovery, push, repos, scan]
          Broken,       \* a text that does not
          None,
          AddressOf,    \* bind -> an address, None for an interface that is not there
          OwnAddresses, \* those the machine can listen on
          Dirs,         \* directories; those below the scan root:
          ScanRoot,
          MaxActs       \* bound: edits, clones and rotations

VARIABLES file, disk,   \* the configuration file; the directories that are repositories
          up, cfg,
          bindAddress,
          listening,    \* the address the server listens on
          cert,         \* the certificates made so far; the last one is in the store
          tls,          \* the daemon's own copy of it
          presented,    \* the one the server was started with
          relay,        \* the link that is held: [url, token, nth]
          dialing,      \* links that wait for connectRelay
          joined,       \* links that are connected to their relay
          beacon,       \* discovery is on
          cache, stale, \* the allow list; five minutes have passed
          served,       \* services opened for clients
          watchers,     \* repositories watched for push
          pairing,      \* what the last code came with while it is valid
          applied,      \* history: the configuration of the last start or reload that went through
          late,         \* history: the links that were stopped while they were dialing
          acts

environment == <<file, disk>>
address == <<bindAddress, listening>>
identity == <<cert, tls, presented>>
links == <<relay, dialing, joined, late>>
derived == <<links, beacon, watchers, applied>>
repositories == <<cache, stale, served>>
vars == <<file, disk, up, cfg, bindAddress, listening, cert, tls, presented, relay, dialing, joined,
          beacon, cache, stale, served, watchers, pairing, applied, late, acts>>

-----------------------------------------------------------------------------
(* What the parts make of a configuration                                   *)

\* loadConfig: it parses, and every value is in its range.
Loads(c) == c # Broken

\* ConfigRepoAllowList.refresh: the listed ones, then what the scan finds.
AllowedBy(c) == (c.repos \cup (IF c.scan THEN ScanRoot ELSE {})) \cap disk

\* Mutant: the link that was held is forgotten instead.
Forgets(l) == UNCHANGED <<joined, late>>
\* RelayLink.stop: a connection is closed and a retry is called off; a dial goes on, and its link
\* registers when it is through.
StopsLink(l) ==
  joined' = joined \ {l} /\ late' = late \cup ({l} \cap dialing)
\* Compared by its address alone.
applyRelay(c) ==
  \/ c.url = None /\ relay' = None /\ StopsLink(relay) /\ UNCHANGED dialing
  \/ /\ c.url # None /\ relay # None /\ relay.url = c.url
     /\ UNCHANGED links
  \/ /\ c.url # None /\ (relay # None => relay.url # c.url)
     /\ StopsLink(relay)
     /\ relay' = [url |-> c.url, token |-> c.token, nth |-> acts]
     /\ dialing' = dialing \cup {relay'}

applyDiscovery(c) == beacon' = c.discovery

applyPushWatchers(c, repos) == watchers' = IF c.push THEN repos ELSE {}

-----------------------------------------------------------------------------
(* The process                                                              *)

Stopped ==
  /\ up' = FALSE /\ cfg' = None /\ bindAddress' = None /\ listening' = None
  /\ tls' = 0 /\ presented' = 0 /\ relay' = None /\ dialing' = {} /\ joined' = {} /\ late' = {} /\ beacon' = FALSE
  /\ cache' = {} /\ stale' = FALSE /\ served' = {} /\ watchers' = {} /\ pairing' = None
  /\ applied' = None

Init ==
  /\ file \in Configs /\ disk \in SUBSET Dirs
  /\ up = FALSE /\ cfg = None /\ bindAddress = None /\ listening = None
  /\ cert = 1 /\ tls = 0 /\ presented = 0 /\ relay = None /\ dialing = {} /\ joined = {} /\ late = {} /\ beacon = FALSE
  /\ cache = {} /\ stale = FALSE /\ served = {} /\ watchers = {} /\ pairing = None /\ applied = None
  /\ acts = 0

\* A bad file, an interface that is missing or an address of another machine: no start.
startDaemon ==
  /\ ~up /\ Loads(file) /\ AddressOf[file.bind] \in OwnAddresses
  /\ up' = TRUE /\ cfg' = file /\ applied' = file
  /\ tls' = cert /\ presented' = cert
  /\ bindAddress' = AddressOf[file.bind] /\ listening' = bindAddress'
  /\ cache' = AllowedBy(file) /\ stale' = FALSE
  /\ applyPushWatchers(file, cache')
  /\ applyRelay(file)
  /\ applyDiscovery(file)
  /\ UNCHANGED <<environment, cert, served, pairing, acts>>

\* SIGTERM, the stop command, or the end of the process.
stop == up /\ Stopped /\ UNCHANGED <<environment, cert, acts>>

\* SIGHUP and the reload command. What does not parse leaves everything as it was; an interface
\* that is missing leaves the address.
reload ==
  /\ up /\ Loads(file)
  /\ cfg' = file /\ applied' = file
  /\ bindAddress' = IF AddressOf[file.bind] # None THEN AddressOf[file.bind] ELSE bindAddress
  /\ cache' = AllowedBy(file) /\ stale' = FALSE
  /\ served' = served \cap cache'
  /\ UNCHANGED listening
  /\ applyDiscovery(file)
  /\ applyPushWatchers(file, cache')
  /\ applyRelay(file)
  /\ UNCHANGED <<environment, up, identity, pairing, acts>>
\* The settings cannot be written (updateSettings): what reads the configuration has the new one
\* already, what is given its values keeps those of the old one.
ReloadFails ==
  /\ up /\ Loads(file) /\ cfg' = file
  /\ UNCHANGED <<environment, up, address, identity, derived, repositories, pairing, acts>>

-----------------------------------------------------------------------------
(* The links to the relays, whatever the daemon holds                        *)

\* connectRelay resolves: a link that was stopped meanwhile registers as any other.
Dialed(l) ==
  /\ l \in dialing /\ dialing' = dialing \ {l} /\ joined' = joined \cup {l}
  /\ UNCHANGED <<environment, up, cfg, address, identity, relay, late, beacon, watchers, applied, repositories,
                 pairing, acts>>
\* The dial fails, or the relay closes: the link that is held waits for its timer, another is gone.
LinkFails(l) ==
  /\ l \in dialing \cup joined /\ dialing' = dialing \ {l} /\ joined' = joined \ {l}
  /\ late' = late \ {l}
  /\ UNCHANGED <<environment, up, cfg, address, identity, relay, beacon, watchers, applied, repositories, pairing,
                 acts>>
Redial ==
  /\ relay # None /\ relay \notin dialing \cup joined /\ dialing' = dialing \cup {relay}
  /\ UNCHANGED <<environment, up, cfg, address, identity, relay, joined, late, beacon, watchers, applied,
                 repositories, pairing, acts>>

-----------------------------------------------------------------------------
(* The certificate, pairing, repositories                                   *)

\* PeerServer.stop and start: on the address a reload has set since, with the new certificate.
\* When it cannot listen there, the command fails and the daemon stays without a server.
tlsRotate ==
  /\ up /\ acts < MaxActs /\ acts' = acts + 1
  /\ cert' = cert + 1
  /\ IF bindAddress \in OwnAddresses
     THEN listening' = bindAddress /\ presented' = cert'
     ELSE listening' = None /\ presented' = 0
  /\ UNCHANGED <<environment, up, cfg, bindAddress, tls, derived, repositories, pairing>>

\* The pair command: a code for a while, with the certificate and the address to look for.
requestPairingCode ==
  /\ up /\ pairing' = [fingerprint |-> tls, at |-> bindAddress]
  /\ UNCHANGED <<environment, up, cfg, address, identity, derived, repositories, acts>>
\* One code, one pairing; or the window ends.
PairingEnds ==
  /\ pairing # None /\ pairing' = None
  /\ UNCHANGED <<environment, up, cfg, address, identity, derived, repositories, acts>>

\* current: the first use after five minutes scans again.
Rescan ==
  /\ up /\ stale /\ cache' = AllowedBy(cfg) /\ stale' = FALSE
  /\ UNCHANGED <<environment, up, cfg, address, identity, derived, served, pairing, acts>>
FiveMinutes ==
  /\ up /\ ~stale /\ stale' = TRUE
  /\ UNCHANGED <<environment, up, cfg, address, identity, derived, cache, served, pairing, acts>>
\* A client's request for a repository: a service is made for one that is there.
serviceFor(d) ==
  /\ up /\ ~stale /\ d \in cache \cap disk /\ served' = served \cup {d}
  /\ UNCHANGED <<environment, up, cfg, address, identity, derived, cache, stale, pairing, acts>>

EditConfig(c) ==
  /\ acts < MaxActs /\ acts' = acts + 1 /\ c # file /\ file' = c
  /\ UNCHANGED <<disk, up, cfg, address, identity, derived, repositories, pairing>>
\* A clone, or a repository removed.
ChangeDisk(d) ==
  /\ acts < MaxActs /\ acts' = acts + 1
  /\ disk' = IF d \in disk THEN disk \ {d} ELSE disk \cup {d}
  /\ UNCHANGED <<file, up, cfg, address, identity, derived, repositories, pairing>>

Next ==
  \/ startDaemon \/ stop \/ reload \/ ReloadFails \/ tlsRotate \/ requestPairingCode \/ PairingEnds
  \/ Rescan \/ FiveMinutes \/ Redial
  \/ \E l \in dialing \cup joined : Dialed(l) \/ LinkFails(l)
  \/ \E d \in Dirs : serviceFor(d) \/ ChangeDisk(d)
  \/ \E c \in Configs \cup {Broken} : EditConfig(c)

Spec == Init /\ [][Next]_vars

-----------------------------------------------------------------------------
(* Properties                                                               *)

\* What the next property rests on: what there is, and that what is down runs nothing.
Applies ==
  /\ file \in Configs \cup {Broken} /\ up \in BOOLEAN
  /\ relay = None \/ relay \in [url : {c.url : c \in Configs}, token : {c.token : c \in Configs}, nth : Int]
  /\ up => applied \in Configs
  /\ ~up => relay = None /\ dialing = {} /\ joined = {} /\ watchers = {}

\* However the file is edited and reloaded, also after a reload that failed half-way, the link that
\* is held, the beacon and the watchers for push follow one configuration, the last one that was
\* applied in whole; and of the links that were given up none is connected or dials, but those
\* whose dial was on its way when they were stopped.
OneConfiguration ==
  /\ up => /\ (relay = None <=> applied.url = None) /\ (relay # None => relay.url = applied.url)
           /\ beacon = applied.discovery
  /\ watchers # {} => up /\ applied.push /\ watchers \subseteq applied.repos \cup ScanRoot
  /\ (dialing \cup joined) \ {relay} \subseteq late

\* Refuted: "reload failed ... keeping previous config" (src/headless/daemon.ts:207).
PreviousIsKept == up => cfg = applied

\* Refuted: "every paired device must pair again" after a rotation (src/headless/main.ts:143).
\* The codes handed out afterwards still carry the old certificate, so that none can pair.
CodesMatchTheServer == (up /\ pairing # None /\ listening # None) => pairing.fingerprint = presented

\* Refuted: what a reload makes of `bind`: status and pairing codes name the new address, the
\* server stays on the old one (src/headless/daemon.ts:197, "until restart" said of one case only).
ReportedIsServed == (up /\ listening # None) => bindAddress = listening

\* Refuted: "watch every served repo while opted in" (src/headless/daemon.ts:128). A repository
\* found by the five-minute scan is served and not watched.
ServedAreWatched == (up /\ cfg.push) => cache \subseteq watchers
=============================================================================
