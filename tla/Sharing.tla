-------------------------------- MODULE Sharing --------------------------------
(***************************************************************************)
(* Sharing in the desktop app: PeerService.setServer (src/main/               *)
(* peer-service.ts) starts and stops PeerServer, the discovery beacon and the   *)
(* link to the relay as the settings change, and another instance that paired   *)
(* with this one keeps its address book by the beacons it hears.               *)
(*                                                                         *)
(* Times are left out: a beacon may be lost any number of times, which is when  *)
(* it expires. Left out too: the read-only and push switches, which nothing     *)
(* here depends on, what is published to the window, and the attempts of the     *)
(* connection (PeerConnection) and of the link (Rendezvous).                   *)
(***************************************************************************)
EXTENDS Integers, FiniteSets

CONSTANTS Ports,        \* bound: ports of the machine, consecutive
          Names, Urls, Addresses, Dns,
          Taken,        \* the ports other programs may hold
          PORT_SEARCH_SPAN,
          MaxCalls,     \* bound: calls of setServer and restarts of the app
          MaxMoves,     \* bound: new addresses, pairings and restarts of the peer
          None

VARIABLES settings,   \* [enabled, port, name, relayUrl], as on disk
          asked,      \* history: the settings the user asked for
          taken,
          server,     \* the port of this.server, None when it is null
          bound,      \* the ports this process listens on
          opening,    \* start() under way: the ports left to try
          failed,     \* serverError
          beacon,     \* what discovery announces
          link,       \* the relay of relayLink
          overlapped, \* history: setServer was called while a start was under way
          address,    \* of the machine
          air,        \* a beacon on its way
          seen,       \* discovered by the peer
          known,      \* its address book
          conn,       \* its connection: where to, and whether it stands
          dialed,     \* history: paired since the last change that discovery told
          savedAs,    \* history: what the user saved it under
          calls, moves

service == <<settings, asked, taken, server, bound, opening, failed, beacon, link, overlapped>>
peer == <<seen, known, conn, dialed, savedAs>>
vars == <<settings, asked, taken, server, bound, opening, failed, beacon, link, overlapped, address,
          air, seen, known, conn, dialed, savedAs, calls, moves>>

Settings == [enabled : BOOLEAN, port : Ports, name : Names, relayUrl : Urls \cup {None}]
Patches == {[field |-> "enabled", value |-> v] : v \in BOOLEAN}
           \cup {[field |-> "port", value |-> v] : v \in Ports}
           \cup {[field |-> "name", value |-> v] : v \in Names}
           \cup {[field |-> "relayUrl", value |-> v] : v \in Urls}

Asked(s, patch) == [s EXCEPT ![patch.field] = patch.value]
\* The relay address is not one of the fields that are taken over.
updateSettings(s, patch) == IF patch.field = "relayUrl" THEN s ELSE Asked(s, patch)
beaconPayload(s, port) == [name |-> s.name, port |-> port]
applyRelayLink(s, listening) == IF listening THEN s.relayUrl ELSE None

-----------------------------------------------------------------------------
(* The host *)

\* Mutant: the beacon goes on after the server stopped.
StopsTheServer == server' = None /\ bound' = bound \ {server} /\ link' = None /\ UNCHANGED beacon
stopServer == server' = None /\ bound' = bound \ {server} /\ link' = None /\ beacon' = None
startServer(s) ==
  opening' = opening \cup {[left |-> {p \in Ports : p >= s.port /\ p <= s.port + PORT_SEARCH_SPAN},
                            call |-> calls]}

setServer(patch) ==
  /\ calls < MaxCalls
  /\ calls' = calls + 1
  /\ Asked(settings, patch) # settings
  /\ asked' = Asked(asked, patch)
  /\ settings' = updateSettings(settings, patch)
  /\ overlapped' = (overlapped \/ opening # {})
  /\ LET restart == settings'.enabled /\ server # None /\ settings'.port # settings.port
     IN \/ ~settings'.enabled /\ server # None /\ stopServer /\ UNCHANGED opening
        \/ settings'.enabled /\ restart /\ stopServer /\ startServer(settings')
        \/ /\ settings'.enabled /\ server = None
           /\ startServer(settings')
           /\ UNCHANGED <<server, bound, beacon, link>>
        \/ /\ settings'.enabled /\ server # None /\ ~restart
           /\ beacon' = beaconPayload(settings', server)
           /\ link' = applyRelayLink(settings', TRUE)
           /\ UNCHANGED <<server, bound, opening>>
        \/ /\ ~settings'.enabled /\ server = None
           /\ link' = None
           /\ UNCHANGED <<server, bound, opening, beacon>>
  /\ UNCHANGED <<taken, failed, address, air, peer, moves>>

\* A listen ends: the port is busy, which tries the next one, or it is ours.
Tried(o) ==
  /\ \E p \in o.left :
       /\ \A q \in o.left : p <= q
       /\ \/ /\ p \in taken \cup bound
             /\ opening' = (opening \ {o}) \cup {[o EXCEPT !.left = @ \ {p}]}
             /\ UNCHANGED <<server, bound, failed, beacon, link>>
          \/ /\ p \notin taken \cup bound
             /\ opening' = opening \ {o}
             /\ server' = p
             /\ bound' = bound \cup {p}
             /\ failed' = FALSE
             /\ beacon' = beaconPayload(settings, p)
             /\ link' = applyRelayLink(settings, TRUE)
  /\ UNCHANGED <<settings, asked, taken, overlapped, address, air, peer, calls, moves>>
NoPort(o) ==
  /\ o.left = {}
  /\ opening' = opening \ {o}
  /\ failed' = TRUE
  /\ link' = applyRelayLink(settings, server # None)
  /\ UNCHANGED <<settings, asked, taken, server, bound, beacon, overlapped, address, air, peer, calls,
                 moves>>

\* The app ends, or crashes, and starts again on the settings of the file.
restart ==
  /\ calls < MaxCalls
  /\ calls' = calls + 1
  /\ asked' = settings
  /\ server' = None /\ bound' = {} /\ failed' = FALSE /\ beacon' = None /\ link' = None
  /\ overlapped' = FALSE
  /\ opening' = IF settings.enabled
                THEN {[left |-> {p \in Ports : p >= settings.port
                                               /\ p <= settings.port + PORT_SEARCH_SPAN},
                       call |-> calls]}
                ELSE {}
  /\ UNCHANGED <<settings, taken, address, air, peer, moves>>

sendBeacon ==
  /\ beacon # None
  /\ air' = [name |-> beacon.name, port |-> beacon.port, host |-> address]
  /\ air' # air
  /\ UNCHANGED <<service, address, peer, calls, moves>>
Move ==
  /\ moves < MaxMoves
  /\ moves' = moves + 1
  /\ address' \in Addresses \ {address}
  /\ UNCHANGED <<service, air, peer, calls>>

-----------------------------------------------------------------------------
(* The instance that paired with it *)

Entry(host, port, name) == [host |-> host, port |-> port, name |-> name]
Dials(host, port, status) == [host |-> host, port |-> port, status |-> status]
\* updateEndpoint: a new address is dialed at once.
updateEndpoint(c, e) ==
  IF c.host = e.host /\ c.port = e.port THEN c ELSE Dials(e.host, e.port, "connecting")
\* Mutant: whatever a peer is saved under follows the beacon.
AnyHost(host) == TRUE
isIpLiteral(host) == host # Dns

\* The change event of discovery, for the one host there is.
AddressBook(e) ==
  /\ dialed' = FALSE
  /\ IF known = None THEN UNCHANGED <<known, conn>>
     ELSE IF isIpLiteral(known.host) THEN /\ known' = Entry(e.host, e.port, e.name)
                                          /\ conn' = updateEndpoint(conn, e)
     ELSE /\ known' = [known EXCEPT !.name = e.name]
          /\ conn' = IF conn.status = "offline" THEN updateEndpoint(conn, e) ELSE conn
onMessage ==
  /\ air # None
  /\ air' = None
  /\ seen' = air
  /\ IF seen # air THEN AddressBook(air) ELSE UNCHANGED <<known, conn, dialed>>
  /\ UNCHANGED <<service, address, savedAs, calls, moves>>
Lost == air # None /\ air' = None /\ UNCHANGED <<service, address, peer, calls, moves>>
sweep ==
  /\ seen # None
  /\ seen' = None
  /\ UNCHANGED <<service, address, air, known, conn, dialed, savedAs, calls, moves>>

pair(host) ==
  /\ moves < MaxMoves /\ server # None
  /\ moves' = moves + 1
  /\ known' = Entry(host, server, settings.name)
  /\ conn' = Dials(host, server, "connecting")
  /\ dialed' = TRUE
  /\ savedAs' = host
  /\ UNCHANGED <<service, address, air, seen, calls>>
forget ==
  /\ known # None
  /\ known' = None /\ conn' = None /\ dialed' = FALSE /\ savedAs' = None
  /\ UNCHANGED <<service, address, air, seen, calls, moves>>
peerRestart ==
  /\ moves < MaxMoves
  /\ moves' = moves + 1
  /\ seen' = None
  /\ conn' = IF known = None THEN None ELSE Dials(known.host, known.port, "connecting")
  /\ UNCHANGED <<service, address, air, known, dialed, savedAs, calls>>

Answers(c) == c.host \in {address, Dns} /\ c.port \in bound
\* An attempt ends, the connection breaks, and the timer tries again.
Attempt ==
  /\ conn # None
  /\ \/ conn.status = "connecting" /\ Answers(conn) /\ conn' = [conn EXCEPT !.status = "connected"]
     \/ conn.status # "offline" /\ ~Answers(conn) /\ conn' = [conn EXCEPT !.status = "offline"]
     \/ conn.status = "offline" /\ conn' = [conn EXCEPT !.status = "connecting"]
  /\ UNCHANGED <<service, address, air, seen, known, dialed, savedAs, calls, moves>>

-----------------------------------------------------------------------------
Init ==
  /\ settings \in [enabled : BOOLEAN, port : {CHOOSE p \in Ports : \A q \in Ports : p <= q},
                   name : {CHOOSE n \in Names : TRUE}, relayUrl : Urls \cup {None}]
  /\ asked = settings
  /\ taken \in SUBSET Taken
  /\ server = None /\ bound = {} /\ failed = FALSE /\ beacon = None /\ link = None
  /\ opening = IF settings.enabled
               THEN {[left |-> {p \in Ports : p <= settings.port + PORT_SEARCH_SPAN}, call |-> 0]}
               ELSE {}
  /\ overlapped = FALSE
  /\ address = CHOOSE a \in Addresses : TRUE
  /\ air = None /\ seen = None /\ known = None /\ conn = None /\ dialed = FALSE /\ savedAs = None
  /\ calls = 0 /\ moves = 0

Next ==
  \/ \E patch \in Patches : setServer(patch)
  \/ \E o \in opening : Tried(o) \/ NoPort(o)
  \/ restart \/ sendBeacon \/ Move
  \/ onMessage \/ Lost \/ sweep
  \/ \E host \in {address, Dns} : pair(host)
  \/ forget \/ peerRestart \/ Attempt

Spec == Init /\ [][Next]_vars

-----------------------------------------------------------------------------
\* Unless a call came while the server was starting, it settles on the settings: the app listens
\* exactly when sharing is on and a port was free, announces that port and its name, and is linked
\* to the relay of the settings, whatever was switched, renamed and restarted in between
\* (peer-service.ts:214-229, 319-361).
SharingIsTheSettings ==
  ~overlapped /\ opening = {} =>
    /\ bound = {server} \ {None}
    /\ server # None => settings.enabled
    /\ settings.enabled => server # None \/ failed
    /\ beacon = (IF server = None THEN None ELSE beaconPayload(settings, server))
    /\ link = (IF server = None THEN None ELSE settings.relayUrl)

\* Why it holds: unless a call came meanwhile one start is under way at most, and until it ends there
\* is no server, no beacon and no link.
OneStart ==
  /\ calls \in Nat /\ overlapped \in BOOLEAN /\ failed \in BOOLEAN
  /\ opening \subseteq [left : SUBSET Ports, call : Nat]
  /\ overlapped = FALSE =>
       /\ \A o, q \in opening : o = q
       /\ opening # {} =>
            /\ server = None /\ bound = {} /\ beacon = None /\ link = None
            /\ settings.enabled = TRUE
       /\ opening = {} =>
            /\ bound = {server} \ {None}
            /\ server # None => settings.enabled = TRUE
            /\ settings.enabled = TRUE => server # None \/ failed = TRUE
            /\ beacon = (IF server = None THEN None ELSE beaconPayload(settings, server))
            /\ link = (IF server = None THEN None ELSE settings.relayUrl)

\* A peer saved under an address is where the beacon said last, unless it was paired since, and its
\* connection dials what is saved; one saved under a name keeps it, wherever beacons come from
\* (peer-service.ts:139-157, peer-discovery.ts:82-98).
AddressBookFollows ==
  known # None =>
    IF savedAs = Dns THEN known.host = Dns
    ELSE /\ <<conn.host, conn.port>> = <<known.host, known.port>>
         /\ seen # None /\ ~dialed => known = seen
\* Refuted (openspec/changes/add-peer-connections/specs/peer-sharing/spec.md:6 "Disabling stops both
\* immediately"): a start that is under way when sharing is switched off goes on to listen.
DisabledIsSilent == opening = {} /\ ~settings.enabled => bound = {}
\* Refuted (PeerModal.tsx:521 "This machine keeps an outbound connection there"): the relay address
\* the user types is not taken over.
RelayIsWhatWasAsked == settings.relayUrl = asked.relayUrl
================================================================================
