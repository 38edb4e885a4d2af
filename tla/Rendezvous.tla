----------------------------- MODULE Rendezvous -----------------------------
(***************************************************************************)
(* Reaching a host through the relay: RelayLink and relayDial of           *)
(* src/main/peer-relay.ts and RelayServer of src/relay/main.ts.            *)
(*                                                                         *)
(* A host keeps one control connection to the relay (RelayLink).  A caller *)
(* (relayDial) asks the relay for the host; the relay tells the host over  *)
(* the control connection, the host dials back, and the relay joins the    *)
(* two sockets.  Every connection has two ends that learn of its end       *)
(* separately, at any time or, on the relay's side, never.                 *)
(*                                                                         *)
(* Left out: the bytes after the splice, SNI callers (they take the same   *)
(* path from `pending` on), malformed frames and relay addresses, and the  *)
(* wording of errors.  Backoff delays are not counted, only that a timer   *)
(* is armed.                                                               *)
(***************************************************************************)
EXTENDS Naturals, Sequences

CONSTANTS
  Links,        \* RelayLink objects, each used for one start() and one stop()
  Conns,        \* slots for control connections, reused when both ends closed
  Calls,        \* relayDial() calls
  Peers,        \* hosts
  PeerOf,       \* the host each link belongs to
  Tokens,       \* registration tokens
  Certs,        \* certificates a host can have, known by their hash
  NoToken, None,
  MaxRestarts   \* bound: restarts of the relay

ASSUME PeerOfAssumption == PeerOf \in [Links -> Peers]
ASSUME FreshAssumption == None \notin Conns \cup Links \cup Peers /\ NoToken \notin Tokens
ASSUME FrameAssumption == {"registered", "error"} \cap Calls = {}
ASSUME RestartsAssumption == MaxRestarts \in Nat

VARIABLES
  link,      \* the fields of every RelayLink
  conn,      \* both ends of every control connection
  cert,      \* certificate of every host, as its fingerprint() returns it
  hosts,     \* relay: the control connection registered for a peer
  bound,     \* relay: token bound to a peer, in memory
  saved,     \* relay-hosts.json: the bindings on disk
  call,      \* every call: the caller's end, and what the relay knows of it
  callback,  \* the host's dial back for a call
  restarts   \* how often the relay was restarted

hostVars == <<link, cert>>
relayVars == <<hosts, bound, saved, restarts>>
callVars == <<call, callback>>
vars == <<link, conn, cert, hosts, bound, saved, call, callback, restarts>>

-----------------------------------------------------------------------------
(* The state of the parts.                                                 *)

LinkStatus == {"offline", "connecting", "registered"}

\* opening: open() awaits connectRelay().  ctl, timer, ping: the fields.
Link == [life: {"new", "wanted", "stopped"}, opening: BOOLEAN, ctl: Conns \cup {None},
         timer: BOOLEAN, ping: BOOLEAN, status: LinkStatus, token: Tokens \cup {NoToken}]

\* Host's end: "failing" is destroyed, or has reported an error, its close
\* event still to come.  Relay's end: "fresh" has a register frame to read,
\* "ended" was refused, "destroyed" was replaced by a later registration.
\* down: frames on their way to the host, "incoming" as the call it names.
Frame == {"registered", "error"} \cup Calls
Socket == [link: Links, host: {"up", "failing", "closed"},
           relay: {"fresh", "registered", "ended", "destroyed", "closed"},
           cert: Certs, down: Seq(Frame)]

NoConn == [link |-> None, host |-> "closed", relay |-> "closed", cert |-> None, down |-> <<>>]
Conn == Socket \cup {NoConn}

\* client: the caller's end.  relay: what the relay has done with the call.
\* answer: the relay's frame on its way to the caller.  via: the control
\* connection's link the relay announced the call to.
Dial == [client: {"asking", "spliced", "failed"}, peer: Peers, cert: Certs,
         relay: {"none", "pending", "joined", "over"},
         answer: {"none", "ok", "error"}, via: Links \cup {None}]

NoCall == [client |-> "idle", peer |-> None, cert |-> None, relay |-> "none",
           answer |-> "none", via |-> None]
Call == Dial \cup {NoCall}

\* connecting: accept() awaits connectRelay().  sent: its frame is out.
\* ok: the relay has joined it.  serving: handed to the https server.
Callback == {"none", "connecting", "sent", "ok", "serving", "dropped"}

Wanted(l) == link[l].life = "wanted"
FreeConns == {k \in Conns : conn[k] = NoConn}

\* A frame written to a connection whose other end is gone goes nowhere.
Down(r, frame) == IF r.host = "up" THEN Append(r.down, frame) ELSE r.down

\* A connection both ends have closed leaves its slot.
Freed(r) == IF r.host = "closed" /\ r.relay = "closed" THEN NoConn ELSE r

-----------------------------------------------------------------------------
(* RelayLink: the control connection of a host.                            *)

\* The owner makes a new link after stopping the last one of its host.
start(l, token) ==
  /\ link[l].life = "new"
  /\ \A other \in Links : PeerOf[other] = PeerOf[l] => ~Wanted(other)
  /\ link' = [link EXCEPT ![l] = [@ EXCEPT !.life = "wanted", !.opening = TRUE,
                                           !.status = "connecting", !.token = token]]
  /\ UNCHANGED <<conn, cert, relayVars, callVars>>

\* Mutant: stop() leaves the ping interval to the socket's close event.
stopKeepsPing(l) ==
  /\ Wanted(l)
  /\ conn' = [k \in Conns |-> IF k = link[l].ctl THEN [conn[k] EXCEPT !.host = "failing"]
                                                 ELSE conn[k]]
  /\ link' = [link EXCEPT ![l] = [@ EXCEPT !.life = "stopped", !.timer = FALSE,
                                  !.ctl = None, !.status = "offline"]]
  /\ UNCHANGED <<cert, relayVars, callVars>>

\* stop() does not reach a connectRelay() that is still under way.
stop(l) ==
  /\ Wanted(l)
  /\ conn' = [k \in Conns |-> IF k = link[l].ctl THEN [conn[k] EXCEPT !.host = "failing"]
                                                 ELSE conn[k]]
  /\ link' = [link EXCEPT ![l] = [@ EXCEPT !.life = "stopped", !.timer = FALSE,
                                  !.ping = FALSE, !.ctl = None, !.status = "offline"]]
  /\ UNCHANGED <<cert, relayVars, callVars>>

\* connectRelay() resolves: keep the socket, write register, start pinging.
ConnectSucceeds(l) ==
  /\ link[l].opening
  /\ \E k \in FreeConns :
       /\ conn' = [conn EXCEPT ![k] = [link |-> l, host |-> "up", relay |-> "fresh",
                                       cert |-> cert[PeerOf[l]], down |-> <<>>]]
       /\ link' = [link EXCEPT ![l] = [@ EXCEPT !.opening = FALSE, !.ctl = k, !.ping = TRUE]]
  /\ UNCHANGED <<cert, relayVars, callVars>>

\* Mutant: a connection that could not be made is not tried again.
ConnectFailsForGood(l) ==
  /\ link[l].opening
  /\ link' = [link EXCEPT ![l] = [@ EXCEPT !.opening = FALSE, !.status = "offline"]]
  /\ UNCHANGED <<conn, cert, relayVars, callVars>>

ConnectFails(l) ==
  /\ link[l].opening
  /\ link' = [link EXCEPT ![l] = [@ EXCEPT !.opening = FALSE, !.status = "offline",
                                           !.timer = Wanted(l)]]
  /\ UNCHANGED <<conn, cert, relayVars, callVars>>

\* Mutant: only a registered link tries again.
AfterFailWhenRegistered(k) ==
  LET l == conn[k].link
      retry == link[l].ctl = k /\ Wanted(l) /\ link[l].status = "registered"
      r == link[l]
  IN  [link EXCEPT ![l] =
         [r EXCEPT !.ping = FALSE,
                   !.ctl = IF r.ctl = k THEN None ELSE r.ctl,
                   !.status = IF retry THEN "offline" ELSE r.status,
                   !.timer = r.timer \/ retry]]

\* fail(): runs for the error and again for the close of a socket.
AfterFail(k) ==
  LET l == conn[k].link
      retry == link[l].ctl = k /\ Wanted(l)
      r == link[l]
  IN  [link EXCEPT ![l] =
         [r EXCEPT !.ping = FALSE,
                   !.ctl = IF r.ctl = k THEN None ELSE r.ctl,
                   !.status = IF retry THEN "offline" ELSE r.status,
                   !.timer = r.timer \/ retry]]

SocketError(k) ==
  /\ conn[k].host = "up"
  /\ conn' = [conn EXCEPT ![k].host = "failing"]
  /\ link' = AfterFail(k)
  /\ UNCHANGED <<cert, relayVars, callVars>>

SocketClose(k) ==
  /\ conn[k].host \in {"up", "failing"}
  /\ conn' = [conn EXCEPT ![k] = Freed([@ EXCEPT !.host = "closed", !.down = <<>>])]
  /\ link' = AfterFail(k)
  /\ UNCHANGED <<cert, relayVars, callVars>>

\* The close event of a socket comes in the same turn of the event loop or
\* the next, long before the shortest backoff (1 s) is over.
RetryTimer(l) ==
  /\ link[l].timer
  /\ \A k \in Conns : conn[k].link = l => conn[k].host # "failing"
  /\ link' = [link EXCEPT ![l] = [@ EXCEPT !.timer = FALSE, !.opening = TRUE,
                                           !.status = "connecting"]]
  /\ UNCHANGED <<conn, cert, relayVars, callVars>>

\* The next frame: "registered", an error (the socket is destroyed), or a
\* call to dial back for.
Receive(k) ==
  /\ conn[k].host = "up"
  /\ conn[k].down # <<>>
  /\ LET frame == Head(conn[k].down)
         l == conn[k].link
     IN  /\ conn' = [conn EXCEPT ![k].down = Tail(@),
                                 ![k].host = IF frame = "error" THEN "failing" ELSE @]
         /\ link' = [link EXCEPT ![l].status =
                       CASE frame = "registered" -> "registered"
                         [] frame = "error" -> "offline"
                         [] OTHER -> @]
         /\ callback' = IF frame \in Calls THEN [callback EXCEPT ![frame] = "connecting"]
                                           ELSE callback
  /\ UNCHANGED <<cert, relayVars, call>>

\* The host gets a new certificate (PeerStore.rotateTls); a link reads it, through
\* fingerprint(), when it registers next.  The daemon's links keep reading the
\* certificate the daemon started with: for them this comes with a restart.
RotateCert(p) ==
  /\ cert' \in {[cert EXCEPT ![p] = c] : c \in Certs \ {cert[p]}}
  /\ UNCHANGED <<link, conn, relayVars, callVars>>

-----------------------------------------------------------------------------
(* RelayServer: registrations.                                             *)

\* The relay's end of a connection that is replaced by registration k of p.
Replaced(p, k) ==
  [i \in Conns |-> IF i = hosts[p] THEN [conn[i] EXCEPT !.relay = "destroyed"]
                   ELSE IF i = k THEN [conn[k] EXCEPT !.relay = "registered",
                                                      !.down = Down(conn[k], "registered")]
                   ELSE conn[i]]

\* authHost(): the first registration of a peer binds its token, on disk too.
Authorized(p, token) == bound[p] \in {NoToken, token}

\* Mutant: the table keeps the link instead of its connection.
registerStoresLink(k) ==
  /\ conn[k].relay = "fresh"
  /\ LET p == PeerOf[conn[k].link]
         token == link[conn[k].link].token
     IN  /\ Authorized(p, token)
         /\ bound' = [bound EXCEPT ![p] = token]
         /\ saved' = bound'
         /\ hosts' = [hosts EXCEPT ![p] = conn[k].link]
         /\ conn' = Replaced(p, k)
  /\ UNCHANGED <<link, cert, callVars, restarts>>

\* The relay reads a register frame.  The last registration wins.
register(k) ==
  /\ conn[k].relay = "fresh"
  /\ LET p == PeerOf[conn[k].link]
         token == link[conn[k].link].token
     IN  \/ /\ Authorized(p, token)
            /\ bound' = [bound EXCEPT ![p] = token]
            /\ saved' = IF bound[p] = NoToken THEN bound' ELSE saved
            /\ hosts' = [hosts EXCEPT ![p] = k]
            /\ conn' = Replaced(p, k)
         \/ /\ ~Authorized(p, token)
            /\ conn' = [conn EXCEPT ![k].relay = "ended", ![k].down = Down(conn[k], "error")]
            /\ UNCHANGED <<hosts, bound, saved>>
  /\ UNCHANGED <<link, cert, callVars, restarts>>

\* Mutant: the close handler deletes whatever is registered for the peer.
RelayCloseUnguarded(k) ==
  /\ conn[k].relay # "closed"
  /\ conn' = [conn EXCEPT ![k] = Freed([@ EXCEPT !.relay = "closed"])]
  /\ hosts' = IF conn[k].relay \in {"registered", "destroyed"}
              THEN [hosts EXCEPT ![PeerOf[conn[k].link]] = None] ELSE hosts
  /\ UNCHANGED <<hostVars, bound, saved, restarts, callVars>>

\* The relay learns that a connection is over, and forgets the registration
\* if it still is this connection's.
RelayClose(k) ==
  /\ conn[k].relay # "closed"
  /\ conn' = [conn EXCEPT ![k] = Freed([@ EXCEPT !.relay = "closed"])]
  /\ hosts' = [p \in Peers |-> IF hosts[p] = k THEN None ELSE hosts[p]]
  /\ UNCHANGED <<hostVars, bound, saved, restarts, callVars>>

\* gitgud-relay forget: edits the file, whether or not the relay runs.
forget(p) ==
  /\ saved[p] # NoToken
  /\ saved' = [saved EXCEPT ![p] = NoToken]
  /\ UNCHANGED <<hostVars, conn, hosts, bound, restarts, callVars>>

-----------------------------------------------------------------------------
(* A call: the caller, the relay, and the host's dial back.                *)

\* relayDial(): `pin` is the certificate the caller pinned when it paired.
relayDial(c, p, pin) ==
  /\ call[c].client = "idle"
  /\ call' = [call EXCEPT ![c] = [@ EXCEPT !.client = "asking", !.peer = p, !.cert = pin]]
  /\ UNCHANGED <<hostVars, conn, relayVars, callback>>

\* Mutant: the relay does not compare the certificate hashes.
connectClientAnyCert(c) ==
  /\ call[c].client # "idle" /\ call[c].relay = "none"
  /\ hosts[call[c].peer] # None
  /\ conn' = [conn EXCEPT ![hosts[call[c].peer]].down = Down(conn[hosts[call[c].peer]], c)]
  /\ call' = [call EXCEPT ![c] = [@ EXCEPT !.relay = "pending",
                                           !.via = conn[hosts[call[c].peer]].link]]
  /\ UNCHANGED <<hostVars, relayVars, callback>>

\* The relay reads the connect frame.
connectClient(c) ==
  /\ call[c].client # "idle" /\ call[c].relay = "none"
  /\ LET k == hosts[call[c].peer] IN
     IF k = None \/ conn[k].cert # call[c].cert
     THEN /\ call' = [call EXCEPT ![c] = [@ EXCEPT !.relay = "over", !.answer = "error"]]
          /\ UNCHANGED conn
     ELSE /\ call' = [call EXCEPT ![c] = [@ EXCEPT !.relay = "pending", !.via = conn[k].link]]
          /\ conn' = [conn EXCEPT ![k].down = Down(conn[k], c)]
  /\ UNCHANGED <<hostVars, relayVars, callback>>

\* The host did not dial back within RELAY_ACCEPT_TIMEOUT_MS.
acceptTimesOut(c) ==
  /\ call[c].relay = "pending"
  /\ call' = [call EXCEPT ![c] = [@ EXCEPT !.relay = "over", !.answer = "error"]]
  /\ UNCHANGED <<hostVars, conn, relayVars, callback>>

\* The caller's socket closes while the call is pending.
ClientGone(c) ==
  /\ call[c].client = "failed" /\ call[c].relay = "pending"
  /\ call' = [call EXCEPT ![c].relay = "over"]
  /\ UNCHANGED <<hostVars, conn, relayVars, callback>>

\* accept(): connectRelay() ends, then the accept frame is written.
accept(c) ==
  /\ callback[c] = "connecting"
  /\ callback' \in {[callback EXCEPT ![c] = "sent"], [callback EXCEPT ![c] = "dropped"]}
  /\ UNCHANGED <<hostVars, conn, relayVars, call>>

\* Mutant: the relay joins a call that is not pending any more.
acceptHostLate(c) ==
  /\ callback[c] = "sent"
  /\ call' = [call EXCEPT ![c] = [@ EXCEPT !.relay = "joined", !.answer = "ok"]]
  /\ callback' = [callback EXCEPT ![c] = "ok"]
  /\ UNCHANGED <<hostVars, conn, relayVars>>

\* The relay reads the accept frame and joins the two sockets, if the call is
\* still pending and the token is the one bound to the host.
acceptHost(c) ==
  /\ callback[c] = "sent"
  /\ IF call[c].relay = "pending" /\ bound[call[c].peer] = link[call[c].via].token
     THEN /\ call' = [call EXCEPT ![c] = [@ EXCEPT !.relay = "joined", !.answer = "ok"]]
          /\ callback' = [callback EXCEPT ![c] = "ok"]
     ELSE /\ callback' = [callback EXCEPT ![c] = "dropped"]
          /\ UNCHANGED call
  /\ UNCHANGED <<hostVars, conn, relayVars>>

\* The host reads "ok" and hands the socket to its https server.
onSocket(c) ==
  /\ callback[c] = "ok"
  /\ callback' = [callback EXCEPT ![c] = "serving"]
  /\ UNCHANGED <<hostVars, conn, relayVars, call>>

\* readFrames() on the host's side times out, or its socket breaks.
AcceptAbandoned(c) ==
  /\ callback[c] \in {"sent", "ok"}
  /\ callback' = [callback EXCEPT ![c] = "dropped"]
  /\ UNCHANGED <<hostVars, conn, relayVars, call>>

DialAnswered(c) ==
  /\ call[c].client = "asking" /\ call[c].answer # "none"
  /\ call' = [call EXCEPT ![c].client = IF call[c].answer = "ok" THEN "spliced" ELSE "failed"]
  /\ UNCHANGED <<hostVars, conn, relayVars, callback>>

\* The dial times out (accept timeout + 5 s), or its socket breaks.
DialAbandoned(c) ==
  /\ call[c].client = "asking"
  /\ call' = [call EXCEPT ![c].client = "failed"]
  /\ UNCHANGED <<hostVars, conn, relayVars, callback>>

\* The relay stops and comes back: every socket is gone, the bindings are
\* what the file says.
RelayRestart ==
  /\ restarts < MaxRestarts
  /\ restarts' = restarts + 1
  /\ hosts' = [p \in Peers |-> None]
  /\ bound' = saved
  /\ conn' = [k \in Conns |-> Freed([conn[k] EXCEPT !.relay = "closed"])]
  /\ call' = [c \in Calls |->
                IF call[c].client # "idle" /\ call[c].relay \in {"none", "pending"}
                THEN [call[c] EXCEPT !.relay = "over"] ELSE call[c]]
  /\ callback' = [c \in Calls |-> IF callback[c] = "sent" THEN "dropped" ELSE callback[c]]
  /\ UNCHANGED <<link, cert, saved>>

-----------------------------------------------------------------------------
Init ==
  /\ link = [l \in Links |-> [life |-> "new", opening |-> FALSE, ctl |-> None, timer |-> FALSE,
                              ping |-> FALSE, status |-> "offline", token |-> NoToken]]
  /\ conn = [k \in Conns |-> NoConn]
  /\ cert \in [Peers -> Certs]
  /\ hosts = [p \in Peers |-> None]
  /\ bound = [p \in Peers |-> NoToken]
  /\ saved = bound
  /\ call = [c \in Calls |-> NoCall]
  /\ callback = [c \in Calls |-> "none"]
  /\ restarts = 0

\* What users and administrators do.
OwnerNext ==
  \/ \E l \in Links : stop(l) \/ \E t \in Tokens : start(l, t)
  \/ \E p \in Peers : RotateCert(p) \/ forget(p)
  \/ \E c \in Calls, p \in Peers, pin \in Certs : relayDial(c, p, pin)

LinkNext ==
  \/ \E l \in Links : ConnectSucceeds(l) \/ RetryTimer(l)
  \/ \E k \in Conns : Receive(k) \/ register(k)

CallNext ==
  \E c \in Calls :
    \/ connectClient(c) \/ acceptTimesOut(c) \/ ClientGone(c) \/ accept(c) \/ acceptHost(c)
    \/ onSocket(c) \/ AcceptAbandoned(c) \/ DialAnswered(c) \/ DialAbandoned(c)

\* Ends of connections: some are the network's doing, some follow from a
\* destroyed socket.
EndNext ==
  \/ \E l \in Links : ConnectFails(l)
  \/ \E k \in Conns : SocketError(k) \/ SocketClose(k) \/ RelayClose(k)
  \/ RelayRestart

Next == OwnerNext \/ LinkNext \/ CallNext \/ EndNext

Spec == Init /\ [][Next]_vars

\* What the timers and the event loops of the three programs guarantee.  A
\* socket whose other end is gone is noticed by the host, which writes to it
\* every RELAY_KEEPALIVE_MS; the relay only answers, and may never notice.
Fairness ==
  /\ \A l \in Links : WF_vars(ConnectSucceeds(l)) /\ WF_vars(RetryTimer(l))
  /\ \A k \in Conns :
       /\ WF_vars(Receive(k))
       /\ WF_vars(register(k))
       /\ WF_vars(conn[k].host = "failing" /\ SocketClose(k))
       /\ WF_vars(conn[k].relay = "closed" /\ SocketClose(k))
       /\ WF_vars(conn[k].relay \in {"ended", "destroyed"} /\ RelayClose(k))

FairSpec == Spec /\ Fairness

-----------------------------------------------------------------------------
(* Properties.                                                             *)

TypeOK ==
  /\ link \in [Links -> Link]
  /\ conn \in [Conns -> Conn]
  /\ cert \in [Peers -> Certs]
  /\ hosts \in [Peers -> Conns \cup {None}]
  /\ bound \in [Peers -> Tokens \cup {NoToken}]
  /\ saved \in [Peers -> Tokens \cup {NoToken}]
  /\ call \in [Calls -> Call]
  /\ callback \in [Calls -> Callback]
  /\ restarts \in 0 .. MaxRestarts

\* A wanted link is always on exactly one way to a registration: connecting,
\* connected, or waiting for its one retry timer.  A second way would be a
\* second control connection, none would be a host nobody can reach again.
OneWayToRegister ==
  \A l \in Links :
    /\ Wanted(l) => (link[l].opening \/ link[l].timer \/ link[l].ctl # None)
    /\ ~(link[l].opening /\ link[l].timer)
    /\ link[l].ctl # None => ~link[l].opening /\ ~link[l].timer

\* A link pings exactly as long as it holds a socket: no interval is left
\* behind by a replaced socket, and none is taken from its successor.
PingsItsSocket == \A l \in Links : link[l].ping <=> link[l].ctl # None

\* The relay has at most one live registration per peer, and the table names
\* it: the end of a replaced connection never takes the new one's entry away.
TableNamesTheLive ==
  /\ \A p \in Peers : hosts[p] # None =>
       conn[hosts[p]].relay = "registered" /\ PeerOf[conn[hosts[p]].link] = p
  /\ \A k \in Conns : conn[k].relay = "registered" => hosts[PeerOf[conn[k].link]] = k

\* A call on its way to a host goes to a link of the peer it asked for, and
\* that link registered under the certificate the caller has pinned.
AnnouncedToThePinnedHost ==
  \A k \in Conns : \A i \in DOMAIN conn[k].down :
    LET c == conn[k].down[i] IN
    c \in Calls => /\ PeerOf[conn[k].link] = call[c].peer
                   /\ conn[k].cert = call[c].cert

\* What the properties above rest on.  A link has one socket that is not
\* closed, and none while it connects: SocketClose comes before RetryTimer.
OneSocket ==
  \A l \in Links :
    /\ link[l].life = "new" => /\ ~link[l].opening /\ ~link[l].timer /\ link[l].ctl = None
                               /\ \A k \in Conns : conn[k].link # l
    /\ link[l].ctl # None =>
         conn[link[l].ctl].link = l /\ conn[link[l].ctl].host # "closed"
    /\ \A k \in Conns : conn[k].link = l /\ conn[k].host # "closed" =>
         /\ ~link[l].opening
         /\ link[l].ctl = k \/ (conn[k].host = "failing" /\ link[l].ctl = None)

\* A call is announced once, and the host dials back for it once.
AnnouncedOnce ==
  \A k \in Conns : \A i \in DOMAIN conn[k].down :
    LET c == conn[k].down[i] IN
    c \in Calls =>
      /\ call[c].relay # "none" /\ callback[c] = "none"
      /\ \A m \in Conns : \A j \in DOMAIN conn[m].down :
           conn[m].down[j] = c => m = k /\ j = i

\* Both ends of a call learn of a match only if the relay has made it, and the
\* relay makes it with a link of the peer that was asked for.
MatchesAreMade ==
  \A c \in Calls :
    /\ call[c].relay = "none" => callback[c] = "none"
    /\ call[c].relay \in {"pending", "joined"} =>
         call[c].via \in Links /\ PeerOf[call[c].via] = call[c].peer
    /\ callback[c] \in {"ok", "serving"} => call[c].relay = "joined"
    /\ call[c].answer = "ok" \/ call[c].client = "spliced" => call[c].relay = "joined"

\* The relay keeps its promise to callers and hosts (see Introductions).
CallPhase(c) ==
  CASE call[c].client = "idle" -> "new"
    [] call[c].client # "idle" /\ call[c].relay \in {"none", "pending"} -> "asked"
    [] call[c].relay = "joined" -> "matched"
    [] call[c].relay = "over" -> "refused"

Promise == INSTANCE Introductions WITH
  Parties <- Links,
  Nobody <- None,
  phase <- [c \in Calls |-> CallPhase(c)],
  wanted <- [c \in Calls |-> call[c].peer],
  party <- [c \in Calls |-> IF call[c].relay = "joined" THEN call[c].via ELSE None],
  told <- [c \in Calls |-> (IF call[c].client = "spliced" THEN {"caller"} ELSE {})
                           \cup (IF callback[c] = "serving" THEN {"host"} ELSE {})]

KeepsThePromise == Promise!Spec

\* Failures of the network or of the relay.
Healthy(k) == conn[k].host = "up" /\ conn[k].relay \in {"fresh", "registered"}

NetworkFailure ==
  \/ \E l \in Links : ConnectFails(l)
  \/ \E k \in Conns : Healthy(k) /\ (SocketError(k) \/ SocketClose(k) \/ RelayClose(k))
  \/ RelayRestart

\* Once the network holds and nobody touches the links any more, a wanted link
\* whose token is the bound one ends up registered, and stays so; a link that
\* was stopped while it was connecting cannot keep it out for ever.
Registers ==
  <>[][~NetworkFailure /\ ~OwnerNext]_vars
    => <>[](\A l \in Links : Wanted(l) /\ Authorized(PeerOf[l], link[l].token)
               => link[l].status = "registered" /\ hosts[PeerOf[l]] = link[l].ctl)

-----------------------------------------------------------------------------
(* What the documents say, and the code does not do.                       *)

\* docs/relay.md:59 "The host keeps one outbound connection registered".
OneConnectionPerHost ==
  \A l1, l2 \in Links :
    l1 # l2 /\ PeerOf[l1] = PeerOf[l2] => link[l1].ctl = None \/ link[l2].ctl = None

\* relay/main.ts:22 "`gitgud-relay tokens` lists / `gitgud-relay forget <peerId>`
\* unbinds": a binding the relay applies is one the file lists.
ForgetUnbinds == \A p \in Peers : bound[p] # NoToken => saved[p] = bound[p]

=============================================================================
