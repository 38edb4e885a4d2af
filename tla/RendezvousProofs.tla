--------------------------- MODULE RendezvousProofs ---------------------------
(***************************************************************************)
(* Proofs about Rendezvous, for any number of links, connections, calls,   *)
(* peers, tokens and certificates: first its control connections and the   *)
(* table, then its calls, whom a call is announced to, and that the relay, *)
(* callers and hosts together implement Introductions.                     *)
(***************************************************************************)
EXTENDS Rendezvous, TLAPS

\* A connection that is open at one end at least has a link.
LEMMA SocketInUse ==
  ASSUME TypeOK, NEW k \in Conns, conn[k].host # "closed" \/ conn[k].relay # "closed"
  PROVE  conn[k] \in Socket /\ conn[k].link \in Links
  BY DEF TypeOK, Conn, NoConn, Socket

\* A call the caller has made names a peer.
LEMMA CallInUse ==
  ASSUME TypeOK, NEW c \in Calls, call[c].client # "idle" \/ call[c].relay # "none"
  PROVE  call[c] \in Dial /\ call[c].peer \in Peers
  BY DEF TypeOK, Call, NoCall, Dial

\* What happens to a socket leaves it one.
LEMMA HostEnd ==
  ASSUME NEW r \in Socket, NEW h \in {"up", "failing", "closed"}
  PROVE  /\ [r EXCEPT !.host = h] \in Socket
         /\ [r EXCEPT !.host = h, !.down = <<>>] \in Socket
<1>1. [r EXCEPT !.host = h] \in Socket
  BY DEF Socket
<1>2. ASSUME NEW d \in Seq(Frame)
      PROVE  [r EXCEPT !.host = h, !.down = d] \in Socket
  BY DEF Socket
<1>3. <<>> \in Seq(Frame)
  OBVIOUS
<1>4. QED
  BY <1>1, <1>2, <1>3

\* The relay's end may move too,
LEMMA RelayEnd ==
  ASSUME NEW r \in Socket,
         NEW e \in {"fresh", "registered", "ended", "destroyed", "closed"}
  PROVE  [r EXCEPT !.relay = e] \in Socket
  BY DEF Socket

\* and frames may be written,
LEMMA Written ==
  ASSUME NEW r \in Socket, NEW d \in Seq(Frame),
         NEW e \in {"fresh", "registered", "ended", "destroyed", "closed"}
  PROVE  /\ [r EXCEPT !.relay = e, !.down = d] \in Socket
         /\ [r EXCEPT !.down = d] \in Socket
  BY DEF Socket

\* each of which extends a sequence of frames,
LEMMA DownType ==
  ASSUME NEW r \in Socket, NEW frame \in Frame
  PROVE  Down(r, frame) \in Seq(Frame)
  BY DEF Down, Socket

\* or read.
LEMMA ReadType ==
  ASSUME NEW r \in Socket, r.down # <<>>, NEW h \in {"up", "failing", "closed"}
  PROVE  /\ Head(r.down) \in Frame
         /\ [r EXCEPT !.down = Tail(@), !.host = h] \in Socket
<1>1. Head(r.down) \in Frame /\ Tail(r.down) \in Seq(Frame)
  BY DEF Socket
<1>2. \A d \in Seq(Frame) : [r EXCEPT !.down = d, !.host = h] \in Socket
  BY DEF Socket
<1>3. QED
  BY <1>1, <1>2

\* Giving a slot back leaves a connection or none.
LEMMA FreedType ==
  ASSUME NEW r \in Conn
  PROVE  Freed(r) \in Conn
  BY DEF Freed, Conn

\* fail() leaves a link a link.
LEMMA AfterFailType ==
  ASSUME TypeOK, NEW k \in Conns
  PROVE  AfterFail(k) \in [Links -> Link]
<1> DEFINE l == conn[k].link
           retry == link[l].ctl = k /\ Wanted(l)
<1> SUFFICES ASSUME NEW m \in Links
             PROVE  AfterFail(k) = [AfterFail(k) EXCEPT ![m] = @] /\ AfterFail(k)[m] \in Link
  BY DEF AfterFail, TypeOK
<1>1. CASE m # l
  BY <1>1 DEF AfterFail, TypeOK
<1>2. CASE m = l
  <2> DEFINE r == link[m]
             u == IF r.ctl = k THEN None ELSE r.ctl
             s == IF retry THEN "offline" ELSE r.status
             b == r.timer \/ retry
  <2>1. r \in Link
    BY DEF TypeOK
  <2>2. b \in BOOLEAN
    BY <2>1 DEF Link, Wanted
  <2>3. u \in Conns \cup {None} /\ s \in LinkStatus
    BY <2>1 DEF Link, LinkStatus
  <2>4. AfterFail(k) = [link EXCEPT ![l] =
          [r EXCEPT !.ping = FALSE, !.ctl = u, !.status = s, !.timer = b]]
    BY <1>2 DEF AfterFail
  <2> HIDE DEF r, u, s, b
  <2>5. [r EXCEPT !.ping = FALSE, !.ctl = u, !.status = s, !.timer = b] \in Link
    BY <2>1, <2>2, <2>3 DEF Link
  <2>6. AfterFail(k)[m] \in Link
    BY <1>2, <2>4, <2>5 DEF TypeOK
  <2>7. QED
    BY <2>6 DEF AfterFail, TypeOK
<1>3. QED
  BY <1>1, <1>2

\* So do the other moves of a link.
LEMMA LinkMoves ==
  ASSUME NEW r \in Link, NEW s \in LinkStatus
  PROVE  /\ \A t \in Tokens :
              [r EXCEPT !.life = "wanted", !.opening = TRUE, !.status = s, !.token = t] \in Link
         /\ [r EXCEPT !.life = "stopped", !.timer = FALSE, !.ping = FALSE, !.ctl = None,
                      !.status = s] \in Link
         /\ \A k \in Conns : [r EXCEPT !.opening = FALSE, !.ctl = k, !.ping = TRUE] \in Link
         /\ \A b \in BOOLEAN : [r EXCEPT !.opening = FALSE, !.status = s, !.timer = b] \in Link
         /\ [r EXCEPT !.timer = FALSE, !.opening = TRUE, !.status = s] \in Link
         /\ [r EXCEPT !.status = s] \in Link
<1>1. ASSUME NEW t \in Tokens
      PROVE  [r EXCEPT !.life = "wanted", !.opening = TRUE, !.status = s, !.token = t] \in Link
  BY DEF Link
<1>2. [r EXCEPT !.life = "stopped", !.timer = FALSE, !.ping = FALSE, !.ctl = None,
                !.status = s] \in Link
  BY DEF Link
<1>3. ASSUME NEW k \in Conns
      PROVE  [r EXCEPT !.opening = FALSE, !.ctl = k, !.ping = TRUE] \in Link
  BY DEF Link
<1>4. ASSUME NEW b \in BOOLEAN
      PROVE  [r EXCEPT !.opening = FALSE, !.status = s, !.timer = b] \in Link
  BY DEF Link
<1>5. /\ [r EXCEPT !.timer = FALSE, !.opening = TRUE, !.status = s] \in Link
      /\ [r EXCEPT !.status = s] \in Link
  BY DEF Link
<1>6. QED
  BY <1>1, <1>2, <1>3, <1>4, <1>5

\* And the moves of a call.
LEMMA DialBegins ==
  ASSUME NEW p \in Peers, NEW pin \in Certs
  PROVE  [NoCall EXCEPT !.client = "asking", !.peer = p, !.cert = pin] \in Dial
  BY DEF NoCall, Dial

\* Every later move of a call leaves it one.
LEMMA DialMoves ==
  ASSUME NEW r \in Dial, NEW v \in Links \cup {None}
  PROVE  /\ [r EXCEPT !.relay = "over", !.answer = "error"] \in Dial
         /\ [r EXCEPT !.relay = "pending", !.via = v] \in Dial
         /\ [r EXCEPT !.relay = "joined", !.answer = "ok"] \in Dial
         /\ [r EXCEPT !.relay = "over"] \in Dial
         /\ [r EXCEPT !.client = "spliced"] \in Dial
         /\ [r EXCEPT !.client = "failed"] \in Dial
<1>1. /\ [r EXCEPT !.relay = "over", !.answer = "error"] \in Dial
      /\ [r EXCEPT !.relay = "pending", !.via = v] \in Dial
      /\ [r EXCEPT !.relay = "joined", !.answer = "ok"] \in Dial
  BY DEF Dial
<1>2. /\ [r EXCEPT !.relay = "over"] \in Dial
      /\ [r EXCEPT !.client = "spliced"] \in Dial
      /\ [r EXCEPT !.client = "failed"] \in Dial
  BY DEF Dial
<1>3. QED
  BY <1>1, <1>2

-----------------------------------------------------------------------------
(* Type correctness: one step per action.                                  *)

\* Every action preserves the types; that a link's socket and the table's
\* entries are connections in use is what the other invariants contribute.
LEMMA TypeStep == TypeOK /\ OneSocket /\ TableNamesTheLive /\ [Next]_vars => TypeOK'
<1> SUFFICES ASSUME TypeOK, OneSocket, TableNamesTheLive, [Next]_vars
             PROVE  TypeOK'
  OBVIOUS
<1> USE DEF hostVars, relayVars, callVars
<1>0. /\ \A l \in Links : link[l] \in Link
      /\ \A k \in Conns : conn[k] \in Conn
      /\ \A c \in Calls : call[c] \in Call
  BY DEF TypeOK
<1>00. {"offline", "connecting", "registered"} \subseteq LinkStatus
  BY DEF LinkStatus
<1>1. ASSUME NEW l \in Links, NEW t \in Tokens, start(l, t)
      PROVE  TypeOK'
  <2>1. link' \in [Links -> Link]
    BY <1>1, <1>0, <1>00, LinkMoves DEF start, TypeOK
  <2>2. QED
    BY <1>1, <2>1 DEF start, TypeOK
<1>2. ASSUME NEW l \in Links, stop(l)
      PROVE  TypeOK'
  <2>1. link' \in [Links -> Link]
    BY <1>2, <1>0, <1>00, LinkMoves DEF stop, TypeOK
  <2>2. ASSUME NEW k \in Conns, k = link[l].ctl
        PROVE  [conn[k] EXCEPT !.host = "failing"] \in Conn
    <3>1. link[l].ctl # None
      BY <2>2, FreshAssumption
    <3>2. conn[k] \in Socket
      BY <2>2, <3>1, SocketInUse DEF OneSocket
    <3>3. QED
      BY <3>2, HostEnd DEF Conn
  <2>3. conn' \in [Conns -> Conn]
    BY <1>2, <1>0, <2>2 DEF stop
  <2>4. QED
    BY <1>2, <2>1, <2>3 DEF stop, TypeOK
<1>3. ASSUME NEW l \in Links, ConnectSucceeds(l)
      PROVE  TypeOK'
  <2>1. PICK k \in FreeConns :
          /\ conn' = [conn EXCEPT ![k] = [link |-> l, host |-> "up", relay |-> "fresh",
                                          cert |-> cert[PeerOf[l]], down |-> <<>>]]
          /\ link' = [link EXCEPT ![l] = [@ EXCEPT !.opening = FALSE, !.ctl = k, !.ping = TRUE]]
    BY <1>3 DEF ConnectSucceeds
  <2>2. k \in Conns
    BY DEF FreeConns
  <2>3. [link |-> l, host |-> "up", relay |-> "fresh", cert |-> cert[PeerOf[l]], down |-> <<>>]
          \in Socket
    BY PeerOfAssumption DEF TypeOK, Socket
  <2>4. conn' \in [Conns -> Conn]
    BY <2>1, <2>3 DEF TypeOK, Conn
  <2>5. link' \in [Links -> Link]
    BY <2>1, <2>2, <1>0, <1>00, LinkMoves DEF TypeOK
  <2>6. QED
    BY <1>3, <2>4, <2>5 DEF ConnectSucceeds, TypeOK
<1>4. ASSUME NEW l \in Links, ConnectFails(l)
      PROVE  TypeOK'
  <2>1. Wanted(l) \in BOOLEAN
    BY DEF Wanted
  <2>2. link' \in [Links -> Link]
    BY <1>4, <2>1, <1>0, <1>00, LinkMoves DEF ConnectFails, TypeOK
  <2>3. QED
    BY <1>4, <2>2 DEF ConnectFails, TypeOK
<1>5. ASSUME NEW k \in Conns, SocketError(k)
      PROVE  TypeOK'
  <2>1. conn' \in [Conns -> Conn]
    BY <1>5, SocketInUse, HostEnd DEF SocketError, TypeOK, Conn
  <2>2. QED
    BY <1>5, <2>1, AfterFailType DEF SocketError, TypeOK
<1>6. ASSUME NEW k \in Conns, SocketClose(k)
      PROVE  TypeOK'
  <2>1. [conn[k] EXCEPT !.host = "closed", !.down = <<>>] \in Conn
    BY <1>6, SocketInUse, HostEnd DEF SocketClose, Conn
  <2>2. conn' \in [Conns -> Conn]
    BY <1>6, <2>1, FreedType DEF SocketClose, TypeOK
  <2>3. QED
    BY <1>6, <2>2, AfterFailType DEF SocketClose, TypeOK
<1>7. ASSUME NEW l \in Links, RetryTimer(l)
      PROVE  TypeOK'
  <2>1. link' \in [Links -> Link]
    BY <1>7, <1>0, <1>00, LinkMoves DEF RetryTimer, TypeOK
  <2>2. QED
    BY <1>7, <2>1 DEF RetryTimer, TypeOK
<1>8. ASSUME NEW k \in Conns, Receive(k)
      PROVE  TypeOK'
  <2> DEFINE frame == Head(conn[k].down)
             l == conn[k].link
  <2>1. conn[k] \in Socket /\ l \in Links /\ conn[k].down # <<>>
    BY <1>8, SocketInUse DEF Receive
  <2>2. conn' \in [Conns -> Conn]
    <3>1. PICK h \in {"up", "failing"} :
            conn' = [conn EXCEPT ![k] = [conn[k] EXCEPT !.down = Tail(@), !.host = h]]
      BY <1>8 DEF Receive
    <3>2. QED
      BY <2>1, <3>1, ReadType DEF TypeOK, Conn
  <2>3. link' \in [Links -> Link]
    <3>1. PICK s \in LinkStatus : link' = [link EXCEPT ![l] = [link[l] EXCEPT !.status = s]]
      <4>1. link[l].status \in LinkStatus
        BY <2>1, <1>0 DEF Link
      <4>2. QED
        BY <1>8, <1>00, <4>1 DEF Receive
    <3>2. QED
      BY <1>0, <2>1, <3>1, LinkMoves DEF TypeOK
  <2>4. callback' \in [Calls -> Callback]
    BY <1>8 DEF Receive, TypeOK, Callback
  <2>5. QED
    BY <1>8, <2>2, <2>3, <2>4 DEF Receive, TypeOK
<1>9. ASSUME NEW p \in Peers, RotateCert(p)
      PROVE  TypeOK'
  BY <1>9 DEF RotateCert, TypeOK
<1>10. ASSUME NEW k \in Conns, register(k)
       PROVE  TypeOK'
  <2> DEFINE p == PeerOf[conn[k].link]
             token == link[conn[k].link].token
  <2>1. conn[k] \in Socket /\ conn[k].link \in Links
    BY <1>10, SocketInUse DEF register
  <2>2. p \in Peers /\ token \in Tokens \cup {NoToken}
    BY <2>1, <1>0, PeerOfAssumption DEF Link
  <2>3. /\ Down(conn[k], "registered") \in Seq(Frame)
        /\ Down(conn[k], "error") \in Seq(Frame)
    BY <2>1, DownType DEF Frame
  <2>4. CASE Authorized(p, token)
    <3>1. ASSUME NEW i \in Conns
          PROVE  Replaced(p, k)[i] \in Conn
      <4>1. CASE i = hosts[p]
        <5>1. [conn[i] EXCEPT !.relay = "destroyed"] \in Conn
          <6>1. conn[i].relay = "registered"
            BY <4>1, <2>2, FreshAssumption DEF TableNamesTheLive
          <6>2. QED
            BY <6>1, SocketInUse, RelayEnd DEF Conn
        <5>2. QED
          BY <4>1, <5>1 DEF Replaced
      <4>2. CASE i # hosts[p]
        <5>1. [conn[k] EXCEPT !.relay = "registered", !.down = Down(conn[k], "registered")]
                \in Conn
          BY <2>1, <2>3, Written DEF Conn
        <5>2. QED
          BY <1>0, <4>2, <5>1 DEF Replaced
      <4>3. QED
        BY <4>1, <4>2
    <3>2. conn' = Replaced(p, k)
      BY <1>10, <2>4 DEF register
    <3>3. conn' \in [Conns -> Conn]
      BY <3>1, <3>2 DEF Replaced
    <3>4. /\ bound' \in [Peers -> Tokens \cup {NoToken}]
          /\ saved' \in [Peers -> Tokens \cup {NoToken}]
          /\ hosts' \in [Peers -> Conns \cup {None}]
      BY <1>10, <2>2, <2>4 DEF register, TypeOK
    <3>5. QED
      BY <1>10, <3>3, <3>4 DEF register, TypeOK
  <2>5. CASE ~Authorized(p, token)
    <3>1. conn' \in [Conns -> Conn]
      <4>1. conn' = [conn EXCEPT ![k] =
               [conn[k] EXCEPT !.relay = "ended", !.down = Down(conn[k], "error")]]
        BY <1>10, <2>5 DEF register
      <4>2. [conn[k] EXCEPT !.relay = "ended", !.down = Down(conn[k], "error")] \in Socket
        BY <2>1, <2>3, Written
      <4>3. QED
        BY <4>1, <4>2 DEF TypeOK, Conn
    <3>2. QED
      BY <1>10, <2>5, <3>1 DEF register, TypeOK
  <2>6. QED
    BY <2>4, <2>5
<1>11. ASSUME NEW k \in Conns, RelayClose(k)
       PROVE  TypeOK'
  <2>1. [conn[k] EXCEPT !.relay = "closed"] \in Conn
    BY <1>11, SocketInUse, RelayEnd DEF RelayClose, Conn
  <2>2. conn' \in [Conns -> Conn]
    BY <1>11, <2>1, FreedType DEF RelayClose, TypeOK
  <2>3. QED
    BY <1>11, <2>2 DEF RelayClose, TypeOK
<1>12. ASSUME NEW p \in Peers, forget(p)
       PROVE  TypeOK'
  BY <1>12 DEF forget, TypeOK
<1>13. ASSUME NEW c \in Calls, NEW p \in Peers, NEW pin \in Certs, relayDial(c, p, pin)
       PROVE  TypeOK'
  <2>1. [call[c] EXCEPT !.client = "asking", !.peer = p, !.cert = pin] \in Dial
    <3>1. call[c] = NoCall
      BY <1>13, <1>0 DEF relayDial, Call, Dial
    <3>2. QED
      BY <3>1, DialBegins
  <2>2. QED
    BY <1>13, <2>1 DEF relayDial, TypeOK, Call
<1>14. ASSUME NEW c \in Calls, connectClient(c)
       PROVE  TypeOK'
  <2> DEFINE k == hosts[call[c].peer]
  <2>1. call[c] \in Dial /\ k \in Conns \cup {None}
    BY <1>14, CallInUse DEF connectClient, TypeOK
  <2>2. CASE k = None \/ conn[k].cert # call[c].cert
    <3>1. [call[c] EXCEPT !.relay = "over", !.answer = "error"] \in Dial
      BY <2>1, DialMoves
    <3>2. QED
      BY <1>14, <2>2, <3>1 DEF connectClient, TypeOK, Call
  <2>3. CASE k # None /\ conn[k].cert = call[c].cert
    <3>1. k \in Conns /\ conn[k].link \in Links \cup {None}
      BY <1>0, <2>1, <2>3 DEF Conn, NoConn, Socket
    <3>2. [call[c] EXCEPT !.relay = "pending", !.via = conn[k].link] \in Dial
      BY <2>1, <3>1, DialMoves
    <3>3. [conn[k] EXCEPT !.down = Down(conn[k], c)] \in Conn
      <4>1. CASE conn[k] \in Socket
        BY <4>1, DownType, Written DEF Frame, Conn
      <4>2. CASE conn[k] = NoConn
        BY <4>2 DEF Down, NoConn, Conn
      <4>3. QED
        BY <1>0, <3>1, <4>1, <4>2 DEF Conn
    <3>4. /\ call' = [call EXCEPT ![c] = [call[c] EXCEPT !.relay = "pending", !.via = conn[k].link]]
          /\ conn' = [conn EXCEPT ![k] = [conn[k] EXCEPT !.down = Down(conn[k], c)]]
      BY <1>14, <2>3 DEF connectClient
    <3> HIDE DEF k
    <3>5. QED
      BY <1>14, <3>1, <3>2, <3>3, <3>4 DEF connectClient, TypeOK, Call, Conn
  <2>4. QED
    BY <2>2, <2>3
<1>15. ASSUME NEW c \in Calls, acceptTimesOut(c) \/ ClientGone(c)
       PROVE  TypeOK'
  <2>1. call[c] \in Dial
    BY <1>15, CallInUse DEF acceptTimesOut, ClientGone
  <2>2. call' \in [Calls -> Call]
    BY <1>15, <2>1, DialMoves DEF acceptTimesOut, ClientGone, TypeOK, Call
  <2>3. QED
    BY <1>15, <2>2 DEF acceptTimesOut, ClientGone, TypeOK
<1>16. ASSUME NEW c \in Calls, accept(c) \/ onSocket(c) \/ AcceptAbandoned(c)
       PROVE  TypeOK'
  <2>1. callback' \in [Calls -> Callback]
    BY <1>16 DEF accept, onSocket, AcceptAbandoned, TypeOK, Callback
  <2>2. QED
    BY <1>16, <2>1 DEF accept, onSocket, AcceptAbandoned, TypeOK
<1>17. ASSUME NEW c \in Calls, acceptHost(c)
       PROVE  TypeOK'
  <2>1. call' \in [Calls -> Call]
    <3>1. CASE call[c].relay = "pending"
      <4>1. [call[c] EXCEPT !.relay = "joined", !.answer = "ok"] \in Call
        BY <3>1, CallInUse, DialMoves DEF Call
      <4>2. QED
        BY <1>17, <4>1 DEF acceptHost, TypeOK
    <3>2. CASE call[c].relay # "pending"
      BY <1>17, <3>2 DEF acceptHost, TypeOK
    <3>3. QED
      BY <3>1, <3>2
  <2>2. callback' \in [Calls -> Callback]
    BY <1>17 DEF acceptHost, TypeOK, Callback
  <2>3. QED
    BY <1>17, <2>1, <2>2 DEF acceptHost, TypeOK
<1>18. ASSUME NEW c \in Calls, DialAnswered(c) \/ DialAbandoned(c)
       PROVE  TypeOK'
  <2>1. call[c] \in Dial
    BY <1>18, CallInUse DEF DialAnswered, DialAbandoned
  <2>2. call' \in [Calls -> Call]
    BY <1>18, <2>1, DialMoves DEF DialAnswered, DialAbandoned, TypeOK, Call
  <2>3. QED
    BY <1>18, <2>2 DEF DialAnswered, DialAbandoned, TypeOK
<1>19. CASE RelayRestart
  <2>1. ASSUME NEW k \in Conns
        PROVE  Freed([conn[k] EXCEPT !.relay = "closed"]) \in Conn
    <3>1. [conn[k] EXCEPT !.relay = "closed"] \in Conn
      <4>1. CASE conn[k] \in Socket
        BY <4>1, RelayEnd DEF Conn
      <4>2. CASE conn[k] = NoConn
        BY <4>2 DEF NoConn, Conn
      <4>3. QED
        BY <1>0, <4>1, <4>2 DEF Conn
    <3>2. QED
      BY <3>1, FreedType
  <2>2. ASSUME NEW c \in Calls
        PROVE  call'[c] \in Call
    BY <1>19, <1>0, CallInUse, DialMoves DEF RelayRestart, Call
  <2>3. conn' \in [Conns -> Conn] /\ call' \in [Calls -> Call]
    BY <1>19, <2>1, <2>2 DEF RelayRestart
  <2>4. callback' \in [Calls -> Callback] /\ restarts' \in 0 .. MaxRestarts
    BY <1>19, RestartsAssumption DEF RelayRestart, TypeOK, Callback
  <2>5. QED
    BY <1>19, <2>3, <2>4 DEF RelayRestart, TypeOK
<1>20. CASE UNCHANGED vars
  BY <1>20 DEF vars, TypeOK
<1>21. QED
  BY <1>1, <1>2, <1>3, <1>4, <1>5, <1>6, <1>7, <1>8, <1>9, <1>10, <1>11, <1>12, <1>13, <1>14,
     <1>15, <1>16, <1>17, <1>18, <1>19, <1>20
     DEF Next, OwnerNext, LinkNext, CallNext, EndNext

-----------------------------------------------------------------------------
(* The links: one step per action that changes a link or a host's end.     *)

\* OneSocket, OneWayToRegister and PingsItsSocket, of one link.
LinkOK(l) ==
  /\ link[l].life = "new" => /\ ~link[l].opening /\ ~link[l].timer /\ link[l].ctl = None
                             /\ \A k \in Conns : conn[k].link # l
  /\ link[l].ctl # None =>
       conn[link[l].ctl].link = l /\ conn[link[l].ctl].host # "closed"
  /\ \A k \in Conns : conn[k].link = l /\ conn[k].host # "closed" =>
       /\ ~link[l].opening
       /\ link[l].ctl = k \/ (conn[k].host = "failing" /\ link[l].ctl = None)
  /\ Wanted(l) => (link[l].opening \/ link[l].timer \/ link[l].ctl # None)
  /\ ~(link[l].opening /\ link[l].timer)
  /\ link[l].ctl # None => ~link[l].opening /\ ~link[l].timer
  /\ link[l].ping <=> link[l].ctl # None

LinkInv == \A l \in Links : LinkOK(l)

\* The invariants of links, taken per link, are those of Rendezvous.
LEMMA LinkInvMeans == LinkInv <=> OneSocket /\ OneWayToRegister /\ PingsItsSocket
  BY DEF LinkInv, LinkOK, OneSocket, OneWayToRegister, PingsItsSocket

\* The sockets of link l that are open at the host's end stay as they are.
SameSockets(l) ==
  \A k \in Conns :
    /\ conn'[k].link = l => conn[k].link = l
    /\ conn[k].link = l /\ conn[k].host # "closed" =>
         conn'[k].link = l /\ conn'[k].host = conn[k].host
    /\ conn'[k].link = l /\ conn'[k].host # "closed" => conn'[k].host = conn[k].host

\* A link that neither changes nor loses or gains a socket stays in order.
LEMMA Untouched ==
  ASSUME TypeOK, NEW l \in Links, LinkOK(l), link'[l] = link[l], SameSockets(l)
  PROVE  LinkOK(l)'
<1>1. link[l].ctl \in Conns \cup {None}
  BY DEF TypeOK, Link
<1>2. QED
  BY <1>1 DEF LinkOK, SameSockets, Wanted

\* What fail() does to the fields these invariants are about.
LEMMA AfterFailMeans ==
  ASSUME TypeOK, NEW k \in Conns, conn[k].link \in Links
  PROVE  LET l == conn[k].link
             now == AfterFail(k)
         IN  /\ now[l].life = link[l].life /\ now[l].opening = link[l].opening
             /\ now[l].ping = FALSE
             /\ now[l].ctl = IF link[l].ctl = k THEN None ELSE link[l].ctl
             /\ now[l].timer = (link[l].timer \/ (link[l].ctl = k /\ Wanted(l)))
             /\ \A m \in Links : m # l => now[m] = link[m]
<1> DEFINE l == conn[k].link
<1>1. link \in [Links -> Link] /\ link[l] \in Link
  BY DEF TypeOK
<1>2. QED
  BY <1>1 DEF AfterFail, Link

\* Every action keeps every link in order.
LEMMA LinkStep ==
  TypeOK /\ TypeOK' /\ LinkInv /\ [Next]_vars => LinkInv'
<1> SUFFICES ASSUME TypeOK, TypeOK', LinkInv, [Next]_vars, NEW m \in Links
             PROVE  LinkOK(m)'
  BY DEF LinkInv
<1> USE DEF hostVars, relayVars, callVars
<1>0. /\ LinkOK(m)
      /\ \A l \in Links : link[l] \in Link /\ LinkOK(l)
      /\ \A k \in Conns : conn[k] \in Conn /\ (conn[k].link = None <=> conn[k] = NoConn)
      /\ None \notin Links /\ None \notin Conns
  BY FreshAssumption DEF LinkInv, TypeOK, Conn, Socket, NoConn
<1>1. ASSUME NEW l \in Links, NEW t \in Tokens, start(l, t)
      PROVE  LinkOK(m)'
  <2>1. CASE l = m
    BY <1>1, <1>0, <2>1 DEF start, LinkOK, Wanted, TypeOK
  <2>2. CASE l # m
    BY <1>1, <1>0, <2>2, Untouched DEF start, SameSockets, TypeOK
  <2>3. QED
    BY <2>1, <2>2
<1>2. ASSUME NEW l \in Links, stop(l)
      PROVE  LinkOK(m)'
  <2>1. CASE l = m
    <3>1. /\ link'[m].life = "stopped" /\ link'[m].timer = FALSE /\ link'[m].ping = FALSE
          /\ link'[m].ctl = None /\ link'[m].opening = link[m].opening
      BY <1>2, <2>1, <1>0 DEF stop, TypeOK, Link
    <3>2. ASSUME NEW k \in Conns, conn'[k].link = m, conn'[k].host # "closed"
          PROVE  conn'[k].host = "failing" /\ ~link[m].opening
      BY <1>2, <2>1, <1>0, <3>2 DEF stop, LinkOK, Conn, Socket, NoConn
    <3>3. QED
      BY <3>1, <3>2 DEF LinkOK, Wanted
  <2>2. CASE l # m
    <3>1. link'[m] = link[m]
      BY <1>2, <2>2 DEF stop, TypeOK
    <3>2. SameSockets(m)
      BY <1>2, <2>2, <1>0 DEF stop, SameSockets, LinkOK, Conn, Socket, NoConn
    <3>3. QED
      BY <1>0, <3>1, <3>2, Untouched
  <2>3. QED
    BY <2>1, <2>2
<1>3. ASSUME NEW l \in Links, ConnectSucceeds(l)
      PROVE  LinkOK(m)'
  <2>1. PICK k \in FreeConns :
          /\ conn' = [conn EXCEPT ![k] = [link |-> l, host |-> "up", relay |-> "fresh",
                                          cert |-> cert[PeerOf[l]], down |-> <<>>]]
          /\ link' = [link EXCEPT ![l] = [@ EXCEPT !.opening = FALSE, !.ctl = k, !.ping = TRUE]]
    BY <1>3 DEF ConnectSucceeds
  <2>2. k \in Conns /\ conn[k] = NoConn
    BY DEF FreeConns
  <2>3. CASE l = m
    <3>1. /\ link'[m].life = link[m].life /\ link'[m].timer = link[m].timer
          /\ link'[m].ping = TRUE /\ link'[m].ctl = k /\ link'[m].opening = FALSE
      BY <2>1, <2>3, <1>0 DEF TypeOK, Link
    <3>2. conn'[k].link = m /\ conn'[k].host = "up" /\ k # None
      BY <2>1, <2>2, <2>3, <1>0 DEF TypeOK
    <3>3. link[m].opening /\ ~link[m].timer /\ link[m].life # "new"
      BY <1>3, <2>3, <1>0 DEF ConnectSucceeds, LinkOK
    <3>4. ASSUME NEW i \in Conns, i # k, conn'[i].link = m
          PROVE  conn'[i].host = "closed"
      <4>1. conn'[i] = conn[i]
        BY <2>1, <3>4 DEF TypeOK
      <4>2. QED
        BY <4>1, <3>3, <3>4, <1>0 DEF LinkOK
    <3>5. QED
      BY <3>1, <3>2, <3>3, <3>4 DEF LinkOK, Wanted
  <2>4. CASE l # m
    <3>1. link'[m] = link[m]
      BY <2>1, <2>4 DEF TypeOK
    <3>2. SameSockets(m)
      BY <2>1, <2>2, <2>4, <1>0 DEF SameSockets, NoConn, TypeOK
    <3>3. QED
      BY <1>0, <3>1, <3>2, Untouched
  <2>5. QED
    BY <2>3, <2>4
<1>4. ASSUME NEW l \in Links, ConnectFails(l)
      PROVE  LinkOK(m)'
  <2>1. CASE l = m
    <3>1. /\ link'[m].life = link[m].life /\ link'[m].timer = Wanted(m)
          /\ link'[m].ping = link[m].ping /\ link'[m].ctl = link[m].ctl
          /\ link'[m].opening = FALSE
      BY <1>4, <2>1, <1>0 DEF ConnectFails, TypeOK, Link
    <3>2. link[m].opening
      BY <1>4, <2>1 DEF ConnectFails
    <3>3. QED
      BY <1>4, <1>0, <3>1, <3>2 DEF ConnectFails, LinkOK, Wanted
  <2>2. CASE l # m
    BY <1>4, <1>0, <2>2, Untouched DEF ConnectFails, SameSockets, TypeOK
  <2>3. QED
    BY <2>1, <2>2
<1>5. ASSUME NEW k \in Conns, SocketError(k)
      PROVE  LinkOK(m)'
  <2> DEFINE l == conn[k].link
  <2>1. /\ l \in Links /\ conn[k] \in Socket /\ link[l].ctl = k /\ ~link[l].opening
        /\ link' = AfterFail(k) /\ conn' = [conn EXCEPT ![k].host = "failing"]
    BY <1>5, <1>0, SocketInUse DEF SocketError, LinkOK
  <2>2. /\ conn'[k].link = l /\ conn'[k].host = "failing"
        /\ \A i \in Conns : i # k => conn'[i] = conn[i]
    BY <2>1 DEF TypeOK, Socket
  <2>3. CASE l = m
    <3>1. \A i \in Conns : i # k /\ conn[i].link = m => conn[i].host = "closed"
      BY <2>1, <2>3, <1>0 DEF LinkOK
    <3>2. /\ link'[m].life = link[m].life /\ ~link'[m].opening /\ link'[m].ping = FALSE
          /\ link'[m].ctl = None
          /\ link'[m].timer = (link[m].timer \/ Wanted(m))
      BY <2>1, <2>3, AfterFailMeans
    <3>3. link[m].life # "new"
      BY <2>1, <2>3, <1>0 DEF LinkOK
    <3>4. \A i \in Conns : conn'[i].link = m /\ conn'[i].host # "closed" => i = k
      BY <2>2, <3>1
    <3>5. QED
      BY <2>2, <3>2, <3>3, <3>4 DEF LinkOK, Wanted
  <2>4. CASE l # m
    <3>1. link'[m] = link[m]
      BY <2>1, <2>4, AfterFailMeans
    <3>2. SameSockets(m)
      BY <2>2, <2>4 DEF SameSockets
    <3>3. QED
      BY <1>0, <3>1, <3>2, Untouched
  <2>5. QED
    BY <2>3, <2>4
<1>6. ASSUME NEW k \in Conns, SocketClose(k)
      PROVE  LinkOK(m)'
  <2> DEFINE l == conn[k].link
  <2>1. /\ l \in Links /\ conn[k] \in Socket /\ ~link[l].opening
        /\ link[l].ctl = k \/ link[l].ctl = None
        /\ link' = AfterFail(k)
    BY <1>6, <1>0, SocketInUse DEF SocketClose, LinkOK
  <2>2. /\ conn'[k].link \in {l, None} /\ conn'[k].host = "closed"
        /\ \A i \in Conns : i # k => conn'[i] = conn[i]
    BY <1>6, <2>1 DEF SocketClose, TypeOK, Socket, Freed, NoConn
  <2>3. CASE l = m
    <3>1. /\ link'[m].life = link[m].life /\ ~link'[m].opening /\ link'[m].ping = FALSE
          /\ link'[m].ctl = None
          /\ link'[m].timer = (link[m].timer \/ (link[m].ctl = k /\ Wanted(m)))
      BY <2>1, <2>3, AfterFailMeans
    <3>2. link[m].life # "new"
      BY <2>3, <1>0 DEF LinkOK
    <3>3. \A i \in Conns : conn'[i].link = m /\ conn'[i].host # "closed" =>
            conn'[i].host = "failing"
      BY <2>1, <2>2, <2>3, <1>0 DEF LinkOK
    <3>4. Wanted(m) => link'[m].timer
      BY <2>1, <2>3, <3>1, <1>0 DEF LinkOK
    <3>5. QED
      BY <3>1, <3>2, <3>3, <3>4 DEF LinkOK, Wanted
  <2>4. CASE l # m
    <3>1. link'[m] = link[m]
      BY <2>1, <2>4, AfterFailMeans
    <3>2. SameSockets(m)
      BY <2>2, <2>4, <1>0 DEF SameSockets
    <3>3. QED
      BY <1>0, <3>1, <3>2, Untouched
  <2>5. QED
    BY <2>3, <2>4
<1>7. ASSUME NEW l \in Links, RetryTimer(l)
      PROVE  LinkOK(m)'
  <2>1. CASE l = m
    <3>1. /\ link'[m].life = link[m].life /\ link'[m].timer = FALSE
          /\ link'[m].ping = link[m].ping /\ link'[m].ctl = link[m].ctl
          /\ link'[m].opening = TRUE /\ conn' = conn
      BY <1>7, <2>1, <1>0 DEF RetryTimer, TypeOK, Link
    <3>2. /\ link[m].timer /\ link[m].ctl = None /\ link[m].life # "new"
          /\ \A k \in Conns : conn[k].link = m => conn[k].host = "closed"
      BY <1>7, <2>1, <1>0 DEF RetryTimer, LinkOK
    <3>3. QED
      BY <1>0, <3>1, <3>2 DEF LinkOK, Wanted
  <2>2. CASE l # m
    BY <1>7, <1>0, <2>2, Untouched DEF RetryTimer, SameSockets, TypeOK
  <2>3. QED
    BY <2>1, <2>2
<1>8. ASSUME NEW k \in Conns, Receive(k)
      PROVE  LinkOK(m)'
  <2> DEFINE l == conn[k].link
  <2>1. /\ l \in Links /\ conn[k] \in Socket /\ link[l].ctl = k /\ ~link[l].opening
        /\ \A i \in Conns : i # k /\ conn[i].link = l => conn[i].host = "closed"
    BY <1>8, <1>0, SocketInUse DEF Receive, LinkOK
  <2>2. /\ conn'[k].link = l /\ conn'[k].host # "closed"
        /\ \A i \in Conns : i # k => conn'[i] = conn[i]
    BY <1>8, <2>1 DEF Receive, TypeOK, Socket
  <2>3. CASE l = m
    <3>1. /\ link'[m].life = link[m].life /\ link'[m].opening = link[m].opening
          /\ link'[m].timer = link[m].timer /\ link'[m].ctl = link[m].ctl
          /\ link'[m].ping = link[m].ping
      <4>1. PICK s : link' = [link EXCEPT ![m].status = s]
        BY <1>8, <2>3 DEF Receive
      <4>2. QED
        BY <4>1, <1>0 DEF TypeOK, Link
    <3>2. QED
      BY <2>1, <2>2, <2>3, <3>1, <1>0 DEF LinkOK, Wanted
  <2>4. CASE l # m
    <3>1. link'[m] = link[m]
      BY <1>8, <2>4 DEF Receive, TypeOK
    <3>2. SameSockets(m)
      BY <2>2, <2>4 DEF SameSockets
    <3>3. QED
      BY <1>0, <3>1, <3>2, Untouched
  <2>5. QED
    BY <2>3, <2>4
<1>9. ASSUME link' = link,
             \A k \in Conns : \/ conn'[k].link = conn[k].link /\ conn'[k].host = conn[k].host
                              \/ conn[k].host = "closed" /\ conn'[k] = NoConn
      PROVE  LinkOK(m)'
  BY <1>9, <1>0, Untouched DEF SameSockets, NoConn
<1>10. ASSUME NEW k \in Conns, register(k)
       PROVE  LinkOK(m)'
  <2>1. \A i \in Conns : conn'[i].link = conn[i].link /\ conn'[i].host = conn[i].host
    <3>1. \A i \in Conns : \A e, d :
            /\ [conn[i] EXCEPT !.relay = e, !.down = d].link = conn[i].link
            /\ [conn[i] EXCEPT !.relay = e, !.down = d].host = conn[i].host
            /\ [conn[i] EXCEPT !.relay = e].link = conn[i].link
            /\ [conn[i] EXCEPT !.relay = e].host = conn[i].host
      BY <1>0 DEF Conn, Socket, NoConn
    <3>2. CASE conn' = Replaced(PeerOf[conn[k].link], k)
      BY <3>1, <3>2 DEF Replaced
    <3>3. CASE conn' = [conn EXCEPT ![k] =
                 [conn[k] EXCEPT !.relay = "ended", !.down = Down(conn[k], "error")]]
      BY <3>1, <3>3 DEF TypeOK
    <3>4. QED
      BY <1>10, <3>2, <3>3 DEF register
  <2>2. QED
    BY <1>9, <1>10, <2>1 DEF register
<1>11. ASSUME NEW k \in Conns, RelayClose(k)
       PROVE  LinkOK(m)'
  <2>1. ASSUME NEW i \in Conns
        PROVE  \/ conn'[i].link = conn[i].link /\ conn'[i].host = conn[i].host
               \/ conn[i].host = "closed" /\ conn'[i] = NoConn
    BY <1>11, <1>0 DEF RelayClose, Freed, TypeOK, Conn, Socket, NoConn
  <2>2. QED
    BY <1>9, <1>11, <2>1 DEF RelayClose
<1>12. ASSUME NEW c \in Calls, connectClient(c)
       PROVE  LinkOK(m)'
  <2>1. \A i \in Conns : conn'[i].link = conn[i].link /\ conn'[i].host = conn[i].host
    BY <1>12, <1>0 DEF connectClient, TypeOK, Conn, Socket, NoConn
  <2>2. QED
    BY <1>9, <1>12, <2>1 DEF connectClient
<1>13. CASE RelayRestart
  <2>1. ASSUME NEW i \in Conns
        PROVE  \/ conn'[i].link = conn[i].link /\ conn'[i].host = conn[i].host
               \/ conn[i].host = "closed" /\ conn'[i] = NoConn
    BY <1>13, <1>0 DEF RelayRestart, Freed, TypeOK, Conn, Socket, NoConn
  <2>2. QED
    BY <1>9, <1>13, <2>1 DEF RelayRestart
<1>14. CASE UNCHANGED <<link, conn>>
  BY <1>9, <1>14
<1>15. QED
  <2>1. \A p \in Peers : RotateCert(p) \/ forget(p) => UNCHANGED <<link, conn>>
    BY DEF RotateCert, forget
  <2>2. \A c \in Calls, p \in Peers, pin \in Certs :
          relayDial(c, p, pin) => UNCHANGED <<link, conn>>
    BY DEF relayDial
  <2>3. \A c \in Calls :
          \/ acceptTimesOut(c) \/ ClientGone(c) \/ accept(c) \/ acceptHost(c) \/ onSocket(c)
          \/ AcceptAbandoned(c) \/ DialAnswered(c) \/ DialAbandoned(c)
          => UNCHANGED <<link, conn>>
    BY DEF acceptTimesOut, ClientGone, accept, acceptHost, onSocket, AcceptAbandoned,
           DialAnswered, DialAbandoned
  <2>4. UNCHANGED vars => UNCHANGED <<link, conn>>
    BY DEF vars
  <2>5. QED
    BY <1>1, <1>2, <1>3, <1>4, <1>5, <1>6, <1>7, <1>8, <1>10, <1>11, <1>12, <1>13, <1>14,
       <2>1, <2>2, <2>3, <2>4
       DEF Next, OwnerNext, LinkNext, CallNext, EndNext

-----------------------------------------------------------------------------
(* The relay's table.                                                      *)

\* Every action keeps the table and the live registrations the same.
LEMMA TableStep == TypeOK /\ LinkInv /\ TableNamesTheLive /\ [Next]_vars => TableNamesTheLive'
<1> SUFFICES ASSUME TypeOK, LinkInv, TableNamesTheLive, [Next]_vars
             PROVE  TableNamesTheLive'
  OBVIOUS
<1> USE DEF hostVars, relayVars, callVars
<1>0. /\ \A p \in Peers : hosts[p] \in Conns \cup {None}
      /\ \A k \in Conns : conn[k] \in Conn /\ (conn[k].relay # "closed" => conn[k].link \in Links)
      /\ \A l \in Links : PeerOf[l] \in Peers
      /\ None \notin Links /\ None \notin Conns
  BY FreshAssumption, PeerOfAssumption DEF TypeOK, Conn, Socket, NoConn
<1>1. ASSUME hosts' = hosts,
             \A k \in Conns :
               /\ conn'[k].relay = "registered" <=> conn[k].relay = "registered"
               /\ conn[k].relay = "registered" => conn'[k].link = conn[k].link
      PROVE  TableNamesTheLive'
  BY <1>0, <1>1 DEF TableNamesTheLive
<1>2. ASSUME NEW l \in Links, stop(l)
      PROVE  TableNamesTheLive'
  <2>1. \A k \in Conns : conn'[k].relay = conn[k].relay /\ conn'[k].link = conn[k].link
    BY <1>2, <1>0 DEF stop, Conn, Socket, NoConn
  <2>2. QED
    BY <1>1, <1>2, <2>1 DEF stop
<1>3. ASSUME NEW l \in Links, ConnectSucceeds(l)
      PROVE  TableNamesTheLive'
  <2>1. PICK k \in FreeConns :
          conn' = [conn EXCEPT ![k] = [link |-> l, host |-> "up", relay |-> "fresh",
                                       cert |-> cert[PeerOf[l]], down |-> <<>>]]
    BY <1>3 DEF ConnectSucceeds
  <2>2. conn[k].relay # "registered" /\ conn'[k].relay # "registered"
    BY <2>1 DEF FreeConns, NoConn, TypeOK
  <2>3. \A i \in Conns : i # k => conn'[i] = conn[i]
    BY <2>1 DEF TypeOK
  <2>4. QED
    BY <1>1, <1>3, <2>2, <2>3 DEF ConnectSucceeds
<1>4. ASSUME NEW k \in Conns, SocketError(k) \/ SocketClose(k) \/ Receive(k)
      PROVE  TableNamesTheLive'
  <2>1. conn[k] \in Socket
    BY <1>4, SocketInUse DEF SocketError, SocketClose, Receive
  <2>2. \A i \in Conns : i # k => conn'[i] = conn[i]
    BY <1>4 DEF SocketError, SocketClose, Receive, TypeOK
  <2>3. /\ conn'[k].relay = conn[k].relay
        /\ conn[k].relay # "closed" => conn'[k].link = conn[k].link
    <3>1. CASE SocketError(k)
      BY <2>1, <3>1 DEF SocketError, TypeOK, Socket
    <3>2. CASE SocketClose(k)
      BY <2>1, <3>2 DEF SocketClose, Freed, NoConn, TypeOK, Socket
    <3>3. CASE Receive(k)
      BY <2>1, <3>3 DEF Receive, TypeOK, Socket
    <3>4. QED
      BY <1>4, <3>1, <3>2, <3>3
  <2>4. QED
    BY <1>1, <1>4, <2>2, <2>3 DEF SocketError, SocketClose, Receive
<1>5. ASSUME NEW k \in Conns, register(k)
      PROVE  TableNamesTheLive'
  <2> DEFINE p == PeerOf[conn[k].link]
  <2>1. conn[k] \in Socket /\ p \in Peers
    BY <1>0, <1>5, SocketInUse DEF register
  <2>2. CASE hosts' = [hosts EXCEPT ![p] = k] /\ conn' = Replaced(p, k)
    <3>1. k # hosts[p]
      BY <1>5, <1>0, <2>1 DEF register, TableNamesTheLive
    <3>2. conn'[k].relay = "registered" /\ conn'[k].link = conn[k].link
      BY <2>1, <2>2, <3>1 DEF Replaced, Socket
    <3>3. ASSUME NEW i \in Conns, i = hosts[p]
          PROVE  conn'[i].relay = "destroyed"
      BY <1>0, <2>2, <3>3 DEF Replaced, Conn, Socket, NoConn
    <3>4. \A i \in Conns : i # k /\ i # hosts[p] => conn'[i] = conn[i]
      BY <2>2 DEF Replaced
    <3>5. hosts'[p] = k /\ \A q \in Peers : q # p => hosts'[q] = hosts[q]
      BY <2>1, <2>2 DEF TypeOK
    <3>6. ASSUME NEW q \in Peers, hosts'[q] # None
          PROVE  conn'[hosts'[q]].relay = "registered" /\ PeerOf[conn'[hosts'[q]].link] = q
      <4>1. CASE q = p
        BY <3>2, <3>5, <4>1
      <4>2. CASE q # p
        <5>1. hosts[q] \in Conns /\ PeerOf[conn[hosts[q]].link] = q
              /\ conn[hosts[q]].relay = "registered"
          BY <1>0, <3>5, <3>6, <4>2 DEF TableNamesTheLive
        <5>2. hosts[q] # k
          BY <4>2, <5>1
        <5>3. hosts[q] # hosts[p]
          BY <1>0, <2>1, <4>2, <5>1 DEF TableNamesTheLive
        <5>4. QED
          BY <3>4, <3>5, <4>2, <5>1, <5>2, <5>3
      <4>3. QED
        BY <4>1, <4>2
    <3>7. ASSUME NEW i \in Conns, conn'[i].relay = "registered"
          PROVE  hosts'[PeerOf[conn'[i].link]] = i
      <4>1. CASE i = k
        BY <3>2, <3>5, <4>1
      <4>2. CASE i # k
        <5>1. i # hosts[p]
          BY <3>3, <3>7
        <5>2. conn'[i] = conn[i]
          BY <3>4, <4>2, <5>1
        <5>3. hosts[PeerOf[conn[i].link]] = i /\ PeerOf[conn[i].link] \in Peers
          BY <1>0, <3>7, <5>2 DEF TableNamesTheLive
        <5>4. QED
          BY <3>5, <5>1, <5>2, <5>3
      <4>3. QED
        BY <4>1, <4>2
    <3>8. QED
      BY <3>6, <3>7 DEF TableNamesTheLive
  <2>3. CASE /\ conn' = [conn EXCEPT ![k] =
                  [conn[k] EXCEPT !.relay = "ended", !.down = Down(conn[k], "error")]]
             /\ hosts' = hosts
    <3>1. conn'[k].relay = "ended" /\ conn[k].relay = "fresh"
      BY <1>5, <2>1, <2>3 DEF register, TypeOK, Socket
    <3>2. \A i \in Conns : i # k => conn'[i] = conn[i]
      BY <2>3 DEF TypeOK
    <3>3. QED
      BY <1>1, <2>3, <3>1, <3>2
  <2>4. QED
    BY <1>5, <2>2, <2>3 DEF register
<1>6. ASSUME NEW k \in Conns, RelayClose(k)
      PROVE  TableNamesTheLive'
  <2>1. conn[k] \in Socket
    BY <1>6, SocketInUse DEF RelayClose
  <2>2. conn'[k].relay = "closed" /\ \A i \in Conns : i # k => conn'[i] = conn[i]
    BY <1>6, <2>1 DEF RelayClose, Freed, NoConn, TypeOK, Socket
  <2>3. \A p \in Peers : hosts'[p] = IF hosts[p] = k THEN None ELSE hosts[p]
    BY <1>6 DEF RelayClose
  <2>4. QED
    BY <1>0, <2>2, <2>3 DEF TableNamesTheLive
<1>7. ASSUME NEW c \in Calls, connectClient(c)
      PROVE  TableNamesTheLive'
  <2>1. \A k \in Conns : conn'[k].relay = conn[k].relay /\ conn'[k].link = conn[k].link
    BY <1>7, <1>0 DEF connectClient, TypeOK, Conn, Socket, NoConn
  <2>2. QED
    BY <1>1, <1>7, <2>1 DEF connectClient
<1>8. CASE RelayRestart
  <2>1. \A k \in Conns : conn'[k].relay = "closed"
    BY <1>8, <1>0 DEF RelayRestart, Freed, TypeOK, Conn, Socket, NoConn
  <2>2. \A p \in Peers : hosts'[p] = None
    BY <1>8 DEF RelayRestart
  <2>3. QED
    BY <2>1, <2>2 DEF TableNamesTheLive
<1>9. CASE UNCHANGED <<conn, hosts>>
  BY <1>1, <1>9
<1>10. QED
  <2>1. \A l \in Links :
          \/ ConnectFails(l) \/ RetryTimer(l) \/ \E t \in Tokens : start(l, t)
          => UNCHANGED <<conn, hosts>>
    BY DEF start, ConnectFails, RetryTimer
  <2>2. \A p \in Peers : RotateCert(p) \/ forget(p) => UNCHANGED <<conn, hosts>>
    BY DEF RotateCert, forget
  <2>3. \A c \in Calls, p \in Peers, pin \in Certs :
          relayDial(c, p, pin) => UNCHANGED <<conn, hosts>>
    BY DEF relayDial
  <2>4. \A c \in Calls :
          \/ acceptTimesOut(c) \/ ClientGone(c) \/ accept(c) \/ acceptHost(c) \/ onSocket(c)
          \/ AcceptAbandoned(c) \/ DialAnswered(c) \/ DialAbandoned(c)
          => UNCHANGED <<conn, hosts>>
    BY DEF acceptTimesOut, ClientGone, accept, acceptHost, onSocket, AcceptAbandoned,
           DialAnswered, DialAbandoned
  <2>5. UNCHANGED vars => UNCHANGED <<conn, hosts>>
    BY DEF vars
  <2>6. QED
    BY <1>2, <1>3, <1>4, <1>5, <1>6, <1>7, <1>8, <1>9, <2>1, <2>2, <2>3, <2>4, <2>5
       DEF Next, OwnerNext, LinkNext, CallNext, EndNext

-----------------------------------------------------------------------------
(* The theorems.                                                           *)

Inv == TypeOK /\ LinkInv /\ TableNamesTheLive

\* The inductive invariant holds initially.
LEMMA InitInv == Init => Inv
<1> SUFFICES ASSUME Init
             PROVE  Inv
  OBVIOUS
<1>1. TypeOK
  <2>1. link \in [Links -> Link]
    BY DEF Init, Link, LinkStatus
  <2>2. conn \in [Conns -> Conn]
    BY DEF Init, Conn
  <2>3. call \in [Calls -> Call]
    BY DEF Init, Call
  <2>4. callback \in [Calls -> Callback] /\ restarts \in 0 .. MaxRestarts
    BY RestartsAssumption DEF Init, Callback
  <2>5. QED
    BY <2>1, <2>2, <2>3, <2>4 DEF Init, TypeOK
<1>2. LinkInv
  BY FreshAssumption DEF Init, LinkInv, LinkOK, Wanted, NoConn
<1>3. TableNamesTheLive
  BY DEF Init, TableNamesTheLive, NoConn
<1>4. QED
  BY <1>1, <1>2, <1>3 DEF Inv

\* The inductive invariant holds in every reachable state.
LEMMA Invariance == Spec => []Inv
<1>1. Inv /\ [Next]_vars => Inv'
  BY TypeStep, LinkStep, TableStep, LinkInvMeans DEF Inv
<1>2. QED
  BY <1>1, InitInv, PTL DEF Spec

\* Every field of links, connections, calls and tables keeps its type.
THEOREM TypeCorrect == Spec => []TypeOK
<1>1. Inv => TypeOK
  BY DEF Inv
<1>2. QED
  BY <1>1, Invariance, PTL

\* A wanted link is on exactly one way to a registration, whatever the order
\* of stop, errors, closes and timers.
THEOREM OneWay == Spec => []OneWayToRegister
<1>1. Inv => OneWayToRegister
  BY LinkInvMeans DEF Inv
<1>2. QED
  BY <1>1, Invariance, PTL

\* The ping interval lives and dies with the socket a link holds.
THEOREM Pings == Spec => []PingsItsSocket
<1>1. Inv => PingsItsSocket
  BY LinkInvMeans DEF Inv
<1>2. QED
  BY <1>1, Invariance, PTL

\* The relay's table names the one live registration of every peer, however
\* connections are replaced, closed late or lost with the relay.
THEOREM Table == Spec => []TableNamesTheLive
<1>1. Inv => TableNamesTheLive
  BY DEF Inv
<1>2. QED
  BY <1>1, Invariance, PTL

-----------------------------------------------------------------------------
\* The calls: what holds of every announcement and match under way.
CallInv == AnnouncedOnce /\ AnnouncedToThePinnedHost /\ MatchesAreMade

\* A step that announces no call and reads no announcement keeps what is said
\* of the announcements under way.
LEMMA NothingNew ==
  ASSUME AnnouncedOnce, AnnouncedToThePinnedHost,
         \A k \in Conns : \A i \in DOMAIN conn'[k].down :
           conn'[k].down[i] \in Calls =>
             /\ i \in DOMAIN conn[k].down /\ conn[k].down[i] = conn'[k].down[i]
             /\ conn'[k].link = conn[k].link /\ conn'[k].cert = conn[k].cert,
         \A c \in Calls : call[c].relay # "none" =>
           /\ call'[c].relay # "none"
           /\ call'[c].peer = call[c].peer /\ call'[c].cert = call[c].cert,
         \A c \in Calls : callback[c] = "none" => callback'[c] = "none"
  PROVE  AnnouncedOnce' /\ AnnouncedToThePinnedHost'
<1>1. AnnouncedOnce'
  BY DEF AnnouncedOnce
<1>2. AnnouncedToThePinnedHost'
  BY DEF AnnouncedOnce, AnnouncedToThePinnedHost
<1>3. QED
  BY <1>1, <1>2

\* The frames under way on a connection are a sequence, empty if there is none.
LEMMA DownIsSeq ==
  ASSUME NEW r \in Conn
  PROVE  r.down \in Seq(Frame)
<1>1. CASE r \in Socket
  BY <1>1 DEF Socket
<1>2. CASE r = NoConn
  <2>1. <<>> \in Seq(Frame)
    OBVIOUS
  <2>2. QED
    BY <1>2, <2>1 DEF NoConn
<1>3. QED
  BY <1>1, <1>2 DEF Conn

\* The frames written to a socket, after a frame that announces nothing.
LEMMA Unannounced ==
  ASSUME NEW r \in Conn, NEW frame \in {"registered", "error"},
         NEW i \in DOMAIN Down(r, frame), Down(r, frame)[i] \in Calls
  PROVE  i \in DOMAIN r.down /\ r.down[i] = Down(r, frame)[i]
<1>1. r.down \in Seq(Frame)
  BY DownIsSeq
<1>2. frame \notin Calls
  BY FrameAssumption
<1>3. QED
  BY <1>1, <1>2 DEF Down

-----------------------------------------------------------------------------
(* Announcements: one step per action that writes, reads or drops frames.  *)

\* Every action keeps announcements unique and addressed to the pinned host.
LEMMA AnnouncementStep ==
  Inv /\ Inv' /\ CallInv /\ [Next]_vars => AnnouncedOnce' /\ AnnouncedToThePinnedHost'
<1> SUFFICES ASSUME Inv, Inv', CallInv, [Next]_vars
             PROVE  AnnouncedOnce' /\ AnnouncedToThePinnedHost'
  OBVIOUS
<1> USE DEF hostVars, relayVars, callVars
<1>0. /\ TypeOK /\ TableNamesTheLive /\ AnnouncedOnce /\ AnnouncedToThePinnedHost
      /\ MatchesAreMade
      /\ \A k \in Conns : conn[k] \in Conn /\ conn[k].down \in Seq(Frame)
  BY DownIsSeq DEF Inv, CallInv, TypeOK
<1>1. ASSUME \A k \in Conns : \A i \in DOMAIN conn'[k].down :
               conn'[k].down[i] \in Calls =>
                 /\ i \in DOMAIN conn[k].down /\ conn[k].down[i] = conn'[k].down[i]
                 /\ conn'[k].link = conn[k].link /\ conn'[k].cert = conn[k].cert,
             UNCHANGED callVars
      PROVE  AnnouncedOnce' /\ AnnouncedToThePinnedHost'
  BY <1>0, <1>1, NothingNew
<1>2. ASSUME \A k \in Conns : \/ conn'[k] = NoConn
                              \/ /\ conn'[k].down = conn[k].down
                                 /\ conn'[k].link = conn[k].link
                                 /\ conn'[k].cert = conn[k].cert,
             UNCHANGED callVars
      PROVE  AnnouncedOnce' /\ AnnouncedToThePinnedHost'
  BY <1>1, <1>2 DEF NoConn
<1>3. ASSUME NEW l \in Links, stop(l)
      PROVE  AnnouncedOnce' /\ AnnouncedToThePinnedHost'
  <2>1. \A k \in Conns : /\ conn'[k].down = conn[k].down /\ conn'[k].link = conn[k].link
                         /\ conn'[k].cert = conn[k].cert
    BY <1>3, <1>0 DEF stop, Conn, Socket, NoConn
  <2>2. QED
    BY <1>2, <1>3, <2>1 DEF stop
<1>4. ASSUME NEW l \in Links, ConnectSucceeds(l)
      PROVE  AnnouncedOnce' /\ AnnouncedToThePinnedHost'
  <2>1. PICK k \in FreeConns :
          conn' = [conn EXCEPT ![k] = [link |-> l, host |-> "up", relay |-> "fresh",
                                       cert |-> cert[PeerOf[l]], down |-> <<>>]]
    BY <1>4 DEF ConnectSucceeds
  <2>2. k \in Conns
    BY DEF FreeConns
  <2>3. conn'[k].down = <<>> /\ \A i \in Conns : i # k => conn'[i] = conn[i]
    BY <2>1, <2>2, <1>0 DEF TypeOK
  <2>4. QED
    BY <1>1, <1>4, <2>3 DEF ConnectSucceeds
<1>5. ASSUME NEW k \in Conns, SocketError(k)
      PROVE  AnnouncedOnce' /\ AnnouncedToThePinnedHost'
  <2>1. \A i \in Conns : /\ conn'[i].down = conn[i].down /\ conn'[i].link = conn[i].link
                         /\ conn'[i].cert = conn[i].cert
    BY <1>5, <1>0 DEF SocketError, TypeOK, Conn, Socket, NoConn
  <2>2. QED
    BY <1>2, <1>5, <2>1 DEF SocketError
<1>6. ASSUME NEW k \in Conns, SocketClose(k)
      PROVE  AnnouncedOnce' /\ AnnouncedToThePinnedHost'
  <2>1. conn[k] \in Socket
    BY <1>0, <1>6, SocketInUse DEF SocketClose
  <2>2. conn'[k].down = <<>>
    BY <1>6, <1>0, <2>1 DEF SocketClose, TypeOK, Freed, Socket, NoConn
  <2>3. \A i \in Conns : i # k => conn'[i] = conn[i]
    BY <1>6, <1>0 DEF SocketClose, TypeOK
  <2>4. UNCHANGED callVars
    BY <1>6 DEF SocketClose
  <2>5. QED
    BY <1>1, <2>2, <2>3, <2>4
<1>7. ASSUME NEW k \in Conns, RelayClose(k)
      PROVE  AnnouncedOnce' /\ AnnouncedToThePinnedHost'
  <2>1. conn[k] \in Socket
    BY <1>0, <1>7, SocketInUse DEF RelayClose
  <2>2. \/ conn'[k] = NoConn
        \/ /\ conn'[k].down = conn[k].down /\ conn'[k].link = conn[k].link
           /\ conn'[k].cert = conn[k].cert
    BY <1>7, <1>0, <2>1 DEF RelayClose, TypeOK, Freed, Socket
  <2>3. \A i \in Conns : i # k => conn'[i] = conn[i]
    BY <1>7, <1>0 DEF RelayClose, TypeOK
  <2>4. QED
    BY <1>2, <1>7, <2>2, <2>3 DEF RelayClose
<1>8. ASSUME NEW k \in Conns, register(k)
      PROVE  AnnouncedOnce' /\ AnnouncedToThePinnedHost'
  <2>1. \A i \in Conns : \A e, d :
          /\ [conn[i] EXCEPT !.relay = e, !.down = d].link = conn[i].link
          /\ [conn[i] EXCEPT !.relay = e, !.down = d].cert = conn[i].cert
          /\ [conn[i] EXCEPT !.relay = e, !.down = d].down = d
          /\ [conn[i] EXCEPT !.relay = e].link = conn[i].link
          /\ [conn[i] EXCEPT !.relay = e].cert = conn[i].cert
          /\ [conn[i] EXCEPT !.relay = e].down = conn[i].down
    BY <1>0 DEF Conn, Socket, NoConn
  <2>2. ASSUME NEW i \in Conns
        PROVE  /\ conn'[i].link = conn[i].link /\ conn'[i].cert = conn[i].cert
               /\ conn'[i].down \in {conn[i].down, Down(conn[i], "registered"),
                                     Down(conn[i], "error")}
    <3>1. CASE conn' = Replaced(PeerOf[conn[k].link], k)
      BY <2>1, <3>1 DEF Replaced
    <3>2. CASE conn' = [conn EXCEPT ![k] =
                 [conn[k] EXCEPT !.relay = "ended", !.down = Down(conn[k], "error")]]
      BY <2>1, <3>2, <1>0 DEF TypeOK
    <3>3. QED
      BY <1>8, <3>1, <3>2 DEF register
  <2>3. ASSUME NEW m \in Conns, NEW i \in DOMAIN conn'[m].down, conn'[m].down[i] \in Calls
        PROVE  i \in DOMAIN conn[m].down /\ conn[m].down[i] = conn'[m].down[i]
    BY <1>0, <2>2, <2>3, Unannounced
  <2>4. UNCHANGED callVars
    BY <1>8 DEF register
  <2>5. QED
    BY <1>1, <2>2, <2>3, <2>4
<1>9. CASE RelayRestart
  <2>1. \A k \in Conns : \/ conn'[k] = NoConn
                         \/ /\ conn'[k].down = conn[k].down /\ conn'[k].link = conn[k].link
                            /\ conn'[k].cert = conn[k].cert
    BY <1>9, <1>0 DEF RelayRestart, Freed, Conn, Socket, NoConn
  <2>2. \A c \in Calls : call[c].relay # "none" =>
          /\ call'[c].relay # "none"
          /\ call'[c].peer = call[c].peer /\ call'[c].cert = call[c].cert
    <3>1. \A c \in Calls : call[c] \in Call
      BY <1>0 DEF TypeOK
    <3>2. QED
      BY <1>9, <3>1 DEF RelayRestart, Call, Dial, NoCall
  <2>3. \A c \in Calls : callback[c] = "none" => callback'[c] = "none"
    BY <1>9 DEF RelayRestart
  <2>4. \A k \in Conns : \A i \in DOMAIN conn'[k].down :
           conn'[k].down[i] \in Calls =>
             /\ i \in DOMAIN conn[k].down /\ conn[k].down[i] = conn'[k].down[i]
             /\ conn'[k].link = conn[k].link /\ conn'[k].cert = conn[k].cert
    BY <2>1 DEF NoConn
  <2>5. QED
    BY <1>0, <2>2, <2>3, <2>4, NothingNew
<1>10. ASSUME NEW c \in Calls, connectClient(c)
       PROVE  AnnouncedOnce' /\ AnnouncedToThePinnedHost'
  <2> DEFINE k == hosts[call[c].peer]
  <2>1. call[c] \in Dial /\ call[c].relay = "none" /\ call[c].peer \in Peers
    BY <1>0, <1>10, CallInUse DEF connectClient
  <2>2. \A d \in Calls : d # c => call'[d] = call[d]
    BY <1>0, <1>10 DEF connectClient, TypeOK
  <2>3. /\ call'[c].peer = call[c].peer /\ call'[c].cert = call[c].cert
        /\ call'[c].relay # "none"
    <3>1. \/ call'[c] = [call[c] EXCEPT !.relay = "over", !.answer = "error"]
          \/ call'[c] = [call[c] EXCEPT !.relay = "pending", !.via = conn[k].link]
      BY <1>0, <1>10 DEF connectClient, TypeOK
    <3>2. QED
      BY <2>1, <3>1 DEF Dial
  <2>4. callback' = callback /\ callback[c] = "none"
    BY <1>0, <1>10, <2>1 DEF connectClient, MatchesAreMade
  <2>5. \A m \in Conns : \A i \in DOMAIN conn[m].down : conn[m].down[i] # c
    BY <1>0, <2>1 DEF AnnouncedOnce
  <2>6. \A m \in Conns : \A i \in DOMAIN conn[m].down :
          LET d == conn[m].down[i] IN
          d \in Calls => /\ call'[d].relay # "none" /\ callback'[d] = "none"
                         /\ PeerOf[conn[m].link] = call'[d].peer
                         /\ conn[m].cert = call'[d].cert
    BY <1>0, <2>2, <2>4, <2>5 DEF AnnouncedOnce, AnnouncedToThePinnedHost
  <2>7. CASE conn' = conn
    BY <1>0, <2>6, <2>7 DEF AnnouncedOnce, AnnouncedToThePinnedHost
  <2>8. CASE /\ k # None /\ conn[k].cert = call[c].cert
             /\ conn' = [conn EXCEPT ![k].down = Down(conn[k], c)]
    <3>1. /\ k \in Conns /\ conn[k].relay = "registered" /\ PeerOf[conn[k].link] = call[c].peer
      BY <1>0, <2>1, <2>8 DEF TypeOK, TableNamesTheLive
    <3>2. conn[k] \in Socket
      BY <1>0, <3>1, SocketInUse
    <3>3. /\ conn'[k].link = conn[k].link /\ conn'[k].cert = conn[k].cert
          /\ conn'[k].down \in {conn[k].down, Append(conn[k].down, c)}
          /\ \A m \in Conns : m # k => conn'[m] = conn[m]
      BY <1>0, <2>8, <3>1, <3>2 DEF TypeOK, Socket, Down
    <3>4. ASSUME NEW m \in Conns, NEW i \in DOMAIN conn'[m].down
          PROVE  \/ i \in DOMAIN conn[m].down /\ conn'[m].down[i] = conn[m].down[i]
                 \/ m = k /\ i = Len(conn[k].down) + 1 /\ conn'[m].down[i] = c
      <4>1. CASE m # k
        BY <3>3, <4>1
      <4>2. CASE m = k /\ conn'[k].down = conn[k].down
        BY <4>2
      <4>3. CASE m = k /\ conn'[k].down = Append(conn[k].down, c)
        <5>1. conn[k].down \in Seq(Frame)
          BY <1>0, <3>1
        <5>2. /\ i \in 1 .. Len(conn[k].down) + 1
              /\ i \in 1 .. Len(conn[k].down) => conn'[k].down[i] = conn[k].down[i]
              /\ i = Len(conn[k].down) + 1 => conn'[k].down[i] = c
              /\ DOMAIN conn[k].down = 1 .. Len(conn[k].down)
              /\ Len(conn[k].down) \in Nat
          BY <4>3, <5>1
        <5>3. CASE i \in 1 .. Len(conn[k].down)
          BY <4>3, <5>2, <5>3
        <5>4. CASE i = Len(conn[k].down) + 1
          BY <4>3, <5>2, <5>4
        <5>5. QED
          BY <5>2, <5>3, <5>4
      <4>4. QED
        BY <3>3, <4>1, <4>2, <4>3
    <3>5. ASSUME NEW m \in Conns
          PROVE  conn'[m].link = conn[m].link /\ conn'[m].cert = conn[m].cert
      BY <3>3
    <3> HIDE DEF k
    <3>6. AnnouncedToThePinnedHost'
      BY <2>3, <2>6, <2>8, <3>1, <3>4, <3>5 DEF AnnouncedToThePinnedHost
    <3>7. ASSUME NEW m \in Conns, NEW i \in DOMAIN conn'[m].down, conn'[m].down[i] \in Calls
          PROVE  /\ call'[conn'[m].down[i]].relay # "none"
                 /\ callback'[conn'[m].down[i]] = "none"
      BY <2>3, <2>4, <2>6, <3>4, <3>7
    <3>8. ASSUME NEW m \in Conns, NEW i \in DOMAIN conn'[m].down, conn'[m].down[i] \in Calls,
                 NEW n \in Conns, NEW j \in DOMAIN conn'[n].down,
                 conn'[n].down[j] = conn'[m].down[i]
          PROVE  n = m /\ j = i
      <4>1. CASE conn'[m].down[i] = c
        BY <2>5, <3>4, <3>8, <4>1
      <4>2. CASE conn'[m].down[i] # c
        BY <1>0, <3>4, <3>8, <4>2 DEF AnnouncedOnce
      <4>3. QED
        BY <4>1, <4>2
    <3>9. AnnouncedOnce'
      BY <3>7, <3>8 DEF AnnouncedOnce
    <3>10. QED
      BY <3>6, <3>9
  <2>9. QED
    BY <1>10, <2>7, <2>8 DEF connectClient
<1>11. ASSUME NEW k \in Conns, Receive(k)
       PROVE  AnnouncedOnce' /\ AnnouncedToThePinnedHost'
  <2> DEFINE frame == Head(conn[k].down)
  <2>1. conn[k] \in Socket /\ conn[k].down # <<>>
    BY <1>0, <1>11, SocketInUse DEF Receive
  <2>2. /\ conn'[k].down = Tail(conn[k].down) /\ conn'[k].link = conn[k].link
        /\ conn'[k].cert = conn[k].cert /\ \A m \in Conns : m # k => conn'[m] = conn[m]
        /\ call' = call
    BY <1>0, <1>11, <2>1 DEF Receive, TypeOK, Socket
  <2>3. /\ 1 \in DOMAIN conn[k].down /\ conn[k].down[1] = frame
        /\ \A i \in DOMAIN Tail(conn[k].down) :
             i + 1 \in DOMAIN conn[k].down /\ i \in Nat /\ i # 0
             /\ Tail(conn[k].down)[i] = conn[k].down[i + 1]
    BY <1>0, <2>1
  <2> DEFINE was(m, i) == IF m = k THEN i + 1 ELSE i
  <2>4. ASSUME NEW m \in Conns, NEW i \in DOMAIN conn'[m].down
        PROVE  /\ was(m, i) \in DOMAIN conn[m].down
               /\ conn'[m].down[i] = conn[m].down[was(m, i)]
               /\ i \in Nat
    <3>1. CASE m = k
      BY <2>2, <2>3, <3>1
    <3>2. CASE m # k
      <4>1. conn'[m] = conn[m] /\ conn[m].down \in Seq(Frame)
        BY <1>0, <2>2, <3>2
      <4>2. QED
        BY <3>2, <4>1
    <3>3. QED
      BY <3>1, <3>2
  <2>5. \A m \in Conns : conn'[m].link = conn[m].link /\ conn'[m].cert = conn[m].cert
    BY <2>2
  <2>6. AnnouncedToThePinnedHost'
    BY <1>0, <2>2, <2>4, <2>5 DEF AnnouncedToThePinnedHost
  <2>7. ASSUME NEW m \in Conns, NEW i \in DOMAIN conn'[m].down, conn'[m].down[i] \in Calls
        PROVE  conn'[m].down[i] # frame
    <3>1. was(m, i) # 1 \/ m # k
      BY <2>2, <2>3, <2>7
    <3>2. QED
      BY <1>0, <2>3, <2>4, <2>7, <3>1 DEF AnnouncedOnce
  <2>8. \A c \in Calls : c # frame => callback'[c] = callback[c]
    BY <1>11, <1>0 DEF Receive, TypeOK
  <2>9. ASSUME NEW m \in Conns, NEW i \in DOMAIN conn'[m].down, conn'[m].down[i] \in Calls
        PROVE  /\ call'[conn'[m].down[i]].relay # "none"
               /\ callback'[conn'[m].down[i]] = "none"
    <3> DEFINE c == conn'[m].down[i]
    <3>1. call[c].relay # "none" /\ callback[c] = "none"
      <4>1. was(m, i) \in DOMAIN conn[m].down /\ conn[m].down[was(m, i)] = c
        BY <2>4
      <4> HIDE DEF was, c
      <4>2. QED
        BY <1>0, <2>9, <4>1 DEF AnnouncedOnce, c
    <3>2. c # frame
      BY <2>7, <2>9
    <3>3. QED
      BY <2>2, <2>8, <2>9, <3>1, <3>2
  <2>10. ASSUME NEW m \in Conns, NEW i \in DOMAIN conn'[m].down, conn'[m].down[i] \in Calls,
                NEW n \in Conns, NEW j \in DOMAIN conn'[n].down,
                conn'[n].down[j] = conn'[m].down[i]
         PROVE  n = m /\ j = i
    <3>1. n = m /\ was(n, j) = was(m, i)
      <4>1. /\ was(m, i) \in DOMAIN conn[m].down
            /\ was(n, j) \in DOMAIN conn[n].down
            /\ conn[m].down[was(m, i)] \in Calls
            /\ conn[n].down[was(n, j)] = conn[m].down[was(m, i)]
        BY <2>4, <2>10
      <4> HIDE DEF was
      <4>2. QED
        BY <1>0, <4>1 DEF AnnouncedOnce
    <3>2. QED
      BY <2>4, <3>1
  <2>11. AnnouncedOnce'
    BY <2>9, <2>10 DEF AnnouncedOnce
  <2>12. QED
    BY <2>6, <2>11
<1>12. ASSUME conn' = conn,
              \A c \in Calls : call[c].relay # "none" =>
                /\ call'[c].relay # "none"
                /\ call'[c].peer = call[c].peer /\ call'[c].cert = call[c].cert,
              \A c \in Calls : callback[c] = "none" => callback'[c] = "none"
       PROVE  AnnouncedOnce' /\ AnnouncedToThePinnedHost'
  BY <1>0, <1>12, NothingNew
<1>13. ASSUME NEW c \in Calls,
              \/ acceptTimesOut(c) \/ ClientGone(c) \/ accept(c) \/ acceptHost(c)
              \/ onSocket(c) \/ AcceptAbandoned(c) \/ DialAnswered(c) \/ DialAbandoned(c)
       PROVE  AnnouncedOnce' /\ AnnouncedToThePinnedHost'
  <2>1. conn' = conn
    BY <1>13 DEF acceptTimesOut, ClientGone, accept, acceptHost, onSocket, AcceptAbandoned,
                 DialAnswered, DialAbandoned
  <2>2. \A d \in Calls : callback[d] = "none" => callback'[d] = "none"
    BY <1>13, <1>0 DEF acceptTimesOut, ClientGone, accept, acceptHost, onSocket,
                       AcceptAbandoned, DialAnswered, DialAbandoned, TypeOK
  <2>3. \A d \in Calls : d # c => call'[d] = call[d]
    BY <1>13, <1>0 DEF acceptTimesOut, ClientGone, accept, acceptHost, onSocket,
                       AcceptAbandoned, DialAnswered, DialAbandoned, TypeOK
  <2>4. call[c].relay # "none" => /\ call'[c].relay # "none"
                                  /\ call'[c].peer = call[c].peer /\ call'[c].cert = call[c].cert
    <3>1. call[c] \in Call
      BY <1>0 DEF TypeOK
    <3>2. \/ call'[c] = call[c]
          \/ call'[c] = [call[c] EXCEPT !.relay = "over", !.answer = "error"]
          \/ call'[c] = [call[c] EXCEPT !.relay = "over"]
          \/ call'[c] = [call[c] EXCEPT !.relay = "joined", !.answer = "ok"]
          \/ call'[c] = [call[c] EXCEPT !.client = "spliced"]
          \/ call'[c] = [call[c] EXCEPT !.client = "failed"]
      BY <1>13, <1>0 DEF acceptTimesOut, ClientGone, accept, acceptHost, onSocket,
                         AcceptAbandoned, DialAnswered, DialAbandoned, TypeOK
    <3>3. QED
      BY <3>1, <3>2 DEF Call, Dial, NoCall
  <2>5. QED
    BY <1>12, <2>1, <2>2, <2>3, <2>4
<1>14. ASSUME NEW c \in Calls, NEW p \in Peers, NEW pin \in Certs, relayDial(c, p, pin)
       PROVE  AnnouncedOnce' /\ AnnouncedToThePinnedHost'
  <2>1. call[c].relay = "none"
    BY <1>14, <1>0 DEF relayDial, TypeOK, Call, Dial, NoCall
  <2>2. \A d \in Calls : d # c => call'[d] = call[d]
    BY <1>14, <1>0 DEF relayDial, TypeOK
  <2>3. QED
    BY <1>12, <1>14, <2>1, <2>2 DEF relayDial
<1>15. CASE UNCHANGED <<conn, call, callback>>
  BY <1>12, <1>15
<1>16. QED
  <2>1. \A l \in Links :
          \/ ConnectFails(l) \/ RetryTimer(l) \/ \E t \in Tokens : start(l, t)
          => UNCHANGED <<conn, call, callback>>
    BY DEF start, ConnectFails, RetryTimer
  <2>2. \A p \in Peers : RotateCert(p) \/ forget(p) => UNCHANGED <<conn, call, callback>>
    BY DEF RotateCert, forget
  <2>3. UNCHANGED vars => UNCHANGED <<conn, call, callback>>
    BY DEF vars
  <2>4. QED
    BY <1>3, <1>4, <1>5, <1>6, <1>7, <1>8, <1>9, <1>10, <1>11, <1>13, <1>14, <1>15,
       <2>1, <2>2, <2>3
       DEF Next, OwnerNext, LinkNext, CallNext, EndNext

-----------------------------------------------------------------------------
(* Matches: one step per action that changes a call or a dial back.        *)

\* Every action keeps what callers and hosts know within what the relay did.
LEMMA MatchStep == Inv /\ CallInv /\ [Next]_vars => MatchesAreMade'
<1> SUFFICES ASSUME Inv, CallInv, [Next]_vars, NEW d \in Calls
             PROVE  /\ call'[d].relay = "none" => callback'[d] = "none"
                    /\ call'[d].relay \in {"pending", "joined"} =>
                         call'[d].via \in Links /\ PeerOf[call'[d].via] = call'[d].peer
                    /\ callback'[d] \in {"ok", "serving"} => call'[d].relay = "joined"
                    /\ call'[d].answer = "ok" \/ call'[d].client = "spliced" =>
                         call'[d].relay = "joined"
  BY DEF MatchesAreMade
<1> DEFINE Goal == /\ call'[d].relay = "none" => callback'[d] = "none"
                   /\ call'[d].relay \in {"pending", "joined"} =>
                        call'[d].via \in Links /\ PeerOf[call'[d].via] = call'[d].peer
                   /\ callback'[d] \in {"ok", "serving"} => call'[d].relay = "joined"
                   /\ call'[d].answer = "ok" \/ call'[d].client = "spliced" =>
                        call'[d].relay = "joined"
<1> USE DEF hostVars, relayVars, callVars
<1>0. /\ TypeOK /\ TableNamesTheLive /\ AnnouncedOnce /\ MatchesAreMade
      /\ call[d] \in Call /\ callback[d] \in Callback
  BY DEF Inv, CallInv, TypeOK
<1>00. /\ call[d].relay = "none" => callback[d] = "none"
       /\ call[d].relay \in {"pending", "joined"} =>
            call[d].via \in Links /\ PeerOf[call[d].via] = call[d].peer
       /\ callback[d] \in {"ok", "serving"} => call[d].relay = "joined"
       /\ call[d].answer = "ok" \/ call[d].client = "spliced" => call[d].relay = "joined"
  BY <1>0 DEF MatchesAreMade
<1>1. CASE call'[d] = call[d] /\ callback'[d] = callback[d]
  BY <1>00, <1>1
<1>2. ASSUME NEW c \in Calls, NEW p \in Peers, NEW pin \in Certs, relayDial(c, p, pin)
      PROVE  Goal
  <2>1. CASE c = d
    <3>1. call[c] = NoCall
      BY <1>0, <1>2, <2>1 DEF relayDial, Call, Dial
    <3>2. call'[c] = [NoCall EXCEPT !.client = "asking", !.peer = p, !.cert = pin]
      BY <1>0, <1>2, <3>1 DEF relayDial, TypeOK
    <3>3. call'[c].relay = "none" /\ call'[c].answer = "none" /\ call'[c].client = "asking"
      BY <3>2 DEF NoCall
    <3>4. callback'[c] = "none"
      BY <1>2, <1>00, <2>1, <3>1 DEF relayDial, NoCall
    <3>5. QED
      BY <2>1, <3>3, <3>4
  <2>2. CASE c # d
    BY <1>0, <1>1, <1>2, <2>2 DEF relayDial, TypeOK
  <2>3. QED
    BY <2>1, <2>2
<1>3. ASSUME NEW c \in Calls, connectClient(c)
      PROVE  Goal
  <2> DEFINE k == hosts[call[c].peer]
  <2>1. call[c] \in Dial /\ call[c].relay = "none" /\ k \in Conns \cup {None}
    BY <1>0, <1>3, CallInUse DEF connectClient, TypeOK
  <2>2. CASE c = d /\ (k = None \/ conn[k].cert # call[c].cert)
    <3>1. call'[d] = [call[d] EXCEPT !.relay = "over", !.answer = "error"]
      BY <1>0, <1>3, <2>2 DEF connectClient, TypeOK
    <3>2. call'[d].relay = "over" /\ call'[d].answer = "error"
          /\ call'[d].client = call[d].client
      BY <2>1, <2>2, <3>1 DEF Dial
    <3>3. callback'[d] = "none"
      BY <1>3, <1>00, <2>1, <2>2 DEF connectClient
    <3>4. QED
      BY <1>00, <2>1, <2>2, <3>2, <3>3
  <2>3. CASE c = d /\ k # None /\ conn[k].cert = call[c].cert
    <3>1. call'[d] = [call[d] EXCEPT !.relay = "pending", !.via = conn[k].link]
      BY <1>0, <1>3, <2>3 DEF connectClient, TypeOK
    <3>2. k \in Conns /\ conn[k].relay = "registered" /\ PeerOf[conn[k].link] = call[d].peer
      BY <1>0, <2>1, <2>3, CallInUse DEF TypeOK, TableNamesTheLive, Dial
    <3>3. conn[k].link \in Links
      BY <1>0, <3>2, SocketInUse
    <3> HIDE DEF k
    <3>4. /\ call'[d].relay = "pending" /\ call'[d].via = conn[k].link
          /\ call'[d].peer = call[d].peer /\ call'[d].answer = call[d].answer
          /\ call'[d].client = call[d].client
      BY <2>1, <2>3, <3>1 DEF Dial
    <3>5. callback'[d] = "none"
      BY <1>3, <1>00, <2>1, <2>3 DEF connectClient
    <3>6. QED
      BY <1>00, <2>1, <2>3, <3>2, <3>3, <3>4, <3>5
  <2>4. CASE c # d
    BY <1>0, <1>1, <1>3, <2>4 DEF connectClient, TypeOK
  <2>5. QED
    BY <2>2, <2>3, <2>4
<1>4. ASSUME NEW c \in Calls, acceptTimesOut(c) \/ ClientGone(c)
      PROVE  Goal
  <2>1. CASE c = d
    <3>1. /\ call[d] \in Dial /\ call[d].relay = "pending"
          /\ \/ call'[d] = [call[d] EXCEPT !.relay = "over", !.answer = "error"]
             \/ call'[d] = [call[d] EXCEPT !.relay = "over"]
          /\ callback'[d] = callback[d]
      BY <1>0, <1>4, <2>1, CallInUse DEF acceptTimesOut, ClientGone, TypeOK
    <3>2. /\ call'[d].relay = "over" /\ call'[d].answer \in {call[d].answer, "error"}
          /\ call'[d].client = call[d].client
      BY <3>1 DEF Dial
    <3>3. QED
      BY <1>00, <3>1, <3>2
  <2>2. CASE c # d
    BY <1>0, <1>1, <1>4, <2>2 DEF acceptTimesOut, ClientGone, TypeOK
  <2>3. QED
    BY <2>1, <2>2
<1>5. ASSUME NEW c \in Calls, accept(c) \/ onSocket(c) \/ AcceptAbandoned(c)
      PROVE  Goal
  <2>1. call' = call
    BY <1>5 DEF accept, onSocket, AcceptAbandoned
  <2>2. /\ callback[d] = "none" => callback'[d] = "none"
        /\ callback'[d] \in {"ok", "serving"} => callback[d] \in {"ok", "serving"}
    BY <1>0, <1>5 DEF accept, onSocket, AcceptAbandoned, TypeOK
  <2>3. QED
    BY <1>00, <2>1, <2>2
<1>6. ASSUME NEW c \in Calls, acceptHost(c)
      PROVE  Goal
  <2>1. CASE c = d /\ call'[d] # call[d]
    <3>1. /\ call[d] \in Dial /\ call[d].relay = "pending"
          /\ call'[d] = [call[d] EXCEPT !.relay = "joined", !.answer = "ok"]
      BY <1>0, <1>6, <2>1, CallInUse DEF acceptHost, TypeOK
    <3>2. /\ call'[d].relay = "joined" /\ call'[d].via = call[d].via
          /\ call'[d].peer = call[d].peer
      BY <3>1 DEF Dial
    <3>3. QED
      BY <1>00, <3>1, <3>2
  <2>2. CASE c = d /\ call'[d] = call[d]
    <3>1. \/ call'[d].relay = "joined"
          \/ callback'[d] = "dropped"
      <4>1. CASE callback'[d] = "dropped"
        BY <4>1
      <4>2. CASE call'[d] = [call[d] EXCEPT !.relay = "joined", !.answer = "ok"]
        BY <1>0, <4>2 DEF Call, Dial, NoCall
      <4>3. QED
        BY <1>0, <1>6, <2>2, <4>1, <4>2 DEF acceptHost, TypeOK
    <3>2. call[d].relay # "none"
      BY <1>6, <1>00, <2>2 DEF acceptHost
    <3>3. QED
      BY <1>00, <2>2, <3>1, <3>2
  <2>3. CASE c # d
    BY <1>0, <1>1, <1>6, <2>3 DEF acceptHost, TypeOK
  <2>4. QED
    BY <2>1, <2>2, <2>3
<1>7. ASSUME NEW c \in Calls, DialAnswered(c) \/ DialAbandoned(c)
      PROVE  Goal
  <2>1. CASE c = d
    <3>1. /\ call[d] \in Dial
          /\ \/ call[d].answer = "ok" /\ call'[d] = [call[d] EXCEPT !.client = "spliced"]
             \/ call'[d] = [call[d] EXCEPT !.client = "failed"]
          /\ callback'[d] = callback[d]
      BY <1>0, <1>7, <2>1, CallInUse DEF DialAnswered, DialAbandoned, TypeOK
    <3>2. /\ call'[d].relay = call[d].relay /\ call'[d].via = call[d].via
          /\ call'[d].peer = call[d].peer /\ call'[d].answer = call[d].answer
          /\ call'[d].client = "spliced" => call[d].answer = "ok"
      BY <3>1 DEF Dial
    <3>3. QED
      BY <1>00, <3>1, <3>2
  <2>2. CASE c # d
    BY <1>0, <1>1, <1>7, <2>2 DEF DialAnswered, DialAbandoned, TypeOK
  <2>3. QED
    BY <2>1, <2>2
<1>8. ASSUME NEW k \in Conns, Receive(k)
      PROVE  Goal
  <2> DEFINE frame == Head(conn[k].down)
  <2>1. call' = call
    BY <1>8 DEF Receive
  <2>2. CASE d = frame
    <3>1. conn[k].down \in Seq(Frame) /\ conn[k].down # <<>>
      BY <1>0, <1>8, DownIsSeq DEF Receive, TypeOK
    <3>2. 1 \in DOMAIN conn[k].down /\ conn[k].down[1] = d
      BY <2>2, <3>1
    <3>3. call[d].relay # "none"
      BY <1>0, <3>2 DEF AnnouncedOnce
    <3>4. callback'[d] = "connecting"
      BY <1>0, <1>8, <2>2 DEF Receive, TypeOK
    <3>5. QED
      BY <1>00, <2>1, <3>3, <3>4
  <2>3. CASE d # frame
    BY <1>0, <1>1, <1>8, <2>1, <2>3 DEF Receive, TypeOK
  <2>4. QED
    BY <2>2, <2>3
<1>9. CASE RelayRestart
  <2>1. /\ callback'[d] \in {callback[d], "dropped"}
        /\ callback[d] = "none" => callback'[d] = "none"
        /\ \/ call'[d] = call[d]
           \/ /\ call[d].client # "idle" /\ call[d].relay \in {"none", "pending"}
              /\ call'[d] = [call[d] EXCEPT !.relay = "over"]
    BY <1>9 DEF RelayRestart
  <2>2. CASE call'[d] = call[d]
    BY <1>00, <2>1, <2>2, <1>9 DEF RelayRestart
  <2>3. CASE /\ call[d].client # "idle" /\ call[d].relay \in {"none", "pending"}
             /\ call'[d] = [call[d] EXCEPT !.relay = "over"]
    <3>1. /\ call'[d].relay = "over" /\ call'[d].answer = call[d].answer
          /\ call'[d].client = call[d].client
      BY <1>0, <2>3, CallInUse DEF Dial
    <3>2. QED
      BY <1>00, <2>1, <2>3, <3>1
  <2>4. QED
    BY <2>1, <2>2, <2>3
<1>10. CASE UNCHANGED <<call, callback>>
  BY <1>1, <1>10
<1>11. QED
  <2>1. \A l \in Links :
          \/ stop(l) \/ ConnectSucceeds(l) \/ ConnectFails(l) \/ RetryTimer(l)
          \/ \E t \in Tokens : start(l, t)
          => UNCHANGED <<call, callback>>
    BY DEF start, stop, ConnectSucceeds, ConnectFails, RetryTimer
  <2>2. \A p \in Peers : RotateCert(p) \/ forget(p) => UNCHANGED <<call, callback>>
    BY DEF RotateCert, forget
  <2>3. \A k \in Conns :
          SocketError(k) \/ SocketClose(k) \/ RelayClose(k) \/ register(k)
          => UNCHANGED <<call, callback>>
    BY DEF SocketError, SocketClose, RelayClose, register
  <2>4. UNCHANGED vars => UNCHANGED <<call, callback>>
    BY DEF vars
  <2>5. QED
    BY <1>2, <1>3, <1>4, <1>5, <1>6, <1>7, <1>8, <1>9, <1>10, <2>1, <2>2, <2>3, <2>4
       DEF Next, OwnerNext, LinkNext, CallNext, EndNext

\* The inductive invariant of calls holds in every reachable state.
LEMMA CallsInOrder == Spec => [](Inv /\ CallInv)
<1>1. Init => CallInv
  BY DEF Init, CallInv, AnnouncedOnce, AnnouncedToThePinnedHost, MatchesAreMade, NoCall, NoConn
<1>2. Inv /\ Inv' /\ CallInv /\ [Next]_vars => CallInv'
  BY AnnouncementStep, MatchStep DEF CallInv
<1>3. QED
  BY <1>1, <1>2, Invariance, PTL DEF Spec

\* A call on its way to a host goes to the peer that was asked for, over a
\* connection registered with the certificate the caller pinned.
THEOREM Announced == Spec => []AnnouncedToThePinnedHost
<1>1. CallInv => AnnouncedToThePinnedHost
  BY DEF CallInv
<1>2. QED
  BY <1>1, CallsInOrder, PTL

-----------------------------------------------------------------------------
(* The relay keeps its promise: every step is one of Introductions, or     *)
(* none that it tells of.                                                  *)

\* The phase Promise sees, in terms of the two ends of a call.
LEMMA PhaseIs ==
  ASSUME TypeOK, NEW c \in Calls
  PROVE  /\ CallPhase(c) = "new" <=> call[c].client = "idle"
         /\ CallPhase(c) = "asked" <=> /\ call[c].client # "idle"
                                       /\ call[c].relay \in {"none", "pending"}
         /\ CallPhase(c) = "matched" <=> call[c].relay = "joined"
         /\ CallPhase(c) = "refused" <=> call[c].relay = "over"
         /\ call[c].client = "idle" => call[c] = NoCall /\ call[c].relay = "none"
         /\ CallPhase(c) \in {"new", "asked", "matched", "refused"}
<1>1. call[c] \in Call
  BY DEF TypeOK
<1>2. call[c].client = "idle" => call[c] = NoCall /\ call[c].relay = "none"
  BY <1>1 DEF Call, Dial, NoCall
<1>3. call[c].relay \in {"none", "pending", "joined", "over"}
  BY <1>1 DEF Call, Dial, NoCall
<1>4. QED
  BY <1>2, <1>3 DEF CallPhase

\* The initial states map to initial states of Introductions.
LEMMA PromiseBegins == Init => Promise!Init
  BY DEF Init, Promise!Init, NoCall, CallPhase

\* Who a call was matched with, and who knows, as Promise sees it.
PartyOf(c) == IF call[c].relay = "joined" THEN call[c].via ELSE None
Told(c) == (IF call[c].client = "spliced" THEN {"caller"} ELSE {})
           \cup (IF callback[c] = "serving" THEN {"host"} ELSE {})

\* What Promise sees of a call in this step is what it saw before.
SameToPromise(c) ==
  /\ CallPhase(c)' = CallPhase(c)
  /\ call'[c].peer = call[c].peer
  /\ PartyOf(c)' = PartyOf(c)
  /\ Told(c)' = Told(c)

\* A call that is not touched, at either end, looks the same to Promise.
LEMMA SameCall ==
  ASSUME NEW c \in Calls, call'[c] = call[c],
         callback'[c] = "serving" <=> callback[c] = "serving"
  PROVE  SameToPromise(c)
  BY DEF SameToPromise, CallPhase, PartyOf, Told

\* A step that touches one call is the step of Introductions its change shows.
LEMMA PromiseSteps ==
  ASSUME NEW c \in Calls, \A d \in Calls : d # c => SameToPromise(d)
  PROVE  /\ SameToPromise(c) => UNCHANGED Promise!vars
         /\ \A p \in Peers :
              /\ CallPhase(c) = "new" /\ CallPhase(c)' = "asked" /\ call'[c].peer = p
              /\ PartyOf(c)' = PartyOf(c) /\ Told(c)' = Told(c)
              => Promise!Ask(c, p)
         /\ \A l \in Links :
              /\ CallPhase(c) = "asked" /\ CallPhase(c)' = "matched" /\ PartyOf(c)' = l
              /\ PeerOf[l] = call[c].peer
              /\ call'[c].peer = call[c].peer /\ Told(c)' = Told(c)
              => Promise!Match(c, l)
         /\ /\ CallPhase(c) = "asked" /\ CallPhase(c)' = "refused"
            /\ call'[c].peer = call[c].peer
            /\ PartyOf(c)' = PartyOf(c) /\ Told(c)' = Told(c)
            => Promise!Refuse({c})
         /\ \A end \in {"caller", "host"} :
              /\ CallPhase(c) = "matched" /\ CallPhase(c)' = "matched"
              /\ end \notin Told(c) /\ Told(c)' = Told(c) \cup {end}
              /\ call'[c].peer = call[c].peer /\ PartyOf(c)' = PartyOf(c)
              => Promise!Tell(c, end)
<1> USE DEF SameToPromise
<1> DEFINE phase == [d \in Calls |-> CallPhase(d)]
           wanted == [d \in Calls |-> call[d].peer]
           party == [d \in Calls |-> PartyOf(d)]
           told == [d \in Calls |-> Told(d)]
<1>1. SameToPromise(c) => UNCHANGED Promise!vars
  BY DEF Promise!vars, PartyOf, Told
<1>2. ASSUME NEW p \in Peers, CallPhase(c) = "new", CallPhase(c)' = "asked",
             call'[c].peer = p, PartyOf(c)' = PartyOf(c), Told(c)' = Told(c)
      PROVE  Promise!Ask(c, p)
  <2>1. /\ phase' = [phase EXCEPT ![c] = "asked"] /\ wanted' = [wanted EXCEPT ![c] = p]
        /\ party' = party /\ told' = told
    BY <1>2
  <2>2. QED
    BY <1>2, <2>1 DEF Promise!Ask, PartyOf, Told
<1>3. ASSUME NEW l \in Links, CallPhase(c) = "asked", CallPhase(c)' = "matched",
             PartyOf(c)' = l, PeerOf[l] = call[c].peer, call'[c].peer = call[c].peer,
             Told(c)' = Told(c)
      PROVE  Promise!Match(c, l)
  <2>1. /\ phase' = [phase EXCEPT ![c] = "matched"] /\ party' = [party EXCEPT ![c] = l]
        /\ wanted' = wanted /\ told' = told
    BY <1>3
  <2>2. QED
    BY <1>3, <2>1 DEF Promise!Match, PartyOf, Told
<1>4. ASSUME CallPhase(c) = "asked", CallPhase(c)' = "refused",
             call'[c].peer = call[c].peer, PartyOf(c)' = PartyOf(c), Told(c)' = Told(c)
      PROVE  Promise!Refuse({c})
  <2>1. /\ phase' = [d \in Calls |-> IF d \in {c} THEN "refused" ELSE phase[d]]
        /\ wanted' = wanted /\ party' = party /\ told' = told
    BY <1>4
  <2>2. QED
    BY <1>4, <2>1 DEF Promise!Refuse, PartyOf, Told
<1>5. ASSUME NEW end \in {"caller", "host"}, CallPhase(c) = "matched", CallPhase(c)' = "matched",
             end \notin Told(c), Told(c)' = Told(c) \cup {end},
             call'[c].peer = call[c].peer, PartyOf(c)' = PartyOf(c)
      PROVE  Promise!Tell(c, end)
  <2>1. /\ told' = [told EXCEPT ![c] = @ \cup {end}]
        /\ phase' = phase /\ wanted' = wanted /\ party' = party
    BY <1>5
  <2>2. QED
    BY <1>5, <2>1 DEF Promise!Tell, PartyOf, Told
<1>6. QED
  BY <1>1, <1>2, <1>3, <1>4, <1>5

\* Every action is a step of Introductions or changes nothing it tells of.
LEMMA PromiseStep ==
  Inv /\ Inv' /\ CallInv /\ CallInv' /\ [Next]_vars => [Promise!Next]_Promise!vars
<1> SUFFICES ASSUME Inv, Inv', CallInv, CallInv', [Next]_vars
             PROVE  Promise!Next \/ UNCHANGED Promise!vars
  OBVIOUS
<1> USE DEF hostVars, relayVars, callVars
<1>0. /\ TypeOK /\ TypeOK' /\ AnnouncedOnce /\ MatchesAreMade /\ MatchesAreMade'
      /\ \A c \in Calls : call[c] \in Call
  BY DEF Inv, CallInv, TypeOK
<1>1. ASSUME \A d \in Calls : SameToPromise(d)
      PROVE  UNCHANGED Promise!vars
  BY <1>1 DEF SameToPromise, Promise!vars, PartyOf, Told
<1>2. ASSUME NEW c \in Calls, NEW p \in Peers, NEW pin \in Certs, relayDial(c, p, pin)
      PROVE  Promise!Next
  <2>1. \A d \in Calls : d # c => SameToPromise(d)
    BY <1>0, <1>2, SameCall DEF relayDial, TypeOK
  <2>2. CallPhase(c) = "new" /\ call[c] = NoCall
    BY <1>0, <1>2, PhaseIs DEF relayDial
  <2>3. call'[c] = [NoCall EXCEPT !.client = "asking", !.peer = p, !.cert = pin]
    BY <1>0, <1>2, <2>2 DEF relayDial, TypeOK
  <2>4. /\ call'[c].client = "asking" /\ call'[c].relay = "none" /\ call'[c].peer = p
        /\ call[c].relay = "none" /\ call[c].client = "idle"
    BY <2>2, <2>3 DEF NoCall
  <2>5. CallPhase(c)' = "asked"
    BY <2>4 DEF CallPhase
  <2>6. PartyOf(c)' = PartyOf(c) /\ Told(c)' = Told(c)
    BY <1>2, <2>4 DEF PartyOf, Told, relayDial
  <2>7. Promise!Ask(c, p)
    BY <2>1, <2>2, <2>4, <2>5, <2>6, PromiseSteps
  <2>8. QED
    BY <2>7 DEF Promise!Next
<1>3. ASSUME NEW c \in Calls, connectClient(c)
      PROVE  Promise!Next \/ UNCHANGED Promise!vars
  <2>1. \A d \in Calls : d # c => SameToPromise(d)
    BY <1>0, <1>3, SameCall DEF connectClient, TypeOK
  <2>2. /\ call[c] \in Dial /\ call[c].relay = "none" /\ call[c].client # "idle"
        /\ CallPhase(c) = "asked"
    BY <1>0, <1>3, CallInUse, PhaseIs DEF connectClient
  <2>3. \/ call'[c] = [call[c] EXCEPT !.relay = "over", !.answer = "error"]
        \/ \E v : call'[c] = [call[c] EXCEPT !.relay = "pending", !.via = v]
    BY <1>0, <1>3 DEF connectClient, TypeOK
  <2>4. /\ call'[c].client = call[c].client /\ call'[c].peer = call[c].peer
        /\ call'[c].relay \in {"over", "pending"}
    BY <2>2, <2>3 DEF Dial
  <2>5. PartyOf(c)' = PartyOf(c) /\ Told(c)' = Told(c)
    BY <1>3, <2>2, <2>4 DEF PartyOf, Told, connectClient
  <2>6. CASE call'[c].relay = "pending"
    <3>1. SameToPromise(c)
      BY <2>2, <2>4, <2>5, <2>6 DEF SameToPromise, CallPhase
    <3>2. QED
      BY <2>1, <3>1, PromiseSteps
  <2>7. CASE call'[c].relay = "over"
    <3>1. CallPhase(c)' = "refused"
      BY <2>2, <2>4, <2>7 DEF CallPhase
    <3>2. Promise!Refuse({c})
      BY <2>1, <2>2, <2>4, <2>5, <3>1, PromiseSteps
    <3>3. QED
      BY <3>2 DEF Promise!Next
  <2>8. QED
    BY <2>4, <2>6, <2>7
<1>4. ASSUME NEW c \in Calls, acceptTimesOut(c) \/ ClientGone(c)
      PROVE  Promise!Next
  <2>1. \A d \in Calls : d # c => SameToPromise(d)
    BY <1>0, <1>4, SameCall DEF acceptTimesOut, ClientGone, TypeOK
  <2>2. /\ call[c] \in Dial /\ call[c].relay = "pending" /\ call[c].client # "idle"
        /\ CallPhase(c) = "asked"
    BY <1>0, <1>4, CallInUse, PhaseIs DEF acceptTimesOut, ClientGone
  <2>3. \/ call'[c] = [call[c] EXCEPT !.relay = "over", !.answer = "error"]
        \/ call'[c] = [call[c] EXCEPT !.relay = "over"]
    BY <1>0, <1>4 DEF acceptTimesOut, ClientGone, TypeOK
  <2>4. /\ call'[c].client = call[c].client /\ call'[c].peer = call[c].peer
        /\ call'[c].relay = "over"
    BY <2>2, <2>3 DEF Dial
  <2>5. PartyOf(c)' = PartyOf(c) /\ Told(c)' = Told(c)
    BY <1>4, <2>2, <2>4 DEF PartyOf, Told, acceptTimesOut, ClientGone
  <2>6. CallPhase(c)' = "refused"
    BY <2>2, <2>4 DEF CallPhase
  <2>7. Promise!Refuse({c})
    BY <2>1, <2>2, <2>4, <2>5, <2>6, PromiseSteps
  <2>8. QED
    BY <2>7 DEF Promise!Next
<1>5. ASSUME NEW c \in Calls, accept(c) \/ AcceptAbandoned(c)
      PROVE  UNCHANGED Promise!vars
  <2>1. \A d \in Calls : call'[d] = call[d] /\ (callback'[d] = "serving" <=> callback[d] = "serving")
    BY <1>0, <1>5 DEF accept, AcceptAbandoned, TypeOK
  <2>2. QED
    BY <1>1, <2>1, SameCall
<1>6. ASSUME NEW c \in Calls, acceptHost(c)
      PROVE  Promise!Next \/ UNCHANGED Promise!vars
  <2>1. \A d \in Calls : d # c => SameToPromise(d)
    BY <1>0, <1>6, SameCall DEF acceptHost, TypeOK
  <2>2. callback[c] # "serving" /\ callback'[c] \in {"ok", "dropped"}
    BY <1>0, <1>6 DEF acceptHost, TypeOK
  <2>3. CASE call' = call
    <3>1. SameToPromise(c)
      BY <2>2, <2>3, SameCall
    <3>2. QED
      BY <2>1, <3>1, PromiseSteps
  <2>4. CASE /\ call[c].relay = "pending"
             /\ call' = [call EXCEPT ![c] = [call[c] EXCEPT !.relay = "joined", !.answer = "ok"]]
    <3>1. /\ call[c] \in Dial /\ call[c].client # "idle" /\ CallPhase(c) = "asked"
          /\ call[c].via \in Links /\ PeerOf[call[c].via] = call[c].peer
      BY <1>0, <2>4, CallInUse, PhaseIs DEF MatchesAreMade
    <3>2. call'[c] = [call[c] EXCEPT !.relay = "joined", !.answer = "ok"]
      BY <1>0, <2>4 DEF TypeOK
    <3>3. /\ call'[c].client = call[c].client /\ call'[c].peer = call[c].peer
          /\ call'[c].relay = "joined" /\ call'[c].via = call[c].via
      BY <3>1, <3>2 DEF Dial
    <3>4. CallPhase(c)' = "matched" /\ PartyOf(c)' = call[c].via /\ Told(c)' = Told(c)
      BY <2>2, <3>1, <3>3 DEF CallPhase, PartyOf, Told
    <3>5. PICK l \in Links : l = call[c].via
      BY <3>1
    <3>6. PartyOf(c)' = l /\ PeerOf[l] = call[c].peer
      BY <3>1, <3>4, <3>5
    <3>7. Promise!Match(c, l)
      BY <2>1, <3>1, <3>3, <3>4, <3>6, PromiseSteps
    <3>8. QED
      BY <3>7 DEF Promise!Next
  <2>5. QED
    BY <1>6, <2>3, <2>4 DEF acceptHost
<1>7. ASSUME NEW c \in Calls, onSocket(c)
      PROVE  Promise!Next
  <2>1. \A d \in Calls : d # c => SameToPromise(d)
    BY <1>0, <1>7, SameCall DEF onSocket, TypeOK
  <2>2. /\ callback[c] = "ok" /\ callback'[c] = "serving" /\ call' = call
        /\ call[c].relay = "joined" /\ CallPhase(c) = "matched"
    BY <1>0, <1>7, PhaseIs DEF onSocket, TypeOK, MatchesAreMade
  <2>3. CallPhase(c)' = CallPhase(c) /\ PartyOf(c)' = PartyOf(c)
    BY <2>2 DEF CallPhase, PartyOf
  <2>4. "host" \notin Told(c) /\ Told(c)' = Told(c) \cup {"host"}
    BY <2>2 DEF Told
  <2>5. Promise!Tell(c, "host")
    BY <2>1, <2>2, <2>3, <2>4, PromiseSteps
  <2>6. QED
    BY <2>5 DEF Promise!Next
<1>8. ASSUME NEW c \in Calls, DialAnswered(c) \/ DialAbandoned(c)
      PROVE  Promise!Next \/ UNCHANGED Promise!vars
  <2>1. \A d \in Calls : d # c => SameToPromise(d)
    BY <1>0, <1>8, SameCall DEF DialAnswered, DialAbandoned, TypeOK
  <2>2. /\ call[c] \in Dial /\ call[c].client = "asking" /\ callback' = callback
        /\ \/ call[c].answer = "ok" /\ call'[c] = [call[c] EXCEPT !.client = "spliced"]
           \/ call'[c] = [call[c] EXCEPT !.client = "failed"]
    BY <1>0, <1>8, CallInUse DEF DialAnswered, DialAbandoned, TypeOK
  <2>3. /\ call'[c].relay = call[c].relay /\ call'[c].peer = call[c].peer
        /\ call'[c].via = call[c].via
        /\ \/ call'[c].client = "spliced" /\ call[c].answer = "ok"
           \/ call'[c].client = "failed"
    BY <2>2 DEF Dial
  <2>4. CallPhase(c)' = CallPhase(c) /\ PartyOf(c)' = PartyOf(c)
    BY <2>2, <2>3 DEF CallPhase, PartyOf
  <2>5. CASE call'[c].client = "spliced" /\ call[c].answer = "ok"
    <3>1. CallPhase(c) = "matched"
      BY <1>0, <2>5, PhaseIs DEF MatchesAreMade
    <3>2. "caller" \notin Told(c) /\ Told(c)' = Told(c) \cup {"caller"}
      BY <2>2, <2>5 DEF Told
    <3>3. Promise!Tell(c, "caller")
      BY <2>1, <2>3, <2>4, <3>1, <3>2, PromiseSteps
    <3>4. QED
      BY <3>3 DEF Promise!Next
  <2>6. CASE call'[c].client = "failed"
    <3>1. SameToPromise(c)
      BY <2>2, <2>3, <2>4, <2>6 DEF SameToPromise, Told
    <3>2. QED
      BY <2>1, <3>1, PromiseSteps
  <2>7. QED
    BY <2>3, <2>5, <2>6
<1>9. ASSUME NEW k \in Conns, Receive(k)
      PROVE  UNCHANGED Promise!vars
  <2> DEFINE frame == Head(conn[k].down)
  <2>1. call' = call
    BY <1>9 DEF Receive
  <2>2. ASSUME NEW d \in Calls
        PROVE  callback'[d] = "serving" <=> callback[d] = "serving"
    <3>1. CASE d = frame
      <4>1. conn[k].down \in Seq(Frame) /\ conn[k].down # <<>>
        BY <1>0, <1>9, DownIsSeq DEF Receive, TypeOK
      <4>2. 1 \in DOMAIN conn[k].down /\ conn[k].down[1] = d
        BY <3>1, <4>1
      <4>3. callback[d] = "none"
        BY <1>0, <4>2 DEF AnnouncedOnce
      <4>4. callback'[d] = "connecting"
        BY <1>0, <1>9, <3>1 DEF Receive, TypeOK
      <4>5. QED
        BY <4>3, <4>4
    <3>2. CASE d # frame
      BY <1>0, <1>9, <3>2 DEF Receive, TypeOK
    <3>3. QED
      BY <3>1, <3>2
  <2>3. QED
    BY <1>1, <2>1, <2>2, SameCall
<1>10. CASE RelayRestart
  <2> DEFINE C == {c \in Calls : call[c].client # "idle" /\ call[c].relay \in {"none", "pending"}}
  <2>1. ASSUME NEW c \in C
        PROVE  /\ CallPhase(c) = "asked" /\ CallPhase(c)' = "refused"
               /\ call'[c].peer = call[c].peer
               /\ PartyOf(c)' = PartyOf(c) /\ Told(c)' = Told(c)
    <3>1. call[c] \in Dial /\ CallPhase(c) = "asked"
      BY <1>0, CallInUse, PhaseIs
    <3>2. call'[c] = [call[c] EXCEPT !.relay = "over"]
      BY <1>10 DEF RelayRestart
    <3>3. /\ call'[c].relay = "over" /\ call'[c].peer = call[c].peer
          /\ call'[c].client = call[c].client
      BY <3>1, <3>2 DEF Dial
    <3>4. callback'[c] = "serving" <=> callback[c] = "serving"
      BY <1>10 DEF RelayRestart
    <3>5. QED
      BY <3>1, <3>3, <3>4 DEF CallPhase, PartyOf, Told
  <2>2. ASSUME NEW d \in Calls, d \notin C
        PROVE  SameToPromise(d)
    <3>1. call'[d] = call[d] /\ (callback'[d] = "serving" <=> callback[d] = "serving")
      BY <1>10, <2>2 DEF RelayRestart
    <3>2. QED
      BY <3>1, SameCall
  <2>3. Promise!Refuse(C)
    <3> DEFINE phase == [d \in Calls |-> CallPhase(d)]
               wanted == [d \in Calls |-> call[d].peer]
               party == [d \in Calls |-> PartyOf(d)]
               told == [d \in Calls |-> Told(d)]
    <3>1. phase' = [d \in Calls |-> IF d \in C THEN "refused" ELSE phase[d]]
      BY <2>1, <2>2 DEF SameToPromise
    <3>2. wanted' = wanted /\ party' = party /\ told' = told
      BY <2>1, <2>2 DEF SameToPromise
    <3>3. \A c \in C : c \in Calls /\ phase[c] = "asked"
      BY <2>1
    <3> HIDE DEF C
    <3>4. QED
      BY <3>1, <3>2, <3>3 DEF Promise!Refuse, PartyOf, Told
  <2>4. QED
    BY <2>3 DEF Promise!Next
<1>11. CASE UNCHANGED <<call, callback>>
  BY <1>1, <1>11, SameCall
<1>12. QED
  <2>1. \A l \in Links :
          \/ stop(l) \/ ConnectSucceeds(l) \/ ConnectFails(l) \/ RetryTimer(l)
          \/ \E t \in Tokens : start(l, t)
          => UNCHANGED <<call, callback>>
    BY DEF start, stop, ConnectSucceeds, ConnectFails, RetryTimer
  <2>2. \A p \in Peers : RotateCert(p) \/ forget(p) => UNCHANGED <<call, callback>>
    BY DEF RotateCert, forget
  <2>3. \A k \in Conns :
          SocketError(k) \/ SocketClose(k) \/ RelayClose(k) \/ register(k)
          => UNCHANGED <<call, callback>>
    BY DEF SocketError, SocketClose, RelayClose, register
  <2>4. UNCHANGED vars => UNCHANGED <<call, callback>>
    BY DEF vars
  <2>5. QED
    BY <1>2, <1>3, <1>4, <1>5, <1>6, <1>7, <1>8, <1>9, <1>10, <1>11, <2>1, <2>2, <2>3, <2>4
       DEF Next, OwnerNext, LinkNext, CallNext, EndNext

\* The relay, callers and hosts implement Introductions: no call is matched
\* twice, after it was refused, or with a link of another peer, and neither
\* end of a call hears of a match the relay did not make.
THEOREM PromiseKept == Spec => KeepsThePromise
<1>1. Init => Promise!Init
  BY PromiseBegins
<1>2. Inv /\ Inv' /\ CallInv /\ CallInv' /\ [Next]_vars => [Promise!Next]_Promise!vars
  BY PromiseStep
<1>3. QED
  BY <1>1, <1>2, CallsInOrder, PTL DEF Spec, KeepsThePromise, Promise!Spec
=============================================================================
