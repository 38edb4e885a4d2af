--------------------------- MODULE PeerConnection ---------------------------
(***************************************************************************)
(* One client-side connection to a peer: the class PeerConnection of       *)
(* src/main/peer-client.ts.  The connection owns one event stream (an      *)
(* HTTPS request whose answer never ends), a retry timer, and the status   *)
(* the user sees.  Everything asynchronous is a separate step: a request   *)
(* is sent in one action, its answer or its error is another, and a        *)
(* request the connection destroyed still reports an error later, because  *)
(* Node emits 'error' for a destroyed request ("socket hang up" before the *)
(* answer, "aborted" on the answer after it).  All those callbacks look at *)
(* the shared field `stream`, never at the request they belong to.         *)
(*                                                                         *)
(* Left out: the bytes of the SSE frames, the texts of lastError, the      *)
(* round-trip time, and token rotation.                                    *)
(***************************************************************************)
EXTENDS Integers

CONSTANTS
  Reqs,         \* slots for event-stream requests; a slot is reused when free
  Repos,        \* repositories of the host a tab can be open on
  Addrs,        \* direct addresses (host and port) the peer can have
  Relays,       \* relay routes
  None,         \* no request
  NoAddr,       \* a relay-only endpoint: no direct address to try
  NoRelay,      \* no relay route known
  BackoffMin,   \* BACKOFF_MIN_MS
  BackoffMax,   \* BACKOFF_MAX_MS
  MaxStrays     \* bound: armed timers the field retryTimer has lost track of

ASSUME NoneAssumption == None \notin Reqs
ASSUME NoAddrAssumption == NoAddr \notin Addrs
ASSUME NoRelayAssumption == NoRelay \notin Relays
ASSUME BackoffAssumption ==
  BackoffMin \in Nat \ {0} /\ BackoffMax \in Nat /\ BackoffMin <= BackoffMax
ASSUME StraysAssumption == MaxStrays \in Nat

VARIABLES
  want,              \* wantConnected
  status,            \* the status the user sees
  stream,            \* the request (or dial placeholder) the field holds
  timer,             \* retryTimer holds an armed timer
  strays,            \* armed timers that retryTimer no longer refers to
  backoff,           \* delay of the next retry
  via,               \* route of the current or last stream
  directFailedOnce,  \* the last direct attempt failed, the relay is next
  subs,              \* subscriptions
  addr,              \* endpoint.host and endpoint.port
  relay,             \* endpoint.relay
  reqs,              \* what became of every request
  learning,          \* afterConnected() awaits /info
  hostCert,          \* is the host still presenting the pinned certificate?
  misattributed      \* history: a callback of one request was taken for
                     \* the failure of another

user == <<want, subs>>
endpoint == <<addr, relay>>
retry == <<timer, strays, backoff, directFailedOnce>>
world == <<learning, hostCert>>
vars == <<want, status, stream, timer, strays, backoff, via, directFailedOnce,
          subs, addr, relay, reqs, learning, hostCert, misattributed>>

-----------------------------------------------------------------------------
(* Requests.                                                               *)

Status == {"connected", "connecting", "offline", "revoked", "cert-changed"}

\* free: never sent or finished.  dialing, handshaking: placeholder of a relay
\* dial, before the relay has answered and during the TLS handshake after it.
\* pending: sent, no answer yet.  live: answered 200, events flow.
\* closing: destroyed by closeStream(), its error event is still to come.
Dialing == {"dialing", "handshaking"}
Phase == Dialing \cup {"free", "pending", "live", "closing"}

Request == [phase: Phase, repos: SUBSET Repos, addr: Addrs \cup {NoAddr}]

\* A request whose query no longer matters, or is not written yet.
Blank(p) == [phase |-> p, repos |-> {}, addr |-> NoAddr]

PhaseOf(r) == reqs[r].phase

Free == {r \in Reqs : PhaseOf(r) = "free"}

\* Requests that hold a socket, or are about to, and nobody has destroyed.
Open == {r \in Reqs : PhaseOf(r) \in {"pending", "live"}}

\* A relay-only endpoint was paired through the relay.
relayOnly == addr = NoAddr

\* The kinds of error a request can end with, and the ones isTlsError()
\* takes for a changed certificate.  A handshake cut by the network ends with
\* "Client network socket disconnected before secure TLS connection was
\* established", which the test on the message matches.
ErrorKind == {"unreachable", "certMismatch", "handshakeCut"}
isTlsError(kind) == kind \in {"certMismatch", "handshakeCut"}

\* Which errors the network and the host can produce at this moment.
CanHappen(kind) == kind = "certMismatch" => hostCert = "replaced"

\* The requests after closeStream(): the stream is destroyed; a placeholder
\* has no destroy(), its dial goes on and is dropped when it ends.
Closed ==
  IF stream = None \/ PhaseOf(stream) \in Dialing
  THEN reqs
  ELSE [reqs EXCEPT ![stream] = Blank("closing")]

Finished(r) == [reqs EXCEPT ![r] = Blank("free")]

-----------------------------------------------------------------------------
(* The private methods the callbacks are made of.                          *)

\* openStream(), with the requests `before` and directFailedOnce = once: the
\* relay only for a relay-only endpoint or when direct has just failed.  A
\* direct request leaves at once, a relay route is dialled first.
OpenStream(r, before, once) ==
  LET useRelay == relay' # NoRelay /\ (addr' = NoAddr \/ once) IN
  /\ before[r].phase = "free"
  /\ stream' = r
  /\ via' = IF useRelay THEN "relay" ELSE "direct"
  /\ status' = IF status = "connected" THEN "connected" ELSE "connecting"
  /\ reqs' = [before EXCEPT ![r] =
                IF useRelay THEN Blank("dialing")
                ELSE [phase |-> "pending", repos |-> subs', addr |-> addr']]

\* retryTimer = setTimeout(...): a timer the field still held stays armed,
\* but nothing can clear it any more.
ArmTimer ==
  /\ timer' = TRUE
  /\ strays' = IF timer THEN strays + 1 ELSE strays
  /\ strays' <= MaxStrays

\* Direct just failed and a relay is known: switch over right away.
TryRelayNext == via = "direct" /\ relay # NoRelay /\ ~directFailedOnce

\* Mutants: the doubled backoff is not capped; the switch to the relay arms no
\* timer; a failed stream leaves the status as it was.
RescheduleUncapped ==
  /\ ArmTimer
  /\ directFailedOnce' = directFailedOnce
  /\ status' = "offline"
  /\ backoff' = 2 * backoff

RescheduleForgetsRelayTimer ==
  IF TryRelayNext
  THEN directFailedOnce' = TRUE /\ status' = "connecting"
       /\ UNCHANGED <<timer, strays, backoff>>
  ELSE ArmTimer /\ status' = "offline" /\ UNCHANGED <<directFailedOnce, backoff>>

RescheduleKeepsStatus ==
  ArmTimer /\ UNCHANGED <<status, directFailedOnce, backoff>>

Reschedule ==
  /\ ArmTimer
  /\ \/ /\ TryRelayNext
        /\ directFailedOnce' = TRUE
        /\ status' = "connecting"
        /\ UNCHANGED backoff
     \/ /\ ~TryRelayNext
        /\ directFailedOnce' = (directFailedOnce /\ (via = "direct" \/ relayOnly))
        /\ status' = "offline"
        /\ backoff' = IF 2 * backoff < BackoffMax THEN 2 * backoff ELSE BackoffMax

\* streamFailed(), called by a callback of request r, which is over.  It only
\* asks whether the connection has a stream, not whether that stream is r.
StreamFailed(r) ==
  /\ reqs' = Finished(r)
  /\ stream' = None
  /\ misattributed' = (misattributed \/ stream \notin {r, None})
  /\ IF stream = None \/ ~want THEN UNCHANGED <<status, retry>> ELSE Reschedule
  /\ UNCHANGED via

\* A TLS failure of request r: the field is cleared whatever it holds, and no
\* retry is armed.
TlsFailed(r) ==
  /\ reqs' = Finished(r)
  /\ stream' = None
  /\ misattributed' = (misattributed \/ stream \notin {r, None})
  /\ status' = "cert-changed"
  /\ UNCHANGED <<via, retry>>

-----------------------------------------------------------------------------
(* What the owner of the connection calls.                                 *)

\* Mutant: a pending retry does not stop connect() from opening a stream.
connectIgnoresTimer ==
  /\ want' = TRUE
  /\ UNCHANGED <<subs, endpoint, retry, world, misattributed>>
  /\ IF stream # None
     THEN UNCHANGED <<stream, status, via, reqs>>
     ELSE \E r \in Reqs : OpenStream(r, reqs, directFailedOnce)

connect ==
  /\ want' = TRUE
  /\ UNCHANGED <<subs, endpoint, retry, world, misattributed>>
  /\ IF stream # None \/ timer
     THEN UNCHANGED <<stream, status, via, reqs>>
     ELSE \E r \in Reqs : OpenStream(r, reqs, directFailedOnce)

\* Mutant: disconnect() leaves the retry timer armed.
disconnectKeepsTimer ==
  /\ want' = FALSE
  /\ reqs' = Closed
  /\ stream' = None
  /\ status' = "offline"
  /\ UNCHANGED <<retry, via, subs, endpoint, world, misattributed>>

disconnect ==
  /\ want' = FALSE
  /\ reqs' = Closed
  /\ stream' = None
  /\ timer' = FALSE
  /\ status' = "offline"
  /\ UNCHANGED <<strays, backoff, via, directFailedOnce, subs, endpoint, world,
                 misattributed>>

\* A new address (LAN discovery) reconnects right away; a new relay route does
\* so only when the connection is neither up nor on its way.
updateEndpoint(a, rl) ==
  LET reopen == want /\ \/ a # addr
                        \/ rl # relay /\ status \notin {"connected", "connecting"}
  IN
  /\ a # addr \/ rl # relay
  /\ addr' = a
  /\ relay' = rl
  /\ IF reopen
     THEN /\ backoff' = BackoffMin
          /\ timer' = FALSE
          /\ UNCHANGED <<want, subs>>
          /\ \E r \in Reqs : OpenStream(r, Closed, directFailedOnce)
     ELSE UNCHANGED <<user, timer, backoff, stream, status, via, reqs>>
  /\ UNCHANGED <<strays, directFailedOnce, world, misattributed>>

\* Mutant: a stream that is still connecting is not re-opened.
setSubscriptionsWhenConnected(S) ==
  /\ S # subs
  /\ subs' = S
  /\ UNCHANGED <<want, endpoint, retry, world, misattributed>>
  /\ IF want /\ status = "connected"
     THEN \E r \in Reqs : OpenStream(r, Closed, directFailedOnce)
     ELSE UNCHANGED <<stream, status, via, reqs>>

\* The query string is the subscription, so a new set needs a new stream.  The
\* retry timer, if one is armed, is left alone.
setSubscriptions(S) ==
  /\ S # subs
  /\ subs' = S
  /\ UNCHANGED <<want, endpoint, retry, world, misattributed>>
  /\ IF want /\ (status = "connected" \/ stream # None)
     THEN \E r \in Reqs : OpenStream(r, Closed, directFailedOnce)
     ELSE UNCHANGED <<stream, status, via, reqs>>

\* rpc() may be called at any time, whatever the state of the stream; it
\* touches the status only.
RpcUnauthorized ==
  /\ status' = "revoked"
  /\ UNCHANGED <<user, stream, retry, via, endpoint, reqs, world, misattributed>>

RpcTlsError(kind) ==
  /\ isTlsError(kind) /\ CanHappen(kind)
  /\ status' = "cert-changed"
  /\ UNCHANGED <<user, stream, retry, via, endpoint, reqs, world, misattributed>>

-----------------------------------------------------------------------------
(* Callbacks of the relay dial and of the event-stream requests.           *)

\* The relay has spliced the socket: start the TLS handshake with the host.
DialSpliced(r) ==
  /\ PhaseOf(r) = "dialing"
  /\ reqs' = [reqs EXCEPT ![r] = Blank("handshaking")]
  /\ UNCHANGED <<user, stream, status, retry, via, endpoint, world, misattributed>>

\* The handshake is done: send the request over the socket, unless the
\* placeholder has been taken away meanwhile.
DialSucceeds(r) ==
  /\ PhaseOf(r) = "handshaking"
  /\ hostCert = "pinned"
  /\ reqs' = IF stream = r
             THEN [reqs EXCEPT ![r] =
                     [phase |-> "pending", repos |-> subs, addr |-> NoAddr]]
             ELSE Finished(r)
  /\ UNCHANGED <<user, stream, status, retry, via, endpoint, world, misattributed>>

DialFails(r, kind) ==
  /\ PhaseOf(r) \in Dialing
  /\ CanHappen(kind)
  /\ IF stream # r
     THEN /\ reqs' = Finished(r)
          /\ UNCHANGED <<stream, status, retry, via, misattributed>>
     ELSE IF isTlsError(kind) THEN TlsFailed(r) ELSE StreamFailed(r)
  /\ UNCHANGED <<user, endpoint, world>>

Answered200(r) ==
  /\ PhaseOf(r) = "pending"
  /\ hostCert = "pinned"
  /\ reqs' = [reqs EXCEPT ![r].phase = "live"]
  /\ status' = "connected"
  /\ backoff' = BackoffMin
  /\ directFailedOnce' = FALSE
  /\ learning' = TRUE
  /\ UNCHANGED <<user, stream, timer, strays, via, endpoint, hostCert, misattributed>>

\* closeStream() destroys what the field holds, which is r itself unless the
\* field has moved on.
Answered401(r) ==
  /\ PhaseOf(r) = "pending"
  /\ hostCert = "pinned"
  /\ reqs' = [Closed EXCEPT ![r] = Blank("free")]
  /\ stream' = None
  /\ status' = "revoked"
  /\ misattributed' = (misattributed \/ stream \notin {r, None})
  /\ UNCHANGED <<user, retry, via, endpoint, world>>

AnsweredOther(r) ==
  /\ PhaseOf(r) = "pending"
  /\ hostCert = "pinned"
  /\ StreamFailed(r)
  /\ UNCHANGED <<user, endpoint, world>>

RequestFails(r, kind) ==
  /\ PhaseOf(r) = "pending"
  /\ CanHappen(kind)
  /\ IF isTlsError(kind) THEN TlsFailed(r) ELSE StreamFailed(r)
  /\ UNCHANGED <<user, endpoint, world>>

\* The host ended the stream, the connection broke, or 40 s passed without a
\* ping.
StreamEnds(r) ==
  /\ PhaseOf(r) = "live"
  /\ StreamFailed(r)
  /\ UNCHANGED <<user, endpoint, world>>

\* The error event of a request closeStream() destroyed.
LateError(r) ==
  /\ PhaseOf(r) = "closing"
  /\ StreamFailed(r)
  /\ UNCHANGED <<user, endpoint, world>>

-----------------------------------------------------------------------------
(* Timers, afterConnected() and the host.                                  *)

\* Mutant: the callback opens a stream only for a connection shown offline.
RetryFiresWhenOffline ==
  /\ IF want /\ status = "offline"
     THEN \E r \in Reqs : OpenStream(r, reqs, directFailedOnce)
     ELSE UNCHANGED <<stream, status, via, reqs>>
  /\ timer' = FALSE
  /\ UNCHANGED <<backoff, directFailedOnce, world, misattributed>>

\* The timer's callback clears the field and opens a stream if one is wanted.
RetryFires ==
  /\ IF want
     THEN \E r \in Reqs : OpenStream(r, reqs, directFailedOnce)
     ELSE UNCHANGED <<stream, status, via, reqs>>
  /\ timer' = FALSE
  /\ UNCHANGED <<backoff, directFailedOnce, world, misattributed>>

RetryTimerFires ==
  /\ timer
  /\ UNCHANGED <<user, endpoint, strays>>
  /\ RetryFires

StrayTimerFires ==
  /\ strays > 0
  /\ strays' = IF timer THEN strays ELSE strays - 1
  /\ UNCHANGED <<user, endpoint>>
  /\ RetryFires

\* /info answered (the host may name its relay) or failed.
afterConnected ==
  /\ learning
  /\ learning' = FALSE
  /\ relay' \in Relays \cup {relay}
  /\ UNCHANGED <<user, stream, status, retry, via, addr, reqs, hostCert, misattributed>>

\* The machine is reinstalled, or another one answers at its address.
HostReplaced ==
  /\ hostCert = "pinned"
  /\ hostCert' = "replaced"
  /\ UNCHANGED <<user, stream, status, retry, via, endpoint, reqs, learning, misattributed>>

-----------------------------------------------------------------------------
Init ==
  /\ want = FALSE
  /\ status = "offline"
  /\ stream = None
  /\ timer = FALSE
  /\ strays = 0
  /\ backoff = BackoffMin
  /\ via = "direct"
  /\ directFailedOnce = FALSE
  /\ subs = {}
  /\ addr \in Addrs \cup {NoAddr}
  /\ relay \in Relays \cup {NoRelay}
  /\ relayOnly => relay # NoRelay
  /\ reqs = [r \in Reqs |-> Blank("free")]
  /\ learning = FALSE
  /\ hostCert = "pinned"
  /\ misattributed = FALSE

OwnerNext ==
  \/ connect
  \/ disconnect
  \/ \E a \in Addrs \cup {addr}, rl \in Relays \cup {relay} : updateEndpoint(a, rl)
  \/ \E S \in SUBSET Repos : setSubscriptions(S)
  \/ RpcUnauthorized
  \/ \E kind \in ErrorKind : RpcTlsError(kind)

CallbackNext ==
  \/ \E r \in Reqs :
       \/ DialSpliced(r) \/ DialSucceeds(r)
       \/ \E kind \in ErrorKind : DialFails(r, kind) \/ RequestFails(r, kind)
       \/ Answered200(r)
       \/ Answered401(r)
       \/ AnsweredOther(r)
       \/ StreamEnds(r)
       \/ LateError(r)
  \/ RetryTimerFires
  \/ StrayTimerFires
  \/ afterConnected

Next == OwnerNext \/ CallbackNext \/ HostReplaced

Spec == Init /\ [][Next]_vars

\* What the code's own timers guarantee: an armed timer fires; a request that
\* was sent is answered or fails (4 s without an answer destroys it); a
\* destroyed request reports its error; an ended stream is noticed (40 s).
\* A relay dial is bounded up to the relay's "ok" (8 s to connect, then the
\* accept timeout and 5 s), the TLS handshake that follows is not.
RequestEnds(r) ==
  \/ Answered200(r) \/ Answered401(r) \/ AnsweredOther(r)
  \/ \E kind \in ErrorKind : RequestFails(r, kind)

DialAnswered(r) ==
  /\ PhaseOf(r) = "dialing"
  /\ DialSpliced(r) \/ \E kind \in ErrorKind : DialFails(r, kind)

HandshakeEnds(r) ==
  /\ PhaseOf(r) = "handshaking"
  /\ DialSucceeds(r) \/ \E kind \in ErrorKind : DialFails(r, kind)

Fairness ==
  /\ WF_vars(RetryTimerFires)
  /\ WF_vars(StrayTimerFires)
  /\ \A r \in Reqs : WF_vars(RequestEnds(r)) /\ WF_vars(DialAnswered(r))
                     /\ WF_vars(LateError(r))

TimedSpec == Spec /\ Fairness

\* The host, or the network, ends every handshake that was begun.
FairSpec == TimedSpec /\ \A r \in Reqs : WF_vars(HandshakeEnds(r))

-----------------------------------------------------------------------------
(* Properties.                                                             *)

\* Every field stays in its domain; in particular the backoff never leaves
\* BACKOFF_MIN_MS .. BACKOFF_MAX_MS.
TypeOK ==
  /\ want \in BOOLEAN
  /\ status \in Status
  /\ stream \in Reqs \cup {None}
  /\ timer \in BOOLEAN
  /\ strays \in 0 .. MaxStrays
  /\ backoff \in BackoffMin .. BackoffMax
  /\ via \in {"direct", "relay"}
  /\ directFailedOnce \in BOOLEAN
  /\ subs \in SUBSET Repos
  /\ addr \in Addrs \cup {NoAddr}
  /\ relay \in Relays \cup {NoRelay}
  /\ reqs \in [Reqs -> Request]
  /\ learning \in BOOLEAN
  /\ hostCert \in {"pinned", "replaced"}
  /\ misattributed \in BOOLEAN

\* After disconnect() the connection holds no stream and no timer that could
\* bring one back, whatever callbacks are still to come.
IdleWhenUnwanted == ~want => stream = None /\ ~timer

\* The stream the connection holds is never one it destroyed or one that
\* ended, and it was opened for the repositories and the address that are
\* current now: no change of either is lost in a reconnection that was
\* already under way.
StreamIsCurrent ==
  stream # None =>
    \/ PhaseOf(stream) \in Dialing
    \/ /\ stream \in Open
       /\ reqs[stream].repos = subs
       /\ reqs[stream].addr = IF via = "relay" THEN NoAddr ELSE addr

\* Two streams, or a timer nobody can clear, come from one cause only: a
\* callback taken for the failure of a stream that is not its own.  Until that
\* happens no interleaving of user calls, callbacks and timers opens a second
\* stream.
OneStream ==
  ~misattributed =>
    /\ Open \subseteq {stream}
    /\ strays = 0
    /\ timer => stream = None

\* Until a callback is misattributed, a connection the user wants is never
\* given up silently: a stream is open or on its way, a retry is due, or the
\* status says why not.
NeverGivesUp ==
  ~misattributed /\ want =>
    stream # None \/ timer \/ status \in {"revoked", "cert-changed"}

\* Until a callback is misattributed, "connected" is only shown while the
\* connection holds a stream, and "offline" never while it does.
StatusIsBacked ==
  ~misattributed =>
    /\ status = "connected" => stream # None
    /\ status = "offline" => stream = None

\* A dial placeholder is only ever held for the relay.
DialIsRelay ==
  stream # None /\ PhaseOf(stream) \in Dialing => via = "relay"

\* The inductive invariant behind the ones above is TypeOK /\ Safe.
Safe ==
  /\ IdleWhenUnwanted
  /\ DialIsRelay
  /\ StreamIsCurrent
  /\ OneStream
  /\ NeverGivesUp
  /\ StatusIsBacked

\* Failures of the network; a handshake that fails against the pinned
\* certificate was cut.
NetworkFailure ==
  \E r \in Reqs :
    \/ DialFails(r, "unreachable") \/ RequestFails(r, "unreachable")
    \/ hostCert = "pinned" /\ (DialFails(r, "handshakeCut") \/ RequestFails(r, "handshakeCut"))
    \/ AnsweredOther(r)
    \/ StreamEnds(r)

\* Once the network behaves and nobody touches the connection any more, a
\* wanted connection settles: connected, or refused with a status that says so.
Settles ==
  <>[][~NetworkFailure /\ ~OwnerNext]_vars
    => <>[](want => status \in {"connected", "revoked", "cert-changed"})

-----------------------------------------------------------------------------
(* What the comments and the documents say, and the code does not do.      *)

\* peer-client.ts:227 "Re-opens the stream -- the query string *is* the
\* subscription": events flow for the current subscriptions and no others.
SubscriptionIsTheQuery ==
  \A r \in Reqs : PhaseOf(r) = "live" => reqs[r].repos = subs

\* peer-client.ts:36 "`cert-changed`: the pinned certificate no longer matches".
CertChangedIsGenuine == status = "cert-changed" => hostCert = "replaced"

\* peer-client.ts:36 "never auto-recovers; the user must forget + re-pair": only
\* the user leaves the status.
CertChangedSticks ==
  [][status = "cert-changed" /\ status' \in {"connecting", "connected"}
       => connect]_vars

\* peer-discovery-pairing/spec.md:44 "a connected host goes away [...] the client
\* shows `offline`, then `connected` again without user action": a connection
\* that shows "connected" has a request open, or is about to open one.
ConnectedIsLive == status = "connected" => Reqs # Free \/ timer \/ strays > 0

\* peer-client.ts:143 "Direct is retried first on every reconnect so a machine
\* that comes back to the LAN leaves the relay again": a reconnect to a newly
\* announced address goes to that address.
NewAddressIsTriedDirectly ==
  [][addr' # addr /\ stream' \notin {stream, None} => via' = "direct"]_vars

\* peer-discovery-pairing/spec.md:42 "Known peers SHALL reconnect automatically
\* on launch and after network loss": left alone, an attempt to open the
\* connection does not hang for ever.
AttemptsEnd == <>[][~OwnerNext]_vars => []<>(want => status # "connecting")

=============================================================================
