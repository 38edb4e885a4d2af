----------------------------- MODULE Credentials -----------------------------
(***************************************************************************)
(* Who may call whom with which bearer token: pairing (PeerService.pair    *)
(* and PeerServer.handlePair, with the reciprocal offer), rotation         *)
(* (PeerConnection.rotateToken and __rotateToken), revocation, forgetting  *)
(* and restarts, between instances that are host and client of each other. *)
(* A host keeps the (hashed) token of every paired device, a client the    *)
(* token of every known peer, and its connection a copy of its own.        *)
(*                                                                         *)
(* Left out: certificates (they do not change here), the attempt limiter,  *)
(* token expiry, names, kinds, scopes and addresses.  A PeerConnection is  *)
(* reduced to its token and to whether the host refused it; its streams    *)
(* are the subject of module PeerConnection.                               *)
(***************************************************************************)
EXTENDS Naturals

CONSTANTS
  Peers,       \* the instances, all of them desktops
  Sharing,     \* the ones that serve: they have a code and can offer a token
  Ceremonies,  \* calls of pair(); each is used once
  Rotations,   \* calls of rotateToken(); each is used once
  NoToken,
  MaxCode      \* bound: pairing codes a host shows

ASSUME SharingAssumption == Sharing \subseteq Peers
ASSUME MaxCodeAssumption == MaxCode \in Nat

VARIABLES
  code,        \* which code in a row a host is showing
  paired,      \* host: the token of each paired device
  known,       \* client: the token of each known peer
  connection,  \* client: the connection to each peer
  ceremony,    \* every call of pair(), as seen from both ends
  rotation,    \* every call of rotateToken(), as seen from both ends
  doubt        \* history: <<client, host>> whose last exchange was cut short
               \* or overlapped with another one

vars == <<code, paired, known, connection, ceremony, rotation, doubt>>

-----------------------------------------------------------------------------
(* The state of the parts.                                                 *)

\* generateToken(): what a ceremony issues, what it offers for the way back,
\* and what a rotation issues.
Issued(x) == <<"issued", x>>
Offered(x) == <<"offered", x>>
Rotated(r) == <<"rotated", r>>
Offer == {Offered(x) : x \in Ceremonies} \cup {NoToken}
Token == {Issued(x) : x \in Ceremonies} \cup Offer \cup {Rotated(r) : r \in Rotations}
ASSUME TokenAssumption ==
  NoToken \notin {Issued(x) : x \in Ceremonies} \cup {Rotated(r) : r \in Rotations}

\* none: the connections map has no entry.
Connection == [token: Token, status: {"none", "offline", "trying", "connected", "revoked"}]

NoConnection == [token |-> NoToken, status |-> "none"]
Connecting(t) == [token |-> t, status |-> "trying"]

\* at: where the request is.  waiting: the client still awaits its answer.
\* lost: it stopped waiting without one.  alone (history): no other exchange
\* of the two overlapped with this one.
Unused == [at |-> "unused"]

PairCall ==
  [at: {"sent", "accepted", "refused", "dropped"}, client: Peers, host: Peers,
   waiting: BOOLEAN, lost: BOOLEAN, code: Nat, offer: Offer, alone: BOOLEAN]
Ceremony == PairCall \cup {Unused}

\* orphan: the connection it runs on is no longer the client's.
RotateCall ==
  [at: {"sent", "authorized", "rotated", "refused", "failed", "dropped"}, client: Peers,
   host: Peers, waiting: BOOLEAN, lost: BOOLEAN, token: Token, orphan: BOOLEAN]
Rotation == RotateCall \cup {Unused}

Waiting(z) == z.at # "unused" /\ z.waiting

\* The exchange can still change something, at one of its ends.
InFlight(z) == z.at # "unused" /\ (z.waiting \/ z.at \in {"sent", "authorized"})

Between(z, p, q) == z.at # "unused" /\ {z.client, z.host} = {p, q}

Busy(p, q) ==
  \/ \E x \in Ceremonies : InFlight(ceremony[x]) /\ Between(ceremony[x], p, q)
  \/ \E r \in Rotations : InFlight(rotation[r]) /\ Between(rotation[r], p, q)

BothWays(p, q) == {<<p, q>>, <<q, p>>}

\* doubt and the ceremonies when an exchange of p and q begins.
DoubtAtStart(p, q) == IF Busy(p, q) THEN doubt \cup BothWays(p, q) ELSE doubt
Overlapped(p, q) ==
  [x \in Ceremonies |-> IF InFlight(ceremony[x]) /\ Between(ceremony[x], p, q)
                        THEN [ceremony[x] EXCEPT !.alone = FALSE] ELSE ceremony[x]]

\* The rotations of a connection of p that is no longer p's connection to q.
Orphaned(p, q) ==
  [r \in Rotations |-> IF rotation[r].at # "unused" /\ rotation[r].client = p
                                                    /\ rotation[r].host = q
                       THEN [rotation[r] EXCEPT !.orphan = TRUE] ELSE rotation[r]]

-----------------------------------------------------------------------------
(* Pairing.                                                                *)

regenerateCode(h) ==
  /\ h \in Sharing /\ code[h] < MaxCode
  /\ code' = [code EXCEPT ![h] = @ + 1]
  /\ UNCHANGED <<paired, known, connection, ceremony, rotation, doubt>>

\* p's user types a code read off h's screen, now or earlier.
pair(x, p, h) ==
  /\ ceremony[x] = Unused
  /\ p # h /\ h \in Sharing
  /\ \E c \in 0 .. code[h] :
       ceremony' = [Overlapped(p, h) EXCEPT ![x] =
         [at |-> "sent", client |-> p, host |-> h, waiting |-> TRUE, lost |-> FALSE,
          code |-> c, offer |-> IF p \in Sharing THEN Offered(x) ELSE NoToken,
          alone |-> ~Busy(p, h)]]
  /\ doubt' = DoubtAtStart(p, h)
  /\ UNCHANGED <<code, paired, known, connection, rotation>>

Refused(x) ==
  /\ ceremony[x].code # code[ceremony[x].host]
  /\ ceremony' = [ceremony EXCEPT ![x].at = "refused"]
  /\ UNCHANGED <<code, paired, known, connection, rotation, doubt>>

\* onReciprocal(): the device that paired with us becomes a known peer, and a
\* fresh connection to it is opened at once.
Reciprocated(h, p, offer) ==
  IF offer = NoToken THEN UNCHANGED <<known, connection, rotation>>
  ELSE /\ known' = [known EXCEPT ![h][p] = offer]
       /\ connection' = [connection EXCEPT ![h][p] = Connecting(offer)]
       /\ rotation' = Orphaned(h, p)

\* Mutant: the code stays valid until the client has the answer.
handlePairKeepsCode(x) ==
  /\ ceremony[x].at = "sent"
  /\ LET h == ceremony[x].host
         p == ceremony[x].client
     IN  \/ Refused(x)
         \/ /\ ceremony[x].code = code[h]
            /\ paired' = [paired EXCEPT ![h][p] = Issued(x)]
            /\ Reciprocated(h, p, ceremony[x].offer)
            /\ ceremony' = [ceremony EXCEPT ![x].at = "accepted"]
            /\ UNCHANGED <<code, doubt>>

\* Mutant: a device that is paired already keeps its old token.
handlePairKeepsToken(x) ==
  /\ ceremony[x].at = "sent"
  /\ LET h == ceremony[x].host
         p == ceremony[x].client
     IN  \/ Refused(x)
         \/ /\ ceremony[x].code = code[h]
            /\ paired' = [paired EXCEPT ![h][p] = IF @ = NoToken THEN Issued(x) ELSE @]
            /\ Reciprocated(h, p, ceremony[x].offer)
            /\ code' = [code EXCEPT ![h] = @ + 1]
            /\ ceremony' = [ceremony EXCEPT ![x].at = "accepted"]
            /\ UNCHANGED doubt

\* handlePair(), from the arrival of the body on: nothing is awaited between
\* the comparison of the codes and the new code.
handlePair(x) ==
  /\ ceremony[x].at = "sent"
  /\ LET h == ceremony[x].host
         p == ceremony[x].client
     IN  \/ Refused(x)
         \/ /\ ceremony[x].code = code[h]
            /\ paired' = [paired EXCEPT ![h][p] = Issued(x)]
            /\ Reciprocated(h, p, ceremony[x].offer)
            /\ code' = [code EXCEPT ![h] = @ + 1]
            /\ ceremony' = [ceremony EXCEPT ![x].at = "accepted"]
            /\ UNCHANGED doubt

\* pair() after the await: register the token that was offered, store the one
\* that was issued, replace the connection.
PairAnswered(x) ==
  /\ Waiting(ceremony[x]) /\ ceremony[x].at \in {"accepted", "refused"}
  /\ ceremony' = [ceremony EXCEPT ![x].waiting = FALSE]
  /\ LET p == ceremony[x].client
         h == ceremony[x].host
     IN  \/ /\ ceremony[x].at = "refused"
            /\ UNCHANGED <<paired, known, connection, rotation, doubt>>
         \/ /\ ceremony[x].at = "accepted"
            /\ paired' = IF ceremony[x].offer = NoToken THEN paired
                         ELSE [paired EXCEPT ![p][h] = ceremony[x].offer]
            /\ known' = [known EXCEPT ![p][h] = Issued(x)]
            /\ connection' = [connection EXCEPT ![p][h] = Connecting(Issued(x))]
            /\ rotation' = Orphaned(p, h)
            /\ doubt' = IF ~ceremony[x].alone THEN doubt
                        ELSE doubt \ IF ceremony[x].offer = NoToken THEN {<<p, h>>}
                                     ELSE BothWays(p, h)
  /\ UNCHANGED code

\* The request times out, or the connection breaks: at the client.  The host
\* may have handled it, or may still do so.
PairLost(x) ==
  /\ Waiting(ceremony[x])
  /\ ceremony' = [ceremony EXCEPT ![x].waiting = FALSE, ![x].lost = TRUE]
  /\ doubt' = doubt \cup BothWays(ceremony[x].client, ceremony[x].host)
  /\ UNCHANGED <<code, paired, known, connection, rotation>>

-----------------------------------------------------------------------------
(* Connections, and the rotation of their tokens.                          *)

Linked(p, h) == connection[p][h].status # "none"

\* The event stream is opened or opened again: a refused token ends it.
OpensStream(p, h) ==
  /\ connection[p][h].status \in {"trying", "connected"}
  /\ connection' = [connection EXCEPT ![p][h].status =
                      IF paired[h][p] = connection[p][h].token THEN "connected" ELSE "revoked"]
  /\ UNCHANGED <<code, paired, known, ceremony, rotation, doubt>>

\* The user connects (not when revoked), or opens a repository of the peer (then
\* as well): PeerService.connect() and resolvePeerRepo().
connect(p, h) ==
  /\ known[p][h] # NoToken /\ connection[p][h].status \in {"none", "offline", "revoked"}
  /\ connection' = [connection EXCEPT ![p][h] =
                      IF Linked(p, h) THEN [@ EXCEPT !.status = "trying"]
                      ELSE Connecting(known[p][h])]
  /\ UNCHANGED <<code, paired, known, ceremony, rotation, doubt>>

disconnect(p, h) ==
  /\ Linked(p, h)
  /\ connection' = [connection EXCEPT ![p][h].status = "offline"]
  /\ UNCHANGED <<code, paired, known, ceremony, rotation, doubt>>

\* afterConnected() finds the token about to expire.  It runs whenever the
\* stream has been opened, so that two runs can overlap.
rotateToken(r, p, h) ==
  /\ rotation[r] = Unused
  /\ connection[p][h].status = "connected"
  /\ rotation' = [rotation EXCEPT ![r] =
       [at |-> "sent", client |-> p, host |-> h, waiting |-> TRUE, lost |-> FALSE,
        token |-> connection[p][h].token, orphan |-> FALSE]]
  /\ ceremony' = Overlapped(p, h)
  /\ doubt' = DoubtAtStart(p, h)
  /\ UNCHANGED <<code, paired, known, connection>>

\* authenticate(): before the body of the request is read.
Authenticate(r) ==
  /\ rotation[r].at = "sent"
  /\ LET valid == paired[rotation[r].host][rotation[r].client] = rotation[r].token
     IN  rotation' = [rotation EXCEPT ![r].at = IF valid THEN "authorized" ELSE "refused"]
  /\ UNCHANGED <<code, paired, known, connection, ceremony, doubt>>

\* Mutant: a device that is gone from the list is put back.
rotatePairedTokenRevives(r) ==
  /\ rotation[r].at = "authorized"
  /\ paired' = [paired EXCEPT ![rotation[r].host][rotation[r].client] = Rotated(r)]
  /\ rotation' = [rotation EXCEPT ![r].at = "rotated"]
  /\ UNCHANGED <<code, known, connection, ceremony, doubt>>

\* rotatePairedToken(), with the device authenticate() found.
rotatePairedToken(r) ==
  /\ rotation[r].at = "authorized"
  /\ LET h == rotation[r].host
         p == rotation[r].client
     IN  IF paired[h][p] = NoToken
         THEN rotation' = [rotation EXCEPT ![r].at = "failed"] /\ UNCHANGED paired
         ELSE /\ paired' = [paired EXCEPT ![h][p] = Rotated(r)]
              /\ rotation' = [rotation EXCEPT ![r].at = "rotated"]
  /\ UNCHANGED <<code, known, connection, ceremony, doubt>>

\* Mutant: the connection shows the host's refusal as it came.
RotateAnsweredVerbatim(r) ==
  /\ Waiting(rotation[r]) /\ rotation[r].at \in {"rotated", "refused", "failed"}
  /\ rotation' = [rotation EXCEPT ![r].waiting = FALSE]
  /\ LET p == rotation[r].client
         h == rotation[r].host
     IN  /\ known' = IF rotation[r].at = "rotated" /\ known[p][h] # NoToken
                     THEN [known EXCEPT ![p][h] = Rotated(r)] ELSE known
         /\ IF rotation[r].orphan THEN UNCHANGED connection
            ELSE connection' = [connection EXCEPT ![p][h] =
                   CASE rotation[r].at = "rotated" -> [@ EXCEPT !.token = Rotated(r)]
                     [] OTHER -> [@ EXCEPT !.status = rotation[r].at]]
  /\ UNCHANGED <<code, paired, ceremony, doubt>>

\* The connection takes the new token; its "token" event reaches the store
\* even when the service has replaced the connection meanwhile.
RotateAnswered(r) ==
  /\ Waiting(rotation[r]) /\ rotation[r].at \in {"rotated", "refused", "failed"}
  /\ rotation' = [rotation EXCEPT ![r].waiting = FALSE]
  /\ LET p == rotation[r].client
         h == rotation[r].host
     IN  /\ known' = IF rotation[r].at = "rotated" /\ known[p][h] # NoToken
                     THEN [known EXCEPT ![p][h] = Rotated(r)] ELSE known
         /\ IF rotation[r].orphan THEN UNCHANGED connection
            ELSE connection' = [connection EXCEPT ![p][h] =
                   CASE rotation[r].at = "rotated" -> [@ EXCEPT !.token = Rotated(r)]
                     [] rotation[r].at = "refused" -> [@ EXCEPT !.status = "revoked"]
                     [] OTHER -> @]
  /\ UNCHANGED <<code, paired, ceremony, doubt>>

RotateLost(r) ==
  /\ Waiting(rotation[r])
  /\ rotation' = [rotation EXCEPT ![r].waiting = FALSE, ![r].lost = TRUE]
  /\ doubt' = doubt \cup {<<rotation[r].client, rotation[r].host>>}
  /\ UNCHANGED <<code, paired, known, connection, ceremony>>

-----------------------------------------------------------------------------
(* Revoking, forgetting, restarting.                                       *)

revokePaired(h, p) ==
  /\ paired[h][p] # NoToken
  /\ paired' = [paired EXCEPT ![h][p] = NoToken]
  /\ UNCHANGED <<code, known, connection, ceremony, rotation, doubt>>

forget(p, h) ==
  /\ known[p][h] # NoToken
  /\ known' = [known EXCEPT ![p][h] = NoToken]
  /\ connection' = [connection EXCEPT ![p][h] = NoConnection]
  /\ rotation' = Orphaned(p, h)
  /\ UNCHANGED <<code, paired, ceremony, doubt>>

\* The process of p ends and starts again: what it awaited or was handling is
\* lost, a new code is shown, and every known peer is connected to.
AfterRestart(z, p) ==
  IF z.at = "unused" THEN z
  ELSE IF p = z.client /\ z.waiting THEN [z EXCEPT !.waiting = FALSE, !.lost = TRUE]
  ELSE IF p = z.host /\ z.at \in {"sent", "authorized"} THEN [z EXCEPT !.at = "dropped"]
  ELSE z

restart(p) ==
  /\ code[p] < MaxCode
  /\ code' = [code EXCEPT ![p] = @ + 1]
  /\ connection' = [connection EXCEPT ![p] =
       [h \in Peers |-> IF known[p][h] = NoToken THEN NoConnection ELSE Connecting(known[p][h])]]
  /\ ceremony' = [x \in Ceremonies |-> AfterRestart(ceremony[x], p)]
  /\ rotation' = [r \in Rotations |-> AfterRestart(rotation[r], p)]
  /\ doubt' = doubt \cup UNION {BothWays(p, h) : h \in {q \in Peers : Busy(p, q)}}
  /\ UNCHANGED <<paired, known>>

-----------------------------------------------------------------------------
Init ==
  /\ code = [h \in Peers |-> 0]
  /\ paired = [h \in Peers |-> [p \in Peers |-> NoToken]]
  /\ known = [p \in Peers |-> [h \in Peers |-> NoToken]]
  /\ connection = [p \in Peers |-> [h \in Peers |-> NoConnection]]
  /\ ceremony = [x \in Ceremonies |-> Unused]
  /\ rotation = [r \in Rotations |-> Unused]
  /\ doubt = {}

Next ==
  \/ \E x \in Ceremonies :
       \/ \E p, h \in Peers : pair(x, p, h)
       \/ handlePair(x) \/ PairAnswered(x) \/ PairLost(x)
  \/ \E r \in Rotations :
       \/ \E p, h \in Peers : rotateToken(r, p, h)
       \/ Authenticate(r) \/ rotatePairedToken(r) \/ RotateAnswered(r) \/ RotateLost(r)
  \/ \E p, h \in Peers :
       \/ OpensStream(p, h) \/ connect(p, h) \/ disconnect(p, h)
       \/ revokePaired(h, p) \/ forget(p, h)
  \/ \E p \in Peers : regenerateCode(p) \/ restart(p)

Spec == Init /\ [][Next]_vars

-----------------------------------------------------------------------------
(* Properties.                                                             *)

TypeOK ==
  /\ code \in [Peers -> Nat]
  /\ paired \in [Peers -> [Peers -> Token]]
  /\ known \in [Peers -> [Peers -> Token]]
  /\ connection \in [Peers -> [Peers -> Connection]]
  /\ ceremony \in [Ceremonies -> Ceremony]
  /\ rotation \in [Rotations -> Rotation]
  /\ doubt \in SUBSET (Peers \X Peers)

\* peer-server.ts:293 "One code, one pairing": however the bodies of concurrent
\* pairing requests arrive, a code admits at most one device.
OneCodeOnePairing ==
  \A x, y \in Ceremonies :
    /\ x # y
    /\ ceremony[x].at = "accepted" /\ ceremony[y].at = "accepted"
    /\ ceremony[x].host = ceremony[y].host
    => ceremony[x].code # ceremony[y].code

\* What it rests on: a code that was accepted is not shown any more.
CodesSpent ==
  \A x \in Ceremonies :
    ceremony[x].at = "accepted" => ceremony[x].code < code[ceremony[x].host]

\* A device that is not paired, because it never was or because it has been
\* revoked, gets in again by a pairing ceremony only: no request that was on
\* its way when the user revoked it brings it back.
OnlyPairingAdmits ==
  [][\A h, p \in Peers :
       paired[h][p] = NoToken =>
         paired'[h][p] \in {NoToken} \cup {Issued(x) : x \in Ceremonies}
                                     \cup {Offered(x) : x \in Ceremonies}]_vars

\* When nothing is under way between client and host, and their last exchange
\* neither overlapped with another one nor was cut short, the token the client
\* has stored, the one its connection uses and the one the host accepts are the
\* same.  In particular an undisturbed ceremony heals whatever went wrong
\* before, in both directions.
Agreement ==
  \A p, h \in Peers :
    /\ <<p, h>> \notin doubt /\ ~Busy(p, h)
    /\ known[p][h] # NoToken /\ paired[h][p] # NoToken
    => /\ known[p][h] = paired[h][p]
       /\ Linked(p, h) => connection[p][h].token = known[p][h]

-----------------------------------------------------------------------------
(* What the comments and the documents say, and the code does not do.      *)

\* peer-protocol/src/index.ts:61 "a bearer token the initiator has
\* pre-registered": the host is never told of a token its owner would refuse.
OfferIsPreRegistered ==
  \A x \in Ceremonies :
    ceremony[x].at = "accepted" /\ Waiting(ceremony[x]) /\ ceremony[x].offer # NoToken
      => \/ paired[ceremony[x].client][ceremony[x].host] = ceremony[x].offer
         \/ known[ceremony[x].host][ceremony[x].client] # ceremony[x].offer

\* peer-service.ts:424 "A fresh token replaces whatever connection state we had":
\* a connection that was replaced no longer changes what is stored.
FreshTokenReplaces ==
  [][\A p, h \in Peers : \A r \in Rotations :
       known'[p][h] = Rotated(r) => known[p][h] = Rotated(r) \/ ~rotation[r].orphan]_vars

\* docs/headless.md:49 "Git Gud clients rotate automatically": when no request
\* was lost and no ceremony interfered, a client that has rotated its token holds
\* the one the host accepts and is not shown as revoked.
RotationKeepsAccess ==
  /\ \A x \in Ceremonies : ceremony[x] # Unused => ceremony[x].alone /\ ~ceremony[x].lost
  /\ \A r \in Rotations : rotation[r] # Unused => ~rotation[r].lost
  => \A p, h \in Peers : \A r \in Rotations :
       paired[h][p] = Rotated(r) /\ Linked(p, h) /\ ~Busy(p, h)
         => connection[p][h].token = Rotated(r) /\ connection[p][h].status # "revoked"

=============================================================================
