--------------------------- MODULE CredentialsProofs ---------------------------
(***************************************************************************)
(* Proofs about Credentials, for any number of instances, ceremonies and   *)
(* rotations, and any number of codes.                                     *)
(***************************************************************************)
EXTENDS Credentials, TLAPS

\* What a host stores or a client holds is a token, and what a connection is
\* made of is a connection.
LEMMA TokenType ==
  /\ \A x \in Ceremonies : Issued(x) \in Token /\ Offered(x) \in Offer
  /\ \A r \in Rotations : Rotated(r) \in Token
  /\ Offer \subseteq Token /\ NoToken \in Offer
  BY DEF Token, Offer

\* A connection object, and its absence, have the type of a connection.
LEMMA ConnectionType ==
  /\ NoConnection \in Connection
  /\ \A t \in Token : Connecting(t) \in Connection
  BY TokenType DEF NoConnection, Connecting, Connection

\* What happens to a connection leaves it one.
LEMMA ConnectionMoves ==
  ASSUME NEW k \in Connection, NEW t \in Token,
         NEW s \in {"none", "offline", "trying", "connected", "revoked"}
  PROVE  [k EXCEPT !.token = t] \in Connection /\ [k EXCEPT !.status = s] \in Connection
  BY DEF Connection

\* A call that is not unused has the fields of one.
LEMMA UsedCalls ==
  ASSUME TypeOK
  PROVE  /\ \A x \in Ceremonies : ceremony[x].at # "unused" => ceremony[x] \in PairCall
         /\ \A r \in Rotations : rotation[r].at # "unused" => rotation[r] \in RotateCall
  BY DEF TypeOK, Ceremony, Rotation, Unused

\* Every move of a call leaves it a call.
LEMMA PairCallMoves ==
  ASSUME NEW z \in PairCall, NEW a \in {"sent", "accepted", "refused", "dropped"}
  PROVE  /\ [z EXCEPT !.at = a] \in PairCall
         /\ [z EXCEPT !.waiting = FALSE] \in PairCall
         /\ [z EXCEPT !.waiting = FALSE, !.lost = TRUE] \in PairCall
         /\ [z EXCEPT !.alone = FALSE] \in PairCall
  BY DEF PairCall

\* What happens to a rotation under way leaves it one.
LEMMA RotateCallMoves ==
  ASSUME NEW z \in RotateCall,
         NEW a \in {"sent", "authorized", "rotated", "refused", "failed", "dropped"}
  PROVE  /\ [z EXCEPT !.at = a] \in RotateCall
         /\ [z EXCEPT !.waiting = FALSE] \in RotateCall
         /\ [z EXCEPT !.waiting = FALSE, !.lost = TRUE] \in RotateCall
         /\ [z EXCEPT !.orphan = TRUE] \in RotateCall
  BY DEF RotateCall

\* The bookkeeping that goes with an exchange changes histories only.
LEMMA OverlappedKeeps ==
  ASSUME TypeOK, NEW p \in Peers, NEW h \in Peers
  PROVE  /\ Overlapped(p, h) \in [Ceremonies -> Ceremony]
         /\ \A x \in Ceremonies :
              /\ Overlapped(p, h)[x].at = ceremony[x].at
              /\ ceremony[x].at # "unused" =>
                   /\ Overlapped(p, h)[x].host = ceremony[x].host
                   /\ Overlapped(p, h)[x].code = ceremony[x].code
<1> SUFFICES ASSUME NEW x \in Ceremonies
             PROVE  /\ Overlapped(p, h)[x] \in Ceremony
                    /\ Overlapped(p, h)[x].at = ceremony[x].at
                    /\ ceremony[x].at # "unused" =>
                         /\ Overlapped(p, h)[x].host = ceremony[x].host
                         /\ Overlapped(p, h)[x].code = ceremony[x].code
  BY DEF Overlapped
<1>1. CASE Overlapped(p, h)[x] = ceremony[x]
  BY <1>1 DEF TypeOK
<1>2. CASE Overlapped(p, h)[x] # ceremony[x]
  <2>1. Overlapped(p, h)[x] = [ceremony[x] EXCEPT !.alone = FALSE] /\ ceremony[x].at # "unused"
    BY <1>2 DEF Overlapped, InFlight
  <2>2. ceremony[x] \in PairCall
    BY <2>1, UsedCalls
  <2>3. [ceremony[x] EXCEPT !.alone = FALSE] \in PairCall
    BY <2>2, PairCallMoves
  <2>4. QED
    BY <2>1, <2>2, <2>3 DEF PairCall, Ceremony
<1>3. QED
  BY <1>1, <1>2

\* A ceremony whose answer is lost keeps its type.
LEMMA OrphanedType ==
  ASSUME TypeOK, NEW p \in Peers, NEW h \in Peers
  PROVE  Orphaned(p, h) \in [Rotations -> Rotation]
<1> SUFFICES ASSUME NEW r \in Rotations
             PROVE  Orphaned(p, h)[r] \in Rotation
  BY DEF Orphaned
<1>1. CASE Orphaned(p, h)[r] = rotation[r]
  BY <1>1 DEF TypeOK
<1>2. CASE Orphaned(p, h)[r] # rotation[r]
  <2>1. Orphaned(p, h)[r] = [rotation[r] EXCEPT !.orphan = TRUE] /\ rotation[r].at # "unused"
    BY <1>2 DEF Orphaned
  <2>2. QED
    BY <2>1, UsedCalls, RotateCallMoves DEF Rotation
<1>3. QED
  BY <1>1, <1>2

\* A restart ends or drops calls, and accepts none.
LEMMA RestartKeeps ==
  ASSUME TypeOK, NEW p \in Peers
  PROVE  /\ \A r \in Rotations : AfterRestart(rotation[r], p) \in Rotation
         /\ \A x \in Ceremonies :
              /\ AfterRestart(ceremony[x], p) \in Ceremony
              /\ AfterRestart(ceremony[x], p).at = "accepted"
                   => /\ ceremony[x].at = "accepted"
                      /\ AfterRestart(ceremony[x], p).host = ceremony[x].host
                      /\ AfterRestart(ceremony[x], p).code = ceremony[x].code
<1>1. ASSUME NEW r \in Rotations
      PROVE  AfterRestart(rotation[r], p) \in Rotation
  <2>1. CASE rotation[r].at = "unused"
    BY <2>1 DEF AfterRestart, TypeOK
  <2>2. CASE rotation[r].at # "unused"
    <3>1. AfterRestart(rotation[r], p) \in
            {rotation[r], [rotation[r] EXCEPT !.waiting = FALSE, !.lost = TRUE],
             [rotation[r] EXCEPT !.at = "dropped"]}
      BY <2>2 DEF AfterRestart
    <3>2. rotation[r] \in RotateCall
      BY <2>2, UsedCalls
    <3>3. /\ [rotation[r] EXCEPT !.waiting = FALSE, !.lost = TRUE] \in RotateCall
          /\ [rotation[r] EXCEPT !.at = "dropped"] \in RotateCall
      BY <3>2, RotateCallMoves
    <3>4. QED
      BY <3>1, <3>2, <3>3 DEF Rotation
  <2>3. QED
    BY <2>1, <2>2
<1>2. ASSUME NEW x \in Ceremonies
      PROVE  /\ AfterRestart(ceremony[x], p) \in Ceremony
             /\ AfterRestart(ceremony[x], p).at = "accepted"
                  => /\ ceremony[x].at = "accepted"
                     /\ AfterRestart(ceremony[x], p).host = ceremony[x].host
                     /\ AfterRestart(ceremony[x], p).code = ceremony[x].code
  <2>1. CASE ceremony[x].at = "unused"
    BY <2>1 DEF AfterRestart, TypeOK
  <2>2. CASE ceremony[x].at # "unused"
    <3> DEFINE z == ceremony[x]
    <3>1. z \in PairCall
      BY <2>2, UsedCalls
    <3>2. AfterRestart(z, p) \in
            {z, [z EXCEPT !.waiting = FALSE, !.lost = TRUE], [z EXCEPT !.at = "dropped"]}
      BY <2>2 DEF AfterRestart
    <3>3. AfterRestart(z, p) \in Ceremony
      BY <3>1, <3>2, PairCallMoves DEF Ceremony
    <3>4. QED
      BY <3>1, <3>2, <3>3 DEF PairCall
  <2>3. QED
    BY <2>1, <2>2
<1>3. QED
  BY <1>1, <1>2

\* The history of disturbed exchanges keeps its type.
LEMMA DoubtType ==
  ASSUME TypeOK, NEW p \in Peers, NEW h \in Peers
  PROVE  /\ BothWays(p, h) \subseteq Peers \X Peers
         /\ DoubtAtStart(p, h) \subseteq Peers \X Peers
  BY DEF TypeOK, BothWays, DoubtAtStart

-----------------------------------------------------------------------------
(* Type correctness: one step per action.                                  *)

\* Every action preserves the types.
LEMMA TypeStep == TypeOK /\ [Next]_vars => TypeOK'
<1> SUFFICES ASSUME TypeOK, [Next]_vars
             PROVE  TypeOK'
  OBVIOUS
<1>1. ASSUME NEW x \in Ceremonies, NEW p \in Peers, NEW h \in Peers, pair(x, p, h)
      PROVE  TypeOK'
  <2>1. PICK c \in 0 .. code[h] : ceremony' = [Overlapped(p, h) EXCEPT ![x] =
           [at |-> "sent", client |-> p, host |-> h, waiting |-> TRUE, lost |-> FALSE,
            code |-> c, offer |-> IF p \in Sharing THEN Offered(x) ELSE NoToken,
            alone |-> ~Busy(p, h)]]
    BY <1>1 DEF pair
  <2>2. (IF p \in Sharing THEN Offered(x) ELSE NoToken) \in Offer
    BY TokenType
  <2>3. c \in Nat
    BY DEF TypeOK
  <2>4. (~Busy(p, h)) \in BOOLEAN
    <3>1. CASE Busy(p, h)
      BY <3>1
    <3>2. CASE ~Busy(p, h)
      BY <3>2
    <3>3. QED
      BY <3>1, <3>2
  <2>5. ceremony' \in [Ceremonies -> Ceremony]
    BY <2>1, <2>2, <2>3, <2>4, OverlappedKeeps DEF Ceremony, PairCall
  <2>6. QED
    BY <1>1, <2>5, DoubtType DEF pair, TypeOK
<1>2. ASSUME NEW x \in Ceremonies, handlePair(x)
      PROVE  TypeOK'
  <2> DEFINE h == ceremony[x].host
             p == ceremony[x].client
  <2>1. ceremony[x] \in PairCall
    BY <1>2, UsedCalls DEF handlePair
  <2>2. h \in Peers /\ p \in Peers /\ ceremony[x].offer \in Offer
    BY <2>1 DEF PairCall
  <2>3. ceremony' \in [Ceremonies -> Ceremony]
    BY <1>2, <2>1, PairCallMoves DEF handlePair, Refused, TypeOK, Ceremony
  <2>4. CASE Refused(x)
    BY <2>3, <2>4 DEF Refused, TypeOK
  <2>5. CASE ~Refused(x)
    <3>1. /\ paired' = [paired EXCEPT ![h][p] = Issued(x)]
          /\ Reciprocated(h, p, ceremony[x].offer)
          /\ code' = [code EXCEPT ![h] = @ + 1]
          /\ UNCHANGED doubt
      BY <1>2, <2>5 DEF handlePair
    <3> HIDE DEF h, p
    <3>2. /\ known' \in [Peers -> [Peers -> Token]]
          /\ connection' \in [Peers -> [Peers -> Connection]]
          /\ rotation' \in [Rotations -> Rotation]
      <4>1. CASE ceremony[x].offer = NoToken
        BY <3>1, <4>1 DEF Reciprocated, TypeOK
      <4>2. CASE ceremony[x].offer # NoToken
        <5> DEFINE o == ceremony[x].offer
        <5>1. /\ known' = [known EXCEPT ![h][p] = o]
              /\ connection' = [connection EXCEPT ![h][p] = Connecting(o)]
              /\ rotation' = Orphaned(h, p)
          BY <3>1, <4>2 DEF Reciprocated
        <5>2. o \in Token /\ Connecting(o) \in Connection
          BY <2>2, TokenType, ConnectionType
        <5> HIDE DEF o
        <5>3. rotation' \in [Rotations -> Rotation]
          BY <2>2, <5>1, OrphanedType
        <5>4. QED
          BY <2>2, <5>1, <5>2, <5>3 DEF TypeOK
      <4>3. QED
        BY <4>1, <4>2
    <3>3. paired' \in [Peers -> [Peers -> Token]] /\ code' \in [Peers -> Nat]
      BY <2>2, <3>1, TokenType DEF TypeOK
    <3>4. QED
      BY <2>3, <3>1, <3>2, <3>3 DEF TypeOK
  <2>6. QED
    BY <2>4, <2>5
<1>3. ASSUME NEW x \in Ceremonies, PairAnswered(x)
      PROVE  TypeOK'
  <2> DEFINE p == ceremony[x].client
             h == ceremony[x].host
  <2>1. ceremony[x] \in PairCall
    BY <1>3, UsedCalls DEF PairAnswered
  <2>2. h \in Peers /\ p \in Peers /\ ceremony[x].offer \in Token
    BY <2>1, TokenType DEF PairCall
  <2>3. ceremony' \in [Ceremonies -> Ceremony]
    BY <1>3, <2>1, PairCallMoves DEF PairAnswered, TypeOK, Ceremony
  <2>4. CASE ceremony[x].at = "refused"
    BY <1>3, <2>3, <2>4 DEF PairAnswered, TypeOK
  <2>5. CASE ceremony[x].at = "accepted"
    <3>1. /\ paired' = IF ceremony[x].offer = NoToken THEN paired
                       ELSE [paired EXCEPT ![p][h] = ceremony[x].offer]
          /\ known' = [known EXCEPT ![p][h] = Issued(x)]
          /\ connection' = [connection EXCEPT ![p][h] = Connecting(Issued(x))]
          /\ rotation' = Orphaned(p, h)
          /\ doubt' \subseteq doubt
          /\ UNCHANGED code
      BY <1>3, <2>5 DEF PairAnswered
    <3> HIDE DEF h, p
    <3>2. known' \in [Peers -> [Peers -> Token]] /\ paired' \in [Peers -> [Peers -> Token]]
      BY <2>2, <3>1, TokenType DEF TypeOK
    <3>3. connection' \in [Peers -> [Peers -> Connection]]
      BY <2>2, <3>1, TokenType, ConnectionType DEF TypeOK
    <3>4. QED
      BY <2>2, <2>3, <3>1, <3>2, <3>3, OrphanedType DEF TypeOK
  <2>6. QED
    BY <1>3, <2>4, <2>5 DEF PairAnswered
<1>4. ASSUME NEW x \in Ceremonies, PairLost(x)
      PROVE  TypeOK'
  <2>1. ceremony[x] \in PairCall
    BY <1>4, UsedCalls DEF PairLost, Waiting
  <2>2. ceremony' \in [Ceremonies -> Ceremony]
    BY <1>4, <2>1, PairCallMoves DEF PairLost, TypeOK, Ceremony
  <2>3. BothWays(ceremony[x].client, ceremony[x].host) \subseteq Peers \X Peers
    BY <2>1, DoubtType DEF PairCall
  <2>4. QED
    BY <1>4, <2>2, <2>3 DEF PairLost, TypeOK
<1>5. ASSUME NEW r \in Rotations, NEW p \in Peers, NEW h \in Peers, rotateToken(r, p, h)
      PROVE  TypeOK'
  <2>1. connection[p][h].token \in Token
    BY DEF TypeOK, Connection
  <2>2. rotation' \in [Rotations -> Rotation]
    BY <1>5, <2>1 DEF rotateToken, TypeOK, Rotation, RotateCall
  <2>3. QED
    BY <1>5, <2>2, OverlappedKeeps, DoubtType DEF rotateToken, TypeOK
<1>6. ASSUME NEW r \in Rotations, Authenticate(r)
      PROVE  TypeOK'
  <2>1. rotation[r] \in RotateCall
    BY <1>6, UsedCalls DEF Authenticate
  <2>2. rotation' \in [Rotations -> Rotation]
    BY <1>6, <2>1, RotateCallMoves DEF Authenticate, TypeOK, Rotation
  <2>3. QED
    BY <1>6, <2>2 DEF Authenticate, TypeOK
<1>7. ASSUME NEW r \in Rotations, rotatePairedToken(r)
      PROVE  TypeOK'
  <2>1. rotation[r] \in RotateCall
    BY <1>7, UsedCalls DEF rotatePairedToken
  <2>2. rotation' \in [Rotations -> Rotation]
    BY <1>7, <2>1, RotateCallMoves DEF rotatePairedToken, TypeOK, Rotation
  <2>3. paired' \in [Peers -> [Peers -> Token]]
    <3> DEFINE h == rotation[r].host
               p == rotation[r].client
    <3>1. h \in Peers /\ p \in Peers /\ Rotated(r) \in Token
      BY <2>1, TokenType DEF RotateCall
    <3>2. paired' \in {paired, [paired EXCEPT ![h][p] = Rotated(r)]}
      BY <1>7 DEF rotatePairedToken
    <3> HIDE DEF h, p
    <3>3. paired \in [Peers -> [Peers -> Token]]
      BY DEF TypeOK
    <3>4. QED
      BY <3>1, <3>2, <3>3
  <2>4. QED
    BY <1>7, <2>2, <2>3 DEF rotatePairedToken, TypeOK
<1>8. ASSUME NEW r \in Rotations, RotateAnswered(r)
      PROVE  TypeOK'
  <2> DEFINE p == rotation[r].client
             h == rotation[r].host
  <2>1. rotation[r] \in RotateCall
    BY <1>8, UsedCalls DEF RotateAnswered
  <2>2. rotation' \in [Rotations -> Rotation]
    BY <1>8, <2>1, RotateCallMoves DEF RotateAnswered, TypeOK, Rotation
  <2>3. p \in Peers /\ h \in Peers
    BY <2>1 DEF RotateCall
  <2>4. connection[p][h] \in Connection /\ Rotated(r) \in Token
    BY <2>3, TokenType DEF TypeOK
  <2>5. PICK k \in {connection[p][h], [connection[p][h] EXCEPT !.token = Rotated(r)],
                    [connection[p][h] EXCEPT !.status = "revoked"]} :
          connection' = connection \/ connection' = [connection EXCEPT ![p][h] = k]
    BY <1>8 DEF RotateAnswered
  <2>6. known' \in {known, [known EXCEPT ![p][h] = Rotated(r)]}
    BY <1>8 DEF RotateAnswered
  <2>7. k \in Connection
    BY <2>4, <2>5, ConnectionMoves
  <2> HIDE DEF p, h
  <2>8. connection' \in [Peers -> [Peers -> Connection]]
    <3>1. connection \in [Peers -> [Peers -> Connection]]
      BY DEF TypeOK
    <3>2. QED
      BY <2>3, <2>5, <2>7, <3>1
  <2>9. known' \in [Peers -> [Peers -> Token]]
    <3>1. known \in [Peers -> [Peers -> Token]]
      BY DEF TypeOK
    <3>2. QED
      BY <2>3, <2>4, <2>6, <3>1
  <2>10. QED
    BY <1>8, <2>2, <2>8, <2>9 DEF RotateAnswered, TypeOK
<1>9. ASSUME NEW r \in Rotations, RotateLost(r)
      PROVE  TypeOK'
  <2>1. rotation[r] \in RotateCall
    BY <1>9, UsedCalls DEF RotateLost, Waiting
  <2>2. rotation' \in [Rotations -> Rotation]
    BY <1>9, <2>1, RotateCallMoves DEF RotateLost, TypeOK, Rotation
  <2>3. doubt' \in SUBSET (Peers \X Peers)
    BY <1>9, <2>1 DEF RotateLost, TypeOK, RotateCall
  <2>4. QED
    BY <1>9, <2>2, <2>3 DEF RotateLost, TypeOK
<1>10. ASSUME NEW p \in Peers, NEW h \in Peers,
              OpensStream(p, h) \/ connect(p, h) \/ disconnect(p, h)
       PROVE  TypeOK'
  <2>1. connection[p][h] \in Connection /\ known[p][h] \in Token
    BY DEF TypeOK
  <2>2. PICK k \in Connection : connection' = [connection EXCEPT ![p][h] = k]
    <3>1. CASE OpensStream(p, h)
      BY <2>1, <3>1, ConnectionMoves, TokenType DEF OpensStream
    <3>2. CASE connect(p, h)
      BY <2>1, <3>2, ConnectionMoves, ConnectionType, TokenType DEF connect
    <3>3. CASE disconnect(p, h)
      BY <2>1, <3>3, ConnectionMoves, TokenType DEF disconnect
    <3>4. QED
      BY <1>10, <3>1, <3>2, <3>3
  <2>3. connection' \in [Peers -> [Peers -> Connection]]
    BY <2>2 DEF TypeOK
  <2>4. QED
    BY <1>10, <2>3 DEF OpensStream, connect, disconnect, TypeOK
<1>11. ASSUME NEW p \in Peers, NEW h \in Peers, revokePaired(h, p)
       PROVE  TypeOK'
  BY <1>11, TokenType DEF revokePaired, TypeOK
<1>12. ASSUME NEW p \in Peers, NEW h \in Peers, forget(p, h)
       PROVE  TypeOK'
  <2>1. /\ known' \in [Peers -> [Peers -> Token]]
        /\ connection' \in [Peers -> [Peers -> Connection]]
    BY <1>12, TokenType, ConnectionType DEF forget, TypeOK
  <2>2. QED
    BY <1>12, <2>1, OrphanedType DEF forget, TypeOK
<1>13. ASSUME NEW p \in Peers, regenerateCode(p)
       PROVE  TypeOK'
  BY <1>13 DEF regenerateCode, TypeOK
<1>14. ASSUME NEW p \in Peers, restart(p)
       PROVE  TypeOK'
  <2>1. /\ ceremony' \in [Ceremonies -> Ceremony]
        /\ rotation' \in [Rotations -> Rotation]
    BY <1>14, RestartKeeps DEF restart
  <2>2. connection' \in [Peers -> [Peers -> Connection]]
    BY <1>14, ConnectionType DEF restart, TypeOK
  <2>3. doubt' \in SUBSET (Peers \X Peers)
    BY <1>14, DoubtType DEF restart, TypeOK
  <2>4. QED
    BY <1>14, <2>1, <2>2, <2>3 DEF restart, TypeOK
<1>15. CASE UNCHANGED vars
  BY <1>15 DEF vars, TypeOK
<1>16. QED
  BY <1>1, <1>2, <1>3, <1>4, <1>5, <1>6, <1>7, <1>8, <1>9, <1>10, <1>11, <1>12, <1>13,
     <1>14, <1>15 DEF Next

\* The initial state is well typed.
LEMMA InitType == Init => TypeOK
  BY TokenType, ConnectionType DEF Init, TypeOK, Ceremony, Rotation

\* Every variable stays in its domain; in particular a host stores what a
\* ceremony or a rotation generated, and nothing else.
THEOREM TypeCorrect == Spec => []TypeOK
  BY InitType, TypeStep, PTL DEF Spec

-----------------------------------------------------------------------------
(* One code, one pairing.                                                  *)

\* A step that accepts no ceremony, and takes no code back, keeps the codes
\* that were accepted spent and apart.
LEMMA AcceptsNothing ==
  ASSUME TypeOK, CodesSpent, OneCodeOnePairing, TypeOK',
         \A h \in Peers : code[h] <= code'[h],
         \A x \in Ceremonies : ceremony'[x].at = "accepted" =>
           /\ ceremony[x].at = "accepted"
           /\ ceremony'[x].host = ceremony[x].host
           /\ ceremony'[x].code = ceremony[x].code
  PROVE  CodesSpent' /\ OneCodeOnePairing'
<1>1. ASSUME NEW x \in Ceremonies, ceremony'[x].at = "accepted"
      PROVE  ceremony'[x].code < code'[ceremony'[x].host]
  <2>1. ceremony[x] \in PairCall /\ ceremony[x].at = "accepted"
    BY <1>1, UsedCalls
  <2>2. ceremony[x].host \in Peers /\ ceremony[x].code \in Nat
    BY <2>1 DEF PairCall
  <2>3. ceremony[x].code < code[ceremony[x].host]
    BY <2>1 DEF CodesSpent
  <2>4. /\ code[ceremony[x].host] \in Nat /\ code'[ceremony[x].host] \in Nat
        /\ code[ceremony[x].host] <= code'[ceremony[x].host]
    BY <2>2 DEF TypeOK
  <2>5. QED
    BY <1>1, <2>2, <2>3, <2>4
<1>2. CodesSpent'
  BY <1>1 DEF CodesSpent
<1>3. OneCodeOnePairing'
  BY DEF OneCodeOnePairing
<1>4. QED
  BY <1>2, <1>3

\* handlePair() accepts the code on show, which is larger than every one that
\* was accepted before, and shows the next.
LEMMA AcceptsOneCode ==
  ASSUME TypeOK, CodesSpent, OneCodeOnePairing, TypeOK',
         NEW x \in Ceremonies, handlePair(x), ~Refused(x)
  PROVE  CodesSpent' /\ OneCodeOnePairing'
<1> DEFINE h == ceremony[x].host
           c == ceremony[x].code
<1>1. ceremony[x] \in PairCall
  BY UsedCalls DEF handlePair
<1>2. h \in Peers /\ c \in Nat /\ c = code[h]
  BY <1>1 DEF PairCall, handlePair
<1>3. /\ ceremony' = [ceremony EXCEPT ![x].at = "accepted"]
      /\ code' = [code EXCEPT ![h] = @ + 1]
  BY DEF handlePair
<1>4. ceremony'[x].at = "accepted" /\ ceremony'[x].host = h /\ ceremony'[x].code = c
  BY <1>1, <1>3 DEF TypeOK, PairCall
<1>5. \A y \in Ceremonies \ {x} : ceremony'[y] = ceremony[y]
  BY <1>3 DEF TypeOK
<1>6. \A q \in Peers : code[q] \in Nat /\ code'[q] = IF q = h THEN code[q] + 1 ELSE code[q]
  BY <1>3 DEF TypeOK
<1>7. ASSUME NEW y \in Ceremonies \ {x}, ceremony[y].at = "accepted"
      PROVE  /\ ceremony[y].host \in Peers /\ ceremony[y].code \in Nat
             /\ ceremony[y].code < code[ceremony[y].host]
  BY <1>7, UsedCalls DEF CodesSpent, PairCall
<1> HIDE DEF h, c
<1>8. CodesSpent'
  <2> SUFFICES ASSUME NEW y \in Ceremonies, ceremony'[y].at = "accepted"
               PROVE  ceremony'[y].code < code'[ceremony'[y].host]
    BY DEF CodesSpent
  <2>1. CASE y = x
    BY <1>2, <1>4, <1>6, <2>1
  <2>2. CASE y # x
    <3>1. ceremony'[y] = ceremony[y] /\ ceremony[y].at = "accepted"
      BY <1>5, <2>2
    <3>2. QED
      BY <1>6, <1>7, <2>2, <3>1
  <2>3. QED
    BY <2>1, <2>2
<1>9. OneCodeOnePairing'
  <2>1. ASSUME NEW y \in Ceremonies \ {x}, ceremony'[y].at = "accepted", ceremony'[y].host = h
        PROVE  ceremony'[y].code # c
    BY <1>2, <1>5, <1>7, <2>1
  <2>2. ASSUME NEW y \in Ceremonies \ {x}, NEW z \in Ceremonies \ {x}, y # z,
               ceremony'[y].at = "accepted", ceremony'[z].at = "accepted",
               ceremony'[y].host = ceremony'[z].host
        PROVE  ceremony'[y].code # ceremony'[z].code
    BY <1>5, <2>2 DEF OneCodeOnePairing
  <2>3. QED
    BY <1>4, <2>1, <2>2 DEF OneCodeOnePairing
<1>10. QED
  BY <1>8, <1>9

\* Every action keeps a spent code spent, and a code from serving twice.
LEMMA CodeStep ==
  TypeOK /\ TypeOK' /\ CodesSpent /\ OneCodeOnePairing /\ [Next]_vars
    => CodesSpent' /\ OneCodeOnePairing'
<1> SUFFICES ASSUME TypeOK, TypeOK', CodesSpent, OneCodeOnePairing, [Next]_vars
             PROVE  CodesSpent' /\ OneCodeOnePairing'
  OBVIOUS
<1> DEFINE AcceptsNone ==
             \A x \in Ceremonies : ceremony'[x].at = "accepted" =>
               /\ ceremony[x].at = "accepted"
               /\ ceremony'[x].host = ceremony[x].host
               /\ ceremony'[x].code = ceremony[x].code
<1>0. \A h \in Peers : code[h] \in Nat
  BY DEF TypeOK
<1>1. ASSUME AcceptsNone, UNCHANGED code
      PROVE  CodesSpent' /\ OneCodeOnePairing'
  BY <1>0, <1>1, AcceptsNothing
<1> HIDE DEF AcceptsNone
<1>2. ASSUME NEW x \in Ceremonies, NEW p \in Peers, NEW h \in Peers, pair(x, p, h)
      PROVE  CodesSpent' /\ OneCodeOnePairing'
  <2>1. PICK z : z.at = "sent" /\ ceremony' = [Overlapped(p, h) EXCEPT ![x] = z]
    BY <1>2 DEF pair
  <2>2. ceremony'[x].at = "sent"
        /\ \A y \in Ceremonies \ {x} : ceremony'[y] = Overlapped(p, h)[y]
    BY <2>1, OverlappedKeeps
  <2>3. AcceptsNone
    BY <2>2, OverlappedKeeps DEF AcceptsNone
  <2>4. QED
    BY <1>1, <1>2, <2>3 DEF pair
<1>3. ASSUME NEW x \in Ceremonies, Refused(x) \/ PairAnswered(x) \/ PairLost(x),
             ceremony[x].at # "unused"
      PROVE  CodesSpent' /\ OneCodeOnePairing'
  <2>1. ceremony[x] \in PairCall
    BY <1>3, UsedCalls
  <2>2. \A y \in Ceremonies \ {x} : ceremony'[y] = ceremony[y]
    BY <1>3 DEF Refused, PairAnswered, PairLost, TypeOK
  <2>3. /\ ceremony'[x].at \in {ceremony[x].at, "refused"}
        /\ ceremony'[x].host = ceremony[x].host /\ ceremony'[x].code = ceremony[x].code
    <3>1. CASE Refused(x)
      BY <2>1, <3>1 DEF Refused, TypeOK, PairCall
    <3>2. CASE PairAnswered(x)
      BY <2>1, <3>2 DEF PairAnswered, TypeOK, PairCall
    <3>3. CASE PairLost(x)
      BY <2>1, <3>3 DEF PairLost, TypeOK, PairCall
    <3>4. QED
      BY <1>3, <3>1, <3>2, <3>3
  <2>4. AcceptsNone
    BY <2>2, <2>3 DEF AcceptsNone
  <2>5. UNCHANGED code
    BY <1>3 DEF Refused, PairAnswered, PairLost
  <2>6. QED
    BY <1>1, <2>4, <2>5
<1>4. ASSUME NEW x \in Ceremonies, handlePair(x)
      PROVE  CodesSpent' /\ OneCodeOnePairing'
  BY <1>3, <1>4, AcceptsOneCode DEF handlePair
<1>5. ASSUME NEW r \in Rotations, NEW p \in Peers, NEW h \in Peers, rotateToken(r, p, h)
      PROVE  CodesSpent' /\ OneCodeOnePairing'
  <2>1. AcceptsNone
    BY <1>5, OverlappedKeeps DEF rotateToken, AcceptsNone
  <2>2. QED
    BY <1>1, <1>5, <2>1 DEF rotateToken
<1>6. ASSUME UNCHANGED <<ceremony, code>>
      PROVE  CodesSpent' /\ OneCodeOnePairing'
  BY <1>6 DEF CodesSpent, OneCodeOnePairing
<1>7. ASSUME NEW r \in Rotations,
             Authenticate(r) \/ rotatePairedToken(r) \/ RotateAnswered(r) \/ RotateLost(r)
      PROVE  UNCHANGED <<ceremony, code>>
  BY <1>7 DEF Authenticate, rotatePairedToken, RotateAnswered, RotateLost
<1>8. ASSUME NEW p \in Peers, NEW h \in Peers,
             \/ OpensStream(p, h) \/ connect(p, h) \/ disconnect(p, h)
             \/ revokePaired(h, p) \/ forget(p, h)
      PROVE  UNCHANGED <<ceremony, code>>
  BY <1>8 DEF OpensStream, connect, disconnect, revokePaired, forget
<1>9. ASSUME NEW p \in Peers, regenerateCode(p)
      PROVE  CodesSpent' /\ OneCodeOnePairing'
  <2>1. \A h \in Peers : code[h] <= code'[h]
    BY <1>9 DEF regenerateCode, TypeOK
  <2>2. ceremony' = ceremony
    BY <1>9 DEF regenerateCode
  <2>3. QED
    BY <2>1, <2>2, AcceptsNothing
<1>10. ASSUME NEW p \in Peers, restart(p)
       PROVE  CodesSpent' /\ OneCodeOnePairing'
  <2>1. \A h \in Peers : code[h] <= code'[h]
    BY <1>10 DEF restart, TypeOK
  <2>2. \A x \in Ceremonies : ceremony'[x] = AfterRestart(ceremony[x], p)
    BY <1>10 DEF restart
  <2>3. QED
    BY <2>1, <2>2, RestartKeeps, AcceptsNothing
<1>11. CASE UNCHANGED vars
  BY <1>6, <1>11 DEF vars
<1>12. ASSUME NEW x \in Ceremonies, PairAnswered(x) \/ PairLost(x)
       PROVE  ceremony[x].at # "unused"
  BY <1>12 DEF PairAnswered, PairLost, Waiting
<1>13. QED
  BY <1>2, <1>3, <1>4, <1>5, <1>6, <1>7, <1>8, <1>9, <1>10, <1>11, <1>12 DEF Next

\* However concurrent pairing requests interleave, and however often the host
\* shows a new code or restarts, a code admits at most one device.
THEOREM OneCode == Spec => []OneCodeOnePairing
<1>1. Init => CodesSpent /\ OneCodeOnePairing
  BY DEF Init, CodesSpent, OneCodeOnePairing, Unused
<1>2. TypeOK /\ TypeOK' /\ (CodesSpent /\ OneCodeOnePairing) /\ [Next]_vars
        => (CodesSpent /\ OneCodeOnePairing)'
  BY CodeStep
<1>3. QED
  BY <1>1, <1>2, TypeCorrect, PTL DEF Spec

-----------------------------------------------------------------------------
(* Only a ceremony admits a device.                                        *)

\* The steps that write the list of paired devices: a rotation replaces a
\* token that is there, and a ceremony writes one it issued or offered.
LEMMA AdmitStep ==
  ASSUME TypeOK, Next, NEW h \in Peers, NEW p \in Peers, paired[h][p] = NoToken
  PROVE  paired'[h][p] \in {NoToken} \cup {Issued(x) : x \in Ceremonies}
                                      \cup {Offered(x) : x \in Ceremonies}
<1> DEFINE Admitted == {NoToken} \cup {Issued(x) : x \in Ceremonies}
                                 \cup {Offered(x) : x \in Ceremonies}
<1>1. ASSUME NEW q \in Peers, NEW k \in Peers, NEW t \in Admitted,
             paired' = [paired EXCEPT ![q][k] = t]
      PROVE  paired'[h][p] \in Admitted
  BY <1>1 DEF TypeOK
<1>2. ASSUME UNCHANGED paired
      PROVE  paired'[h][p] \in Admitted
  BY <1>2
<1>3. NoToken \in Admitted /\ \A x \in Ceremonies : Issued(x) \in Admitted
      /\ Offer \subseteq Admitted
  BY DEF Offer
<1> HIDE DEF Admitted
<1>4. ASSUME NEW x \in Ceremonies, handlePair(x)
      PROVE  paired'[h][p] \in Admitted
  <2>1. ceremony[x].host \in Peers /\ ceremony[x].client \in Peers
    BY <1>4, UsedCalls DEF handlePair, PairCall
  <2>2. UNCHANGED paired
        \/ paired' = [paired EXCEPT ![ceremony[x].host][ceremony[x].client] = Issued(x)]
    BY <1>4 DEF handlePair, Refused
  <2>3. QED
    BY <1>1, <1>2, <1>3, <2>1, <2>2
<1>5. ASSUME NEW x \in Ceremonies, PairAnswered(x)
      PROVE  paired'[h][p] \in Admitted
  <2>1. /\ ceremony[x].host \in Peers /\ ceremony[x].client \in Peers
        /\ ceremony[x].offer \in Offer
    BY <1>5, UsedCalls DEF PairAnswered, PairCall
  <2>2. UNCHANGED paired
        \/ paired' = [paired EXCEPT ![ceremony[x].client][ceremony[x].host] = ceremony[x].offer]
    BY <1>5 DEF PairAnswered
  <2>3. QED
    BY <1>1, <1>2, <1>3, <2>1, <2>2
<1>6. ASSUME NEW r \in Rotations, rotatePairedToken(r)
      PROVE  paired'[h][p] \in Admitted
  <2> DEFINE q == rotation[r].host
             k == rotation[r].client
  <2>1. q \in Peers /\ k \in Peers
    BY <1>6, UsedCalls DEF rotatePairedToken, RotateCall
  <2>2. \/ UNCHANGED paired
        \/ /\ paired[q][k] # NoToken
           /\ paired' = [paired EXCEPT ![q][k] = Rotated(r)]
    BY <1>6 DEF rotatePairedToken
  <2> HIDE DEF q, k
  <2>3. paired'[h][p] = NoToken
    BY <2>1, <2>2 DEF TypeOK
  <2>4. QED
    BY <1>3, <2>3
<1>7. ASSUME NEW q \in Peers, NEW k \in Peers, revokePaired(q, k)
      PROVE  paired'[h][p] \in Admitted
  BY <1>1, <1>3, <1>7 DEF revokePaired
<1>8. ASSUME NEW q \in Peers, NEW k \in Peers,
             \/ \E x \in Ceremonies : pair(x, q, k)
             \/ \E r \in Rotations : rotateToken(r, q, k)
             \/ OpensStream(q, k) \/ connect(q, k) \/ disconnect(q, k) \/ forget(q, k)
             \/ regenerateCode(q) \/ restart(q)
      PROVE  UNCHANGED paired
  BY <1>8 DEF pair, rotateToken, OpensStream, connect, disconnect, forget, regenerateCode, restart
<1>9. ASSUME NEW r \in Rotations, Authenticate(r) \/ RotateAnswered(r) \/ RotateLost(r)
      PROVE  UNCHANGED paired
  BY <1>9 DEF Authenticate, RotateAnswered, RotateLost
<1>10. ASSUME NEW x \in Ceremonies, PairLost(x)
       PROVE  UNCHANGED paired
  BY <1>10 DEF PairLost
<1>11. paired'[h][p] \in Admitted
  BY <1>2, <1>4, <1>5, <1>6, <1>7, <1>8, <1>9, <1>10 DEF Next
<1>12. QED
  BY <1>11 DEF Admitted

\* A device that is not paired, be it because it has been revoked, gets in by a
\* pairing ceremony only, whatever requests of it were on their way.
THEOREM OnlyPairing == Spec => OnlyPairingAdmits
<1>1. TypeOK /\ [Next]_vars =>
        [\A h, p \in Peers :
           paired[h][p] = NoToken =>
             paired'[h][p] \in {NoToken} \cup {Issued(x) : x \in Ceremonies}
                                         \cup {Offered(x) : x \in Ceremonies}]_vars
  BY AdmitStep
<1>2. QED
  BY <1>1, TypeCorrect, PTL DEF Spec, OnlyPairingAdmits

----------------------------------------------------------------------------
\* Agreement.

\* One exchange of two instances at a time, but for the doubt about them: a ceremony that is alone is
\* the only exchange under way between its ends;
Sole ==
  \A x \in Ceremonies : InFlight(ceremony[x]) =>
    /\ ceremony[x].client # ceremony[x].host
    /\ ceremony[x].alone =>
         /\ \A y \in Ceremonies \ {x} :
              InFlight(ceremony[y]) => ~Between(ceremony[y], ceremony[x].client, ceremony[x].host)
         /\ \A r \in Rotations :
              InFlight(rotation[r]) => ~Between(rotation[r], ceremony[x].client, ceremony[x].host)
\* one that is not, or that nobody waits for, leaves both ways in doubt, and so do rotations that
\* overlap, or that nobody waits for, theirs.
Doubted ==
  /\ \A x \in Ceremonies : InFlight(ceremony[x]) /\ ~(ceremony[x].alone /\ ceremony[x].waiting)
       => BothWays(ceremony[x].client, ceremony[x].host) \subseteq doubt
  /\ \A r \in Rotations : InFlight(rotation[r]) /\ ~rotation[r].waiting
       => <<rotation[r].client, rotation[r].host>> \in doubt
  /\ \A r, s \in Rotations :
       /\ r # s /\ InFlight(rotation[r]) /\ InFlight(rotation[s])
       /\ rotation[r].client = rotation[s].client /\ rotation[r].host = rotation[s].host
       => <<rotation[r].client, rotation[r].host>> \in doubt
\* The book that is kept of doubt and overlap is right.
Book == Sole /\ Doubted

\* What agrees, of one client and one host.
Agree(p, h) ==
  known[p][h] # NoToken /\ paired[h][p] # NoToken =>
    /\ known[p][h] = paired[h][p]
    /\ Linked(p, h) => connection[p][h].token = known[p][h]
\* One end of an exchange has changed, the other one has not.
Accepted(x) == Waiting(ceremony[x]) /\ ceremony[x].at = "accepted"
\* The host has changed the token of a rotation whose client still waits for it.
Halfway(r) == Waiting(rotation[r]) /\ rotation[r].at = "rotated"
\* Something of the two kinds is under way between client p and host h.
Amid(p, h) ==
  \/ \E x \in Ceremonies : /\ Accepted(x)
                           /\ \/ ceremony[x].client = p /\ ceremony[x].host = h
                              \/ ceremony[x].client = h /\ ceremony[x].host = p /\ ceremony[x].offer # NoToken
  \/ \E r \in Rotations : Halfway(r) /\ rotation[r].client = p /\ rotation[r].host = h
\* Where nothing is in doubt, and nothing halfway, the two ends agree.
Agreeing == \A p, h \in Peers : <<p, h>> \notin doubt /\ ~Amid(p, h) => Agree(p, h)
\* The host of a ceremony that is alone holds what it issued and uses what it was offered;
Given(x) ==
  Accepted(x) /\ ceremony[x].alone =>
    /\ paired[ceremony[x].host][ceremony[x].client] \in {Issued(x), NoToken}
    /\ ceremony[x].offer # NoToken =>
         /\ known[ceremony[x].host][ceremony[x].client] \in {ceremony[x].offer, NoToken}
         /\ Linked(ceremony[x].host, ceremony[x].client)
              => connection[ceremony[x].host][ceremony[x].client].token = ceremony[x].offer
\* the host of a rotation holds the new token; the connection that waits for it is there, or the peer
\* was forgotten;
Turned(r) ==
  /\ Halfway(r) /\ <<rotation[r].client, rotation[r].host>> \notin doubt
       => paired[rotation[r].host][rotation[r].client] \in {Rotated(r), NoToken}
  /\ Waiting(rotation[r]) /\ ~rotation[r].orphan => Linked(rotation[r].client, rotation[r].host)
  /\ InFlight(rotation[r]) /\ rotation[r].orphan /\ <<rotation[r].client, rotation[r].host>> \notin doubt
       => known[rotation[r].client][rotation[r].host] = NoToken
\* and a peer that is not known has no connection.
Linkless == \A p, h \in Peers : known[p][h] = NoToken => ~Linked(p, h)
\* What holds of the tokens while exchanges are under way.
Tokens ==
  /\ \A x \in Ceremonies : Given(x)
  /\ \A r \in Rotations : Turned(r)
  /\ Linkless /\ Agreeing
\* The inductive invariant behind Agreement.
AgreementInv == TypeOK /\ Book /\ Tokens

\* An exchange is between two instances when they are its ends, either way round.
LEMMA Ends ==
  ASSUME NEW z, NEW p, NEW q
  PROVE  Between(z, p, q) <=> /\ z.at # "unused"
                              /\ \/ z.client = p /\ z.host = q
                                 \/ z.client = q /\ z.host = p
BY DEF Between

\* The steps of a call of pair() after its start.
LEMMA CeremonyFields ==
  ASSUME TypeOK, NEW x \in Ceremonies, ceremony[x].at # "unused",
         NEW a \in {"sent", "accepted", "refused", "dropped"}
  PROVE  /\ \A y \in Ceremonies \ {x} :
              /\ [ceremony EXCEPT ![x].at = a][y] = ceremony[y]
              /\ [ceremony EXCEPT ![x].waiting = FALSE][y] = ceremony[y]
              /\ [ceremony EXCEPT ![x].waiting = FALSE, ![x].lost = TRUE][y] = ceremony[y]
         /\ [ceremony EXCEPT ![x].at = a][x] = [ceremony[x] EXCEPT !.at = a]
         /\ [ceremony EXCEPT ![x].waiting = FALSE][x] = [ceremony[x] EXCEPT !.waiting = FALSE]
         /\ [ceremony EXCEPT ![x].waiting = FALSE, ![x].lost = TRUE][x]
              = [ceremony[x] EXCEPT !.waiting = FALSE, !.lost = TRUE]
BY UsedCalls DEF TypeOK

\* What a step of pair() changes in a call of it.
LEMMA PairFields ==
  ASSUME NEW z \in PairCall
  PROVE  /\ \A a \in {"accepted", "refused", "dropped"} :
              LET v == [z EXCEPT !.at = a]
              IN  /\ v.client = z.client /\ v.host = z.host /\ v.offer = z.offer
                  /\ v.at = a /\ v.waiting = z.waiting /\ v.alone = z.alone
         /\ LET v == [z EXCEPT !.alone = FALSE]
            IN  /\ v.client = z.client /\ v.host = z.host /\ v.offer = z.offer
                /\ v.at = z.at /\ v.waiting = z.waiting /\ v.alone = FALSE
         /\ LET v == [z EXCEPT !.waiting = FALSE]
            IN  /\ v.client = z.client /\ v.host = z.host /\ v.offer = z.offer
                /\ v.at = z.at /\ v.waiting = FALSE /\ v.alone = z.alone
         /\ LET v == [z EXCEPT !.waiting = FALSE, !.lost = TRUE]
            IN  /\ v.client = z.client /\ v.host = z.host /\ v.offer = z.offer
                /\ v.at = z.at /\ v.waiting = FALSE /\ v.alone = z.alone
BY DEF PairCall

\* The steps of a call of rotateToken() after its start.
LEMMA RotateFields ==
  ASSUME NEW z \in RotateCall
  PROVE  /\ \A a \in {"authorized", "rotated", "refused", "failed", "dropped"} :
              LET v == [z EXCEPT !.at = a]
              IN  /\ v.client = z.client /\ v.host = z.host
                  /\ v.at = a /\ v.waiting = z.waiting /\ v.orphan = z.orphan
         /\ LET v == [z EXCEPT !.orphan = TRUE]
            IN  /\ v.client = z.client /\ v.host = z.host
                /\ v.at = z.at /\ v.waiting = z.waiting /\ v.orphan = TRUE
         /\ LET v == [z EXCEPT !.waiting = FALSE]
            IN  /\ v.client = z.client /\ v.host = z.host
                /\ v.at = z.at /\ v.waiting = FALSE /\ v.orphan = z.orphan
         /\ LET v == [z EXCEPT !.waiting = FALSE, !.lost = TRUE]
            IN  /\ v.client = z.client /\ v.host = z.host
                /\ v.at = z.at /\ v.waiting = FALSE /\ v.orphan = z.orphan
BY DEF RotateCall

\* The steps of a call of rotateToken() after its start, in the table of the calls.
LEMMA RotationFields ==
  ASSUME TypeOK, NEW r \in Rotations, rotation[r].at # "unused",
         NEW a \in {"sent", "authorized", "rotated", "refused", "failed", "dropped"}
  PROVE  /\ \A s \in Rotations \ {r} :
              /\ [rotation EXCEPT ![r].at = a][s] = rotation[s]
              /\ [rotation EXCEPT ![r].waiting = FALSE][s] = rotation[s]
              /\ [rotation EXCEPT ![r].waiting = FALSE, ![r].lost = TRUE][s] = rotation[s]
         /\ [rotation EXCEPT ![r].at = a][r] = [rotation[r] EXCEPT !.at = a]
         /\ [rotation EXCEPT ![r].waiting = FALSE][r] = [rotation[r] EXCEPT !.waiting = FALSE]
         /\ [rotation EXCEPT ![r].waiting = FALSE, ![r].lost = TRUE][r]
              = [rotation[r] EXCEPT !.waiting = FALSE, !.lost = TRUE]
BY UsedCalls DEF TypeOK

\* Replacing a connection makes orphans of its rotations, and changes nothing else of them.
LEMMA OrphanedFields ==
  ASSUME TypeOK, NEW p \in Peers, NEW h \in Peers, NEW r \in Rotations
  PROVE  /\ Orphaned(p, h)[r].at = rotation[r].at
         /\ rotation[r].at # "unused" =>
              /\ Orphaned(p, h)[r].client = rotation[r].client /\ Orphaned(p, h)[r].host = rotation[r].host
              /\ Orphaned(p, h)[r].waiting = rotation[r].waiting
              /\ rotation[r].client = p /\ rotation[r].host = h => Orphaned(p, h)[r].orphan = TRUE
              /\ ~(rotation[r].client = p /\ rotation[r].host = h)
                   => Orphaned(p, h)[r].orphan = rotation[r].orphan
<1>1. CASE rotation[r].at # "unused" /\ rotation[r].client = p /\ rotation[r].host = h
  <2>1. Orphaned(p, h)[r] = [rotation[r] EXCEPT !.orphan = TRUE]
    BY <1>1 DEF Orphaned
  <2>2. rotation[r] \in RotateCall
    BY <1>1, UsedCalls
  <2>3. Orphaned(p, h)[r].orphan = TRUE
    BY <2>1, <2>2 DEF RotateCall
  <2> QED
    BY <1>1, <2>1, <2>2, <2>3 DEF RotateCall
<1>2. CASE ~(rotation[r].at # "unused" /\ rotation[r].client = p /\ rotation[r].host = h)
  <2>1. Orphaned(p, h)[r] = rotation[r]
    BY <1>2 DEF Orphaned
  <2>2. rotation[r].at # "unused" => rotation[r].orphan \in BOOLEAN
    BY UsedCalls DEF RotateCall
  <2> QED
    BY <1>2, <2>1, <2>2
<1> QED
  BY <1>1, <1>2

\* The start of an exchange ends the others' being alone, and changes nothing else of them.
LEMMA OverlappedFields ==
  ASSUME TypeOK, NEW p \in Peers, NEW h \in Peers, NEW x \in Ceremonies
  PROVE  /\ Overlapped(p, h)[x].at = ceremony[x].at
         /\ ceremony[x].at # "unused" =>
              /\ Overlapped(p, h)[x].client = ceremony[x].client /\ Overlapped(p, h)[x].host = ceremony[x].host
              /\ Overlapped(p, h)[x].waiting = ceremony[x].waiting /\ Overlapped(p, h)[x].offer = ceremony[x].offer
              /\ Overlapped(p, h)[x].alone
                   => ceremony[x].alone /\ ~(InFlight(ceremony[x]) /\ Between(ceremony[x], p, h))
              /\ Overlapped(p, h)[x] # ceremony[x] => InFlight(ceremony[x]) /\ Between(ceremony[x], p, h)
<1>1. CASE InFlight(ceremony[x]) /\ Between(ceremony[x], p, h)
  <2>1. Overlapped(p, h)[x] = [ceremony[x] EXCEPT !.alone = FALSE] /\ ceremony[x].at # "unused"
    BY <1>1 DEF Overlapped, InFlight
  <2> QED
    BY <1>1, <2>1, UsedCalls, PairFields
<1>2. CASE ~(InFlight(ceremony[x]) /\ Between(ceremony[x], p, h))
  BY <1>2 DEF Overlapped
<1> QED
  BY <1>1, <1>2

\* After a restart nothing is under way that was not before, and the restarted client awaits nothing.
LEMMA RestartFields ==
  ASSUME TypeOK, NEW p \in Peers
  PROVE  /\ \A x \in Ceremonies :
              /\ InFlight(AfterRestart(ceremony[x], p)) =>
                   /\ InFlight(ceremony[x])
                   /\ AfterRestart(ceremony[x], p).client = ceremony[x].client
                   /\ AfterRestart(ceremony[x], p).host = ceremony[x].host
                   /\ AfterRestart(ceremony[x], p).alone = ceremony[x].alone
              /\ Waiting(AfterRestart(ceremony[x], p)) =>
                   /\ Waiting(ceremony[x]) /\ ceremony[x].client # p
                   /\ AfterRestart(ceremony[x], p).offer = ceremony[x].offer
                   /\ AfterRestart(ceremony[x], p).at \in {ceremony[x].at, "dropped"}
              /\ InFlight(ceremony[x]) /\ p \notin {ceremony[x].client, ceremony[x].host}
                   => AfterRestart(ceremony[x], p) = ceremony[x]
         /\ \A r \in Rotations :
              /\ InFlight(AfterRestart(rotation[r], p)) =>
                   /\ InFlight(rotation[r])
                   /\ AfterRestart(rotation[r], p).client = rotation[r].client
                   /\ AfterRestart(rotation[r], p).host = rotation[r].host
                   /\ AfterRestart(rotation[r], p).orphan = rotation[r].orphan
              /\ Waiting(AfterRestart(rotation[r], p)) =>
                   /\ Waiting(rotation[r]) /\ rotation[r].client # p
                   /\ AfterRestart(rotation[r], p).at \in {rotation[r].at, "dropped"}
              /\ InFlight(rotation[r]) /\ p \notin {rotation[r].client, rotation[r].host}
                   => AfterRestart(rotation[r], p) = rotation[r]
<1>1. ASSUME NEW z, z.at # "unused"
      PROVE  \/ /\ AfterRestart(z, p) = [z EXCEPT !.waiting = FALSE, !.lost = TRUE]
                /\ z.waiting /\ p = z.client
             \/ /\ AfterRestart(z, p) = [z EXCEPT !.at = "dropped"]
                /\ ~(z.waiting /\ p = z.client) /\ p = z.host /\ z.at \in {"sent", "authorized"}
             \/ /\ AfterRestart(z, p) = z
                /\ ~(z.waiting /\ p = z.client) /\ ~(p = z.host /\ z.at \in {"sent", "authorized"})
  <2>1. CASE z.waiting /\ p = z.client
    BY <1>1, <2>1 DEF AfterRestart
  <2>2. CASE ~(z.waiting /\ p = z.client)
    BY <1>1, <2>2 DEF AfterRestart
  <2> QED
    BY <2>1, <2>2
<1>2. ASSUME NEW z, z.at = "unused" PROVE AfterRestart(z, p) = z /\ ~InFlight(z) /\ ~Waiting(z)
  BY <1>2 DEF AfterRestart, InFlight, Waiting
<1>3. ASSUME NEW x \in Ceremonies, ceremony[x].at # "unused"
      PROVE  /\ InFlight(AfterRestart(ceremony[x], p)) =>
                  /\ InFlight(ceremony[x])
                  /\ AfterRestart(ceremony[x], p).client = ceremony[x].client
                  /\ AfterRestart(ceremony[x], p).host = ceremony[x].host
                  /\ AfterRestart(ceremony[x], p).alone = ceremony[x].alone
             /\ Waiting(AfterRestart(ceremony[x], p)) =>
                  /\ Waiting(ceremony[x]) /\ ceremony[x].client # p
                  /\ AfterRestart(ceremony[x], p).offer = ceremony[x].offer
                  /\ AfterRestart(ceremony[x], p).at \in {ceremony[x].at, "dropped"}
             /\ InFlight(ceremony[x]) /\ p \notin {ceremony[x].client, ceremony[x].host}
                  => AfterRestart(ceremony[x], p) = ceremony[x]
  <2>1. ceremony[x] \in PairCall
    BY <1>3, UsedCalls
  <2> DEFINE z == ceremony[x]
             v == AfterRestart(z, p)
  <2>2. \/ v = [z EXCEPT !.waiting = FALSE, !.lost = TRUE] /\ p = z.client
        \/ v = [z EXCEPT !.at = "dropped"] /\ ~(z.waiting /\ p = z.client) /\ p = z.host /\ z.at = "sent"
        \/ v = z /\ ~(z.waiting /\ p = z.client)
    BY <2>1, <1>1, <1>3 DEF PairCall
  <2>3. /\ v.client = z.client /\ v.host = z.host /\ v.offer = z.offer /\ v.alone = z.alone
        /\ \/ v.waiting = FALSE /\ v.at = z.at /\ p = z.client
           \/ v.waiting = z.waiting /\ v.at = "dropped" /\ ~(z.waiting /\ p = z.client) /\ z.at = "sent" /\ p = z.host
           \/ v = z /\ ~(z.waiting /\ p = z.client)
    BY <2>1, <2>2 DEF PairCall
  <2> HIDE DEF v, z
  <2>4. v.at = "unused" => z.at = "unused"
    BY <2>3
  <2>5. /\ InFlight(v) => InFlight(z) /\ v.client = z.client /\ v.host = z.host
        /\ Waiting(v) => Waiting(z) /\ z.client # p /\ v.at \in {z.at, "dropped"}
        /\ InFlight(z) /\ p \notin {z.client, z.host} => v = z
    BY <2>3, <2>4 DEF InFlight, Waiting
  <2> QED
    BY <2>3, <2>5 DEF v, z
<1>4. ASSUME NEW r \in Rotations, rotation[r].at # "unused"
      PROVE  /\ InFlight(AfterRestart(rotation[r], p)) =>
                  /\ InFlight(rotation[r])
                  /\ AfterRestart(rotation[r], p).client = rotation[r].client
                  /\ AfterRestart(rotation[r], p).host = rotation[r].host
                  /\ AfterRestart(rotation[r], p).orphan = rotation[r].orphan
             /\ Waiting(AfterRestart(rotation[r], p)) =>
                  /\ Waiting(rotation[r]) /\ rotation[r].client # p
                  /\ AfterRestart(rotation[r], p).at \in {rotation[r].at, "dropped"}
             /\ InFlight(rotation[r]) /\ p \notin {rotation[r].client, rotation[r].host}
                  => AfterRestart(rotation[r], p) = rotation[r]
  <2>1. rotation[r] \in RotateCall
    BY <1>4, UsedCalls
  <2> DEFINE z == rotation[r]
             v == AfterRestart(z, p)
  <2>2. \/ v = [z EXCEPT !.waiting = FALSE, !.lost = TRUE] /\ p = z.client
        \/ /\ v = [z EXCEPT !.at = "dropped"] /\ ~(z.waiting /\ p = z.client)
           /\ p = z.host /\ z.at \in {"sent", "authorized"}
        \/ v = z /\ ~(z.waiting /\ p = z.client)
    BY <1>1, <1>4
  <2>3. /\ v.client = z.client /\ v.host = z.host /\ v.orphan = z.orphan
        /\ \/ v.waiting = FALSE /\ v.at = z.at /\ p = z.client
           \/ /\ v.waiting = z.waiting /\ v.at = "dropped" /\ ~(z.waiting /\ p = z.client)
              /\ z.at \in {"sent", "authorized"} /\ p = z.host
           \/ v = z /\ ~(z.waiting /\ p = z.client)
    BY <2>1, <2>2 DEF RotateCall
  <2> HIDE DEF v, z
  <2>4. v.at = "unused" => z.at = "unused"
    BY <2>3
  <2>5. /\ InFlight(v) => InFlight(z) /\ v.client = z.client /\ v.host = z.host
        /\ Waiting(v) => Waiting(z) /\ z.client # p /\ v.at \in {z.at, "dropped"}
        /\ InFlight(z) /\ p \notin {z.client, z.host} => v = z
    BY <2>3, <2>4 DEF InFlight, Waiting
  <2> QED
    BY <2>3, <2>5 DEF v, z
<1> QED
  BY <1>2, <1>3, <1>4

\* Exchanges that go on, or end, without a new one.
Ebbs ==
  /\ \A x \in Ceremonies : InFlight(ceremony'[x]) =>
       /\ InFlight(ceremony[x])
       /\ ceremony'[x].client = ceremony[x].client /\ ceremony'[x].host = ceremony[x].host
       /\ ceremony'[x].alone = ceremony[x].alone
       /\ \/ BothWays(ceremony[x].client, ceremony[x].host) \subseteq doubt'
          \/ /\ ceremony'[x].waiting = ceremony[x].waiting
             /\ BothWays(ceremony[x].client, ceremony[x].host) \cap doubt \subseteq doubt'
  /\ \A r \in Rotations : InFlight(rotation'[r]) =>
       /\ InFlight(rotation[r])
       /\ rotation'[r].client = rotation[r].client /\ rotation'[r].host = rotation[r].host
       /\ \/ <<rotation[r].client, rotation[r].host>> \in doubt'
          \/ /\ rotation'[r].waiting = rotation[r].waiting
             /\ <<rotation[r].client, rotation[r].host>> \notin doubt

\* Exchanges that end, one by one, or whose ends come into doubt, leave the book right.
LEMMA BookEbbs ==
  ASSUME Book, Ebbs
  PROVE  Book'
<1>1. Sole'
  <2> SUFFICES ASSUME NEW x \in Ceremonies, InFlight(ceremony'[x])
               PROVE  /\ ceremony'[x].client # ceremony'[x].host
                      /\ ceremony'[x].alone =>
                         /\ \A y \in Ceremonies \ {x} :
                              InFlight(ceremony'[y]) => ~Between(ceremony'[y], ceremony'[x].client, ceremony'[x].host)
                         /\ \A r \in Rotations :
                              InFlight(rotation'[r]) => ~Between(rotation'[r], ceremony'[x].client, ceremony'[x].host)
    BY DEF Sole
  <2>1. InFlight(ceremony[x]) /\ ceremony'[x].client = ceremony[x].client /\ ceremony'[x].host = ceremony[x].host
        /\ ceremony'[x].alone = ceremony[x].alone
    BY DEF Ebbs
  <2>2. ASSUME NEW z, NEW v, NEW p, NEW q, InFlight(v), v.client = z.client, v.host = z.host, Between(v, p, q),
               InFlight(z)
        PROVE  Between(z, p, q)
    BY <2>2, Ends DEF InFlight
  <2>3. \A y \in Ceremonies : InFlight(ceremony'[y]) =>
          InFlight(ceremony[y]) /\ ceremony'[y].client = ceremony[y].client /\ ceremony'[y].host = ceremony[y].host
    BY DEF Ebbs
  <2>4. \A r \in Rotations : InFlight(rotation'[r]) =>
          InFlight(rotation[r]) /\ rotation'[r].client = rotation[r].client /\ rotation'[r].host = rotation[r].host
    BY DEF Ebbs
  <2> QED
    BY <2>1, <2>2, <2>3, <2>4 DEF Book, Sole
<1>2. Doubted'
  <2>1. ASSUME NEW x \in Ceremonies, InFlight(ceremony'[x]), ~(ceremony'[x].alone /\ ceremony'[x].waiting)
        PROVE  BothWays(ceremony'[x].client, ceremony'[x].host) \subseteq doubt'
    <3>1. CASE BothWays(ceremony[x].client, ceremony[x].host) \subseteq doubt'
      BY <2>1, <3>1 DEF Ebbs
    <3>2. CASE ~(BothWays(ceremony[x].client, ceremony[x].host) \subseteq doubt')
      <4>1. BothWays(ceremony[x].client, ceremony[x].host) \subseteq doubt
        BY <2>1, <3>2 DEF Ebbs, Book, Doubted
      <4> QED
        BY <2>1, <3>2, <4>1 DEF Ebbs
    <3> QED
      BY <3>1, <3>2
  <2>2. ASSUME NEW r \in Rotations, InFlight(rotation'[r]), ~rotation'[r].waiting
        PROVE  <<rotation'[r].client, rotation'[r].host>> \in doubt'
    BY <2>2 DEF Ebbs, Book, Doubted
  <2>3. ASSUME NEW r \in Rotations, NEW s \in Rotations, r # s, InFlight(rotation'[r]), InFlight(rotation'[s]),
               rotation'[r].client = rotation'[s].client, rotation'[r].host = rotation'[s].host
        PROVE  <<rotation'[r].client, rotation'[r].host>> \in doubt'
    BY <2>3 DEF Ebbs, Book, Doubted
  <2> QED
    BY <2>1, <2>2, <2>3 DEF Doubted
<1> QED
  BY <1>1, <1>2 DEF Book

\* An orphan is under way if it was before it became one.
LEMMA OrphanedFlight ==
  ASSUME TypeOK, NEW p \in Peers, NEW h \in Peers
  PROVE  \A r \in Rotations : InFlight(Orphaned(p, h)[r]) =>
           /\ InFlight(rotation[r])
           /\ Orphaned(p, h)[r].client = rotation[r].client /\ Orphaned(p, h)[r].host = rotation[r].host
           /\ Orphaned(p, h)[r].waiting = rotation[r].waiting
<1> SUFFICES ASSUME NEW r \in Rotations, InFlight(Orphaned(p, h)[r])
             PROVE  /\ InFlight(rotation[r])
                    /\ Orphaned(p, h)[r].client = rotation[r].client /\ Orphaned(p, h)[r].host = rotation[r].host
                    /\ Orphaned(p, h)[r].waiting = rotation[r].waiting
  OBVIOUS
<1>1. Orphaned(p, h)[r].at = rotation[r].at
  BY OrphanedFields
<1>2. rotation[r].at # "unused"
  BY <1>1 DEF InFlight
<1>3. /\ Orphaned(p, h)[r].client = rotation[r].client /\ Orphaned(p, h)[r].host = rotation[r].host
      /\ Orphaned(p, h)[r].waiting = rotation[r].waiting
  BY <1>2, OrphanedFields
<1> QED
  BY <1>1, <1>2, <1>3 DEF InFlight

\* Only its own ends change doubt about the ends of a ceremony that is answered.
LEMMA BookPairs ==
  ASSUME TypeOK, Book, NEW x \in Ceremonies,
         handlePair(x) \/ PairAnswered(x) \/ PairLost(x)
  PROVE  Ebbs
<1> DEFINE c == ceremony[x].client
           h == ceremony[x].host
<1>1. ceremony[x].at # "unused" /\ InFlight(ceremony[x])
  BY DEF handlePair, PairAnswered, PairLost, Waiting, InFlight
<1>2. ceremony[x] \in PairCall
  BY <1>1, UsedCalls
<1>3. \/ /\ \E a \in {"accepted", "refused"} : ceremony' = [ceremony EXCEPT ![x].at = a]
         /\ doubt' = doubt
      \/ /\ ceremony' = [ceremony EXCEPT ![x].waiting = FALSE]
         /\ \/ doubt' = doubt
            \/ ceremony[x].alone /\ doubt \ BothWays(c, h) \subseteq doubt'
         /\ ceremony[x].at \in {"accepted", "refused"}
      \/ /\ ceremony' = [ceremony EXCEPT ![x].waiting = FALSE, ![x].lost = TRUE]
         /\ doubt' = doubt \cup BothWays(c, h)
  BY DEF handlePair, PairAnswered, PairLost, Refused, BothWays
<1>4. \A r \in Rotations : InFlight(rotation'[r]) =>
        /\ InFlight(rotation[r]) /\ rotation'[r].client = rotation[r].client /\ rotation'[r].host = rotation[r].host
        /\ rotation'[r].waiting = rotation[r].waiting
  <2>2. rotation' = rotation \/ rotation' = Orphaned(h, c) \/ rotation' = Orphaned(c, h)
    BY DEF handlePair, PairAnswered, PairLost, Refused, Reciprocated
  <2>3. c \in Peers /\ h \in Peers
    BY <1>2 DEF PairCall
  <2> QED
    BY <2>2, <2>3, OrphanedFlight
<1>5. \A y \in Ceremonies \ {x} : ceremony'[y] = ceremony[y]
  BY <1>3 DEF TypeOK
<1>6. /\ ceremony'[x].client = c /\ ceremony'[x].host = h /\ ceremony'[x].alone = ceremony[x].alone
      /\ \/ ceremony'[x].waiting = ceremony[x].waiting /\ doubt' = doubt
         \/ ~InFlight(ceremony'[x])
         \/ BothWays(c, h) \subseteq doubt'
  <2>1. CASE \E a \in {"accepted", "refused"} : ceremony' = [ceremony EXCEPT ![x].at = a] /\ doubt' = doubt
    <3>1. PICK a \in {"accepted", "refused"} : ceremony'[x] = [ceremony[x] EXCEPT !.at = a]
      BY <2>1 DEF TypeOK
    <3> QED
      BY <1>2, <2>1, <3>1 DEF PairCall
  <2>2. CASE ceremony' = [ceremony EXCEPT ![x].waiting = FALSE] /\ ceremony[x].at \in {"accepted", "refused"}
    <3>1. ceremony'[x] = [ceremony[x] EXCEPT !.waiting = FALSE]
      BY <1>1, <2>2, CeremonyFields
    <3>2. ceremony'[x].client = c /\ ceremony'[x].host = h /\ ceremony'[x].alone = ceremony[x].alone
          /\ ceremony'[x].waiting = FALSE /\ ceremony'[x].at = ceremony[x].at
      BY <1>2, <3>1 DEF PairCall
    <3> QED
      BY <2>2, <3>2 DEF InFlight
  <2>3. CASE ceremony' = [ceremony EXCEPT ![x].waiting = FALSE, ![x].lost = TRUE] /\ doubt' = doubt \cup BothWays(c, h)
    <3>1. ceremony'[x] = [ceremony[x] EXCEPT !.waiting = FALSE, !.lost = TRUE]
      BY <1>1, <2>3, CeremonyFields
    <3>2. ceremony'[x].client = c /\ ceremony'[x].host = h /\ ceremony'[x].alone = ceremony[x].alone
      BY <1>2, <3>1 DEF PairCall
    <3> QED
      BY <2>3, <3>2
  <2> QED
    BY <1>3, <2>1, <2>2, <2>3
<1>7. doubt \subseteq doubt' \/ (ceremony[x].alone /\ doubt \ BothWays(c, h) \subseteq doubt')
  BY <1>3
<1>8. ASSUME NEW z, InFlight(z), ~Between(z, c, h)
      PROVE  BothWays(z.client, z.host) \cap BothWays(c, h) = {} /\ <<z.client, z.host>> \notin BothWays(c, h)
  BY <1>8, Ends DEF BothWays, InFlight
<1>9. ASSUME NEW y \in Ceremonies \ {x}, InFlight(ceremony[y])
      PROVE  BothWays(ceremony[y].client, ceremony[y].host) \cap doubt \subseteq doubt'
  <2>1. CASE ceremony[x].alone
    <3>1. ~Between(ceremony[y], c, h)
      BY <1>1, <1>9, <2>1 DEF Book, Sole
    <3> QED
      BY <1>7, <1>8, <1>9, <3>1
  <2> QED
    BY <1>7, <2>1
<1>10. ASSUME NEW r \in Rotations, InFlight(rotation[r]), <<rotation[r].client, rotation[r].host>> \in doubt
       PROVE  <<rotation[r].client, rotation[r].host>> \in doubt'
  <2>1. CASE ceremony[x].alone
    <3>1. ~Between(rotation[r], c, h)
      BY <1>1, <1>10, <2>1 DEF Book, Sole
    <3> QED
      BY <1>7, <1>8, <1>10, <3>1
  <2> QED
    BY <1>7, <1>10, <2>1
<1> QED
  BY <1>1, <1>4, <1>5, <1>6, <1>9, <1>10 DEF Ebbs

\* The steps of a rotation only end it, or leave its ends in doubt.
LEMMA BookRotations ==
  ASSUME TypeOK, Book, NEW r \in Rotations,
         Authenticate(r) \/ rotatePairedToken(r) \/ RotateAnswered(r) \/ RotateLost(r)
  PROVE  Ebbs
<1>1. rotation[r].at # "unused" /\ InFlight(rotation[r])
  BY DEF Authenticate, rotatePairedToken, RotateAnswered, RotateLost, Waiting, InFlight
<1>2. rotation[r] \in RotateCall
  BY <1>1, UsedCalls
<1>3. ceremony' = ceremony /\ doubt \subseteq doubt'
  BY DEF Authenticate, rotatePairedToken, RotateAnswered, RotateLost
<1>4. \A s \in Rotations \ {r} : rotation'[s] = rotation[s]
  BY DEF TypeOK, Authenticate, rotatePairedToken, RotateAnswered, RotateLost
<1>5. /\ rotation'[r].client = rotation[r].client /\ rotation'[r].host = rotation[r].host
      /\ \/ rotation'[r].waiting = rotation[r].waiting
         \/ ~InFlight(rotation'[r])
         \/ <<rotation[r].client, rotation[r].host>> \in doubt'
  <2>1. CASE Authenticate(r) \/ rotatePairedToken(r)
    <3>1. PICK a \in {"authorized", "refused", "failed", "rotated"} : rotation' = [rotation EXCEPT ![r].at = a]
      BY <2>1 DEF Authenticate, rotatePairedToken
    <3>2. rotation'[r] = [rotation[r] EXCEPT !.at = a]
      BY <3>1 DEF TypeOK
    <3> QED
      BY <1>2, <3>2 DEF RotateCall
  <2>2. CASE RotateAnswered(r)
    <3>1. rotation'[r] = [rotation[r] EXCEPT !.waiting = FALSE] /\ rotation[r].at \in {"rotated", "refused", "failed"}
      BY <2>2 DEF TypeOK, RotateAnswered
    <3>2. /\ rotation'[r].client = rotation[r].client /\ rotation'[r].host = rotation[r].host
          /\ rotation'[r].waiting = FALSE /\ rotation'[r].at = rotation[r].at
      BY <1>2, <3>1 DEF RotateCall
    <3> QED
      BY <3>1, <3>2 DEF InFlight
  <2>3. CASE RotateLost(r)
    <3>1. rotation'[r] = [rotation[r] EXCEPT !.waiting = FALSE, !.lost = TRUE]
      BY <1>1, <2>3, RotationFields DEF RotateLost
    <3>2. rotation'[r].client = rotation[r].client /\ rotation'[r].host = rotation[r].host
      BY <1>2, <3>1 DEF RotateCall
    <3> QED
      BY <2>3, <3>2 DEF RotateLost
  <2> QED
    BY <2>1, <2>2, <2>3
<1>6. \A s \in Rotations : InFlight(rotation'[s]) =>
       /\ InFlight(rotation[s])
       /\ rotation'[s].client = rotation[s].client /\ rotation'[s].host = rotation[s].host
       /\ \/ <<rotation[s].client, rotation[s].host>> \in doubt'
          \/ /\ rotation'[s].waiting = rotation[s].waiting
             /\ <<rotation[s].client, rotation[s].host>> \notin doubt
  BY <1>1, <1>3, <1>4, <1>5
<1> QED
  BY <1>3, <1>6 DEF Ebbs

\* Nobody's exchange begins or ends with these.
LEMMA BookRests ==
  ASSUME TypeOK, Book, NEW p \in Peers, NEW h \in Peers,
         OpensStream(p, h) \/ connect(p, h) \/ disconnect(p, h) \/ revokePaired(h, p) \/ forget(p, h)
           \/ regenerateCode(p)
  PROVE  Ebbs
<1>1. ceremony' = ceremony /\ doubt' = doubt /\ (rotation' = rotation \/ rotation' = Orphaned(p, h))
  BY DEF OpensStream, connect, disconnect, revokePaired, forget, regenerateCode
<1>2. \A r \in Rotations : InFlight(rotation'[r]) =>
           /\ InFlight(rotation[r])
           /\ rotation'[r].client = rotation[r].client /\ rotation'[r].host = rotation[r].host
           /\ rotation'[r].waiting = rotation[r].waiting
  BY <1>1, OrphanedFlight
<1> QED
  BY <1>1, <1>2 DEF Ebbs

\* A restart leaves in doubt whatever it cuts short.
LEMMA BookRestart ==
  ASSUME TypeOK, Book, NEW p \in Peers, restart(p)
  PROVE  Ebbs
<1>1. /\ \A x \in Ceremonies : ceremony'[x] = AfterRestart(ceremony[x], p)
      /\ \A r \in Rotations : rotation'[r] = AfterRestart(rotation[r], p)
      /\ doubt' = doubt \cup UNION {BothWays(p, h) : h \in {q \in Peers : Busy(p, q)}}
  BY DEF restart
<1>2. ASSUME NEW q \in Peers, Busy(p, q) PROVE BothWays(p, q) \subseteq doubt' /\ BothWays(q, p) \subseteq doubt'
  BY <1>1, <1>2 DEF BothWays
<1>3. ASSUME NEW x \in Ceremonies, InFlight(ceremony'[x])
      PROVE  /\ InFlight(ceremony[x])
             /\ ceremony'[x].client = ceremony[x].client /\ ceremony'[x].host = ceremony[x].host
             /\ ceremony'[x].alone = ceremony[x].alone
             /\ \/ BothWays(ceremony[x].client, ceremony[x].host) \subseteq doubt'
                \/ ceremony'[x] = ceremony[x]
  <2>1. InFlight(ceremony[x]) /\ ceremony'[x].client = ceremony[x].client /\ ceremony'[x].host = ceremony[x].host
        /\ ceremony'[x].alone = ceremony[x].alone
    BY <1>1, <1>3, RestartFields
  <2>2. ceremony[x].client \in Peers /\ ceremony[x].host \in Peers
    BY <2>1, UsedCalls DEF InFlight, PairCall
  <2>3. CASE p \notin {ceremony[x].client, ceremony[x].host}
    BY <1>1, <2>1, <2>3, RestartFields
  <2>4. CASE p = ceremony[x].client
    <3>1. Busy(p, ceremony[x].host)
      BY <2>1, <2>4, Ends DEF Busy, InFlight
    <3> QED
      BY <1>2, <2>1, <2>2, <2>4, <3>1
  <2>5. CASE p = ceremony[x].host
    <3>1. Busy(p, ceremony[x].client)
      BY <2>1, <2>5, Ends DEF Busy, InFlight
    <3> QED
      BY <1>2, <2>1, <2>2, <2>5, <3>1
  <2> QED
    BY <2>3, <2>4, <2>5
<1>4. ASSUME NEW r \in Rotations, InFlight(rotation'[r])
      PROVE  /\ InFlight(rotation[r])
             /\ rotation'[r].client = rotation[r].client /\ rotation'[r].host = rotation[r].host
             /\ \/ <<rotation[r].client, rotation[r].host>> \in doubt'
                \/ rotation'[r] = rotation[r]
  <2>1. InFlight(rotation[r]) /\ rotation'[r].client = rotation[r].client /\ rotation'[r].host = rotation[r].host
    BY <1>1, <1>4, RestartFields
  <2>2. rotation[r].client \in Peers /\ rotation[r].host \in Peers
    BY <2>1, UsedCalls DEF InFlight, RotateCall
  <2>3. CASE p \notin {rotation[r].client, rotation[r].host}
    BY <1>1, <2>1, <2>3, RestartFields
  <2>4. CASE p = rotation[r].client
    <3>1. Busy(p, rotation[r].host)
      BY <2>1, <2>4, Ends DEF Busy, InFlight
    <3> QED
      BY <1>2, <2>1, <2>2, <2>4, <3>1 DEF BothWays
  <2>5. CASE p = rotation[r].host
    <3>1. Busy(p, rotation[r].client)
      BY <2>1, <2>5, Ends DEF Busy, InFlight
    <3> QED
      BY <1>2, <2>1, <2>2, <2>5, <3>1 DEF BothWays
  <2> QED
    BY <2>3, <2>4, <2>5
<1>5. doubt \subseteq doubt'
  BY <1>1
<1> QED
  BY <1>3, <1>4, <1>5 DEF Ebbs

\* A new exchange of p and h: the ones under way are not alone any more, nor is it.
LEMMA BookBegins ==
  ASSUME TypeOK, Book, NEW p \in Peers, NEW h \in Peers,
         (\E x \in Ceremonies : pair(x, p, h)) \/ (\E r \in Rotations : rotateToken(r, p, h))
  PROVE  Book'
<1>1. doubt' = DoubtAtStart(p, h)
  BY DEF pair, rotateToken
<1>2. doubt \subseteq doubt' /\ (Busy(p, h) => BothWays(p, h) \subseteq doubt')
  BY <1>1 DEF DoubtAtStart
<1> DEFINE Old(x) == InFlight(ceremony[x])
           OldR(r) == InFlight(rotation[r])
<1>3. ASSUME NEW x \in Ceremonies
      PROVE  LET v == Overlapped(p, h)[x] IN
             /\ InFlight(v) => InFlight(ceremony[x])
             /\ InFlight(ceremony[x]) =>
                  /\ v.client = ceremony[x].client /\ v.host = ceremony[x].host /\ v.waiting = ceremony[x].waiting
                  /\ v.alone => ceremony[x].alone /\ ~Between(ceremony[x], p, h)
                  /\ v # ceremony[x] => Between(ceremony[x], p, h)
  BY OverlappedFields DEF InFlight
<1>4. ASSUME NEW x \in Ceremonies, InFlight(ceremony[x]), Between(ceremony[x], p, h)
      PROVE  Busy(p, h) /\ BothWays(ceremony[x].client, ceremony[x].host) = BothWays(p, h)
  BY <1>4, Ends DEF Busy, BothWays
<1>5. ASSUME NEW r \in Rotations, InFlight(rotation[r]), Between(rotation[r], p, h)
      PROVE  Busy(p, h) /\ <<rotation[r].client, rotation[r].host>> \in BothWays(p, h)
  BY <1>5, Ends DEF Busy, BothWays
\* The ceremonies that were under way.
<1>6. ASSUME NEW x \in Ceremonies, InFlight(ceremony[x]), ceremony'[x] = Overlapped(p, h)[x]
      PROVE  /\ ceremony'[x].client = ceremony[x].client /\ ceremony'[x].host = ceremony[x].host
             /\ ceremony'[x].client # ceremony'[x].host
             /\ ceremony'[x].alone => ceremony[x].alone /\ ~Between(ceremony[x], p, h)
             /\ ~(ceremony'[x].alone /\ ceremony'[x].waiting)
                  => BothWays(ceremony'[x].client, ceremony'[x].host) \subseteq doubt'
  <2>1. /\ ceremony'[x].client = ceremony[x].client /\ ceremony'[x].host = ceremony[x].host
        /\ ceremony'[x].waiting = ceremony[x].waiting
        /\ ceremony'[x].alone => ceremony[x].alone /\ ~Between(ceremony[x], p, h)
        /\ ceremony'[x] # ceremony[x] => Between(ceremony[x], p, h)
    BY <1>3, <1>6
  <2>2. CASE ceremony'[x] = ceremony[x]
    BY <1>2, <1>6, <2>1, <2>2 DEF Book, Sole, Doubted
  <2>3. CASE Between(ceremony[x], p, h)
    BY <1>2, <1>4, <1>6, <2>1, <2>3 DEF Book, Sole
  <2> QED
    BY <2>1, <2>2, <2>3
<1>7. ASSUME NEW x \in Ceremonies, pair(x, p, h) PROVE Book'
  <2> DEFINE n == ceremony'[x]
  <2>1. rotation' = rotation /\ p # h /\ ceremony[x] = Unused
    BY <1>7 DEF pair
  <2>2. \A y \in Ceremonies \ {x} : ceremony'[y] = Overlapped(p, h)[y]
    BY <1>7, OverlappedKeeps DEF pair
  <2>3. n.at = "sent" /\ n.client = p /\ n.host = h /\ n.waiting = TRUE /\ n.alone = ~Busy(p, h)
    <3>1. PICK c \in 0..code[h], o \in {Offered(x), NoToken} : ceremony' = [Overlapped(p, h) EXCEPT ![x] =
             [at |-> "sent", client |-> p, host |-> h, waiting |-> TRUE, lost |-> FALSE,
              code |-> c, offer |-> o, alone |-> ~Busy(p, h)]]
      BY <1>7 DEF pair
    <3>2. n = [at |-> "sent", client |-> p, host |-> h, waiting |-> TRUE, lost |-> FALSE,
               code |-> c, offer |-> o, alone |-> ~Busy(p, h)]
      BY <3>1, OverlappedKeeps
    <3> QED
      BY <3>2
  <2>4. \A y \in Ceremonies \ {x} : InFlight(ceremony'[y]) => InFlight(ceremony[y])
    BY <2>2, <1>3
  <2>5. InFlight(n)
    BY <2>3 DEF InFlight
  <2> HIDE DEF n
  <2>6. ASSUME NEW y \in Ceremonies, InFlight(ceremony'[y])
        PROVE  /\ ceremony'[y].client # ceremony'[y].host
               /\ ~(ceremony'[y].alone /\ ceremony'[y].waiting)
                    => BothWays(ceremony'[y].client, ceremony'[y].host) \subseteq doubt'
    <3>1. CASE y = x
      BY <1>2, <2>1, <2>3, <3>1 DEF n
    <3>2. CASE y # x
      BY <1>6, <2>2, <2>4, <2>6, <3>2
    <3> QED
      BY <3>1, <3>2
  <2>7. ASSUME NEW y \in Ceremonies, InFlight(ceremony'[y]), ceremony'[y].alone,
               NEW w \in Ceremonies \ {y}, InFlight(ceremony'[w])
        PROVE  ~Between(ceremony'[w], ceremony'[y].client, ceremony'[y].host)
    <3>1. CASE y = x
      <4>1. ~Between(ceremony[w], p, h) /\ InFlight(ceremony[w])
        BY <1>4, <2>3, <2>4, <2>7, <3>1 DEF n
      <4> QED
        BY <1>6, <2>2, <2>3, <3>1, <4>1, Ends DEF n, InFlight
    <3>2. CASE y # x /\ w = x
      <4>1. ~Between(ceremony[y], p, h) /\ InFlight(ceremony[y]) /\ ceremony'[y].client = ceremony[y].client
            /\ ceremony'[y].host = ceremony[y].host
        BY <1>6, <2>2, <2>4, <2>7, <3>2
      <4> QED
        BY <2>3, <3>2, <4>1, Ends DEF n, InFlight
    <3>3. CASE y # x /\ w # x
      <4>1. /\ InFlight(ceremony[y]) /\ ceremony'[y].client = ceremony[y].client /\ ceremony'[y].host = ceremony[y].host
            /\ ceremony[y].alone
            /\ InFlight(ceremony[w]) /\ ceremony'[w].client = ceremony[w].client /\ ceremony'[w].host = ceremony[w].host
        BY <1>6, <2>2, <2>4, <2>7, <3>3
      <4>2. ~Between(ceremony[w], ceremony[y].client, ceremony[y].host)
        BY <2>7, <4>1 DEF Book, Sole
      <4> QED
        BY <4>1, <4>2, Ends DEF InFlight
    <3> QED
      BY <3>1, <3>2, <3>3
  <2>8. ASSUME NEW y \in Ceremonies, InFlight(ceremony'[y]), ceremony'[y].alone,
               NEW r \in Rotations, InFlight(rotation'[r])
        PROVE  ~Between(rotation'[r], ceremony'[y].client, ceremony'[y].host)
    <3>1. CASE y = x
      BY <1>5, <2>1, <2>3, <2>8, <3>1 DEF n
    <3>2. CASE y # x
      <4>1. InFlight(ceremony[y]) /\ ceremony'[y].client = ceremony[y].client /\ ceremony'[y].host = ceremony[y].host
            /\ ceremony[y].alone
        BY <1>6, <2>2, <2>4, <2>8, <3>2
      <4> QED
        BY <2>1, <2>8, <4>1 DEF Book, Sole
    <3> QED
      BY <3>1, <3>2
  <2>9. Sole'
    BY <2>6, <2>7, <2>8 DEF Sole
  <2>10. Doubted'
    BY <1>2, <2>1, <2>6 DEF Book, Doubted
  <2> QED
    BY <2>9, <2>10 DEF Book
<1>8. ASSUME NEW r \in Rotations, rotateToken(r, p, h) PROVE Book'
  <2> DEFINE n == rotation'[r]
  <2>1. ceremony' = Overlapped(p, h) /\ rotation[r] = Unused
    BY <1>8 DEF rotateToken
  <2>2. \A s \in Rotations \ {r} : rotation'[s] = rotation[s]
    BY <1>8 DEF rotateToken, TypeOK
  <2>3. n.at = "sent" /\ n.client = p /\ n.host = h /\ n.waiting = TRUE
    BY <1>8 DEF rotateToken, TypeOK
  <2>4. InFlight(n)
    BY <2>3 DEF InFlight
  <2> HIDE DEF n
  <2>5. \A y \in Ceremonies : InFlight(ceremony'[y]) => InFlight(ceremony[y])
    BY <2>1, <1>3
  <2>6. ASSUME NEW y \in Ceremonies, InFlight(ceremony'[y])
        PROVE  /\ ceremony'[y].client = ceremony[y].client /\ ceremony'[y].host = ceremony[y].host
               /\ InFlight(ceremony[y]) /\ ceremony'[y].client # ceremony'[y].host
               /\ ceremony'[y].alone => ceremony[y].alone /\ ~Between(ceremony[y], p, h)
               /\ ~(ceremony'[y].alone /\ ceremony'[y].waiting)
                    => BothWays(ceremony'[y].client, ceremony'[y].host) \subseteq doubt'
    BY <1>6, <2>1, <2>5, <2>6
  <2>7. ASSUME NEW y \in Ceremonies, InFlight(ceremony'[y]), ceremony'[y].alone,
               NEW w \in Ceremonies \ {y}, InFlight(ceremony'[w])
        PROVE  ~Between(ceremony'[w], ceremony'[y].client, ceremony'[y].host)
    <3>1. ~Between(ceremony[w], ceremony[y].client, ceremony[y].host)
      BY <2>6, <2>7 DEF Book, Sole
    <3> QED
      BY <2>6, <2>7, <3>1, Ends DEF InFlight
  <2>8. ASSUME NEW y \in Ceremonies, InFlight(ceremony'[y]), ceremony'[y].alone,
               NEW s \in Rotations, InFlight(rotation'[s])
        PROVE  ~Between(rotation'[s], ceremony'[y].client, ceremony'[y].host)
    <3>1. CASE s = r
      BY <2>3, <2>6, <2>8, <3>1, Ends DEF n, InFlight
    <3>2. CASE s # r
      BY <2>2, <2>6, <2>8, <3>2 DEF Book, Sole
    <3> QED
      BY <3>1, <3>2
  <2>9. Sole'
    BY <2>6, <2>7, <2>8 DEF Sole
  <2>10. ASSUME NEW s \in Rotations, InFlight(rotation'[s]), ~rotation'[s].waiting
         PROVE  <<rotation'[s].client, rotation'[s].host>> \in doubt'
    BY <1>2, <2>2, <2>3, <2>10 DEF Book, Doubted, n
  <2>11. ASSUME NEW s \in Rotations, NEW t \in Rotations, s # t, InFlight(rotation'[s]), InFlight(rotation'[t]),
                rotation'[s].client = rotation'[t].client, rotation'[s].host = rotation'[t].host
         PROVE  <<rotation'[s].client, rotation'[s].host>> \in doubt'
    <3>1. CASE s = r \/ t = r
      <4>1. PICK u \in Rotations \ {r} : InFlight(rotation[u]) /\ rotation[u].client = p /\ rotation[u].host = h
        BY <2>2, <2>3, <2>11, <3>1 DEF n
      <4>2. Busy(p, h)
        BY <4>1, <1>5, Ends DEF InFlight
      <4>3. rotation'[s].client = p /\ rotation'[s].host = h
        BY <2>3, <2>11, <3>1 DEF n
      <4> QED
        BY <1>2, <4>2, <4>3 DEF BothWays
    <3>2. CASE s # r /\ t # r
      BY <1>2, <2>2, <2>11, <3>2 DEF Book, Doubted
    <3> QED
      BY <3>1, <3>2
  <2>12. Doubted'
    BY <2>6, <2>10, <2>11 DEF Doubted
  <2> QED
    BY <2>9, <2>12 DEF Book
<1> QED
  BY <1>7, <1>8

\* No step makes the book wrong.
LEMMA BookStep ==
  ASSUME TypeOK, Book, [Next]_vars
  PROVE  Book'
<1>1. CASE UNCHANGED vars
  BY <1>1 DEF vars, Book, Sole, Doubted
<1>2. CASE Next
  <2>1. Ebbs \/ \E p, h \in Peers : (\E x \in Ceremonies : pair(x, p, h)) \/ (\E r \in Rotations : rotateToken(r, p, h))
    BY <1>2, BookPairs, BookRotations, BookRests, BookRestart DEF Next
  <2> QED
    BY <2>1, BookEbbs, BookBegins
<1> QED
  BY <1>1, <1>2

\* What h has of p, and p of h, stays, is revoked or forgotten; a connection keeps its token or takes
\* the one that is stored.
Calm(p, h) ==
  /\ paired'[h][p] \in {paired[h][p], NoToken}
  /\ known'[p][h] \in {known[p][h], NoToken}
  /\ connection'[p][h].status # "none" =>
       \/ Linked(p, h) /\ connection'[p][h].token = connection[p][h].token
       \/ known[p][h] # NoToken /\ connection'[p][h].token = known[p][h]
  /\ known'[p][h] = NoToken /\ connection'[p][h].status # "none" => Linked(p, h) /\ known[p][h] = NoToken

\* A ceremony whose ends are calm still finds the tokens at its host.
LEMMA GivenCalm ==
  ASSUME NEW x \in Ceremonies, Given(x),
         (Accepted(x) /\ ceremony[x].alone)' =>
           /\ Accepted(x) /\ ceremony[x].alone
           /\ ceremony'[x].client = ceremony[x].client /\ ceremony'[x].host = ceremony[x].host
           /\ ceremony'[x].offer = ceremony[x].offer
           /\ Calm(ceremony[x].host, ceremony[x].client) /\ Calm(ceremony[x].client, ceremony[x].host)
  PROVE  Given(x)'
<1> SUFFICES ASSUME (Accepted(x) /\ ceremony[x].alone)'
             PROVE  /\ paired'[ceremony'[x].host][ceremony'[x].client] \in {Issued(x), NoToken}
                    /\ ceremony'[x].offer # NoToken =>
                         /\ known'[ceremony'[x].host][ceremony'[x].client] \in {ceremony'[x].offer, NoToken}
                         /\ connection'[ceremony'[x].host][ceremony'[x].client].status # "none"
                              => connection'[ceremony'[x].host][ceremony'[x].client].token = ceremony'[x].offer
  BY DEF Given, Linked
<1> DEFINE c == ceremony[x].client
           h == ceremony[x].host
           o == ceremony[x].offer
<1>1. ceremony'[x].client = c /\ ceremony'[x].host = h /\ ceremony'[x].offer = o
  OBVIOUS
<1>2. /\ paired[h][c] \in {Issued(x), NoToken}
      /\ o # NoToken => known[h][c] \in {o, NoToken} /\ (Linked(h, c) => connection[h][c].token = o)
  BY DEF Given
<1> QED
  BY <1>1, <1>2 DEF Calm

\* A rotation whose ends are calm still finds the token at its host.
LEMMA TurnedCalm ==
  ASSUME NEW r \in Rotations, Turned(r),
         InFlight(rotation'[r]) => /\ InFlight(rotation[r])
                                   /\ rotation'[r].client = rotation[r].client /\ rotation'[r].host = rotation[r].host
                                   /\ Calm(rotation[r].client, rotation[r].host)
                                   /\ <<rotation[r].client, rotation[r].host>> \in doubt
                                        => <<rotation[r].client, rotation[r].host>> \in doubt',
         Halfway(r)' => Halfway(r),
         Waiting(rotation'[r]) /\ ~rotation'[r].orphan =>
           connection'[rotation[r].client][rotation[r].host].status # "none",
         InFlight(rotation'[r]) /\ rotation'[r].orphan =>
           rotation[r].orphan \/ known'[rotation[r].client][rotation[r].host] = NoToken
  PROVE  Turned(r)'
<1> DEFINE c == rotation[r].client
           h == rotation[r].host
<1>1. InFlight(rotation'[r]) => rotation'[r].client = c /\ rotation'[r].host = h
  OBVIOUS
<1>2. Waiting(rotation'[r]) => InFlight(rotation'[r])
  BY DEF Waiting, InFlight
<1>3. (Halfway(r) /\ <<rotation[r].client, rotation[r].host>> \notin doubt)'
        => paired'[rotation'[r].host][rotation'[r].client] \in {Rotated(r), NoToken}
  <2> SUFFICES ASSUME Halfway(r)', <<rotation'[r].client, rotation'[r].host>> \notin doubt'
               PROVE  paired'[rotation'[r].host][rotation'[r].client] \in {Rotated(r), NoToken}
    OBVIOUS
  <2>1. InFlight(rotation'[r])
    BY <1>2 DEF Halfway
  <2>2. paired[h][c] \in {Rotated(r), NoToken}
    BY <2>1, <1>1 DEF Turned
  <2> QED
    BY <1>1, <2>1, <2>2 DEF Calm
<1>4. (Waiting(rotation[r]) /\ ~rotation[r].orphan => Linked(rotation[r].client, rotation[r].host))'
  BY <1>1, <1>2 DEF Linked
<1>5. (InFlight(rotation[r]) /\ rotation[r].orphan /\ <<rotation[r].client, rotation[r].host>> \notin doubt
         => known[rotation[r].client][rotation[r].host] = NoToken)'
  <2> SUFFICES ASSUME InFlight(rotation'[r]), rotation'[r].orphan, <<rotation'[r].client, rotation'[r].host>> \notin doubt'
               PROVE  known'[rotation'[r].client][rotation'[r].host] = NoToken
    OBVIOUS
  <2>1. rotation[r].orphan => known[c][h] = NoToken
    BY <1>1 DEF Turned
  <2> QED
    BY <1>1, <2>1 DEF Calm
<1> QED
  BY <1>3, <1>4, <1>5 DEF Turned

\* Two ends that are calm still agree.
LEMMA AgreeCalm ==
  ASSUME NEW p \in Peers, NEW h \in Peers, Agreeing, Calm(p, h),
         <<p, h>> \in doubt \/ Amid(p, h) => <<p, h>> \in doubt' \/ Amid(p, h)'
  PROVE  <<p, h>> \notin doubt' /\ ~Amid(p, h)' => Agree(p, h)'
<1> SUFFICES ASSUME <<p, h>> \notin doubt', ~Amid(p, h)', known'[p][h] # NoToken, paired'[h][p] # NoToken
             PROVE  /\ known'[p][h] = paired'[h][p]
                    /\ connection'[p][h].status # "none" => connection'[p][h].token = known'[p][h]
  BY DEF Agree, Linked
<1>1. Agree(p, h)
  BY DEF Agreeing
<1> QED
  BY <1>1 DEF Agree, Calm

\* Whatever leaves everybody calm.
Quiet ==
  /\ \A p, h \in Peers : Calm(p, h)
  /\ doubt \subseteq doubt'
  /\ \A x \in Ceremonies :
       /\ Accepted(x)' =>
            /\ Accepted(x) /\ (ceremony'[x].alone => ceremony[x].alone)
            /\ ceremony'[x].client = ceremony[x].client /\ ceremony'[x].host = ceremony[x].host
            /\ ceremony'[x].offer = ceremony[x].offer
       /\ Accepted(x) => Accepted(x)' \/ BothWays(ceremony[x].client, ceremony[x].host) \subseteq doubt'
  /\ \A r \in Rotations :
       /\ InFlight(rotation'[r]) /\ rotation[r].at # "unused" =>
            /\ InFlight(rotation[r])
            /\ rotation'[r].client = rotation[r].client /\ rotation'[r].host = rotation[r].host
       /\ InFlight(rotation'[r]) /\ rotation[r].at = "unused" =>
            rotation'[r].at = "sent" /\ rotation'[r].orphan = FALSE
       /\ Halfway(r)' => Halfway(r)
       /\ Halfway(r) => Halfway(r)' \/ <<rotation[r].client, rotation[r].host>> \in doubt'
       /\ Waiting(rotation'[r]) /\ ~rotation'[r].orphan =>
            connection'[rotation'[r].client][rotation'[r].host].status # "none"
       /\ InFlight(rotation'[r]) /\ rotation'[r].orphan =>
            rotation[r].orphan \/ known'[rotation[r].client][rotation[r].host] = NoToken

\* A step that leaves everybody calm, and whatever is halfway halfway, preserves the invariant.
LEMMA TokensQuiet ==
  ASSUME TypeOK, Tokens, Quiet
  PROVE  Tokens'
<1>1. ASSUME NEW x \in Ceremonies PROVE Given(x)'
  <2>1. Accepted(x) => ceremony[x].client \in Peers /\ ceremony[x].host \in Peers
    BY UsedCalls DEF Accepted, Waiting, PairCall
  <2>2. (Accepted(x) /\ ceremony[x].alone)' =>
           /\ Accepted(x) /\ ceremony[x].alone
           /\ ceremony'[x].client = ceremony[x].client /\ ceremony'[x].host = ceremony[x].host
           /\ ceremony'[x].offer = ceremony[x].offer
           /\ Calm(ceremony[x].host, ceremony[x].client) /\ Calm(ceremony[x].client, ceremony[x].host)
    BY <2>1 DEF Quiet
  <2> QED
    BY <2>2, GivenCalm DEF Tokens
<1>2. ASSUME NEW r \in Rotations PROVE Turned(r)'
  <2>1. CASE rotation[r].at = "unused"
    <3>1. InFlight(rotation'[r]) => rotation'[r].at = "sent" /\ rotation'[r].orphan = FALSE
      BY <2>1 DEF Quiet
    <3>2. Waiting(rotation'[r]) => InFlight(rotation'[r])
      BY DEF Waiting, InFlight
    <3> QED
      BY <3>1, <3>2 DEF Quiet, Turned, Halfway, Linked
  <2>2. CASE rotation[r].at # "unused"
    <3>1. rotation[r].client \in Peers /\ rotation[r].host \in Peers
      BY <2>2, UsedCalls DEF RotateCall
    <3>2. Waiting(rotation'[r]) => InFlight(rotation'[r])
      BY DEF Waiting, InFlight
    <3> QED
      BY <2>2, <3>1, <3>2, TurnedCalm DEF Quiet, Tokens
  <2> QED
    BY <2>1, <2>2
<1>3. Linkless'
  BY DEF Quiet, Calm, Linkless, Linked, Tokens
<1>4. ASSUME NEW p \in Peers, NEW h \in Peers
      PROVE  <<p, h>> \notin doubt' /\ ~Amid(p, h)' => Agree(p, h)'
  <2>1. Amid(p, h) => <<p, h>> \in doubt' \/ Amid(p, h)'
    <3>1. ASSUME NEW x \in Ceremonies, Accepted(x),
                 \/ ceremony[x].client = p /\ ceremony[x].host = h
                 \/ ceremony[x].client = h /\ ceremony[x].host = p /\ ceremony[x].offer # NoToken
          PROVE  <<p, h>> \in doubt' \/ Amid(p, h)'
      BY <3>1 DEF Quiet, Amid, BothWays
    <3>2. ASSUME NEW r \in Rotations, Halfway(r), rotation[r].client = p, rotation[r].host = h
          PROVE  <<p, h>> \in doubt' \/ Amid(p, h)'
      <4>1. Halfway(r)' => rotation'[r].client = p /\ rotation'[r].host = h
        BY <3>2 DEF Quiet, Halfway, Waiting, InFlight
      <4> QED
        BY <3>2, <4>1 DEF Quiet, Amid
    <3> QED
      BY <3>1, <3>2 DEF Amid
  <2> QED
    BY <2>1, AgreeCalm DEF Quiet, Tokens
<1> QED
  BY <1>1, <1>2, <1>3, <1>4 DEF Tokens, Agreeing

\* One entry of a table of clients and hosts.
LEMMA Entries ==
  ASSUME NEW S, NEW f \in [Peers -> [Peers -> S]], NEW p \in Peers, NEW h \in Peers, NEW v
  PROVE  /\ [f EXCEPT ![p][h] = v][p][h] = v
         /\ \A a, b \in Peers : <<a, b>> # <<p, h>> => [f EXCEPT ![p][h] = v][a][b] = f[a][b]
OBVIOUS

\* A connection whose status changes keeps its token, and the others stay.
LEMMA StatusEntries ==
  ASSUME TypeOK, NEW p \in Peers, NEW h \in Peers, NEW s \in {"offline", "trying", "connected", "revoked"},
         NEW n, n = [connection EXCEPT ![p][h].status = s]
  PROVE  /\ n[p][h].token = connection[p][h].token
         /\ n[p][h].status = s
         /\ \A a, b \in Peers : <<a, b>> # <<p, h>> => n[a][b] = connection[a][b]
BY DEF TypeOK, Connection

\* Connections, revoking and forgetting.
LEMMA QuietConnections ==
  ASSUME TypeOK, Tokens, NEW p \in Peers, NEW h \in Peers,
         OpensStream(p, h) \/ connect(p, h) \/ disconnect(p, h)
  PROVE  Quiet
<1>1. UNCHANGED <<paired, known, ceremony, rotation, doubt>>
  BY DEF OpensStream, connect, disconnect
<1>2. connection[p][h] \in Connection
  BY DEF TypeOK
<1>3. \A a, b \in Peers : <<a, b>> # <<p, h>> => connection'[a][b] = connection[a][b]
  BY DEF TypeOK, OpensStream, connect, disconnect
<1>4. /\ connection'[p][h].status # "none"
      /\ \/ Linked(p, h) /\ connection'[p][h].token = connection[p][h].token
         \/ known[p][h] # NoToken /\ connection'[p][h].token = known[p][h]
      /\ Linked(p, h) \/ known[p][h] # NoToken
  <2>1. CASE \E s \in {"trying", "connected", "revoked", "offline"} :
               connection' = [connection EXCEPT ![p][h].status = s] /\ Linked(p, h)
    <3>1. PICK s \in {"trying", "connected", "revoked", "offline"} : connection' = [connection EXCEPT ![p][h].status = s]
      BY <2>1
    <3>2. connection'[p][h].token = connection[p][h].token /\ connection'[p][h].status = s
      BY <3>1, StatusEntries
    <3> QED
      BY <2>1, <3>2
  <2>2. CASE connection' = [connection EXCEPT ![p][h] = Connecting(known[p][h])] /\ known[p][h] # NoToken
    <3>1. connection'[p][h] = Connecting(known[p][h])
      BY <2>2 DEF TypeOK
    <3> QED
      BY <2>2, <3>1 DEF Connecting
  <2>3. CASE OpensStream(p, h)
    <3>1. \E s \in {"connected", "revoked"} : connection' = [connection EXCEPT ![p][h].status = s]
      BY <2>3 DEF OpensStream
    <3> QED
      BY <2>1, <2>3, <3>1 DEF OpensStream, Linked
  <2>4. CASE connect(p, h) /\ Linked(p, h)
    <3>1. connection' = [connection EXCEPT ![p][h].status = "trying"]
      BY <2>4 DEF connect
    <3> QED
      BY <2>1, <2>4, <3>1
  <2>5. CASE connect(p, h) /\ ~Linked(p, h)
    BY <2>2, <2>5 DEF connect
  <2>6. CASE disconnect(p, h)
    BY <2>1, <2>6 DEF disconnect
  <2> QED
    BY <2>3, <2>4, <2>5, <2>6
<1>5. \A a, b \in Peers : Linked(a, b) => connection'[a][b].status # "none"
  BY <1>3, <1>4 DEF Linked
<1>6. \A a, b \in Peers : Calm(a, b)
  <2> SUFFICES ASSUME NEW a \in Peers, NEW b \in Peers PROVE Calm(a, b)
    OBVIOUS
  <2>1. CASE a = p /\ b = h
    BY <1>1, <1>4, <2>1 DEF Calm, Tokens, Linkless
  <2>2. CASE <<a, b>> # <<p, h>>
    BY <1>1, <1>3, <2>2 DEF Calm, Linked, Tokens, Linkless
  <2> QED
    BY <2>1, <2>2
<1>7. \A r \in Rotations : InFlight(rotation[r]) \/ Waiting(rotation[r])
        => rotation[r].at # "unused" /\ rotation[r].client \in Peers /\ rotation[r].host \in Peers
  BY UsedCalls DEF InFlight, Waiting, RotateCall
<1>8. \A r \in Rotations : Waiting(rotation[r]) /\ ~rotation[r].orphan =>
            connection'[rotation[r].client][rotation[r].host].status # "none"
  BY <1>5, <1>7 DEF Tokens, Turned
<1> QED
  BY <1>1, <1>6, <1>7, <1>8 DEF Quiet, Accepted, Halfway

\* Revoking takes a token away at one end, and regenerating a code concerns none.
LEMMA QuietRevoke ==
  ASSUME TypeOK, Tokens, NEW p \in Peers, NEW h \in Peers, revokePaired(h, p) \/ regenerateCode(p)
  PROVE  Quiet
<1>1. UNCHANGED <<known, connection, ceremony, rotation, doubt>>
  BY DEF revokePaired, regenerateCode
<1>2. \A a, b \in Peers : paired'[b][a] \in {paired[b][a], NoToken}
  <2>1. CASE revokePaired(h, p)
    <3>1. paired' = [paired EXCEPT ![h][p] = NoToken]
      BY <2>1 DEF revokePaired
    <3> HIDE DEF revokePaired
    <3>2. paired \in [Peers -> [Peers -> Token]]
      BY DEF TypeOK
    <3>3. /\ paired'[h][p] = NoToken
          /\ \A a, b \in Peers : <<b, a>> # <<h, p>> => paired'[b][a] = paired[b][a]
      BY <3>1, <3>2, Entries
    <3> QED
      BY <3>3
  <2>2. CASE regenerateCode(p)
    BY <2>2 DEF regenerateCode
  <2> QED
    BY <2>1, <2>2
<1>3. \A a, b \in Peers : Calm(a, b)
  BY <1>1, <1>2 DEF Calm, Linked, Tokens, Linkless
<1>4. \A r \in Rotations : InFlight(rotation[r]) \/ Waiting(rotation[r]) => rotation[r].at # "unused"
  BY DEF InFlight, Waiting
<1> QED
  BY <1>1, <1>3, <1>4 DEF Quiet, Accepted, Halfway, Tokens, Turned, Linked

\* Forgetting takes the token and the connection away together.
LEMMA QuietForget ==
  ASSUME TypeOK, Tokens, NEW p \in Peers, NEW h \in Peers, forget(p, h)
  PROVE  Quiet
<1>1. UNCHANGED <<paired, ceremony, doubt>> /\ rotation' = Orphaned(p, h)
      /\ known' = [known EXCEPT ![p][h] = NoToken] /\ connection' = [connection EXCEPT ![p][h] = NoConnection]
  BY DEF forget
<1>2. /\ known'[p][h] = NoToken /\ connection'[p][h].status = "none"
      /\ \A a, b \in Peers : <<a, b>> # <<p, h>> => known'[a][b] = known[a][b] /\ connection'[a][b] = connection[a][b]
  BY <1>1 DEF TypeOK, NoConnection
<1>3. \A a, b \in Peers : Calm(a, b)
  <2> SUFFICES ASSUME NEW a \in Peers, NEW b \in Peers PROVE Calm(a, b)
    OBVIOUS
  <2>1. CASE a = p /\ b = h
    BY <1>1, <1>2, <2>1 DEF Calm
  <2>2. CASE <<a, b>> # <<p, h>>
    BY <1>1, <1>2, <2>2 DEF Calm, Linked, Tokens, Linkless
  <2> QED
    BY <2>1, <2>2
<1>4. ASSUME NEW r \in Rotations
      PROVE  /\ rotation'[r].at = rotation[r].at
             /\ rotation[r].at # "unused" =>
                  /\ rotation[r].client \in Peers /\ rotation[r].host \in Peers
                  /\ rotation'[r].client = rotation[r].client /\ rotation'[r].host = rotation[r].host
                  /\ rotation'[r].waiting = rotation[r].waiting
                  /\ rotation[r].client = p /\ rotation[r].host = h => rotation'[r].orphan = TRUE
                  /\ ~(rotation[r].client = p /\ rotation[r].host = h) => rotation'[r].orphan = rotation[r].orphan
  <2>1. rotation'[r] = Orphaned(p, h)[r]
    BY <1>1
  <2>2. rotation[r].at # "unused" => rotation[r].client \in Peers /\ rotation[r].host \in Peers
    BY UsedCalls DEF RotateCall
  <2>3. Orphaned(p, h)[r].at = rotation[r].at
    BY OrphanedFields
  <2>4. CASE rotation[r].at # "unused"
    <3>1. /\ Orphaned(p, h)[r].client = rotation[r].client /\ Orphaned(p, h)[r].host = rotation[r].host
          /\ Orphaned(p, h)[r].waiting = rotation[r].waiting
          /\ rotation[r].client = p /\ rotation[r].host = h => Orphaned(p, h)[r].orphan = TRUE
          /\ ~(rotation[r].client = p /\ rotation[r].host = h) => Orphaned(p, h)[r].orphan = rotation[r].orphan
      BY <2>4, OrphanedFields
    <3> QED
      BY <2>1, <2>2, <2>3, <2>4, <3>1
  <2> QED
    BY <2>1, <2>3, <2>4
<1>5. ASSUME NEW r \in Rotations
      PROVE  /\ InFlight(rotation'[r]) <=> InFlight(rotation[r])
             /\ Waiting(rotation'[r]) <=> Waiting(rotation[r])
             /\ Halfway(r)' <=> Halfway(r)
             /\ InFlight(rotation[r]) \/ Waiting(rotation[r]) => rotation[r].at # "unused"
  BY <1>4 DEF InFlight, Waiting, Halfway
<1>6. ASSUME NEW r \in Rotations, Waiting(rotation'[r]), ~rotation'[r].orphan
      PROVE  connection'[rotation'[r].client][rotation'[r].host].status # "none"
  <2>1. rotation[r].at # "unused" /\ Waiting(rotation[r])
    BY <1>5, <1>6
  <2>2. ~(rotation[r].client = p /\ rotation[r].host = h) /\ rotation'[r].orphan = rotation[r].orphan
    BY <1>4, <1>6, <2>1
  <2>3. Linked(rotation[r].client, rotation[r].host)
    BY <1>6, <2>1, <2>2 DEF Tokens, Turned
  <2>4. connection'[rotation[r].client][rotation[r].host] = connection[rotation[r].client][rotation[r].host]
    BY <1>2, <1>4, <2>1, <2>2
  <2> QED
    BY <1>4, <2>1, <2>3, <2>4 DEF Linked
<1>7. ASSUME NEW r \in Rotations, InFlight(rotation'[r]), rotation'[r].orphan
      PROVE  rotation[r].orphan \/ known'[rotation[r].client][rotation[r].host] = NoToken
  BY <1>2, <1>4, <1>5, <1>7
<1> QED
  BY <1>1, <1>3, <1>4, <1>5, <1>6, <1>7 DEF Quiet, Accepted

\* A restart opens connections with the tokens that are stored.
LEMMA QuietRestart ==
  ASSUME TypeOK, Book, Tokens, NEW p \in Peers, restart(p)
  PROVE  Quiet
<1>1. /\ UNCHANGED <<paired, known>>
      /\ \A x \in Ceremonies : ceremony'[x] = AfterRestart(ceremony[x], p)
      /\ \A r \in Rotations : rotation'[r] = AfterRestart(rotation[r], p)
      /\ doubt \subseteq doubt'
      /\ doubt' = doubt \cup UNION {BothWays(p, h) : h \in {q \in Peers : Busy(p, q)}}
  BY DEF restart
<1>2. /\ \A a, b \in Peers : a # p => connection'[a][b] = connection[a][b]
      /\ \A b \in Peers : connection'[p][b] = IF known[p][b] = NoToken THEN NoConnection ELSE Connecting(known[p][b])
  BY DEF restart, TypeOK
<1>3. ASSUME NEW b \in Peers
      PROVE  /\ known[p][b] = NoToken => connection'[p][b].status = "none"
             /\ known[p][b] # NoToken => connection'[p][b].token = known[p][b]
  <2>1. CASE known[p][b] = NoToken
    BY <1>2, <2>1 DEF NoConnection
  <2>2. CASE known[p][b] # NoToken
    <3>1. connection'[p][b] = Connecting(known[p][b])
      BY <1>2, <2>2
    <3> QED
      BY <2>2, <3>1 DEF Connecting
  <2> QED
    BY <2>1, <2>2
<1>4. \A a, b \in Peers : Calm(a, b)
  <2> SUFFICES ASSUME NEW a \in Peers, NEW b \in Peers PROVE Calm(a, b)
    OBVIOUS
  <2>1. CASE a = p
    BY <1>1, <1>3, <2>1 DEF Calm
  <2>2. CASE a # p
    BY <1>1, <1>2, <2>2 DEF Calm, Linked, Tokens, Linkless
  <2> QED
    BY <2>1, <2>2
<1>5. Ebbs
  BY BookRestart
<1>6. ASSUME NEW q \in Peers, Busy(p, q) PROVE BothWays(p, q) \subseteq doubt' /\ BothWays(q, p) \subseteq doubt'
  BY <1>1, <1>6 DEF BothWays
<1>7. ASSUME NEW x \in Ceremonies
      PROVE  /\ Accepted(x)' =>
                  /\ Accepted(x) /\ ceremony'[x].alone = ceremony[x].alone
                  /\ ceremony'[x].client = ceremony[x].client /\ ceremony'[x].host = ceremony[x].host
                  /\ ceremony'[x].offer = ceremony[x].offer
             /\ Accepted(x) => Accepted(x)' \/ BothWays(ceremony[x].client, ceremony[x].host) \subseteq doubt'
  <2>1. Waiting(ceremony[x]) => InFlight(ceremony[x]) /\ ceremony[x].at # "unused"
    BY DEF Waiting, InFlight
  <2>2. Waiting(ceremony'[x]) => InFlight(ceremony'[x])
    BY DEF Waiting, InFlight
  <2>3. Accepted(x)' =>
                  /\ Accepted(x) /\ ceremony'[x].alone = ceremony[x].alone
                  /\ ceremony'[x].client = ceremony[x].client /\ ceremony'[x].host = ceremony[x].host
                  /\ ceremony'[x].offer = ceremony[x].offer
    BY <1>1, <2>2, RestartFields DEF Accepted
  <2>4. ASSUME Accepted(x), p \in {ceremony[x].client, ceremony[x].host}
        PROVE  BothWays(ceremony[x].client, ceremony[x].host) \subseteq doubt'
    <3>1. ceremony[x].client \in Peers /\ ceremony[x].host \in Peers
      BY <2>1, <2>4, UsedCalls DEF PairCall, Accepted
    <3>2. CASE p = ceremony[x].client
      BY <1>6, <2>1, <2>4, <3>1, <3>2, Ends DEF Busy, Accepted
    <3>3. CASE p = ceremony[x].host
      BY <1>6, <2>1, <2>4, <3>1, <3>3, Ends DEF Busy, Accepted
    <3> QED
      BY <2>4, <3>2, <3>3
  <2>5. ASSUME Accepted(x), p \notin {ceremony[x].client, ceremony[x].host}
        PROVE  Accepted(x)'
    BY <1>1, <2>1, <2>5, RestartFields DEF Accepted
  <2> QED
    BY <2>3, <2>4, <2>5
<1>8. ASSUME NEW r \in Rotations
      PROVE  /\ InFlight(rotation'[r]) =>
                  /\ InFlight(rotation[r]) /\ rotation[r].at # "unused"
                  /\ rotation'[r].client = rotation[r].client /\ rotation'[r].host = rotation[r].host
                  /\ rotation'[r].orphan = rotation[r].orphan
             /\ Halfway(r)' => Halfway(r)
             /\ Halfway(r) => Halfway(r)' \/ <<rotation[r].client, rotation[r].host>> \in doubt'
             /\ Waiting(rotation'[r]) /\ ~rotation'[r].orphan =>
                  connection'[rotation'[r].client][rotation'[r].host].status # "none"
  <2>1. Waiting(rotation[r]) => InFlight(rotation[r]) /\ rotation[r].at # "unused"
    BY DEF Waiting, InFlight
  <2>2. Waiting(rotation'[r]) => InFlight(rotation'[r])
    BY DEF Waiting, InFlight
  <2>3. InFlight(rotation'[r]) =>
                  /\ InFlight(rotation[r]) /\ rotation[r].at # "unused"
                  /\ rotation'[r].client = rotation[r].client /\ rotation'[r].host = rotation[r].host
                  /\ rotation'[r].orphan = rotation[r].orphan
    BY <1>1, RestartFields DEF InFlight
  <2>4. Halfway(r)' => Halfway(r)
    BY <1>1, RestartFields DEF Halfway
  <2>5. ASSUME Halfway(r), p \in {rotation[r].client, rotation[r].host}
        PROVE  <<rotation[r].client, rotation[r].host>> \in doubt'
    <3>1. rotation[r].client \in Peers /\ rotation[r].host \in Peers
      BY <2>1, <2>5, UsedCalls DEF RotateCall, Halfway
    <3>2. CASE p = rotation[r].client
      <4>1. Busy(p, rotation[r].host)
        BY <2>1, <2>5, <3>2, Ends DEF Busy, Halfway
      <4> QED
        BY <1>6, <3>1, <3>2, <4>1 DEF BothWays
    <3>3. CASE p = rotation[r].host
      <4>1. Busy(p, rotation[r].client)
        BY <2>1, <2>5, <3>3, Ends DEF Busy, Halfway
      <4> QED
        BY <1>6, <3>1, <3>3, <4>1 DEF BothWays
    <3> QED
      BY <2>5, <3>2, <3>3
  <2>6. ASSUME Halfway(r), p \notin {rotation[r].client, rotation[r].host}
        PROVE  Halfway(r)'
    BY <1>1, <2>1, <2>6, RestartFields DEF Halfway
  <2>7. ASSUME Waiting(rotation'[r]), ~rotation'[r].orphan
        PROVE  connection'[rotation'[r].client][rotation'[r].host].status # "none"
    <3>1. Waiting(rotation[r]) /\ rotation[r].client # p /\ ~rotation[r].orphan
      BY <1>1, <2>2, <2>3, <2>7, RestartFields
    <3>2. rotation[r].client \in Peers /\ rotation[r].host \in Peers
      BY <2>1, <3>1, UsedCalls DEF RotateCall
    <3> QED
      BY <1>2, <2>2, <2>3, <2>7, <3>1, <3>2 DEF Tokens, Turned, Linked
  <2> QED
    BY <2>3, <2>4, <2>5, <2>6, <2>7
<1> QED
  BY <1>1, <1>4, <1>7, <1>8 DEF Quiet

\* The steps of a rotation after its start.
LEMMA RotateMoves ==
  ASSUME TypeOK, NEW r \in Rotations,
         Authenticate(r) \/ rotatePairedToken(r) \/ RotateAnswered(r) \/ RotateLost(r)
  PROVE  /\ rotation[r] \in RotateCall /\ InFlight(rotation[r])
         /\ \A s \in Rotations \ {r} : rotation'[s] = rotation[s]
         /\ rotation'[r].client = rotation[r].client /\ rotation'[r].host = rotation[r].host
         /\ rotation'[r].orphan = rotation[r].orphan
         /\ Authenticate(r) => /\ rotation'[r].at \in {"authorized", "refused"}
                               /\ rotation'[r].waiting = rotation[r].waiting
         /\ rotatePairedToken(r) =>
              /\ rotation'[r].at = IF paired[rotation[r].host][rotation[r].client] = NoToken THEN "failed" ELSE "rotated"
              /\ rotation'[r].waiting = rotation[r].waiting
         /\ RotateAnswered(r) \/ RotateLost(r) =>
              rotation'[r].at = rotation[r].at /\ rotation'[r].waiting = FALSE
<1>1. rotation[r].at # "unused" /\ InFlight(rotation[r])
  BY DEF Authenticate, rotatePairedToken, RotateAnswered, RotateLost, Waiting, InFlight
<1>2. rotation[r] \in RotateCall
  BY <1>1, UsedCalls
<1>3. \A s \in Rotations \ {r} : rotation'[s] = rotation[s]
  BY DEF TypeOK, Authenticate, rotatePairedToken, RotateAnswered, RotateLost
<1>4. ASSUME NEW a \in {"authorized", "refused", "failed", "rotated"}, rotation' = [rotation EXCEPT ![r].at = a]
      PROVE  /\ rotation'[r].client = rotation[r].client /\ rotation'[r].host = rotation[r].host
             /\ rotation'[r].orphan = rotation[r].orphan
             /\ rotation'[r].at = a /\ rotation'[r].waiting = rotation[r].waiting
  <2>1. rotation'[r] = [rotation[r] EXCEPT !.at = a]
    BY <1>4 DEF TypeOK
  <2> QED
    BY <1>2, <2>1, RotateFields
<1>5. Authenticate(r) =>
        /\ rotation'[r].client = rotation[r].client /\ rotation'[r].host = rotation[r].host
        /\ rotation'[r].orphan = rotation[r].orphan
        /\ rotation'[r].at \in {"authorized", "refused"}
        /\ rotation'[r].waiting = rotation[r].waiting
  BY <1>4 DEF Authenticate
<1>6. rotatePairedToken(r) =>
        /\ rotation'[r].client = rotation[r].client /\ rotation'[r].host = rotation[r].host
        /\ rotation'[r].orphan = rotation[r].orphan
        /\ rotation'[r].at = IF paired[rotation[r].host][rotation[r].client] = NoToken THEN "failed" ELSE "rotated"
        /\ rotation'[r].waiting = rotation[r].waiting
  BY <1>4 DEF rotatePairedToken
<1>7. RotateAnswered(r) \/ RotateLost(r) =>
        /\ rotation'[r].client = rotation[r].client /\ rotation'[r].host = rotation[r].host
        /\ rotation'[r].orphan = rotation[r].orphan
        /\ rotation'[r].at = rotation[r].at /\ rotation'[r].waiting = FALSE
  <2> SUFFICES ASSUME RotateAnswered(r) \/ RotateLost(r)
               PROVE  /\ rotation'[r].client = rotation[r].client /\ rotation'[r].host = rotation[r].host
                      /\ rotation'[r].orphan = rotation[r].orphan
                      /\ rotation'[r].at = rotation[r].at /\ rotation'[r].waiting = FALSE
    OBVIOUS
  <2>1. \/ rotation' = [rotation EXCEPT ![r].waiting = FALSE]
        \/ rotation' = [rotation EXCEPT ![r].waiting = FALSE, ![r].lost = TRUE]
    BY DEF RotateAnswered, RotateLost
  <2>2. \/ rotation'[r] = [rotation[r] EXCEPT !.waiting = FALSE]
        \/ rotation'[r] = [rotation[r] EXCEPT !.waiting = FALSE, !.lost = TRUE]
    BY <1>1, <2>1, RotationFields
  <2> QED
    BY <1>2, <2>2 DEF RotateCall
<1> QED
  BY <1>1, <1>2, <1>3, <1>5, <1>6, <1>7

\* An answer that changes no token, or none, leaves everybody calm.
LEMMA QuietRotation ==
  ASSUME TypeOK, Tokens, NEW r \in Rotations,
         \/ Authenticate(r) \/ RotateLost(r)
         \/ rotatePairedToken(r) /\ paired[rotation[r].host][rotation[r].client] = NoToken
         \/ RotateAnswered(r) /\ rotation[r].at # "rotated"
  PROVE  Quiet
<1> DEFINE c == rotation[r].client
           h == rotation[r].host
<1>1. /\ rotation[r].at # "unused" /\ InFlight(rotation[r])
      /\ c \in Peers /\ h \in Peers
  BY RotateMoves DEF InFlight, RotateCall
<1>2. UNCHANGED <<paired, known, ceremony>> /\ doubt \subseteq doubt'
  BY DEF Authenticate, RotateLost, rotatePairedToken, RotateAnswered
<1>3. /\ \A a, b \in Peers : Linked(a, b) =>
           connection'[a][b].status # "none" /\ connection'[a][b].token = connection[a][b].token
      /\ \A a, b \in Peers : connection'[a][b].status # "none" => Linked(a, b)
  <2>1. CASE connection' = connection
    BY <2>1 DEF Linked
  <2>2. CASE RotateAnswered(r) /\ rotation[r].at = "refused" /\ ~rotation[r].orphan
    <3>1. connection' = [connection EXCEPT ![c][h] = [connection[c][h] EXCEPT !.status = "revoked"]]
      BY <2>2 DEF RotateAnswered
    <3>2. connection'[c][h] = [connection[c][h] EXCEPT !.status = "revoked"]
      BY <1>1, <3>1 DEF TypeOK
    <3>3. connection[c][h] \in Connection
      BY <1>1 DEF TypeOK
    <3>4. connection'[c][h].status = "revoked" /\ connection'[c][h].token = connection[c][h].token
      BY <3>2, <3>3 DEF Connection
    <3>5. \A a, b \in Peers : <<a, b>> # <<c, h>> => connection'[a][b] = connection[a][b]
      BY <1>1, <3>1 DEF TypeOK
    <3>6. Linked(c, h)
      BY <2>2 DEF Tokens, Turned, RotateAnswered
    <3> QED
      BY <3>4, <3>5, <3>6 DEF Linked
  <2>3. CASE RotateAnswered(r) /\ rotation[r].at = "failed" /\ ~rotation[r].orphan
    <3>1. connection' = [connection EXCEPT ![c][h] = connection[c][h]]
      BY <2>3 DEF RotateAnswered
    <3>2. \A a, b \in Peers : connection'[a][b] = connection[a][b]
      BY <1>1, <3>1 DEF TypeOK
    <3> QED
      BY <3>2 DEF Linked
  <2> QED
    BY <2>1, <2>2, <2>3 DEF Authenticate, RotateLost, rotatePairedToken, RotateAnswered
<1>4. \A a, b \in Peers : Calm(a, b)
  BY <1>2, <1>3 DEF Calm, Tokens, Linkless
<1>5. /\ rotation'[r].client = c /\ rotation'[r].host = h /\ rotation'[r].orphan = rotation[r].orphan
      /\ \A s \in Rotations \ {r} : rotation'[s] = rotation[s]
  BY RotateMoves
<1>6. rotation'[r].waiting => rotation[r].waiting
  BY RotateMoves
<1>7. Halfway(r)' => Halfway(r)
  BY <1>6, RotateMoves DEF Halfway, Waiting
<1>8. Halfway(r) => Halfway(r)' \/ <<c, h>> \in doubt'
  BY DEF Halfway, Authenticate, RotateLost, rotatePairedToken, RotateAnswered
<1>9. \A s \in Rotations : Halfway(s)' => Halfway(s)
  BY <1>5, <1>7 DEF Halfway
<1>10. ASSUME NEW s \in Rotations, Waiting(rotation'[s]), ~rotation'[s].orphan
       PROVE  connection'[rotation'[s].client][rotation'[s].host].status # "none"
  <2>1. Waiting(rotation[s]) /\ ~rotation[s].orphan /\ rotation'[s].client = rotation[s].client
        /\ rotation'[s].host = rotation[s].host
    BY <1>1, <1>5, <1>6, <1>10 DEF Waiting
  <2>2. rotation[s].client \in Peers /\ rotation[s].host \in Peers
    BY <2>1, UsedCalls DEF Waiting, RotateCall
  <2> QED
    BY <1>3, <2>1, <2>2 DEF Tokens, Turned
<1>11. \A s \in Rotations : InFlight(rotation'[s]) =>
         /\ InFlight(rotation[s]) /\ rotation[s].at # "unused"
         /\ rotation'[s].client = rotation[s].client /\ rotation'[s].host = rotation[s].host
         /\ rotation'[s].orphan = rotation[s].orphan
  BY <1>1, <1>5 DEF InFlight
<1>12. \A s \in Rotations : Halfway(s) => Halfway(s)' \/ <<rotation[s].client, rotation[s].host>> \in doubt'
  BY <1>5, <1>8 DEF Halfway
<1> QED
  BY <1>2, <1>4, <1>9, <1>10, <1>11, <1>12 DEF Quiet, Accepted

\* The steps of a ceremony after its start.
LEMMA PairMoves ==
  ASSUME TypeOK, NEW x \in Ceremonies, handlePair(x) \/ PairAnswered(x) \/ PairLost(x)
  PROVE  /\ ceremony[x] \in PairCall /\ InFlight(ceremony[x])
         /\ \A y \in Ceremonies \ {x} : ceremony'[y] = ceremony[y]
         /\ ceremony'[x].client = ceremony[x].client /\ ceremony'[x].host = ceremony[x].host
         /\ ceremony'[x].offer = ceremony[x].offer /\ ceremony'[x].alone = ceremony[x].alone
         /\ handlePair(x) => /\ ceremony'[x].at = IF ceremony[x].code = code[ceremony[x].host] THEN "accepted" ELSE "refused"
                             /\ ceremony'[x].waiting = ceremony[x].waiting
         /\ PairAnswered(x) \/ PairLost(x) =>
              ceremony'[x].at = ceremony[x].at /\ ceremony'[x].waiting = FALSE
<1>1. ceremony[x].at # "unused" /\ InFlight(ceremony[x])
  BY DEF handlePair, PairAnswered, PairLost, Waiting, InFlight
<1>2. ceremony[x] \in PairCall
  BY <1>1, UsedCalls
<1>3. \A y \in Ceremonies \ {x} : ceremony'[y] = ceremony[y]
  BY DEF TypeOK, handlePair, Refused, PairAnswered, PairLost
<1>4. ASSUME NEW a \in {"accepted", "refused"}, ceremony' = [ceremony EXCEPT ![x].at = a]
      PROVE  /\ ceremony'[x].client = ceremony[x].client /\ ceremony'[x].host = ceremony[x].host
             /\ ceremony'[x].offer = ceremony[x].offer /\ ceremony'[x].alone = ceremony[x].alone
             /\ ceremony'[x].at = a /\ ceremony'[x].waiting = ceremony[x].waiting
  <2>1. ceremony'[x] = [ceremony[x] EXCEPT !.at = a]
    BY <1>4 DEF TypeOK
  <2> QED
    BY <1>2, <2>1, PairFields
<1>5. handlePair(x) =>
        /\ ceremony'[x].client = ceremony[x].client /\ ceremony'[x].host = ceremony[x].host
        /\ ceremony'[x].offer = ceremony[x].offer /\ ceremony'[x].alone = ceremony[x].alone
        /\ ceremony'[x].at = IF ceremony[x].code = code[ceremony[x].host] THEN "accepted" ELSE "refused"
        /\ ceremony'[x].waiting = ceremony[x].waiting
  BY <1>4 DEF handlePair, Refused
<1>6. PairAnswered(x) \/ PairLost(x) =>
        /\ ceremony'[x].client = ceremony[x].client /\ ceremony'[x].host = ceremony[x].host
        /\ ceremony'[x].offer = ceremony[x].offer /\ ceremony'[x].alone = ceremony[x].alone
        /\ ceremony'[x].at = ceremony[x].at /\ ceremony'[x].waiting = FALSE
  <2> SUFFICES ASSUME PairAnswered(x) \/ PairLost(x)
               PROVE  /\ ceremony'[x].client = ceremony[x].client /\ ceremony'[x].host = ceremony[x].host
                      /\ ceremony'[x].offer = ceremony[x].offer /\ ceremony'[x].alone = ceremony[x].alone
                      /\ ceremony'[x].at = ceremony[x].at /\ ceremony'[x].waiting = FALSE
    OBVIOUS
  <2>1. \/ ceremony' = [ceremony EXCEPT ![x].waiting = FALSE]
        \/ ceremony' = [ceremony EXCEPT ![x].waiting = FALSE, ![x].lost = TRUE]
    BY DEF PairAnswered, PairLost
  <2>2. \/ ceremony'[x] = [ceremony[x] EXCEPT !.waiting = FALSE]
        \/ ceremony'[x] = [ceremony[x] EXCEPT !.waiting = FALSE, !.lost = TRUE]
    BY <1>1, <2>1, CeremonyFields
  <2> QED
    BY <1>2, <2>2 DEF PairCall
<1> QED
  BY <1>1, <1>2, <1>3, <1>5, <1>6

\* Tables and rotations that stay leave everybody calm.
LEMMA QuietTables ==
  ASSUME TypeOK, Tokens, UNCHANGED <<paired, known, connection>>
  PROVE  /\ \A p, h \in Peers : Calm(p, h)
         /\ \A r \in Rotations :
              rotation'[r] = rotation[r] =>
                /\ InFlight(rotation'[r]) => InFlight(rotation[r]) /\ rotation[r].at # "unused"
                /\ Halfway(r)' <=> Halfway(r)
                /\ Waiting(rotation'[r]) /\ ~rotation'[r].orphan =>
                     connection'[rotation'[r].client][rotation'[r].host].status # "none"
BY DEF Calm, Linked, Tokens, Linkless, Turned, InFlight, Halfway

\* A refused ceremony, or one whose client gives up, changes no token.
LEMMA QuietPair ==
  ASSUME TypeOK, Tokens, NEW x \in Ceremonies,
         \/ handlePair(x) /\ ceremony[x].code # code[ceremony[x].host]
         \/ PairAnswered(x) /\ ceremony[x].at = "refused"
         \/ PairLost(x)
  PROVE  Quiet
<1>1. UNCHANGED <<paired, known, connection, rotation>> /\ doubt \subseteq doubt'
  BY DEF handlePair, Refused, PairAnswered, PairLost
<1>2. ASSUME NEW y \in Ceremonies
      PROVE  /\ Accepted(y)' =>
                  /\ Accepted(y) /\ ceremony'[y].alone = ceremony[y].alone
                  /\ ceremony'[y].client = ceremony[y].client /\ ceremony'[y].host = ceremony[y].host
                  /\ ceremony'[y].offer = ceremony[y].offer
             /\ Accepted(y) => Accepted(y)' \/ BothWays(ceremony[y].client, ceremony[y].host) \subseteq doubt'
  <2>1. CASE y # x
    BY <2>1, PairMoves DEF Accepted
  <2>2. CASE y = x
    <3>1. ~Accepted(x)'
      BY PairMoves DEF Accepted, Waiting
    <3>2. Accepted(x) => PairLost(x)
      BY DEF Accepted, handlePair
    <3> QED
      BY <2>2, <3>1, <3>2 DEF PairLost
  <2> QED
    BY <2>1, <2>2
<1> QED
  BY <1>1, <1>2, QuietTables DEF Quiet

\* So does the beginning of an exchange.
LEMMA QuietBegins ==
  ASSUME TypeOK, Tokens, NEW p \in Peers, NEW h \in Peers,
         (\E x \in Ceremonies : pair(x, p, h)) \/ (\E r \in Rotations : rotateToken(r, p, h))
  PROVE  Quiet
<1>1. UNCHANGED <<paired, known, connection>> /\ doubt \subseteq doubt'
  BY DEF pair, rotateToken, DoubtAtStart
<1>2. ASSUME NEW y \in Ceremonies, ceremony'[y] = Overlapped(p, h)[y]
      PROVE  /\ Accepted(y)' <=> Accepted(y)
             /\ Accepted(y) => /\ ceremony'[y].alone => ceremony[y].alone
                               /\ ceremony'[y].client = ceremony[y].client /\ ceremony'[y].host = ceremony[y].host
                               /\ ceremony'[y].offer = ceremony[y].offer
  <2>1. ceremony'[y].at = ceremony[y].at
    BY <1>2, OverlappedFields
  <2>2. ceremony[y].at # "unused" =>
          /\ ceremony'[y].waiting = ceremony[y].waiting
          /\ ceremony'[y].alone => ceremony[y].alone
          /\ ceremony'[y].client = ceremony[y].client /\ ceremony'[y].host = ceremony[y].host
          /\ ceremony'[y].offer = ceremony[y].offer
    BY <1>2, OverlappedFields
  <2> QED
    BY <2>1, <2>2 DEF Accepted, Waiting
<1>3. ASSUME NEW x \in Ceremonies, pair(x, p, h) PROVE Quiet
  <2>1. rotation' = rotation /\ ceremony[x] = Unused
    BY <1>3 DEF pair
  <2>2. \A y \in Ceremonies \ {x} : ceremony'[y] = Overlapped(p, h)[y]
    BY <1>3, OverlappedKeeps DEF pair
  <2>3. ceremony'[x].at = "sent" /\ ceremony[x].at = "unused"
    BY <1>3, OverlappedKeeps DEF pair, Unused
  <2>4. ~Accepted(x) /\ ~Accepted(x)'
    BY <2>3 DEF Accepted
  <2>5. ASSUME NEW y \in Ceremonies
        PROVE  /\ Accepted(y)' =>
                    /\ Accepted(y) /\ (ceremony'[y].alone => ceremony[y].alone)
                    /\ ceremony'[y].client = ceremony[y].client /\ ceremony'[y].host = ceremony[y].host
                    /\ ceremony'[y].offer = ceremony[y].offer
               /\ Accepted(y) => Accepted(y)'
    <3>1. CASE y = x
      BY <2>4, <3>1
    <3>2. CASE y # x
      BY <1>2, <2>2, <3>2
    <3> QED
      BY <3>1, <3>2
  <2> QED
    BY <1>1, <2>1, <2>5, QuietTables DEF Quiet
<1>4. ASSUME NEW r \in Rotations, rotateToken(r, p, h) PROVE Quiet
  <2>1. ceremony' = Overlapped(p, h) /\ rotation[r].at = "unused" /\ connection[p][h].status = "connected"
    BY <1>4 DEF rotateToken, Unused
  <2>2. \A s \in Rotations \ {r} : rotation'[s] = rotation[s]
    BY <1>4 DEF rotateToken, TypeOK
  <2>3. /\ rotation'[r].at = "sent" /\ rotation'[r].client = p /\ rotation'[r].host = h /\ rotation'[r].orphan = FALSE
    BY <1>4 DEF rotateToken, TypeOK
  <2>4. ~Halfway(r) /\ ~Halfway(r)' /\ connection'[p][h].status # "none"
    BY <1>1, <2>1, <2>3 DEF Halfway
  <2>5. \A y \in Ceremonies :
          /\ Accepted(y)' =>
               /\ Accepted(y) /\ (ceremony'[y].alone => ceremony[y].alone)
               /\ ceremony'[y].client = ceremony[y].client /\ ceremony'[y].host = ceremony[y].host
               /\ ceremony'[y].offer = ceremony[y].offer
          /\ Accepted(y) => Accepted(y)'
    BY <1>2, <2>1
  <2>6. \A s \in Rotations :
          /\ InFlight(rotation'[s]) /\ rotation[s].at # "unused" =>
               /\ InFlight(rotation[s])
               /\ rotation'[s].client = rotation[s].client /\ rotation'[s].host = rotation[s].host
          /\ InFlight(rotation'[s]) /\ rotation[s].at = "unused" =>
               rotation'[s].at = "sent" /\ rotation'[s].orphan = FALSE
          /\ Halfway(s)' => Halfway(s)
          /\ Halfway(s) => Halfway(s)'
          /\ Waiting(rotation'[s]) /\ ~rotation'[s].orphan =>
               connection'[rotation'[s].client][rotation'[s].host].status # "none"
          /\ InFlight(rotation'[s]) /\ rotation'[s].orphan => rotation[s].orphan
    <3> SUFFICES ASSUME NEW s \in Rotations
                 PROVE  /\ InFlight(rotation'[s]) /\ rotation[s].at # "unused" =>
                             /\ InFlight(rotation[s])
                             /\ rotation'[s].client = rotation[s].client /\ rotation'[s].host = rotation[s].host
                        /\ InFlight(rotation'[s]) /\ rotation[s].at = "unused" =>
                             rotation'[s].at = "sent" /\ rotation'[s].orphan = FALSE
                        /\ Halfway(s)' => Halfway(s)
                        /\ Halfway(s) => Halfway(s)'
                        /\ Waiting(rotation'[s]) /\ ~rotation'[s].orphan =>
                             connection'[rotation'[s].client][rotation'[s].host].status # "none"
                        /\ InFlight(rotation'[s]) /\ rotation'[s].orphan => rotation[s].orphan
      OBVIOUS
    <3>1. CASE s = r
      BY <2>1, <2>3, <2>4, <3>1
    <3>2. CASE s # r
      BY <1>1, <2>2, <3>2, QuietTables
    <3> QED
      BY <3>1, <3>2
  <2> QED
    BY <1>1, <2>5, <2>6, QuietTables DEF Quiet
<1> QED
  BY <1>3, <1>4

\* A fresh token replaces what a client stores of a host, and the connection it has to it: the
\* rotations on the old one are orphans.
LEMMA Replaced ==
  ASSUME TypeOK, Tokens, NEW a \in Peers, NEW b \in Peers, NEW t,
         known' = [known EXCEPT ![a][b] = t],
         connection' = [connection EXCEPT ![a][b] = Connecting(t)],
         rotation' = Orphaned(a, b)
  PROVE  /\ known'[a][b] = t /\ connection'[a][b].token = t /\ connection'[a][b].status # "none"
         /\ \A p, q \in Peers : <<p, q>> # <<a, b>> =>
              known'[p][q] = known[p][q] /\ connection'[p][q] = connection[p][q]
         /\ \A r \in Rotations :
              /\ InFlight(rotation'[r]) <=> InFlight(rotation[r])
              /\ Halfway(r)' <=> Halfway(r)
              /\ InFlight(rotation[r]) =>
                   /\ rotation[r].client \in Peers /\ rotation[r].host \in Peers
                   /\ rotation'[r].client = rotation[r].client /\ rotation'[r].host = rotation[r].host
                   /\ rotation'[r].orphan => rotation[r].orphan \/ <<rotation[r].client, rotation[r].host>> = <<a, b>>
              /\ Waiting(rotation'[r]) /\ ~rotation'[r].orphan =>
                   connection'[rotation'[r].client][rotation'[r].host].status # "none"
<1>1. known'[a][b] = t /\ connection'[a][b] = Connecting(t)
  BY DEF TypeOK
<1>2. connection'[a][b].token = t /\ connection'[a][b].status # "none"
  BY <1>1 DEF Connecting
<1>3. \A p, q \in Peers : <<p, q>> # <<a, b>> =>
        known'[p][q] = known[p][q] /\ connection'[p][q] = connection[p][q]
  BY DEF TypeOK
<1>4. ASSUME NEW r \in Rotations
      PROVE  /\ rotation'[r].at = rotation[r].at
             /\ rotation[r].at # "unused" =>
                  /\ rotation[r].client \in Peers /\ rotation[r].host \in Peers
                  /\ rotation'[r].client = rotation[r].client /\ rotation'[r].host = rotation[r].host
                  /\ rotation'[r].waiting = rotation[r].waiting
                  /\ <<rotation[r].client, rotation[r].host>> = <<a, b>> => rotation'[r].orphan = TRUE
                  /\ <<rotation[r].client, rotation[r].host>> # <<a, b>> => rotation'[r].orphan = rotation[r].orphan
  <2>1. rotation'[r] = Orphaned(a, b)[r]
    OBVIOUS
  <2>2. rotation[r].at # "unused" => rotation[r].client \in Peers /\ rotation[r].host \in Peers
    BY UsedCalls DEF RotateCall
  <2>3. Orphaned(a, b)[r].at = rotation[r].at
    BY OrphanedFields
  <2>4. CASE rotation[r].at # "unused"
    <3>1. /\ Orphaned(a, b)[r].client = rotation[r].client /\ Orphaned(a, b)[r].host = rotation[r].host
          /\ Orphaned(a, b)[r].waiting = rotation[r].waiting
          /\ rotation[r].client = a /\ rotation[r].host = b => Orphaned(a, b)[r].orphan = TRUE
          /\ ~(rotation[r].client = a /\ rotation[r].host = b) => Orphaned(a, b)[r].orphan = rotation[r].orphan
      BY <2>4, OrphanedFields
    <3> QED
      BY <2>1, <2>2, <2>3, <2>4, <3>1
  <2> QED
    BY <2>1, <2>3, <2>4
<1>5. ASSUME NEW r \in Rotations
      PROVE  /\ InFlight(rotation'[r]) <=> InFlight(rotation[r])
             /\ Halfway(r)' <=> Halfway(r)
             /\ Waiting(rotation'[r]) <=> Waiting(rotation[r])
             /\ InFlight(rotation[r]) \/ Waiting(rotation[r]) => rotation[r].at # "unused"
  BY <1>4 DEF InFlight, Halfway, Waiting
<1>6. ASSUME NEW r \in Rotations, InFlight(rotation[r])
      PROVE  /\ rotation[r].client \in Peers /\ rotation[r].host \in Peers
             /\ rotation'[r].client = rotation[r].client /\ rotation'[r].host = rotation[r].host
             /\ rotation'[r].orphan => rotation[r].orphan \/ <<rotation[r].client, rotation[r].host>> = <<a, b>>
  BY <1>4, <1>5, <1>6
<1>7. ASSUME NEW r \in Rotations, Waiting(rotation'[r]), ~rotation'[r].orphan
      PROVE  connection'[rotation'[r].client][rotation'[r].host].status # "none"
  <2>1. Waiting(rotation[r]) /\ rotation[r].at # "unused"
    BY <1>5, <1>7
  <2>2. <<rotation[r].client, rotation[r].host>> # <<a, b>> /\ ~rotation[r].orphan
    BY <1>4, <1>7, <2>1
  <2>3. Linked(rotation[r].client, rotation[r].host)
    BY <2>1, <2>2 DEF Tokens, Turned
  <2>4. /\ rotation[r].client \in Peers /\ rotation[r].host \in Peers
        /\ rotation'[r].client = rotation[r].client /\ rotation'[r].host = rotation[r].host
    BY <1>4, <2>1
  <2>5. connection'[rotation[r].client][rotation[r].host] = connection[rotation[r].client][rotation[r].host]
    BY <1>3, <2>2, <2>4
  <2> QED
    BY <2>3, <2>4, <2>5 DEF Linked
<1> QED
  BY <1>1, <1>2, <1>3, <1>5, <1>6, <1>7

\* What is under way between two instances stays under way.
LEMMA AmidStays ==
  ASSUME NEW p \in Peers, NEW h \in Peers,
         \A x \in Ceremonies :
           /\ Accepted(x)
           /\ \/ ceremony[x].client = p /\ ceremony[x].host = h
              \/ ceremony[x].client = h /\ ceremony[x].host = p /\ ceremony[x].offer # NoToken
           => /\ Accepted(x)'
              /\ ceremony'[x].client = ceremony[x].client /\ ceremony'[x].host = ceremony[x].host
              /\ ceremony'[x].offer = ceremony[x].offer,
         \A r \in Rotations : Halfway(r) /\ rotation[r].client = p /\ rotation[r].host = h =>
           Halfway(r)' /\ rotation'[r].client = p /\ rotation'[r].host = h
  PROVE  Amid(p, h) => Amid(p, h)'
BY DEF Amid

\* A rotation beside a ceremony, or one that overlaps it, is in doubt.
LEMMA Beside ==
  ASSUME TypeOK, Book, NEW x \in Ceremonies, InFlight(ceremony[x])
  PROVE  /\ ceremony[x].client \in Peers /\ ceremony[x].host \in Peers /\ ceremony[x].client # ceremony[x].host
         /\ \A y \in Ceremonies \ {x} :
              InFlight(ceremony[y]) /\ ceremony[y].alone =>
                /\ <<ceremony[y].client, ceremony[y].host>> # <<ceremony[x].client, ceremony[x].host>>
                /\ <<ceremony[y].client, ceremony[y].host>> # <<ceremony[x].host, ceremony[x].client>>
         /\ \A r \in Rotations : InFlight(rotation[r]) =>
              /\ <<rotation[r].client, rotation[r].host>> = <<ceremony[x].client, ceremony[x].host>>
                   => <<rotation[r].client, rotation[r].host>> \in doubt /\ ~ceremony[x].alone
              /\ <<rotation[r].client, rotation[r].host>> = <<ceremony[x].host, ceremony[x].client>>
                   => <<rotation[r].client, rotation[r].host>> \in doubt /\ ~ceremony[x].alone
         /\ ~(ceremony[x].alone /\ ceremony[x].waiting) =>
              /\ <<ceremony[x].client, ceremony[x].host>> \in doubt
              /\ <<ceremony[x].host, ceremony[x].client>> \in doubt
<1> DEFINE c == ceremony[x].client
           h == ceremony[x].host
<1>1. c \in Peers /\ h \in Peers
  BY UsedCalls DEF InFlight, PairCall
<1>2. c # h /\ ceremony[x].at # "unused"
  BY DEF Book, Sole, InFlight
<1>3. ~(ceremony[x].alone /\ ceremony[x].waiting) => <<c, h>> \in doubt /\ <<h, c>> \in doubt
  BY DEF Book, Doubted, BothWays
<1>4. ASSUME NEW y \in Ceremonies \ {x}, InFlight(ceremony[y]), ceremony[y].alone
      PROVE  <<ceremony[y].client, ceremony[y].host>> # <<c, h>> /\ <<ceremony[y].client, ceremony[y].host>> # <<h, c>>
  <2>1. ~Between(ceremony[x], ceremony[y].client, ceremony[y].host)
    BY <1>4 DEF Book, Sole
  <2> QED
    BY <1>2, <2>1, Ends
<1>5. ASSUME NEW r \in Rotations, InFlight(rotation[r]),
             \/ <<rotation[r].client, rotation[r].host>> = <<c, h>>
             \/ <<rotation[r].client, rotation[r].host>> = <<h, c>>
      PROVE  <<rotation[r].client, rotation[r].host>> \in doubt /\ ~ceremony[x].alone
  <2>1. Between(rotation[r], c, h)
    BY <1>5, Ends DEF InFlight
  <2>2. ~ceremony[x].alone
    BY <1>5, <2>1 DEF Book, Sole
  <2> QED
    BY <1>3, <1>5, <2>2
<1> QED
  BY <1>1, <1>2, <1>3, <1>4, <1>5

\* handlePair() that accepts: the host has the token it issued, and what it was offered; nobody but
\* the two is concerned, and they are amid the exchange or in doubt.
LEMMA TokensAccepted ==
  ASSUME TypeOK, Book, Tokens, NEW x \in Ceremonies, handlePair(x), ceremony[x].code = code[ceremony[x].host]
  PROVE  Tokens'
<1> DEFINE c == ceremony[x].client
           h == ceremony[x].host
           o == ceremony[x].offer
<1>1. /\ ceremony[x].at = "sent" /\ InFlight(ceremony[x])
      /\ ceremony'[x].client = c /\ ceremony'[x].host = h
      /\ ceremony'[x].offer = o /\ ceremony'[x].alone = ceremony[x].alone
      /\ ceremony'[x].at = "accepted" /\ ceremony'[x].waiting = ceremony[x].waiting
      /\ \A y \in Ceremonies \ {x} : ceremony'[y] = ceremony[y]
  BY PairMoves DEF handlePair
<1>2. c \in Peers /\ h \in Peers /\ c # h
  BY <1>1, Beside
<1>3. doubt' = doubt /\ paired' = [paired EXCEPT ![h][c] = Issued(x)] /\ Reciprocated(h, c, o)
  BY DEF handlePair, Refused
<1>4. paired'[h][c] = Issued(x) /\ \A a, b \in Peers : <<b, a>> # <<h, c>> => paired'[b][a] = paired[b][a]
  <2>1. paired \in [Peers -> [Peers -> Token]]
    BY DEF TypeOK
  <2> QED
    BY <1>2, <1>3, <2>1, Entries
<1>5. /\ o # NoToken => known'[h][c] = o /\ connection'[h][c].token = o /\ connection'[h][c].status # "none"
      /\ o = NoToken => known'[h][c] = known[h][c] /\ connection'[h][c] = connection[h][c]
      /\ \A p, q \in Peers : <<p, q>> # <<h, c>> =>
           known'[p][q] = known[p][q] /\ connection'[p][q] = connection[p][q]
      /\ \A r \in Rotations :
           /\ InFlight(rotation'[r]) <=> InFlight(rotation[r])
           /\ Halfway(r)' <=> Halfway(r)
           /\ InFlight(rotation[r]) =>
                /\ rotation[r].client \in Peers /\ rotation[r].host \in Peers
                /\ rotation'[r].client = rotation[r].client /\ rotation'[r].host = rotation[r].host
                /\ rotation'[r].orphan => rotation[r].orphan \/ <<rotation[r].client, rotation[r].host>> = <<h, c>>
           /\ Waiting(rotation'[r]) /\ ~rotation'[r].orphan =>
                connection'[rotation'[r].client][rotation'[r].host].status # "none"
  <2>1. CASE o = NoToken
    <3>1. UNCHANGED <<known, connection, rotation>>
      BY <1>3, <2>1 DEF Reciprocated
    <3>2. ASSUME NEW r \in Rotations
          PROVE  /\ Halfway(r)' <=> Halfway(r)
                 /\ InFlight(rotation[r]) => rotation[r].client \in Peers /\ rotation[r].host \in Peers
                 /\ Waiting(rotation'[r]) /\ ~rotation'[r].orphan =>
                      connection'[rotation'[r].client][rotation'[r].host].status # "none"
      BY <3>1, UsedCalls DEF Halfway, InFlight, RotateCall, Tokens, Turned, Linked
    <3> QED
      BY <2>1, <3>1, <3>2
  <2>2. CASE o # NoToken
    <3>1. /\ known' = [known EXCEPT ![h][c] = o]
          /\ connection' = [connection EXCEPT ![h][c] = Connecting(o)]
          /\ rotation' = Orphaned(h, c)
      BY <1>3, <2>2 DEF Reciprocated
    <3> HIDE DEF c, h, o
    <3>2. h \in Peers /\ c \in Peers
      BY <1>2
    <3>3. known'[h][c] = o /\ connection'[h][c].token = o /\ connection'[h][c].status # "none"
      <4>1. known'[h][c] = o /\ connection'[h][c] = Connecting(o)
        BY <3>1, <3>2 DEF TypeOK
      <4> QED
        BY <4>1 DEF Connecting
    <3>5. \A p, q \in Peers : <<p, q>> # <<h, c>> =>
            known'[p][q] = known[p][q] /\ connection'[p][q] = connection[p][q]
      BY <3>1, <3>2, Replaced
    <3>4. \A r \in Rotations :
            /\ InFlight(rotation'[r]) <=> InFlight(rotation[r])
            /\ Halfway(r)' <=> Halfway(r)
            /\ InFlight(rotation[r]) =>
                 /\ rotation[r].client \in Peers /\ rotation[r].host \in Peers
                 /\ rotation'[r].client = rotation[r].client /\ rotation'[r].host = rotation[r].host
                 /\ rotation'[r].orphan => rotation[r].orphan \/ <<rotation[r].client, rotation[r].host>> = <<h, c>>
            /\ Waiting(rotation'[r]) /\ ~rotation'[r].orphan =>
                 connection'[rotation'[r].client][rotation'[r].host].status # "none"
      BY <3>1, <3>2, Replaced
    <3> QED
      BY <2>2, <3>3, <3>4, <3>5
  <2> QED
    BY <2>1, <2>2
\* The others are calm, and so is the way back when no token was offered.
<1>6. \A p, q \in Peers : <<p, q>> # <<c, h>> /\ <<p, q>> # <<h, c>> => Calm(p, q)
  BY <1>4, <1>5 DEF Calm, Linked, Tokens, Linkless
<1>7. o = NoToken => Calm(h, c)
  BY <1>2, <1>4, <1>5 DEF Calm, Linked, Tokens, Linkless
<1>8. ASSUME NEW y \in Ceremonies PROVE Given(y)'
  <2>1. CASE y = x
    BY <1>1, <1>4, <1>5, <2>1 DEF Given, Linked
  <2>2. CASE y # x
    <3>1. Accepted(y) => InFlight(ceremony[y]) /\ ceremony[y].at # "unused"
      BY DEF Accepted, Waiting, InFlight
    <3>2. Accepted(y) => ceremony[y].client \in Peers /\ ceremony[y].host \in Peers
      BY <3>1, UsedCalls DEF PairCall
    <3>3. Accepted(y) /\ ceremony[y].alone =>
            Calm(ceremony[y].host, ceremony[y].client) /\ Calm(ceremony[y].client, ceremony[y].host)
      <4>1. InFlight(ceremony[y]) /\ ceremony[y].alone =>
              <<ceremony[y].client, ceremony[y].host>> # <<c, h>> /\ <<ceremony[y].client, ceremony[y].host>> # <<h, c>>
        BY <1>1, <2>2, Beside
      <4> QED
        BY <1>6, <3>1, <3>2, <4>1
    <3>4. ceremony'[y] = ceremony[y]
      BY <1>1, <2>2
    <3> QED
      BY <3>3, <3>4, GivenCalm DEF Tokens, Accepted
  <2> QED
    BY <2>1, <2>2
<1>9. ASSUME NEW r \in Rotations PROVE Turned(r)'
  <2>1. CASE InFlight(rotation[r]) /\ <<rotation[r].client, rotation[r].host>> \in {<<c, h>>, <<h, c>>}
    <3>1. <<rotation'[r].client, rotation'[r].host>> \in doubt'
      BY <1>1, <1>3, <1>5, <2>1, Beside
    <3> QED
      BY <1>5, <3>1 DEF Turned, Linked
  <2>2. CASE InFlight(rotation[r]) /\ <<rotation[r].client, rotation[r].host>> \notin {<<c, h>>, <<h, c>>}
    <3>1. Calm(rotation[r].client, rotation[r].host)
      BY <1>5, <1>6, <2>2
    <3>2. rotation'[r].client = rotation[r].client /\ rotation'[r].host = rotation[r].host
          /\ (rotation'[r].orphan => rotation[r].orphan)
      BY <1>5, <2>2
    <3>3. Turned(r)
      BY DEF Tokens
    <3> QED
      BY <1>3, <1>5, <2>2, <3>1, <3>2, <3>3, TurnedCalm
  <2>3. CASE ~InFlight(rotation[r])
    BY <1>5, <2>3 DEF Turned, Halfway, InFlight, Waiting
  <2> QED
    BY <2>1, <2>2, <2>3
<1>10. Linkless'
  <2> SUFFICES ASSUME NEW p \in Peers, NEW q \in Peers, known'[p][q] = NoToken
               PROVE  connection'[p][q].status = "none"
    BY DEF Linkless, Linked
  <2> QED
    BY <1>5 DEF Tokens, Linkless, Linked
<1>11. ASSUME NEW p \in Peers, NEW q \in Peers
       PROVE  <<p, q>> \notin doubt' /\ ~Amid(p, q)' => Agree(p, q)'
  <2>1. ASSUME Calm(p, q) PROVE <<p, q>> \notin doubt' /\ ~Amid(p, q)' => Agree(p, q)'
    <3>1. ~Accepted(x)
      BY <1>1 DEF Accepted
    <3>2. \A y \in Ceremonies : Accepted(y) => y # x /\ ceremony'[y] = ceremony[y] /\ Accepted(y)'
      BY <1>1, <3>1 DEF Accepted
    <3>3. \A r \in Rotations : Halfway(r) => InFlight(rotation[r])
      BY DEF Halfway, Waiting, InFlight
    <3>4. \A r \in Rotations : Halfway(r) =>
            Halfway(r)' /\ rotation'[r].client = rotation[r].client /\ rotation'[r].host = rotation[r].host
      BY <1>5, <3>3
    <3>5. Amid(p, q) => Amid(p, q)'
      BY <3>2, <3>4, AmidStays
    <3> QED
      BY <1>3, <2>1, <3>5, AgreeCalm DEF Tokens
  <2>2. CASE <<p, q>> = <<c, h>> \/ (<<p, q>> = <<h, c>> /\ o # NoToken)
    <3>1. CASE ceremony[x].alone /\ ceremony[x].waiting
      <4>1. Accepted(x)'
        BY <1>1, <3>1 DEF Accepted, Waiting
      <4> QED
        BY <1>1, <2>2, <4>1 DEF Amid
    <3>2. CASE ~(ceremony[x].alone /\ ceremony[x].waiting)
      BY <1>1, <1>3, <2>2, <3>2, Beside
    <3> QED
      BY <3>1, <3>2
  <2> QED
    BY <1>6, <1>7, <2>1, <2>2
<1> QED
  BY <1>8, <1>9, <1>10, <1>11 DEF Tokens, Agreeing

\* The answer to a ceremony that was accepted: the client has what was issued and accepts what it
\* offered.  If the ceremony was alone the host has them too; otherwise the two are in doubt.
LEMMA TokensPaired ==
  ASSUME TypeOK, Book, Tokens, NEW x \in Ceremonies, PairAnswered(x), ceremony[x].at = "accepted"
  PROVE  Tokens'
<1> DEFINE c == ceremony[x].client
           h == ceremony[x].host
           o == ceremony[x].offer
<1>1. /\ Accepted(x) /\ InFlight(ceremony[x])
      /\ ceremony'[x].client = c /\ ceremony'[x].host = h
      /\ ceremony'[x].waiting = FALSE
      /\ \A y \in Ceremonies \ {x} : ceremony'[y] = ceremony[y]
  BY PairMoves DEF PairAnswered, Accepted
<1>2. c \in Peers /\ h \in Peers /\ c # h
  BY <1>1, Beside
<1>3. /\ doubt' = IF ~ceremony[x].alone THEN doubt
                  ELSE doubt \ IF o = NoToken THEN {<<c, h>>} ELSE BothWays(c, h)
      /\ paired' = IF o = NoToken THEN paired ELSE [paired EXCEPT ![c][h] = o]
      /\ known' = [known EXCEPT ![c][h] = Issued(x)]
      /\ connection' = [connection EXCEPT ![c][h] = Connecting(Issued(x))]
      /\ rotation' = Orphaned(c, h)
  BY DEF PairAnswered
<1>4. /\ o # NoToken => paired'[c][h] = o
      /\ o = NoToken => paired'[c][h] = paired[c][h]
      /\ \A a, b \in Peers : <<b, a>> # <<c, h>> => paired'[b][a] = paired[b][a]
  <2>1. paired \in [Peers -> [Peers -> Token]]
    BY DEF TypeOK
  <2> QED
    BY <1>2, <1>3, <2>1, Entries
<1>5. /\ known'[c][h] = Issued(x) /\ connection'[c][h].token = Issued(x)
      /\ connection'[c][h].status # "none"
  <2>1. known'[c][h] = Issued(x) /\ connection'[c][h] = Connecting(Issued(x))
    BY <1>2, <1>3 DEF TypeOK
  <2> QED
    BY <2>1 DEF Connecting
<1>6. \A p, q \in Peers : <<p, q>> # <<c, h>> =>
        known'[p][q] = known[p][q] /\ connection'[p][q] = connection[p][q]
  BY <1>2, <1>3 DEF TypeOK
<1>7. \A r \in Rotations :
        /\ InFlight(rotation'[r]) <=> InFlight(rotation[r])
        /\ Halfway(r)' <=> Halfway(r)
        /\ InFlight(rotation[r]) =>
             /\ rotation[r].client \in Peers /\ rotation[r].host \in Peers
             /\ rotation'[r].client = rotation[r].client /\ rotation'[r].host = rotation[r].host
             /\ rotation'[r].orphan => rotation[r].orphan \/ <<rotation[r].client, rotation[r].host>> = <<c, h>>
        /\ Waiting(rotation'[r]) /\ ~rotation'[r].orphan =>
             connection'[rotation'[r].client][rotation'[r].host].status # "none"
  <2>1. /\ known' = [known EXCEPT ![c][h] = Issued(x)]
        /\ connection' = [connection EXCEPT ![c][h] = Connecting(Issued(x))]
        /\ rotation' = Orphaned(c, h)
    BY <1>3
  <2> HIDE DEF c, h, o
  <2> QED
    BY <1>2, <2>1, Replaced
<1>8. \A p, q \in Peers : <<p, q>> # <<c, h>> /\ <<p, q>> # <<h, c>> => Calm(p, q)
  BY <1>4, <1>6 DEF Calm, Linked, Tokens, Linkless
<1>9. o = NoToken => Calm(h, c)
  BY <1>2, <1>4, <1>6 DEF Calm, Linked, Tokens, Linkless
<1>10. ASSUME NEW y \in Ceremonies PROVE Given(y)'
  <2>1. CASE y = x
    BY <1>1, <2>1 DEF Given, Accepted, Waiting
  <2>2. CASE y # x
    <3>1. Accepted(y) => InFlight(ceremony[y]) /\ ceremony[y].at # "unused"
      BY DEF Accepted, Waiting, InFlight
    <3>2. Accepted(y) => ceremony[y].client \in Peers /\ ceremony[y].host \in Peers
      BY <3>1, UsedCalls DEF PairCall
    <3>3. Accepted(y) /\ ceremony[y].alone =>
            Calm(ceremony[y].host, ceremony[y].client) /\ Calm(ceremony[y].client, ceremony[y].host)
      <4>1. InFlight(ceremony[y]) /\ ceremony[y].alone =>
              <<ceremony[y].client, ceremony[y].host>> # <<c, h>> /\ <<ceremony[y].client, ceremony[y].host>> # <<h, c>>
        BY <1>1, <2>2, Beside
      <4> QED
        BY <1>8, <3>1, <3>2, <4>1
    <3>4. ceremony'[y] = ceremony[y]
      BY <1>1, <2>2
    <3> QED
      BY <3>3, <3>4, GivenCalm DEF Tokens, Accepted
  <2> QED
    BY <2>1, <2>2
<1>11. \A p, q \in Peers : <<p, q>> # <<c, h>> /\ <<p, q>> # <<h, c>> /\ <<p, q>> \in doubt => <<p, q>> \in doubt'
  BY <1>3 DEF BothWays
<1>12. ASSUME NEW r \in Rotations PROVE Turned(r)'
  <2>1. CASE InFlight(rotation[r]) /\ <<rotation[r].client, rotation[r].host>> \in {<<c, h>>, <<h, c>>}
    <3>1. <<rotation[r].client, rotation[r].host>> \in doubt /\ ~ceremony[x].alone
      BY <1>1, <2>1, Beside
    <3>2. <<rotation'[r].client, rotation'[r].host>> \in doubt'
      BY <1>3, <1>7, <2>1, <3>1
    <3> QED
      BY <1>7, <3>2 DEF Turned, Linked
  <2>2. CASE InFlight(rotation[r]) /\ <<rotation[r].client, rotation[r].host>> \notin {<<c, h>>, <<h, c>>}
    <3>1. Calm(rotation[r].client, rotation[r].host)
      BY <1>7, <1>8, <2>2
    <3>2. rotation'[r].client = rotation[r].client /\ rotation'[r].host = rotation[r].host
          /\ (rotation'[r].orphan => rotation[r].orphan)
      BY <1>7, <2>2
    <3>3. Turned(r)
      BY DEF Tokens
    <3>4. <<rotation[r].client, rotation[r].host>> \in doubt => <<rotation[r].client, rotation[r].host>> \in doubt'
      BY <1>7, <1>11, <2>2
    <3> QED
      BY <1>7, <2>2, <3>1, <3>2, <3>3, <3>4, TurnedCalm
  <2>3. CASE ~InFlight(rotation[r])
    BY <1>7, <2>3 DEF Turned, Halfway, InFlight, Waiting
  <2> QED
    BY <2>1, <2>2, <2>3
<1>13. Linkless'
  <2> SUFFICES ASSUME NEW p \in Peers, NEW q \in Peers, known'[p][q] = NoToken
               PROVE  connection'[p][q].status = "none"
    BY DEF Linkless, Linked
  <2>1. <<p, q>> # <<c, h>>
    BY <1>5, TokenAssumption
  <2> QED
    BY <1>6, <2>1 DEF Tokens, Linkless, Linked
<1>14. ASSUME NEW p \in Peers, NEW q \in Peers
       PROVE  <<p, q>> \notin doubt' /\ ~Amid(p, q)' => Agree(p, q)'
  <2>1. ASSUME Calm(p, q), <<p, q>> # <<c, h>>, <<p, q>> # <<h, c>> \/ o = NoToken
        PROVE  <<p, q>> \notin doubt' /\ ~Amid(p, q)' => Agree(p, q)'
    <3>1. \A y \in Ceremonies : Accepted(y) /\ y # x => ceremony'[y] = ceremony[y] /\ Accepted(y)'
      BY <1>1 DEF Accepted
    <3>2. \A r \in Rotations : Halfway(r) => InFlight(rotation[r])
      BY DEF Halfway, Waiting, InFlight
    <3>3. \A r \in Rotations : Halfway(r) =>
            Halfway(r)' /\ rotation'[r].client = rotation[r].client /\ rotation'[r].host = rotation[r].host
      BY <1>7, <3>2
    <3>4. Amid(p, q) => Amid(p, q)'
      BY <2>1, <3>1, <3>3, AmidStays
    <3>5. <<p, q>> \in doubt => <<p, q>> \in doubt'
      BY <1>3, <2>1 DEF BothWays
    <3> QED
      BY <2>1, <3>4, <3>5, AgreeCalm DEF Tokens
  <2>2. CASE ~ceremony[x].alone /\ <<p, q>> \in {<<c, h>>, <<h, c>>}
    BY <1>1, <1>3, <2>2, Beside
  <2>3. CASE ceremony[x].alone /\ <<p, q>> = <<c, h>>
    <3>1. paired[h][c] \in {Issued(x), NoToken}
      BY <1>1, <2>3 DEF Tokens, Given
    <3>2. paired'[h][c] = paired[h][c]
      BY <1>2, <1>4
    <3> QED
      BY <1>5, <2>3, <3>1, <3>2 DEF Agree
  <2>4. CASE ceremony[x].alone /\ <<p, q>> = <<h, c>> /\ o # NoToken
    <3>1. known[h][c] \in {o, NoToken} /\ (Linked(h, c) => connection[h][c].token = o)
      BY <1>1, <2>4 DEF Tokens, Given
    <3>2. known'[h][c] = known[h][c] /\ connection'[h][c] = connection[h][c] /\ paired'[c][h] = o
      BY <1>2, <1>4, <1>6, <2>4
    <3> QED
      BY <2>4, <3>1, <3>2 DEF Agree, Linked
  <2>5. CASE <<p, q>> = <<h, c>> /\ o = NoToken
    BY <1>2, <1>9, <2>1, <2>5
  <2>6. CASE <<p, q>> \notin {<<c, h>>, <<h, c>>}
    BY <1>8, <2>1, <2>6
  <2> QED
    BY <2>2, <2>3, <2>4, <2>5, <2>6
<1> QED
  BY <1>10, <1>12, <1>13, <1>14 DEF Tokens, Agreeing

\* A rotation beside another one of the same client and host is in doubt; a ceremony that is alone
\* is beside neither.
LEMMA Turning ==
  ASSUME TypeOK, Book, NEW r \in Rotations, InFlight(rotation[r])
  PROVE  /\ rotation[r].client \in Peers /\ rotation[r].host \in Peers
         /\ \A y \in Ceremonies : InFlight(ceremony[y]) /\ ceremony[y].alone =>
              /\ <<ceremony[y].client, ceremony[y].host>> # <<rotation[r].client, rotation[r].host>>
              /\ <<ceremony[y].host, ceremony[y].client>> # <<rotation[r].client, rotation[r].host>>
         /\ \A s \in Rotations \ {r} :
              /\ InFlight(rotation[s])
              /\ <<rotation[s].client, rotation[s].host>> = <<rotation[r].client, rotation[r].host>>
              => <<rotation[r].client, rotation[r].host>> \in doubt
         /\ ~rotation[r].waiting => <<rotation[r].client, rotation[r].host>> \in doubt
<1>1. rotation[r].client \in Peers /\ rotation[r].host \in Peers
  BY UsedCalls DEF InFlight, RotateCall
<1>2. ASSUME NEW y \in Ceremonies, InFlight(ceremony[y]), ceremony[y].alone
      PROVE  /\ <<ceremony[y].client, ceremony[y].host>> # <<rotation[r].client, rotation[r].host>>
             /\ <<ceremony[y].host, ceremony[y].client>> # <<rotation[r].client, rotation[r].host>>
  <2>1. ~Between(rotation[r], ceremony[y].client, ceremony[y].host)
    BY <1>2 DEF Book, Sole
  <2> QED
    BY <2>1, Ends DEF InFlight
<1> QED
  BY <1>1, <1>2 DEF Book, Doubted

\* What a rotation that changes a token does to everything else.
LEMMA TokensTurned ==
  ASSUME TypeOK, Book, Tokens, NEW r \in Rotations,
         InFlight(rotation[r]),
         UNCHANGED <<ceremony, doubt>>,
         \A s \in Rotations \ {r} : rotation'[s] = rotation[s],
         \A p, q \in Peers : <<p, q>> # <<rotation[r].client, rotation[r].host>> =>
           paired'[q][p] = paired[q][p] /\ known'[p][q] = known[p][q] /\ connection'[p][q] = connection[p][q],
         connection'[rotation[r].client][rotation[r].host].status
           = connection[rotation[r].client][rotation[r].host].status,
         known'[rotation[r].client][rotation[r].host] = NoToken
           <=> known[rotation[r].client][rotation[r].host] = NoToken,
         Turned(r)',
         \A p, q \in Peers : /\ <<p, q>> = <<rotation[r].client, rotation[r].host>>
                             /\ <<p, q>> \notin doubt' /\ ~Amid(p, q)'
                             => Agree(p, q)'
  PROVE  Tokens'
<1> DEFINE c == rotation[r].client
           h == rotation[r].host
<1>1. c \in Peers /\ h \in Peers
  BY Turning
<1>2. \A p, q \in Peers : <<p, q>> # <<c, h>> => Calm(p, q)
  BY DEF Calm, Linked, Tokens, Linkless
<1>3. ASSUME NEW y \in Ceremonies PROVE Given(y)'
  <2>1. Accepted(y) => InFlight(ceremony[y]) /\ ceremony[y].at # "unused"
    BY DEF Accepted, Waiting, InFlight
  <2>2. Accepted(y) => ceremony[y].client \in Peers /\ ceremony[y].host \in Peers
    BY <2>1, UsedCalls DEF PairCall
  <2>3. Accepted(y) /\ ceremony[y].alone =>
          Calm(ceremony[y].host, ceremony[y].client) /\ Calm(ceremony[y].client, ceremony[y].host)
    <3>1. InFlight(ceremony[y]) /\ ceremony[y].alone =>
            <<ceremony[y].client, ceremony[y].host>> # <<c, h>> /\ <<ceremony[y].host, ceremony[y].client>> # <<c, h>>
      BY Turning
    <3> QED
      BY <1>2, <2>1, <2>2, <3>1
  <2> QED
    BY <2>3, GivenCalm DEF Tokens, Accepted
<1>4. ASSUME NEW s \in Rotations PROVE Turned(s)'
  <2>1. CASE s = r
    BY <2>1
  <2>2. CASE s # r /\ InFlight(rotation[s]) /\ <<rotation[s].client, rotation[s].host>> = <<c, h>>
    <3>1. <<c, h>> \in doubt'
      BY <2>2, Turning
    <3>2. Waiting(rotation[s]) /\ ~rotation[s].orphan => Linked(rotation[s].client, rotation[s].host)
      BY DEF Tokens, Turned
    <3> QED
      BY <2>2, <3>1, <3>2 DEF Turned, Linked
  <2>3. CASE s # r /\ InFlight(rotation[s]) /\ <<rotation[s].client, rotation[s].host>> # <<c, h>>
    <3>1. rotation[s].client \in Peers /\ rotation[s].host \in Peers
      BY <2>3, Turning
    <3>2. Calm(rotation[s].client, rotation[s].host)
      BY <1>2, <2>3, <3>1
    <3>3. rotation'[s] = rotation[s] /\ Turned(s)
      BY <2>3 DEF Tokens
    <3>4. Waiting(rotation[s]) /\ ~rotation[s].orphan =>
            connection'[rotation[s].client][rotation[s].host].status # "none"
      BY <2>3, <3>1, <3>3 DEF Turned, Linked
    <3>5. Halfway(s)' <=> Halfway(s)
      BY <3>3 DEF Halfway
    <3> QED
      BY <2>3, <3>2, <3>3, <3>4, <3>5, TurnedCalm
  <2>4. CASE s # r /\ ~InFlight(rotation[s])
    BY <2>4 DEF Turned, Halfway, InFlight, Waiting
  <2> QED
    BY <2>1, <2>2, <2>3, <2>4
<1>5. Linkless'
  <2> SUFFICES ASSUME NEW p \in Peers, NEW q \in Peers, known'[p][q] = NoToken
               PROVE  connection'[p][q].status = "none"
    BY DEF Linkless, Linked
  <2>1. known[p][q] = NoToken /\ connection'[p][q].status = connection[p][q].status
    OBVIOUS
  <2> QED
    BY <2>1 DEF Tokens, Linkless, Linked
<1>6. ASSUME NEW p \in Peers, NEW q \in Peers
      PROVE  <<p, q>> \notin doubt' /\ ~Amid(p, q)' => Agree(p, q)'
  <2>1. CASE <<p, q>> = <<c, h>>
    BY <2>1
  <2>2. CASE <<p, q>> # <<c, h>>
    <3>1. \A y \in Ceremonies : Accepted(y) => Accepted(y)'
      BY DEF Accepted
    <3>2. \A s \in Rotations \ {r} : Halfway(s) => Halfway(s)'
      BY DEF Halfway
    <3>3. Amid(p, q) => Amid(p, q)'
      BY <2>2, <3>1, <3>2, AmidStays
    <3> QED
      BY <1>2, <2>2, <3>3, AgreeCalm DEF Tokens
  <2> QED
    BY <2>1, <2>2
<1> QED
  BY <1>3, <1>4, <1>5, <1>6 DEF Tokens, Agreeing

\* rotatePairedToken() of a device that is there: its client waits, or is in doubt.
LEMMA TokensRotated ==
  ASSUME TypeOK, Book, Tokens, NEW r \in Rotations, rotatePairedToken(r),
         paired[rotation[r].host][rotation[r].client] # NoToken
  PROVE  Tokens'
<1> DEFINE c == rotation[r].client
           h == rotation[r].host
<1>1. /\ InFlight(rotation[r]) /\ rotation'[r].client = c /\ rotation'[r].host = h
      /\ rotation'[r].orphan = rotation[r].orphan /\ rotation'[r].at = "rotated"
      /\ rotation'[r].waiting = rotation[r].waiting /\ rotation[r].at = "authorized"
      /\ \A s \in Rotations \ {r} : rotation'[s] = rotation[s]
  BY RotateMoves DEF rotatePairedToken
<1>2. c \in Peers /\ h \in Peers
  BY <1>1, Turning
<1>3. UNCHANGED <<known, connection, ceremony, doubt>> /\ paired' = [paired EXCEPT ![h][c] = Rotated(r)]
  BY DEF rotatePairedToken
<1>4. paired'[h][c] = Rotated(r) /\ \A p, q \in Peers : <<p, q>> # <<c, h>> => paired'[q][p] = paired[q][p]
  <2>1. paired \in [Peers -> [Peers -> Token]]
    BY DEF TypeOK
  <2>2. /\ paired'[h][c] = Rotated(r)
        /\ \A q, p \in Peers : <<q, p>> # <<h, c>> => paired'[q][p] = paired[q][p]
    BY <1>2, <1>3, <2>1, Entries
  <2> QED
    BY <2>2
<1>5. Turned(r)'
  <2>1. Waiting(rotation'[r]) => Waiting(rotation[r])
    BY <1>1 DEF Waiting
  <2>2. Waiting(rotation[r]) /\ ~rotation[r].orphan => Linked(c, h)
    BY DEF Tokens, Turned
  <2>3. rotation[r].orphan /\ <<c, h>> \notin doubt => known[c][h] = NoToken
    BY <1>1 DEF Tokens, Turned
  <2> QED
    BY <1>1, <1>3, <1>4, <2>1, <2>2, <2>3 DEF Turned, Linked
<1>6. ASSUME NEW p \in Peers, NEW q \in Peers, <<p, q>> = <<c, h>>
      PROVE  <<p, q>> \in doubt' \/ Amid(p, q)'
  <2>1. rotation[r].waiting => Halfway(r)'
    BY <1>1 DEF Halfway, Waiting
  <2>2. ~rotation[r].waiting => <<c, h>> \in doubt'
    BY <1>1, <1>3, Turning
  <2> QED
    BY <1>1, <1>6, <2>1, <2>2 DEF Amid
<1> QED
  BY <1>1, <1>3, <1>4, <1>5, <1>6, TokensTurned

\* The answer to a rotation: unless the two are in doubt the host has the new token, or none.
LEMMA TokensTaken ==
  ASSUME TypeOK, Book, Tokens, NEW r \in Rotations, RotateAnswered(r), rotation[r].at = "rotated"
  PROVE  Tokens'
<1> DEFINE c == rotation[r].client
           h == rotation[r].host
<1>1. /\ InFlight(rotation[r]) /\ Halfway(r) /\ Waiting(rotation[r])
      /\ rotation'[r].at = "rotated" /\ rotation'[r].waiting = FALSE
      /\ \A s \in Rotations \ {r} : rotation'[s] = rotation[s]
  BY RotateMoves DEF RotateAnswered, Halfway
<1>2. c \in Peers /\ h \in Peers
  BY <1>1, Turning
<1>3. /\ UNCHANGED <<paired, ceremony, doubt>>
      /\ known' = IF known[c][h] # NoToken THEN [known EXCEPT ![c][h] = Rotated(r)] ELSE known
      /\ IF rotation[r].orphan THEN connection' = connection
         ELSE connection' = [connection EXCEPT ![c][h] = [connection[c][h] EXCEPT !.token = Rotated(r)]]
  BY DEF RotateAnswered
<1>4. /\ known[c][h] = NoToken => known'[c][h] = NoToken
      /\ known[c][h] # NoToken => known'[c][h] = Rotated(r)
      /\ \A p, q \in Peers : <<p, q>> # <<c, h>> => known'[p][q] = known[p][q]
  BY <1>2, <1>3 DEF TypeOK
<1>5. known'[c][h] = NoToken <=> known[c][h] = NoToken
  BY <1>4, TokenAssumption
<1>6. connection[c][h] \in Connection
  BY <1>2 DEF TypeOK
<1>7. /\ connection'[c][h].status = connection[c][h].status
      /\ ~rotation[r].orphan => connection'[c][h].token = Rotated(r)
      /\ \A p, q \in Peers : <<p, q>> # <<c, h>> => connection'[p][q] = connection[p][q]
  <2>1. CASE rotation[r].orphan
    BY <1>3, <2>1
  <2>2. CASE ~rotation[r].orphan
    <3>0. connection' = [connection EXCEPT ![c][h] = [connection[c][h] EXCEPT !.token = Rotated(r)]]
      BY <1>3, <2>2
    <3>1. connection'[c][h] = [connection[c][h] EXCEPT !.token = Rotated(r)]
      <4> DEFINE v == [connection[c][h] EXCEPT !.token = Rotated(r)]
      <4>1. connection' = [connection EXCEPT ![c][h] = v]
        BY <3>0
      <4> HIDE DEF v
      <4>2. connection'[c][h] = v
        BY <1>2, <4>1 DEF TypeOK
      <4> QED
        BY <4>2 DEF v
    <3>2. connection'[c][h].status = connection[c][h].status /\ connection'[c][h].token = Rotated(r)
      BY <1>6, <3>1 DEF Connection
    <3>3. \A p, q \in Peers : <<p, q>> # <<c, h>> => connection'[p][q] = connection[p][q]
      BY <1>2, <3>0 DEF TypeOK
    <3> QED
      BY <3>2, <3>3
  <2> QED
    BY <2>1, <2>2
<1>8. Turned(r)'
  BY <1>1 DEF Turned, Halfway, Waiting, InFlight
<1>9. ASSUME NEW p \in Peers, NEW q \in Peers, <<p, q>> = <<c, h>>, <<p, q>> \notin doubt'
      PROVE  Agree(p, q)'
  <2> SUFFICES ASSUME known'[c][h] # NoToken, paired'[h][c] # NoToken
               PROVE  /\ known'[c][h] = paired'[h][c]
                      /\ connection'[c][h].status # "none" => connection'[c][h].token = known'[c][h]
    BY <1>9 DEF Agree, Linked
  <2>1. paired[h][c] \in {Rotated(r), NoToken}
    BY <1>1, <1>3, <1>9 DEF Tokens, Turned
  <2>2. ~rotation[r].orphan
    BY <1>1, <1>3, <1>5, <1>9 DEF Tokens, Turned
  <2> QED
    BY <1>3, <1>4, <1>7, <2>1, <2>2
<1> QED
  BY <1>1, <1>3, <1>4, <1>5, <1>7, <1>8, <1>9, TokensTurned

\* No step breaks the invariant on the tokens.
LEMMA TokensStep ==
  ASSUME TypeOK, Book, Tokens, [Next]_vars
  PROVE  Tokens'
<1>1. CASE UNCHANGED vars
  BY <1>1 DEF vars, Tokens, Given, Turned, Linkless, Agreeing, Agree, Amid, Accepted, Halfway, Linked
<1>2. ASSUME NEW x \in Ceremonies, handlePair(x) \/ PairAnswered(x) \/ PairLost(x) PROVE Tokens'
  <2>1. CASE handlePair(x)
    BY <2>1, TokensAccepted, QuietPair, TokensQuiet
  <2>2. CASE PairAnswered(x)
    <3>1. ceremony[x].at \in {"accepted", "refused"}
      BY <2>2 DEF PairAnswered
    <3> QED
      BY <2>2, <3>1, TokensPaired, QuietPair, TokensQuiet
  <2>3. CASE PairLost(x)
    BY <2>3, QuietPair, TokensQuiet
  <2> QED
    BY <1>2, <2>1, <2>2, <2>3
<1>3. ASSUME NEW r \in Rotations, Authenticate(r) \/ rotatePairedToken(r) \/ RotateAnswered(r) \/ RotateLost(r)
      PROVE  Tokens'
  <2>1. CASE Authenticate(r) \/ RotateLost(r)
    BY <2>1, QuietRotation, TokensQuiet
  <2>2. CASE rotatePairedToken(r)
    BY <2>2, TokensRotated, QuietRotation, TokensQuiet
  <2>3. CASE RotateAnswered(r)
    BY <2>3, TokensTaken, QuietRotation, TokensQuiet
  <2> QED
    BY <1>3, <2>1, <2>2, <2>3
<1>4. ASSUME NEW p \in Peers, NEW h \in Peers,
             (\E x \in Ceremonies : pair(x, p, h)) \/ (\E r \in Rotations : rotateToken(r, p, h))
      PROVE  Tokens'
  BY <1>4, QuietBegins, TokensQuiet
<1>5. ASSUME NEW p \in Peers, NEW h \in Peers,
             OpensStream(p, h) \/ connect(p, h) \/ disconnect(p, h) \/ revokePaired(h, p) \/ forget(p, h)
      PROVE  Tokens'
  BY <1>5, QuietConnections, QuietRevoke, QuietForget, TokensQuiet
<1>6. ASSUME NEW p \in Peers, regenerateCode(p) \/ restart(p) PROVE Tokens'
  BY <1>6, QuietRevoke, QuietRestart, TokensQuiet
<1> QED
  BY <1>1, <1>2, <1>3, <1>4, <1>5, <1>6 DEF Next

\* At the start no token is stored and nothing is under way.
LEMMA AgreementInit == Init => AgreementInv
<1> SUFFICES ASSUME Init PROVE AgreementInv
  OBVIOUS
<1>1. /\ \A x \in Ceremonies : ceremony[x].at = "unused"
      /\ \A r \in Rotations : rotation[r].at = "unused"
  BY DEF Init, Unused
<1>2. Book
  BY <1>1 DEF Book, Sole, Doubted, InFlight
<1>3. \A p, h \in Peers : known[p][h] = NoToken /\ connection[p][h].status = "none"
  BY DEF Init, NoConnection
<1>4. Tokens
  BY <1>1, <1>3 DEF Tokens, Given, Turned, Accepted, Halfway, Waiting, InFlight, Linkless, Linked, Agreeing, Agree
<1> QED
  BY <1>2, <1>4, InitType DEF AgreementInv

\* Two ends with nothing under way between them are not amid an exchange.
LEMMA AgreementFollows == AgreementInv => Agreement
<1> SUFFICES ASSUME AgreementInv, NEW p \in Peers, NEW h \in Peers, <<p, h>> \notin doubt, ~Busy(p, h)
             PROVE  Agree(p, h)
  BY DEF Agreement, Agree
<1>1. ~Amid(p, h)
  <2>1. ASSUME NEW x \in Ceremonies, Accepted(x), \/ ceremony[x].client = p /\ ceremony[x].host = h
                                                  \/ ceremony[x].client = h /\ ceremony[x].host = p
        PROVE  FALSE
    <3>1. InFlight(ceremony[x]) /\ ceremony[x].at # "unused"
      BY <2>1 DEF Accepted, Waiting, InFlight
    <3> QED
      BY <2>1, <3>1, Ends DEF Busy
  <2>2. ASSUME NEW r \in Rotations, Halfway(r), rotation[r].client = p, rotation[r].host = h
        PROVE  FALSE
    <3>1. InFlight(rotation[r]) /\ rotation[r].at # "unused"
      BY <2>2 DEF Halfway, Waiting, InFlight
    <3> QED
      BY <2>2, <3>1, Ends DEF Busy
  <2> QED
    BY <2>1, <2>2 DEF Amid
<1> QED
  BY <1>1 DEF AgreementInv, Tokens, Agreeing

\* peer-service.ts and peer-server.ts: with nothing under way between a client and a host, and their last
\* exchange neither cut short nor overlapped, the token the client stores, the one its connection uses and
\* the one the host accepts are the same.
THEOREM BothEndsAgree == Spec => []Agreement
<1>1. Init => AgreementInv
  BY AgreementInit
<1>2. AgreementInv /\ [Next]_vars => AgreementInv'
  BY TypeStep, BookStep, TokensStep DEF AgreementInv
<1>3. AgreementInv => Agreement
  BY AgreementFollows
<1> QED
  BY <1>1, <1>2, <1>3, PTL DEF Spec

=============================================================================
