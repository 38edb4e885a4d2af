------------------------ MODULE PeerConnectionProofs ------------------------
(***************************************************************************)
(* Proofs about PeerConnection, for any number of requests, repositories,  *)
(* addresses and relay routes.                                             *)
(***************************************************************************)
EXTENDS PeerConnection, TLAPS

USE NoneAssumption, NoAddrAssumption, NoRelayAssumption, BackoffAssumption,
    StraysAssumption

\* The first backoff is one of the backoffs.
LEMMA BackoffMinInRange == BackoffMin \in BackoffMin .. BackoffMax
  OBVIOUS

\* What the requests look like after closeStream() and after one of them is
\* over: still requests.
LEMMA ClosedType ==
  ASSUME TypeOK
  PROVE  Closed \in [Reqs -> Request]
  BY DEF TypeOK, Closed, Blank, Request, Phase, Dialing, PhaseOf

\* A request that has ended keeps its type.
LEMMA FinishedType ==
  ASSUME TypeOK, NEW r \in Reqs
  PROVE  Finished(r) \in [Reqs -> Request]
  BY DEF TypeOK, Finished, Blank, Request, Phase, Dialing

\* openStream() keeps every field it writes in its domain.
LEMMA OpenStreamType ==
  ASSUME TypeOK, NEW r \in Reqs, NEW before \in [Reqs -> Request], NEW once \in BOOLEAN,
         addr' \in Addrs \cup {NoAddr}, subs' \in SUBSET Repos,
         OpenStream(r, before, once)
  PROVE  /\ stream' \in Reqs /\ via' \in {"direct", "relay"} /\ status' \in Status
         /\ reqs' \in [Reqs -> Request]
  BY DEF TypeOK, OpenStream, Blank, Request, Phase, Dialing, Status

\* Scheduling a retry keeps every field it writes in its domain.
LEMMA RescheduleType ==
  ASSUME TypeOK, Reschedule
  PROVE  /\ status' \in Status /\ timer' \in BOOLEAN /\ strays' \in 0 .. MaxStrays
         /\ backoff' \in BackoffMin .. BackoffMax /\ directFailedOnce' \in BOOLEAN
<1>1. timer' \in BOOLEAN /\ strays' \in 0 .. MaxStrays
  BY DEF TypeOK, Reschedule, ArmTimer
<1>2. backoff' \in BackoffMin .. BackoffMax
  BY DEF TypeOK, Reschedule
<1>3. status' \in Status /\ directFailedOnce' \in BOOLEAN
  BY DEF TypeOK, Reschedule, Status
<1>4. QED
  BY <1>1, <1>2, <1>3

\* streamFailed() keeps every field it writes in its domain.
LEMMA StreamFailedType ==
  ASSUME TypeOK, NEW r \in Reqs, StreamFailed(r)
  PROVE  /\ stream' \in Reqs \cup {None} /\ status' \in Status
         /\ timer' \in BOOLEAN /\ strays' \in 0 .. MaxStrays
         /\ backoff' \in BackoffMin .. BackoffMax
         /\ directFailedOnce' \in BOOLEAN /\ reqs' \in [Reqs -> Request]
         /\ misattributed' \in BOOLEAN /\ via' = via
<1>1. reqs' \in [Reqs -> Request]
  BY FinishedType DEF StreamFailed
<1>2. stream' \in Reqs \cup {None} /\ misattributed' \in BOOLEAN /\ via' = via
  BY DEF StreamFailed
<1>3. CASE UNCHANGED <<status, retry>>
  BY <1>1, <1>2, <1>3 DEF TypeOK, retry
<1>4. CASE Reschedule
  BY <1>1, <1>2, <1>4, RescheduleType
<1>5. QED
  BY <1>3, <1>4 DEF StreamFailed

-----------------------------------------------------------------------------
(* Type correctness: one step per action.                                  *)

\* Every action preserves the types.
LEMMA TypeStep == TypeOK /\ [Next]_vars => TypeOK'
<1> SUFFICES ASSUME TypeOK, [Next]_vars
             PROVE  TypeOK'
  OBVIOUS
<1> USE DEF user, endpoint, retry, world
<1>1. CASE connect
  <2>1. stream' \in Reqs \cup {None} /\ status' \in Status
        /\ via' \in {"direct", "relay"} /\ reqs' \in [Reqs -> Request]
    BY <1>1, OpenStreamType DEF connect, TypeOK
  <2>2. QED
    BY <1>1, <2>1 DEF connect, TypeOK
<1>2. CASE disconnect
  BY <1>2, ClosedType DEF disconnect, TypeOK, Status
<1>3. ASSUME NEW a \in Addrs \cup {addr}, NEW rl \in Relays \cup {relay}, updateEndpoint(a, rl)
      PROVE  TypeOK'
  <2>1. addr' \in Addrs \cup {NoAddr} /\ relay' \in Relays \cup {NoRelay} /\ subs' \in SUBSET Repos
    BY <1>3 DEF updateEndpoint, TypeOK
  <2>2. stream' \in Reqs \cup {None} /\ status' \in Status
        /\ via' \in {"direct", "relay"} /\ reqs' \in [Reqs -> Request]
    <3>1. CASE \E r \in Reqs : OpenStream(r, Closed, directFailedOnce)
      BY <2>1, <3>1, OpenStreamType, ClosedType DEF TypeOK
    <3>2. CASE UNCHANGED <<stream, status, via, reqs>>
      BY <3>2 DEF TypeOK
    <3>3. QED
      BY <1>3, <3>1, <3>2 DEF updateEndpoint
  <2>3. QED
    BY <1>3, <2>1, <2>2, BackoffMinInRange DEF updateEndpoint, TypeOK
<1>4. ASSUME NEW S \in SUBSET Repos, setSubscriptions(S)
      PROVE  TypeOK'
  <2>1. stream' \in Reqs \cup {None} /\ status' \in Status
        /\ via' \in {"direct", "relay"} /\ reqs' \in [Reqs -> Request]
    BY <1>4, OpenStreamType, ClosedType DEF setSubscriptions, TypeOK
  <2>2. QED
    BY <1>4, <2>1 DEF setSubscriptions, TypeOK
<1>5. CASE RpcUnauthorized
  BY <1>5 DEF RpcUnauthorized, TypeOK, Status
<1>6. ASSUME NEW kind \in ErrorKind, RpcTlsError(kind)
      PROVE  TypeOK'
  BY <1>6 DEF RpcTlsError, TypeOK, Status
<1>22. ASSUME NEW r \in Reqs, DialSpliced(r)
       PROVE  TypeOK'
  <2>1. reqs' \in [Reqs -> Request]
    BY <1>22 DEF DialSpliced, TypeOK, Blank, Request, Phase, Dialing
  <2>2. QED
    BY <1>22, <2>1 DEF DialSpliced, TypeOK
<1>7. ASSUME NEW r \in Reqs, DialSucceeds(r)
      PROVE  TypeOK'
  <2>1. reqs' \in [Reqs -> Request]
    BY <1>7, FinishedType DEF DialSucceeds, TypeOK, Request, Phase, Dialing
  <2>2. QED
    BY <1>7, <2>1 DEF DialSucceeds, TypeOK
<1>8. ASSUME NEW r \in Reqs, NEW kind \in ErrorKind, DialFails(r, kind)
      PROVE  TypeOK'
  <2>1. CASE stream # r
    BY <1>8, <2>1, FinishedType DEF DialFails, TypeOK
  <2>2. CASE TlsFailed(r)
    BY <1>8, <2>2, FinishedType DEF DialFails, TlsFailed, TypeOK, Status
  <2>3. CASE StreamFailed(r)
    BY <1>8, <2>3, StreamFailedType DEF DialFails, TypeOK
  <2>4. QED
    BY <1>8, <2>1, <2>2, <2>3 DEF DialFails
<1>9. ASSUME NEW r \in Reqs, Answered200(r)
      PROVE  TypeOK'
  <2>1. reqs' \in [Reqs -> Request]
    BY <1>9 DEF Answered200, TypeOK, Request, Phase, Dialing
  <2>2. QED
    BY <1>9, <2>1, BackoffMinInRange DEF Answered200, TypeOK, Status
<1>10. ASSUME NEW r \in Reqs, Answered401(r)
       PROVE  TypeOK'
  <2>1. reqs' \in [Reqs -> Request]
    BY <1>10, ClosedType DEF Answered401, Blank, Request, Phase, Dialing
  <2>2. QED
    BY <1>10, <2>1 DEF Answered401, TypeOK, Status
<1>11. ASSUME NEW r \in Reqs, AnsweredOther(r)
       PROVE  TypeOK'
  BY <1>11, StreamFailedType DEF AnsweredOther, TypeOK
<1>12. ASSUME NEW r \in Reqs, NEW kind \in ErrorKind, RequestFails(r, kind)
       PROVE  TypeOK'
  <2>1. CASE TlsFailed(r)
    BY <1>12, <2>1, FinishedType DEF RequestFails, TlsFailed, TypeOK, Status
  <2>2. CASE StreamFailed(r)
    BY <1>12, <2>2, StreamFailedType DEF RequestFails, TypeOK
  <2>3. QED
    BY <1>12, <2>1, <2>2 DEF RequestFails
<1>13. ASSUME NEW r \in Reqs, StreamEnds(r)
       PROVE  TypeOK'
  BY <1>13, StreamFailedType DEF StreamEnds, TypeOK
<1>14. ASSUME NEW r \in Reqs, LateError(r)
       PROVE  TypeOK'
  BY <1>14, StreamFailedType DEF LateError, TypeOK
<1>15. ASSUME RetryFires, UNCHANGED <<user, endpoint>>, strays' \in 0 .. MaxStrays
       PROVE  TypeOK'
  <2>1. stream' \in Reqs \cup {None} /\ status' \in Status
        /\ via' \in {"direct", "relay"} /\ reqs' \in [Reqs -> Request]
    BY <1>15, OpenStreamType DEF RetryFires, TypeOK
  <2>2. QED
    BY <1>15, <2>1 DEF RetryFires, TypeOK
<1>16. CASE RetryTimerFires
  BY <1>15, <1>16 DEF RetryTimerFires, TypeOK
<1>17. CASE StrayTimerFires
  <2>1. strays' \in 0 .. MaxStrays
    BY <1>17 DEF StrayTimerFires, TypeOK
  <2>2. QED
    BY <1>15, <1>17, <2>1 DEF StrayTimerFires
<1>18. CASE afterConnected
  BY <1>18 DEF afterConnected, TypeOK
<1>19. CASE HostReplaced
  BY <1>19 DEF HostReplaced, TypeOK
<1>20. CASE UNCHANGED vars
  BY <1>20 DEF vars, TypeOK
<1>21. QED
  BY <1>1, <1>2, <1>3, <1>4, <1>5, <1>6, <1>7, <1>8, <1>9, <1>10, <1>11, <1>12,
     <1>13, <1>14, <1>16, <1>17, <1>18, <1>19, <1>20, <1>22
     DEF Next, OwnerNext, CallbackNext

\* The initial state is well typed.
LEMMA InitType == Init => TypeOK
<1>1. ASSUME Init PROVE reqs \in [Reqs -> Request]
  BY <1>1 DEF Init, Blank, Request, Phase, Dialing
<1>2. 0 \in 0 .. MaxStrays
  OBVIOUS
<1>3. QED
  BY <1>1, <1>2, BackoffMinInRange DEF Init, TypeOK, Status

\* Every field of the connection stays in its domain, whatever the order of
\* user calls, callbacks and timers.
THEOREM TypeCorrect == Spec => []TypeOK
  BY InitType, TypeStep, PTL DEF Spec

-----------------------------------------------------------------------------
(* The safety invariants.  They are inductive together: that a stream is   *)
(* never lost (NeverGivesUp) rests on there being one stream (OneStream),  *)
(* so that no callback but the stream's own can clear the field, and that  *)
(* in turn on the field never holding a destroyed request (StreamIsCurrent).*)

\* Every action preserves the safety invariants together.
LEMMA SafeStep == TypeOK /\ Safe /\ [Next]_vars => Safe'
<1> SUFFICES ASSUME TypeOK, Safe, [Next]_vars
             PROVE  Safe'
  OBVIOUS
<1> USE DEF user, endpoint, retry, world, Safe, IdleWhenUnwanted, DialIsRelay,
            StreamIsCurrent, OneStream, NeverGivesUp, StatusIsBacked, Open, PhaseOf, Dialing
<1>1. CASE connect
  BY <1>1 DEF connect, TypeOK, OpenStream, Blank
<1>2. CASE disconnect
  BY <1>2 DEF disconnect, TypeOK, Closed, Blank
<1>3. ASSUME NEW a \in Addrs \cup {addr}, NEW rl \in Relays \cup {relay}, updateEndpoint(a, rl)
      PROVE  Safe'
  BY <1>3 DEF updateEndpoint, TypeOK, OpenStream, Blank, Closed
<1>4. ASSUME NEW S \in SUBSET Repos, setSubscriptions(S)
      PROVE  Safe'
  BY <1>4 DEF setSubscriptions, TypeOK, OpenStream, Blank, Closed
<1>5. CASE RpcUnauthorized
  BY <1>5 DEF RpcUnauthorized, TypeOK
<1>6. ASSUME NEW kind \in ErrorKind, RpcTlsError(kind)
      PROVE  Safe'
  BY <1>6 DEF RpcTlsError, TypeOK
<1>19. ASSUME NEW r \in Reqs, DialSpliced(r)
       PROVE  Safe'
  BY <1>19 DEF DialSpliced, TypeOK, Blank
<1>7. ASSUME NEW r \in Reqs, DialSucceeds(r)
      PROVE  Safe'
  BY <1>7 DEF DialSucceeds, TypeOK, Finished, Blank
<1>8. ASSUME NEW r \in Reqs, PhaseOf(r) # "free", StreamFailed(r), UNCHANGED <<user, endpoint>>
      PROVE  Safe'
  BY <1>8 DEF StreamFailed, Reschedule, ArmTimer, TypeOK, Finished, Blank
<1>9. ASSUME NEW r \in Reqs, PhaseOf(r) # "free", TlsFailed(r), UNCHANGED <<user, endpoint>>
      PROVE  Safe'
  BY <1>9 DEF TlsFailed, TypeOK, Finished, Blank
<1>10. ASSUME NEW r \in Reqs, NEW kind \in ErrorKind, DialFails(r, kind)
       PROVE  Safe'
  <2>1. CASE stream # r
    BY <1>10, <2>1 DEF DialFails, TypeOK, Finished, Blank
  <2>2. CASE stream = r
    BY <1>8, <1>9, <1>10, <2>2 DEF DialFails
  <2>3. QED
    BY <2>1, <2>2
<1>11. ASSUME NEW r \in Reqs, Answered200(r)
       PROVE  Safe'
  BY <1>11 DEF Answered200, TypeOK
<1>12. ASSUME NEW r \in Reqs, Answered401(r)
       PROVE  Safe'
  BY <1>12 DEF Answered401, TypeOK, Closed, Blank
<1>13. ASSUME NEW r \in Reqs,
              \/ AnsweredOther(r) \/ StreamEnds(r) \/ LateError(r)
              \/ \E kind \in ErrorKind : RequestFails(r, kind)
       PROVE  Safe'
  BY <1>8, <1>9, <1>13 DEF AnsweredOther, StreamEnds, LateError, RequestFails
<1>14. CASE RetryTimerFires
  BY <1>14 DEF RetryTimerFires, RetryFires, OpenStream, TypeOK, Blank
<1>15. CASE StrayTimerFires
  BY <1>15 DEF StrayTimerFires, RetryFires, OpenStream, TypeOK, Blank
<1>16. CASE afterConnected \/ HostReplaced
  BY <1>16 DEF afterConnected, HostReplaced, TypeOK
<1>17. CASE UNCHANGED vars
  BY <1>17 DEF vars
<1>18. QED
  BY <1>1, <1>2, <1>3, <1>4, <1>5, <1>6, <1>7, <1>10, <1>11, <1>12, <1>13, <1>14,
     <1>15, <1>16, <1>17, <1>19
     DEF Next, OwnerNext, CallbackNext

\* They hold initially.
LEMMA SafeInit == Init => Safe
<1>1. Init => IdleWhenUnwanted /\ DialIsRelay /\ StreamIsCurrent /\ NeverGivesUp /\ StatusIsBacked
  BY DEF Init, IdleWhenUnwanted, DialIsRelay, StreamIsCurrent, NeverGivesUp, StatusIsBacked
<1>2. Init => OneStream
  BY DEF Init, OneStream, Open, PhaseOf, Blank
<1>3. QED
  BY <1>1, <1>2 DEF Safe

\* They hold in every reachable state.
LEMMA Invariance == Spec => []Safe
<1>1. Init => TypeOK /\ Safe
  BY InitType, SafeInit
<1>2. TypeOK /\ Safe /\ [Next]_vars => TypeOK' /\ Safe'
  BY TypeStep, SafeStep
<1>3. QED
  BY <1>1, <1>2, PTL DEF Spec

\* After disconnect() nothing of the connection is left that could reopen it.
THEOREM Disconnects == Spec => []IdleWhenUnwanted
<1>1. Safe => IdleWhenUnwanted
  BY DEF Safe
<1>2. QED
  BY <1>1, Invariance, PTL

\* The stream held is open, and open for the current repositories and address.
THEOREM HoldsCurrentStream == Spec => []StreamIsCurrent
<1>1. Safe => StreamIsCurrent
  BY DEF Safe
<1>2. QED
  BY <1>1, Invariance, PTL

\* Only a misattributed callback can lead to two streams or a lost timer.
THEOREM HoldsOneStream == Spec => []OneStream
<1>1. Safe => OneStream
  BY DEF Safe
<1>2. QED
  BY <1>1, Invariance, PTL

\* Only a misattributed callback can make a wanted connection give up silently.
THEOREM KeepsTrying == Spec => []NeverGivesUp
<1>1. Safe => NeverGivesUp
  BY DEF Safe
<1>2. QED
  BY <1>1, Invariance, PTL

\* Only a misattributed callback can make the status lie about the stream.
THEOREM ReportsStream == Spec => []StatusIsBacked
<1>1. Safe => StatusIsBacked
  BY DEF Safe
<1>2. QED
  BY <1>1, Invariance, PTL

=============================================================================
