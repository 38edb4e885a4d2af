-------------------------- MODULE EventStreamsProofs --------------------------
(***************************************************************************)
(* Proofs about EventStreams, for any number of streams, repositories,     *)
(* worktrees and tabs.                                                     *)
(***************************************************************************)
EXTENDS EventStreams, TLAPS

\* A request without a handler, and the watchers of one, are of their types.
LEMMA FreeType == Free \in Handler /\ Unwatched \in [Tabs -> Watcher]
  BY DEF Free, Handler, Unwatched, Watcher

\* Every move of the handler of one request leaves it a handler.
LEMMA StageType ==
  ASSUME NEW h \in Handler
  PROVE  /\ [h EXCEPT !.at = "resolved"] \in Handler
         /\ [h EXCEPT !.at = "serving"] \in Handler
         /\ [h EXCEPT !.up = FALSE] \in Handler
  BY DEF Handler

\* The end of a worktree scan leaves a handler a handler.
LEMMA ScannedType ==
  ASSUME NEW h \in Handler, NEW m
  PROVE  [h EXCEPT !.todo = @ \ {m}] \in Handler
  BY DEF Handler

\* So does a path that is turned down.
LEMMA TurnedDownType ==
  ASSUME NEW h \in Handler, NEW p
  PROVE  [h EXCEPT !.left = @ \ {p}] \in Handler
  BY DEF Handler

\* So does the end of an iteration.
LEMMA NextPathType ==
  ASSUME NEW h \in Handler, NEW p
  PROVE  [h EXCEPT !.at = "looping", !.asking = None, !.left = @ \ {p}] \in Handler
  BY DEF Handler

\* So does what resolveRepo() asks for: a service, or a worktree scan.
LEMMA AsksType ==
  ASSUME NEW h \in Handler, NEW p \in Tabs, NEW S \in SUBSET Shared
  PROVE  /\ [h EXCEPT !.at = "resolved", !.asking = p] \in Handler
         /\ [h EXCEPT !.at = "scanning", !.asking = p, !.todo = S] \in Handler
  BY DEF Handler

\* What resolveRepo() does to the handler.
LEMMA ResolveMoves ==
  ASSUME NEW r \in Streams, NEW p \in Tabs, resolveRepo(r, p)
  PROVE  /\ handler[r].at = "looping" /\ p \in handler[r].left
         /\ \E h \in { [handler[r] EXCEPT !.at = "resolved", !.asking = p],
                       [handler[r] EXCEPT !.left = @ \ {p}],
                       [handler[r] EXCEPT !.at = "scanning", !.asking = p, !.todo = allowed] } :
               handler' = [handler EXCEPT ![r] = h]
  BY DEF resolveRepo

-----------------------------------------------------------------------------
(* Type correctness: one step per action.                                  *)

\* Every action preserves the types.
LEMMA TypeStep == TypeOK /\ [Next]_vars => TypeOK'
<1> SUFFICES ASSUME TypeOK, [Next]_vars
             PROVE  TypeOK'
  OBVIOUS
<1> USE DEF hostVars, clientVars
<1>0. \A r \in Streams : handler[r] \in Handler
  BY DEF TypeOK
<1>15. Scanning \subseteq Streams
  BY DEF Scanning
<1>1. ASSUME NEW r \in Streams, handleEvents(r)
      PROVE  TypeOK'
  <2>1. handler' \in [Streams -> Handler]
    BY <1>1 DEF handleEvents, TypeOK, Handler
  <2>2. QED
    BY <1>1, <2>1 DEF handleEvents, TypeOK
<1>2. ASSUME NEW r \in Streams, NEW p \in Tabs, resolveRepo(r, p)
      PROVE  TypeOK'
  <2>1. handler' \in [Streams -> Handler]
    <3>1. PICK h \in { [handler[r] EXCEPT !.at = "resolved", !.asking = p],
                       [handler[r] EXCEPT !.left = @ \ {p}],
                       [handler[r] EXCEPT !.at = "scanning", !.asking = p, !.todo = allowed] } :
               handler' = [handler EXCEPT ![r] = h]
      BY <1>2, ResolveMoves
    <3>2. allowed \in SUBSET Shared
      BY DEF TypeOK
    <3>3. [handler[r] EXCEPT !.left = @ \ {p}] \in Handler
      BY <1>0, TurnedDownType
    <3>4. /\ [handler[r] EXCEPT !.at = "resolved", !.asking = p] \in Handler
          /\ [handler[r] EXCEPT !.at = "scanning", !.asking = p, !.todo = allowed] \in Handler
      BY <1>0, <3>2, AsksType
    <3>5. QED
      BY <3>1, <3>3, <3>4 DEF TypeOK
  <2>2. QED
    BY <1>2, <2>1, <1>15 DEF resolveRepo, TypeOK
<1>3. ASSUME NEW r \in Streams, NEW m \in Shared, rescanWorktrees(r, m)
      PROVE  TypeOK'
  <2>1. handler' \in [Streams -> Handler]
    BY <1>3, <1>0, ScannedType DEF rescanWorktrees, TypeOK
  <2>2. QED
    BY <1>3, <2>1 DEF rescanWorktrees, TypeOK
<1>4. ASSUME NEW r \in Streams, ScanEnds(r)
      PROVE  TypeOK'
  <2>1. handler' \in [Streams -> Handler]
    BY <1>4, <1>0, StageType, NextPathType DEF ScanEnds, TypeOK
  <2>2. QED
    BY <1>4, <2>1 DEF ScanEnds, TypeOK
<1>14. ASSUME NEW r \in Streams, Listens(r)
       PROVE  TypeOK'
  <2>1. handler' \in [Streams -> Handler]
    BY <1>14, <1>0, StageType DEF Listens, TypeOK
  <2>2. QED
    BY <1>14, <2>1 DEF Listens, TypeOK
<1>5. ASSUME NEW r \in Streams, watchRepo(r)
      PROVE  TypeOK'
  <2>1. handler' \in [Streams -> Handler]
    BY <1>5, <1>0, NextPathType DEF watchRepo, TypeOK
  <2>2. watcher' \in [Streams -> [Tabs -> Watcher]]
    BY <1>5 DEF watchRepo, TypeOK, Watcher
  <2>3. QED
    BY <1>5, <2>1, <2>2 DEF watchRepo, TypeOK
<1>6. ASSUME NEW r \in Streams, ResponseCloses(r)
      PROVE  TypeOK'
  <2>1. handler' \in [Streams -> Handler]
    <3>1. handler' = [handler EXCEPT ![r] = Free]
          \/ handler' = [handler EXCEPT ![r] = [handler[r] EXCEPT !.up = FALSE]]
      BY <1>6 DEF ResponseCloses
    <3>2. QED
      BY <3>1, <1>0, FreeType, StageType DEF TypeOK
  <2>2. watcher' \in [Streams -> [Tabs -> Watcher]]
    <3>1. watcher' = [watcher EXCEPT ![r] = Unwatched] \/ watcher' = watcher
      BY <1>6 DEF ResponseCloses
    <3>2. QED
      BY <3>1, FreeType DEF TypeOK
  <2>3. QED
    BY <1>6, <2>1, <2>2 DEF ResponseCloses, TypeOK
<1>7. ASSUME NEW p \in Tabs, Edit(p)
      PROVE  TypeOK'
  <2>1. watcher' \in [Streams -> [Tabs -> Watcher]]
    BY <1>7 DEF Edit, TypeOK, Watcher
  <2>2. missed' \in [Tabs -> {"no", "unwatched", "dropped"}]
    BY <1>7 DEF Edit, TypeOK
  <2>3. QED
    BY <1>7, <2>1, <2>2 DEF Edit, TypeOK
<1>8. ASSUME NEW r \in Streams, NEW p \in Tabs, TimerFires(r, p) \/ BusyEnds(r, p)
      PROVE  TypeOK'
  <2>1. ASSUME NEW w \in [Tabs -> Watcher]
        PROVE  [w EXCEPT ![p] = "busy"] \in [Tabs -> Watcher]
               /\ [w EXCEPT ![p] = "idle"] \in [Tabs -> Watcher]
    BY DEF Watcher
  <2>2. watcher' \in [Streams -> [Tabs -> Watcher]]
    <3>1. watcher[r] \in [Tabs -> Watcher]
      BY DEF TypeOK
    <3>2. CASE TimerFires(r, p)
      BY <3>1, <3>2, <2>1 DEF TimerFires, TypeOK
    <3>3. CASE BusyEnds(r, p)
      BY <3>1, <3>3, <2>1 DEF BusyEnds, TypeOK
    <3>4. QED
      BY <1>8, <3>2, <3>3
  <2>3. QED
    BY <1>8, <2>2 DEF TimerFires, BusyEnds, TypeOK
<1>9. ASSUME NEW p \in Tabs, onPeerEvent(p) \/ refresh(p)
      PROVE  TypeOK'
  BY <1>9 DEF onPeerEvent, refresh, TypeOK
<1>10. CASE StreamEnds
  <2>1. missed' \in [Tabs -> {"no", "unwatched", "dropped"}]
    BY <1>10 DEF StreamEnds, TypeOK
  <2>2. QED
    BY <1>10, <2>1 DEF StreamEnds, TypeOK
<1>11. CASE Focus \/ ListChanges \/ ScanIsDue
  BY <1>11, <1>15 DEF Focus, ListChanges, ScanIsDue, TypeOK
<1>12. CASE UNCHANGED vars
  <2>1. UNCHANGED <<allowed, owners, scanDue, handler, watcher, current, inbox, due, stale, missed,
                  hindered>>
    BY <1>12 DEF vars
  <2>2. QED
    BY <2>1 DEF TypeOK
<1>13. QED
  BY <1>1, <1>2, <1>3, <1>4, <1>5, <1>6, <1>7, <1>8, <1>9, <1>10, <1>11, <1>12, <1>14
     DEF Next, HandlerNext, UserNext

\* The initial state is well typed.
LEMMA InitType == Init => TypeOK
<1> SUFFICES ASSUME Init PROVE TypeOK
  OBVIOUS
<1>1. handler \in [Streams -> Handler] /\ watcher \in [Streams -> [Tabs -> Watcher]]
  BY FreeType DEF Init
<1>2. QED
  BY <1>1 DEF Init, TypeOK

\* Every variable stays in its domain, in every reachable state.
THEOREM TypeCorrect == Spec => []TypeOK
  BY InitType, TypeStep, PTL DEF Spec

-----------------------------------------------------------------------------
(* Safe: one step per conjunct, and in it one case per action that can     *)
(* disturb the conjunct.                                                   *)

\* A request whose handler is at work may have watchers.
LEMMA WorkingKeepsClean ==
  ASSUME TypeOK, FreeIsEmpty, NEW r \in Streams, NEW h, h.at # "free",
         handler' = [handler EXCEPT ![r] = h],
         \A q \in Streams \ {r} : watcher'[q] = watcher[q]
  PROVE  FreeIsEmpty'
  BY DEF TypeOK, FreeIsEmpty

\* The loop only gets shorter, and asks for what is still left.
LEMMA ShorterKeepsAhead ==
  ASSUME TypeOK, LoopIsAhead, NEW r \in Streams, NEW h,
         handler' = [handler EXCEPT ![r] = h], UNCHANGED watcher,
         h.left \subseteq handler[r].left,
         h.at \in {"scanning", "resolved"} => h.asking \in h.left
  PROVE  LoopIsAhead'
  BY DEF TypeOK, LoopIsAhead, Watching

\* No action leaves anything behind a stream that has ended.
LEMMA CleanStep == TypeOK /\ FreeIsEmpty /\ [Next]_vars => FreeIsEmpty'
<1> SUFFICES ASSUME TypeOK, FreeIsEmpty, [Next]_vars
             PROVE  FreeIsEmpty'
  OBVIOUS
<1> USE DEF hostVars, clientVars
<1>1. ASSUME NEW r \in Streams, handleEvents(r)
      PROVE  FreeIsEmpty'
  BY <1>1 DEF handleEvents, TypeOK, FreeIsEmpty
<1>2. ASSUME NEW r \in Streams, NEW p \in Tabs, resolveRepo(r, p)
      PROVE  FreeIsEmpty'
  <2>1. PICK h : h.at # "free" /\ handler' = [handler EXCEPT ![r] = h]
    BY <1>2 DEF resolveRepo, TypeOK, Handler
  <2>2. QED
    BY <1>2, <2>1, WorkingKeepsClean DEF resolveRepo
<1>3. ASSUME NEW r \in Streams, NEW m \in Shared, rescanWorktrees(r, m)
      PROVE  FreeIsEmpty'
  BY <1>3 DEF rescanWorktrees, TypeOK, Handler, FreeIsEmpty
<1>4. ASSUME NEW r \in Streams, ScanEnds(r) \/ Listens(r)
      PROVE  FreeIsEmpty'
  <2>1. PICK h : h.at # "free" /\ handler' = [handler EXCEPT ![r] = h]
    <3>1. CASE ScanEnds(r)
      BY <3>1 DEF ScanEnds, TypeOK, Handler
    <3>2. CASE Listens(r)
      BY <3>2 DEF Listens, TypeOK, Handler
    <3>3. QED
      BY <1>4, <3>1, <3>2
  <2>2. QED
    BY <1>4, <2>1, WorkingKeepsClean DEF ScanEnds, Listens
<1>5. ASSUME NEW r \in Streams, watchRepo(r)
      PROVE  FreeIsEmpty'
  BY <1>5 DEF watchRepo, TypeOK, Handler, FreeIsEmpty
<1>6. ASSUME NEW r \in Streams, ResponseCloses(r)
      PROVE  FreeIsEmpty'
  <2>1. handler[r].at # "free"
    BY <1>6 DEF ResponseCloses, FreeIsEmpty, Free
  <2>2. QED
    BY <1>6, <2>1 DEF ResponseCloses, TypeOK, Handler, FreeIsEmpty
<1>7. ASSUME NEW p \in Tabs, Edit(p)
      PROVE  FreeIsEmpty'
  <2>1. ASSUME NEW r \in Streams, watcher[r] = Unwatched
        PROVE  watcher'[r] = Unwatched
    BY <1>7, <2>1 DEF Edit, Unwatched
  <2>2. QED
    BY <1>7, <2>1 DEF Edit, FreeIsEmpty
<1>8. ASSUME NEW r \in Streams, NEW p \in Tabs, TimerFires(r, p) \/ BusyEnds(r, p)
      PROVE  FreeIsEmpty'
  <2>1. watcher[r] # Unwatched
    BY <1>8 DEF TimerFires, BusyEnds, Unwatched
  <2>2. QED
    BY <1>8, <2>1 DEF TimerFires, BusyEnds, TypeOK, FreeIsEmpty
<1>9. CASE UNCHANGED <<handler, watcher>>
  BY <1>9 DEF FreeIsEmpty
<1>10. ASSUME NEW p \in Tabs, onPeerEvent(p) \/ refresh(p)
       PROVE  UNCHANGED <<handler, watcher>>
  BY <1>10 DEF onPeerEvent, refresh
<1>11. ASSUME Focus \/ StreamEnds \/ ListChanges \/ ScanIsDue
       PROVE  UNCHANGED <<handler, watcher>>
  BY <1>11 DEF Focus, StreamEnds, ListChanges, ScanIsDue
<1>13. ASSUME UNCHANGED vars
       PROVE  UNCHANGED <<handler, watcher>>
  BY <1>13 DEF vars
<1>12. QED
  BY <1>1, <1>2, <1>3, <1>4, <1>5, <1>6, <1>7, <1>8, <1>9, <1>10, <1>11, <1>13
     DEF Next, HandlerNext, UserNext

\* The loop is ahead of the watchers.
LEMMA AheadStep ==
  TypeOK /\ FreeIsEmpty /\ LoopIsAhead /\ [Next]_vars => LoopIsAhead'
<1> SUFFICES ASSUME TypeOK, FreeIsEmpty, LoopIsAhead, [Next]_vars
             PROVE  LoopIsAhead'
  OBVIOUS
<1> USE DEF hostVars, clientVars, Watching
<1>1. ASSUME NEW r \in Streams, handleEvents(r)
      PROVE  LoopIsAhead'
  <2>1. watcher[r] = Unwatched
    BY <1>1 DEF handleEvents, FreeIsEmpty, Free
  <2>2. QED
    BY <1>1, <2>1 DEF handleEvents, TypeOK, LoopIsAhead, Unwatched
<1>2. ASSUME NEW r \in Streams, NEW p \in Tabs, resolveRepo(r, p)
      PROVE  LoopIsAhead'
  <2>1. PICK h \in { [handler[r] EXCEPT !.at = "resolved", !.asking = p],
                     [handler[r] EXCEPT !.left = @ \ {p}],
                     [handler[r] EXCEPT !.at = "scanning", !.asking = p, !.todo = allowed] } :
             handler' = [handler EXCEPT ![r] = h]
    BY <1>2, ResolveMoves
  <2>2. handler[r] \in Handler /\ handler[r].at = "looping" /\ p \in handler[r].left
    BY <1>2, ResolveMoves DEF TypeOK
  <2>3. h.left \subseteq handler[r].left
        /\ (h.at \in {"scanning", "resolved"} => h.asking \in h.left)
    BY <2>1, <2>2 DEF Handler
  <2>4. QED
    BY <1>2, <2>1, <2>3, ShorterKeepsAhead DEF resolveRepo
<1>3. ASSUME NEW r \in Streams, NEW m \in Shared, rescanWorktrees(r, m)
      PROVE  LoopIsAhead'
  BY <1>3 DEF rescanWorktrees, TypeOK, Handler, LoopIsAhead
<1>4. ASSUME NEW r \in Streams, ScanEnds(r) \/ Listens(r)
      PROVE  LoopIsAhead'
  <2>1. CASE ScanEnds(r)
    BY <2>1 DEF ScanEnds, TypeOK, Handler, LoopIsAhead
  <2>2. CASE Listens(r)
    BY <2>2 DEF Listens, TypeOK, Handler, LoopIsAhead
  <2>3. QED
    BY <1>4, <2>1, <2>2
<1>5. ASSUME NEW r \in Streams, watchRepo(r)
      PROVE  LoopIsAhead'
  BY <1>5 DEF watchRepo, TypeOK, Handler, LoopIsAhead
<1>6. ASSUME NEW r \in Streams, ResponseCloses(r)
      PROVE  LoopIsAhead'
  <2>1. CASE handler' = [handler EXCEPT ![r] = Free] /\ watcher' = [watcher EXCEPT ![r] = Unwatched]
    BY <2>1 DEF TypeOK, LoopIsAhead, Free
  <2>2. CASE handler' = [handler EXCEPT ![r].up = FALSE] /\ UNCHANGED watcher
    <3>1. handler[r] \in Handler
      BY DEF TypeOK
    <3> DEFINE h == [handler[r] EXCEPT !.up = FALSE]
    <3>2. h.left = handler[r].left /\ h.at = handler[r].at /\ h.asking = handler[r].asking
      BY <3>1 DEF Handler
    <3>3. handler' = [handler EXCEPT ![r] = h]
      BY <2>2
    <3> HIDE DEF h
    <3>4. QED
      BY <2>2, <3>2, <3>3, ShorterKeepsAhead DEF LoopIsAhead
  <2>3. QED
    BY <1>6, <2>1, <2>2 DEF ResponseCloses
<1>7. ASSUME NEW p \in Tabs, Edit(p)
      PROVE  LoopIsAhead'
  BY <1>7 DEF Edit, TypeOK, Handler, LoopIsAhead
<1>8. ASSUME NEW r \in Streams, NEW p \in Tabs, TimerFires(r, p) \/ BusyEnds(r, p)
      PROVE  LoopIsAhead'
  <2>1. \A q \in Streams : \A x \in Tabs : watcher[q][x] = "none" => watcher'[q][x] = "none"
    <3>1. CASE TimerFires(r, p)
      BY <3>1 DEF TimerFires, TypeOK
    <3>2. CASE BusyEnds(r, p)
      BY <3>2 DEF BusyEnds, TypeOK
    <3>3. QED
      BY <1>8, <3>1, <3>2
  <2>2. \A q \in Streams : handler[q].left \subseteq Tabs
    BY DEF TypeOK, Handler
  <2>3. QED
    BY <1>8, <2>1, <2>2 DEF TimerFires, BusyEnds, LoopIsAhead
<1>9. CASE UNCHANGED <<handler, watcher>>
  BY <1>9 DEF LoopIsAhead
<1>10. ASSUME NEW p \in Tabs, onPeerEvent(p) \/ refresh(p)
       PROVE  UNCHANGED <<handler, watcher>>
  BY <1>10 DEF onPeerEvent, refresh
<1>11. ASSUME Focus \/ StreamEnds \/ ListChanges \/ ScanIsDue
       PROVE  UNCHANGED <<handler, watcher>>
  BY <1>11 DEF Focus, StreamEnds, ListChanges, ScanIsDue
<1>13. ASSUME UNCHANGED vars
       PROVE  UNCHANGED <<handler, watcher>>
  BY <1>13 DEF vars
<1>12. QED
  BY <1>1, <1>2, <1>3, <1>4, <1>5, <1>6, <1>7, <1>8, <1>9, <1>10, <1>11, <1>13
     DEF Next, HandlerNext, UserNext

\* Nothing is on its way without a stream.
LEMMA QuietStep == TypeOK /\ NoStreamNoEvents /\ [Next]_vars => NoStreamNoEvents'
<1> SUFFICES ASSUME TypeOK, NoStreamNoEvents, [Next]_vars
             PROVE  NoStreamNoEvents'
  OBVIOUS
<1> USE DEF hostVars, clientVars
<1>1. ASSUME NEW r \in Streams, handleEvents(r) \/ HandlerNext(r)
      PROVE  NoStreamNoEvents'
  BY <1>1 DEF handleEvents, HandlerNext, resolveRepo, rescanWorktrees, ScanEnds, watchRepo,
     Listens, ResponseCloses, NoStreamNoEvents
<1>2. ASSUME NEW r \in Streams, NEW p \in Tabs, TimerFires(r, p) \/ BusyEnds(r, p)
      PROVE  NoStreamNoEvents'
  BY <1>2, FreshAssumption DEF TimerFires, BusyEnds, NoStreamNoEvents
<1>3. ASSUME NEW p \in Tabs, onPeerEvent(p) \/ refresh(p) \/ Edit(p)
      PROVE  NoStreamNoEvents'
  BY <1>3 DEF onPeerEvent, refresh, Edit, NoStreamNoEvents
<1>4. CASE StreamEnds
  BY <1>4 DEF StreamEnds, NoStreamNoEvents
<1>5. CASE Focus \/ ListChanges \/ ScanIsDue
  BY <1>5 DEF Focus, ListChanges, ScanIsDue, NoStreamNoEvents
<1>6. CASE UNCHANGED vars
  BY <1>6 DEF vars, NoStreamNoEvents
<1>7. QED
  BY <1>1, <1>2, <1>3, <1>4, <1>5, <1>6 DEF Next, UserNext

\* Every step that could lose an edit carries it on, or accounts for it.
LEMMA AnnouncedStep ==
  TypeOK /\ Safe /\ [Next]_vars => StaleIsAnnounced'
<1> SUFFICES ASSUME TypeOK, Safe, [Next]_vars
             PROVE  StaleIsAnnounced'
  OBVIOUS
<1> USE DEF hostVars, clientVars, Safe, Watching
<1>1. ASSUME NEW r \in Streams, handleEvents(r)
      PROVE  StaleIsAnnounced'
  BY <1>1 DEF handleEvents, StaleIsAnnounced, NoStreamNoEvents
<1>2. ASSUME NEW r \in Streams, watchRepo(r)
      PROVE  StaleIsAnnounced'
  <2>1. \A q \in Streams : \A p \in Tabs : watcher[q][p] = "armed" => watcher'[q][p] = "armed"
    <3> DEFINE x == handler[r].asking
    <3>1. x \in handler[r].left /\ watcher[r][x] = "none"
      BY <1>2 DEF watchRepo, LoopIsAhead
    <3>2. watcher' = [watcher EXCEPT ![r][x] = "idle"]
      BY <1>2 DEF watchRepo
    <3> HIDE DEF x
    <3>3. QED
      BY <3>1, <3>2 DEF TypeOK
  <2>2. QED
    BY <1>2, <2>1 DEF watchRepo, TypeOK, StaleIsAnnounced
<1>3. ASSUME NEW r \in Streams, ResponseCloses(r)
      PROVE  StaleIsAnnounced'
  <2>1. \A q \in Streams \ {r} : watcher'[q] = watcher[q]
    BY <1>3 DEF ResponseCloses, TypeOK
  <2>2. QED
    BY <1>3, <2>1 DEF ResponseCloses, TypeOK, StaleIsAnnounced
<1>4. ASSUME NEW r \in Streams,
             \/ \E p \in Tabs : resolveRepo(r, p)
             \/ \E m \in Shared : rescanWorktrees(r, m)
             \/ ScanEnds(r) \/ Listens(r)
      PROVE  StaleIsAnnounced'
  BY <1>4 DEF resolveRepo, rescanWorktrees, ScanEnds, Listens, StaleIsAnnounced
<1>5. ASSUME NEW p \in Tabs, Edit(p)
      PROVE  StaleIsAnnounced'
  <2>1. \A q \in Streams : \A x \in Tabs \ {p} : watcher'[q][x] = watcher[q][x]
    BY <1>5 DEF Edit, TypeOK
  <2>2. \A x \in Tabs \ {p} : missed'[x] = missed[x]
    BY <1>5 DEF Edit, TypeOK
  <2>3. ASSUME missed'[p] = "no"
        PROVE  current # None /\ watcher'[current][p] = "armed"
    <3>1. current \in Streams /\ watcher[current][p] \in {"idle", "armed"}
      BY <1>5, <2>3 DEF Edit, TypeOK, Watcher
    <3>2. QED
      BY <1>5, <3>1, FreshAssumption DEF Edit, TypeOK
  <2>4. UNCHANGED <<current, inbox, due>> /\ stale' = stale \cup {p}
    BY <1>5 DEF Edit
  <2>5. ASSUME NEW x \in Tabs, x # p, x \in stale', missed'[x] = "no"
        PROVE  x \in inbox' \cup due' \/ (current' # None /\ watcher'[current'][x] = "armed")
    <3>1. x \in stale /\ missed[x] = "no"
      BY <2>2, <2>4, <2>5
    <3>2. CASE x \in inbox \cup due
      BY <2>4, <3>2
    <3>3. CASE current # None /\ watcher[current][x] = "armed"
      BY <2>1, <2>4, <2>5, <3>3 DEF TypeOK
    <3>4. QED
      BY <3>1, <3>2, <3>3 DEF StaleIsAnnounced
  <2>6. QED
    BY <2>3, <2>4, <2>5 DEF StaleIsAnnounced
<1>6. ASSUME NEW r \in Streams, NEW p \in Tabs, TimerFires(r, p)
      PROVE  StaleIsAnnounced'
  <2>1. \A q \in Streams : \A x \in Tabs : q # r \/ x # p => watcher'[q][x] = watcher[q][x]
    BY <1>6 DEF TimerFires, TypeOK
  <2>2. inbox \subseteq inbox' /\ (r = current => p \in inbox')
        /\ UNCHANGED <<current, due, stale, missed>>
    BY <1>6 DEF TimerFires
  <2>3. QED
    BY <2>1, <2>2 DEF TypeOK, StaleIsAnnounced
<1>7. ASSUME NEW r \in Streams, NEW p \in Tabs, BusyEnds(r, p)
      PROVE  StaleIsAnnounced'
  <2>1. \A q \in Streams : \A x \in Tabs : watcher[q][x] = "armed" => watcher'[q][x] = "armed"
    BY <1>7 DEF BusyEnds, TypeOK
  <2>2. QED
    BY <1>7, <2>1 DEF BusyEnds, TypeOK, StaleIsAnnounced
<1>8. ASSUME NEW p \in Tabs, onPeerEvent(p)
      PROVE  StaleIsAnnounced'
  BY <1>8 DEF onPeerEvent, StaleIsAnnounced
<1>9. ASSUME NEW p \in Tabs, refresh(p)
      PROVE  StaleIsAnnounced'
  <2>1. \A x \in Tabs \ {p} : missed'[x] = missed[x]
    BY <1>9 DEF refresh, TypeOK
  <2>2. QED
    BY <1>9, <2>1 DEF refresh, StaleIsAnnounced
<1>10. CASE Focus
  BY <1>10 DEF Focus, TypeOK, StaleIsAnnounced
<1>11. CASE StreamEnds
  BY <1>11 DEF StreamEnds, StaleIsAnnounced
<1>12. CASE ListChanges \/ ScanIsDue
  BY <1>12 DEF ListChanges, ScanIsDue, StaleIsAnnounced
<1>13. CASE UNCHANGED vars
  BY <1>13 DEF vars, StaleIsAnnounced
<1>14. QED
  BY <1>1, <1>2, <1>3, <1>4, <1>5, <1>6, <1>7, <1>8, <1>9, <1>10, <1>11, <1>12, <1>13
     DEF Next, HandlerNext, UserNext

\* A handler that is not made to scan by a step, and keeps what it has to ask
\* for if it scans, is as far ahead as it was.
LEMMA OthersKeepScans ==
  ASSUME TypeOK, ScanIsAhead, owners \subseteq owners', hindered \subseteq hindered',
         UNCHANGED allowed,
         \A r \in Streams : handler'[r].at = "scanning"
           => handler[r].at = "scanning" /\ handler'[r].todo = handler[r].todo
  PROVE  ScanIsAhead'
  BY DEF ScanIsAhead, Scanning

\* A scan that has not been hindered is ahead of what it will find.
LEMMA ScanStep == TypeOK /\ ScanIsAhead /\ [Next]_vars => ScanIsAhead'
<1> SUFFICES ASSUME TypeOK, ScanIsAhead, [Next]_vars
             PROVE  ScanIsAhead'
  OBVIOUS
<1> USE DEF hostVars, clientVars
<1>1. ASSUME NEW r \in Streams, handleEvents(r)
      PROVE  ScanIsAhead'
  BY <1>1, OthersKeepScans DEF handleEvents, TypeOK
<1>2. ASSUME NEW r \in Streams, NEW p \in Tabs, resolveRepo(r, p)
      PROVE  ScanIsAhead'
  <2>1. handler[r] \in Handler /\ handler[r].at = "looping"
    BY <1>2 DEF resolveRepo, TypeOK
  <2>2. CASE UNCHANGED <<owners, scanDue, hindered>>
             /\ handler' = [handler EXCEPT ![r].at = "resolved", ![r].asking = p]
    BY <1>2, <2>2, OthersKeepScans DEF resolveRepo, TypeOK, Handler
  <2>3. CASE UNCHANGED <<owners, scanDue, hindered>>
             /\ handler' = [handler EXCEPT ![r].left = @ \ {p}]
    BY <1>2, <2>3, <2>1, OthersKeepScans DEF resolveRepo, TypeOK, Handler
  <2>4. CASE /\ handler' = [handler EXCEPT ![r].at = "scanning", ![r].asking = p,
                                            ![r].todo = allowed]
             /\ hindered' = hindered \cup Scanning
    <3>1. handler'[r].todo = allowed /\ UNCHANGED allowed
      BY <1>2, <2>1, <2>4 DEF resolveRepo, TypeOK, Handler
    <3>2. ASSUME NEW q \in Streams, q # r, handler'[q].at = "scanning"
          PROVE  q \in hindered'
      BY <2>4, <3>2 DEF TypeOK, Scanning
    <3>3. QED
      BY <3>1, <3>2 DEF ScanIsAhead, Scanning
  <2>5. QED
    BY <1>2, <2>2, <2>3, <2>4 DEF resolveRepo
<1>3. ASSUME NEW r \in Streams, NEW m \in Shared, rescanWorktrees(r, m)
      PROVE  ScanIsAhead'
  <2>1. /\ handler[r] \in Handler /\ handler[r].at = "scanning" /\ UNCHANGED allowed
        /\ handler' = [handler EXCEPT ![r].todo = @ \ {m}]
    BY <1>3 DEF rescanWorktrees, TypeOK
  <2>2. \A q \in Streams : handler'[q].at = handler[q].at
        /\ handler'[q].todo = IF q = r THEN handler[q].todo \ {m} ELSE handler[q].todo
    BY <2>1 DEF TypeOK, Handler
  <2>3. CASE owners' = owners \cup {w \in Worktrees : OwnerOf[w] = m} /\ UNCHANGED hindered
    BY <2>1, <2>2, <2>3 DEF ScanIsAhead, Scanning
  <2>4. CASE hindered' = hindered \cup {r} /\ UNCHANGED owners
    BY <2>1, <2>2, <2>4 DEF ScanIsAhead, Scanning
  <2>5. QED
    BY <1>3, <2>3, <2>4 DEF rescanWorktrees
<1>4. ASSUME NEW r \in Streams, ScanEnds(r)
      PROVE  ScanIsAhead'
  <2>1. handler'[r].at # "scanning" /\ \A q \in Streams \ {r} : handler'[q] = handler[q]
    BY <1>4 DEF ScanEnds, TypeOK, Handler
  <2>2. QED
    BY <1>4, <2>1 DEF ScanEnds, ScanIsAhead, Scanning
<1>5. ASSUME NEW r \in Streams, watchRepo(r)
      PROVE  ScanIsAhead'
  BY <1>5, OthersKeepScans DEF watchRepo, TypeOK, Handler
<1>6. ASSUME NEW r \in Streams, Listens(r)
      PROVE  ScanIsAhead'
  BY <1>6, OthersKeepScans DEF Listens, TypeOK, Handler
<1>7. ASSUME NEW r \in Streams, ResponseCloses(r)
      PROVE  ScanIsAhead'
  <2>1. \/ handler' = [handler EXCEPT ![r] = Free]
        \/ handler' = [handler EXCEPT ![r].up = FALSE]
    BY <1>7 DEF ResponseCloses
  <2>2. \A q \in Streams : handler'[q].at = "scanning"
          => handler[q].at = "scanning" /\ handler'[q].todo = handler[q].todo
    BY <2>1 DEF TypeOK, Handler, Free
  <2>3. UNCHANGED <<owners, hindered, allowed>>
    BY <1>7 DEF ResponseCloses
  <2>4. QED
    BY <2>2, <2>3, OthersKeepScans
<1>8. CASE ListChanges
  <2>1. UNCHANGED <<handler, owners>>
    BY <1>8 DEF ListChanges
  <2>2. CASE allowed' \subseteq allowed /\ UNCHANGED hindered
    BY <2>1, <2>2 DEF ScanIsAhead, Scanning
  <2>3. CASE hindered' = hindered \cup Scanning
    BY <2>1, <2>3 DEF ScanIsAhead, Scanning
  <2>4. QED
    BY <1>8, <2>2, <2>3 DEF ListChanges
<1>9. CASE UNCHANGED <<handler, owners, allowed, hindered>>
  BY <1>9 DEF ScanIsAhead, Scanning
<1>10. ASSUME NEW p \in Tabs, onPeerEvent(p) \/ refresh(p) \/ Edit(p)
       PROVE  UNCHANGED <<handler, owners, allowed, hindered>>
  BY <1>10 DEF onPeerEvent, refresh, Edit
<1>11. ASSUME NEW r \in Streams, NEW p \in Tabs, TimerFires(r, p) \/ BusyEnds(r, p)
       PROVE  UNCHANGED <<handler, owners, allowed, hindered>>
  BY <1>11 DEF TimerFires, BusyEnds
<1>12. ASSUME Focus \/ StreamEnds \/ ScanIsDue
       PROVE  UNCHANGED <<handler, owners, allowed, hindered>>
  BY <1>12 DEF Focus, StreamEnds, ScanIsDue
<1>13. ASSUME UNCHANGED vars
       PROVE  UNCHANGED <<handler, owners, allowed, hindered>>
  BY <1>13 DEF vars
<1>14. QED
  BY <1>1, <1>2, <1>3, <1>4, <1>5, <1>6, <1>7, <1>8, <1>9, <1>10, <1>11, <1>12, <1>13
     DEF Next, HandlerNext, UserNext

\* The inductive invariant holds initially.
LEMMA SafeInit == Init => Safe
<1> SUFFICES ASSUME Init PROVE Safe
  OBVIOUS
<1>1. FreeIsEmpty /\ StaleIsAnnounced /\ NoStreamNoEvents
  BY DEF Init, FreeIsEmpty, StaleIsAnnounced, NoStreamNoEvents
<1>4. ScanIsAhead
  BY DEF Init, ScanIsAhead, Scanning, Free
<1>2. LoopIsAhead
  BY DEF Init, LoopIsAhead, Free
<1>3. QED
  BY <1>1, <1>2, <1>4 DEF Safe

\* The inductive invariant holds in every reachable state.
LEMMA Invariance == Spec => []Safe
<1>1. Init => TypeOK /\ Safe
  BY InitType, SafeInit
<1>2. TypeOK /\ Safe /\ [Next]_vars => TypeOK' /\ Safe'
  <2>1. TypeOK /\ Safe /\ [Next]_vars
          => FreeIsEmpty' /\ LoopIsAhead' /\ NoStreamNoEvents' /\ ScanIsAhead'
    BY CleanStep, AheadStep, QuietStep, ScanStep DEF Safe
  <2>2. QED
    BY <2>1, TypeStep, AnnouncedStep DEF Safe
<1>3. QED
  BY <1>1, <1>2, PTL DEF Spec

\* The worktree a step turns down after a scan, though its repository is on the
\* list.
TurnedDown(r, w) ==
  /\ handler[r].at = "scanning" /\ handler[r].asking = w
  /\ handler'[r].at = "looping" /\ OwnerOf[w] \in allowed

\* Only ScanEnds() takes a handler from its scan back to its loop.
LEMMA ScanOver ==
  ASSUME TypeOK, [Next]_vars, NEW r \in Streams, NEW w \in Worktrees, TurnedDown(r, w)
  PROVE  ScanEnds(r)
<1> USE DEF hostVars, clientVars, TurnedDown
<1>0. r \in Streams /\ handler[r] \in Handler
  BY DEF TypeOK
<1>1. ASSUME NEW q \in Streams, handleEvents(q)
      PROVE  FALSE
  BY <1>1, <1>0 DEF handleEvents, TypeOK, Free
<1>2. ASSUME NEW q \in Streams, NEW p \in Tabs, resolveRepo(q, p)
      PROVE  FALSE
  <2>1. q # r /\ \E h : handler' = [handler EXCEPT ![q] = h]
    BY <1>2, ResolveMoves
  <2>2. QED
    BY <2>1 DEF TypeOK
<1>3. ASSUME NEW q \in Streams, NEW m \in Shared, rescanWorktrees(q, m)
      PROVE  FALSE
  BY <1>3 DEF rescanWorktrees, TypeOK, Handler
<1>4. ASSUME NEW q \in Streams, ScanEnds(q)
      PROVE  q = r
  BY <1>4 DEF ScanEnds, TypeOK
<1>5. ASSUME NEW q \in Streams, watchRepo(q) \/ Listens(q)
      PROVE  FALSE
  BY <1>5 DEF watchRepo, Listens, TypeOK
<1>6. ASSUME NEW q \in Streams, ResponseCloses(q)
      PROVE  FALSE
  BY <1>6 DEF ResponseCloses, TypeOK, Handler, Free
<1>7. ASSUME UNCHANGED handler
      PROVE  FALSE
  BY <1>7
<1>8. ASSUME NEW p \in Tabs, onPeerEvent(p) \/ refresh(p) \/ Edit(p)
      PROVE  FALSE
  BY <1>8, <1>7 DEF onPeerEvent, refresh, Edit
<1>9. ASSUME NEW q \in Streams, NEW p \in Tabs, TimerFires(q, p) \/ BusyEnds(q, p)
      PROVE  FALSE
  BY <1>9, <1>7 DEF TimerFires, BusyEnds
<1>10. ASSUME Focus \/ StreamEnds \/ ListChanges \/ ScanIsDue \/ UNCHANGED vars
       PROVE  FALSE
  BY <1>10, <1>7 DEF Focus, StreamEnds, ListChanges, ScanIsDue, vars
<1>11. QED
  BY <1>1, <1>2, <1>3, <1>4, <1>5, <1>6, <1>8, <1>9, <1>10 DEF Next, HandlerNext, UserNext

\* The body of ScansFind.
FoundBySteps ==
  \A r \in Streams : \A w \in Worktrees :
    /\ handler[r].at = "scanning" /\ handler[r].asking = w
    /\ handler'[r].at = "looping" /\ OwnerOf[w] \in allowed
    => r \in hindered

\* A scan that has asked every repository has found what it was made for, but
\* for the hindered ones.
LEMMA FindStep == TypeOK /\ Safe /\ [Next]_vars => FoundBySteps
<1> SUFFICES ASSUME TypeOK, Safe, [Next]_vars, NEW r \in Streams, NEW w \in Worktrees,
                    TurnedDown(r, w)
             PROVE  r \in hindered
  BY DEF FoundBySteps, TurnedDown
<1>1. ScanEnds(r)
  BY ScanOver
<1>2. r \in Scanning /\ handler[r].todo = {} /\ handler[r] \in Handler
  BY <1>1 DEF ScanEnds, Scanning, TypeOK
<1>3. ASSUME w \in owners
      PROVE  FALSE
  BY <1>1, <1>2, <1>3 DEF ScanEnds, Served, TurnedDown, TypeOK, Handler
<1>4. QED
  BY <1>2, <1>3 DEF Safe, ScanIsAhead, TurnedDown

\* A worktree of a repository on the list is turned down after a scan only if
\* git failed, a later scan emptied the map, or the list got longer meanwhile,
\* for any streams, repositories and worktrees and any overlap of their scans.
THEOREM ScansFindTheirs == Spec => ScansFind
<1>1. TypeOK /\ Safe /\ [Next]_vars => FoundBySteps
  BY FindStep
<1>2. ScansFind <=> [][FoundBySteps]_vars
  BY PTL DEF ScansFind, FoundBySteps
<1>3. QED
  BY <1>1, <1>2, TypeCorrect, Invariance, PTL DEF Spec

\* A tab that is stale will be told, but for the edits nobody watched and the
\* edits taken for an echo: debouncing and reconnecting lose nothing else.
THEOREM EditsAreAnnounced == Spec => []StaleIsAnnounced
<1>1. Safe => StaleIsAnnounced
  BY DEF Safe
<1>2. QED
  BY <1>1, Invariance, PTL

=============================================================================
