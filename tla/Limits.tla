--------------------------------- MODULE Limits ---------------------------------
(***************************************************************************)
(* What a host does at most so often, by the clock: PushNotifier               *)
(* (src/main/peer-push.ts), which tells a phone of changes, and                *)
(* PairRateLimiter (packages/peer-protocol/src/index.ts) with the pairing        *)
(* requests of PeerServer.handlePair that it admits.                          *)
(*                                                                         *)
(* One device, one repository and one kind of event: the notifier keeps these    *)
(* apart. Times are whole units. A timer fires when it is due or later, as other  *)
(* callbacks let it. Left out: what the notification says, its delivery, and      *)
(* requests that are malformed, which change nothing.                         *)
(***************************************************************************)
EXTENDS Integers, FiniteSets

CONSTANTS DEBOUNCE,                   \* DEBOUNCE_MS
          Subscriptions,              \* push tokens of the device
          WINDOW, LOCKOUT,            \* PAIR_WINDOW_MS, PAIR_LOCKOUT_MS
          LOCKOUT_MAX,                \* PAIR_LOCKOUT_MAX_MS
          MAX_ATTEMPTS,
          MaxRequests,                \* bound: pairing requests under way
          MaxTime,                    \* bound
          None

VARIABLES now,
          enabled,      \* the owner has opted in
          subscriber,   \* the device's push token, None without one
          lastSent,
          timers,       \* the map holds a timer
          due,          \* when its callback runs, None when it has run
          to,           \* whom the callback tells
          untold,       \* history: the oldest event that no notification has followed
          attempts, lockedUntil,    \* of the limiter
          lockout,      \* how long its next lock is; the code counts the locks since the last reset
          requests,     \* requests that passed isLocked and whose body is awaited
          failures      \* history: failures since the last success or new code

push == <<enabled, subscriber, lastSent, timers, due, to, untold>>
pairing == <<attempts, lockedUntil, lockout, requests, failures>>
vars == <<now, enabled, subscriber, lastSent, timers, due, to, untold, attempts, lockedUntil, lockout,
          requests, failures>>

-----------------------------------------------------------------------------
(* PushNotifier *)

fire == lastSent' = now /\ untold' = None
notify ==
  /\ enabled /\ subscriber # None
  /\ IF now - lastSent >= DEBOUNCE THEN fire /\ UNCHANGED <<timers, due, to>>
     ELSE /\ untold' = IF untold = None THEN now ELSE untold
          /\ IF timers THEN UNCHANGED <<timers, due, to>>
             ELSE timers' = TRUE /\ due' = lastSent + DEBOUNCE /\ to' = subscriber
          /\ UNCHANGED lastSent
  /\ UNCHANGED <<now, enabled, subscriber, pairing>>
\* Mutant: the timer that ran stays in the map.
LeavesTheTimer == UNCHANGED timers
TakesTheTimer == timers' = FALSE
Trailing ==
  /\ due # None /\ now >= due
  /\ fire /\ TakesTheTimer
  /\ due' = None /\ to' = None
  /\ UNCHANGED <<now, enabled, subscriber, pairing>>
\* The owner opts in or out; the device subscribes, anew or not at all.
OptIn ==
  /\ enabled' = ~enabled
  /\ UNCHANGED <<now, subscriber, lastSent, timers, due, to, untold, pairing>>
subscribePush(s) ==
  /\ s # subscriber /\ (s # None => enabled)
  /\ subscriber' = s
  /\ UNCHANGED <<now, enabled, lastSent, timers, due, to, untold, pairing>>

-----------------------------------------------------------------------------
(* PairRateLimiter *)

\* A failure is a record of its time, numbered among the failures of one moment.
isLocked == now < lockedUntil
recent(fs) == {x \in fs : now - x.at < WINDOW}
Failure == [at |-> now, nth |-> Cardinality({x \in failures : x.at = now})]
\* Mutant: the window starts with the first failure and is then used up.
FixedWindow == IF \E x \in attempts : now - x.at >= WINDOW THEN {} ELSE attempts
InWindow == recent(attempts)
\* lockoutMs * 2 ** lockouts, or PAIR_LOCKOUT_MAX_MS.
Capped(time) == IF time > LOCKOUT_MAX THEN LOCKOUT_MAX ELSE time

\* A request passes the lock and its body is awaited.
handlePair ==
  /\ ~isLocked /\ requests < MaxRequests
  /\ requests' = requests + 1
  /\ UNCHANGED <<now, push, attempts, lockedUntil, lockout, failures>>
recordFailure ==
  /\ requests > 0
  /\ requests' = requests - 1
  /\ failures' = recent(failures) \cup {Failure}
  /\ IF Cardinality(InWindow) + 1 >= MAX_ATTEMPTS
     THEN /\ lockedUntil' = now + lockout
          /\ lockout' = Capped(2 * lockout)
          /\ attempts' = {}
     ELSE attempts' = InWindow \cup {Failure} /\ UNCHANGED <<lockedUntil, lockout>>
  /\ UNCHANGED <<now, push>>
reset == attempts' = {} /\ lockedUntil' = 0 /\ lockout' = Capped(LOCKOUT) /\ failures' = {}
\* The owner asks for a new code, or a request has the right one, which makes one too.
regenerateCode ==
  /\ requests' \in {requests, requests - 1} \cap Nat
  /\ reset
  /\ UNCHANGED <<now, push>>

-----------------------------------------------------------------------------
Tick == now < MaxTime /\ now' = now + 1 /\ UNCHANGED <<push, pairing>>

Init ==
  /\ now = DEBOUNCE
  /\ enabled = TRUE /\ subscriber = None
  /\ lastSent = 0 /\ timers = FALSE /\ due = None /\ to = None /\ untold = None
  /\ attempts = {} /\ lockedUntil = 0 /\ lockout = Capped(LOCKOUT) /\ requests = 0 /\ failures = {}

Next ==
  \/ notify \/ Trailing \/ OptIn \/ (\E s \in Subscriptions \cup {None} : subscribePush(s))
  \/ handlePair \/ recordFailure \/ regenerateCode
  \/ Tick

Spec == Init /\ [][Next]_vars

-----------------------------------------------------------------------------
\* An event that was not told at once is told within the debounce: a timer is under way that is due by
\* then, whatever events, notifications and late callbacks came between (peer-push.ts:37-55).
NothingIsLeftUntold == untold # None => due # None /\ due <= untold + DEBOUNCE
\* Unless pairing is locked, fewer failures than the limit lie in the last window, also those of
\* requests that passed before a lock and failed during it (index.ts:262-285, peer-server.ts:248-265).
FailuresLockOut == isLocked \/ Cardinality(recent(failures)) < MAX_ATTEMPTS
\* Why nothing is left untold: the map holds a timer only while its callback is to run, and that is
\* within the debounce.
TimersRun ==
  /\ {now, lastSent} \subseteq Int /\ lastSent <= now
  /\ {due, untold} \subseteq Int \cup {None} /\ timers \in BOOLEAN
  /\ timers <=> due # None
  /\ due # None => due <= now + DEBOUNCE
  /\ untold # None => untold <= now /\ due # None /\ due <= untold + DEBOUNCE
\* Why failures lock out: the failures that are not counted are those before a lock that outlasts the
\* window they lie in, and failures of one moment have numbers of their own.
FailuresAreCounted ==
  /\ now \in Int /\ lockedUntil \in Int /\ lockout \in Int /\ lockout >= WINDOW
  /\ IsFiniteSet(failures) /\ attempts \subseteq failures
  /\ \A x \in failures : x = [at |-> x.at, nth |-> x.nth] /\ x.at \in Int /\ x.at <= now
  /\ \A x \in failures : x.at = now => x.nth \in Int /\ x.nth < Cardinality({y \in failures : y.at = now})
  /\ \A x \in failures \ attempts : x.at + WINDOW <= lockedUntil
  /\ Cardinality(attempts) < MAX_ATTEMPTS
\* Refuted (peer-push.ts:35-36 "first event fires immediately, then at most one more per 30 s window"):
\* an event that comes when the timer is due fires at once, and the timer fires after it.
OnePerWindow == [][lastSent' # lastSent \/ (due # None /\ due' = None) => now - lastSent >= DEBOUNCE]_vars
\* Refuted (openspec/changes/peer-platform-roadmap/specs/companion-app/spec.md:10 "Hosts SHALL only
\* send push notifications when the owner opted in"): the timer does not ask again.
OnlyWhenOptedIn == [][due # None /\ due' = None => enabled]_vars
================================================================================
