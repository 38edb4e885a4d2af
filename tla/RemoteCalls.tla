------------------------------ MODULE RemoteCalls ------------------------------
(***************************************************************************)
(* Calls on a repository of another machine: the proxy of a remote tab          *)
(* (createRemoteRepoProxy, PeerConnection.rpc in src/main/peer-client.ts) and   *)
(* what the host admits (PeerServer.handle and handleRpc in peer-server.ts, the  *)
(* paired devices of peer-store.ts), while the owner of the host changes what    *)
(* the device may do.                                                       *)
(*                                                                         *)
(* One device and one repository. A request holds the very record that the      *)
(* store keeps for the device, so a later change of that record is seen by it;   *)
(* pairing again makes another record. Left out: methods of the host itself,     *)
(* the forge (PullRequests), results, arguments but for what is forced, and       *)
(* what becomes of the token (Credentials).                                  *)
(***************************************************************************)
EXTENDS Integers

CONSTANTS Ids,          \* bound: calls under way
          READ_METHODS, WRITE_METHODS, Others,   \* Others: names in neither
          Denied,       \* writes refused by the policy of a daemon
          MaxChanges,   \* bound: what the owner and the device change
          MaxCalls,     \* bound: calls in all
          None

VARIABLES readOnly,    \* the switch of the whole host
          records,     \* the device records there have been: [readOnly, scopes]
          current,     \* the one in the store, None when the device is not paired
          expired,     \* its token has expired
          shared,      \* the repository is on the allow-list
          held,        \* history: the device is read-only by choice of the owner, or as a phone
          rpcs,        \* the calls: method, force, record of the device, stage and answer
          changes, calls

vars == <<readOnly, records, current, expired, shared, held, rpcs, changes, calls>>

Methods == READ_METHODS \cup WRITE_METHODS \cup Others
methodAccess(m) ==
  CASE m \in READ_METHODS -> "read" [] m \in WRITE_METHODS -> "write" [] OTHER -> "denied"
\* Writes a read-only device may run nevertheless; the switch of the host is above that.
scoped(d, m) == d.readOnly /\ ~readOnly /\ m \in d.scopes
Admitted(d, m) ==
  /\ methodAccess(m) # "denied"
  /\ methodAccess(m) = "write" => ~readOnly /\ (d.readOnly => scoped(d, m)) /\ m \notin Denied

Live(i) == rpcs[i] # None
At(i, stage) == Live(i) /\ rpcs[i].stage = stage
Device(i) == records[rpcs[i].of]
Answered(i, a) == [rpcs EXCEPT ![i].stage = "answered", ![i].answer = a]
host == <<readOnly, records, current, expired, shared, held, changes>>

-----------------------------------------------------------------------------
(* The device *)

\* A method of the proxy is a call of rpc, with the token of the device.
rpc(i, m, f) ==
  /\ ~Live(i) /\ calls < MaxCalls
  /\ calls' = calls + 1
  /\ rpcs' = [rpcs EXCEPT ![i] = [method |-> m, force |-> f, of |-> 0, barred |-> {},
                                  stage |-> "sent", answer |-> None]]
  /\ UNCHANGED host
\* The result reaches the tab, or the time is up or the network gone: what runs goes on running.
Told(i) ==
  /\ Live(i) /\ rpcs[i].answer # "nobody"
  /\ rpcs' = [rpcs EXCEPT ![i] = IF @.stage = "running" THEN [@ EXCEPT !.answer = "nobody"] ELSE None]
  /\ UNCHANGED <<host, calls>>

-----------------------------------------------------------------------------
(* The host *)

\* What does not let the device run this write: the host, or the owner's choice for the device.
Bars(ro, h, d, m) == {why \in {"host", "owner"} : /\ m \in WRITE_METHODS
                                                /\ IF why = "host" THEN ro ELSE h /\ m \notin d.scopes}

\* handle: the token must be that of a paired device, and valid; then the body is awaited.
handle(i) ==
  /\ At(i, "sent")
  /\ rpcs' = IF current = None \/ expired THEN Answered(i, "unauthorized")
             ELSE [rpcs EXCEPT ![i].stage = "received", ![i].of = current,
                               ![i].barred = Bars(readOnly, held, records[current],
                                                     rpcs[i].method)]
  /\ UNCHANGED <<host, calls>>
\* handleRpc, up to its await; the arguments of a scoped write are made safe.
handleRpc(i) ==
  /\ At(i, "received")
  /\ rpcs' = IF ~Admitted(Device(i), rpcs[i].method) THEN Answered(i, "refused")
             ELSE [rpcs EXCEPT ![i].stage = "resolving",
                               ![i].force = @ /\ ~scoped(Device(i), rpcs[i].method)]
  /\ UNCHANGED <<host, calls>>
resolveRepo(i) ==
  /\ At(i, "resolving")
  /\ rpcs' = IF shared THEN [rpcs EXCEPT ![i].stage = "running"] ELSE Answered(i, "refused")
  /\ UNCHANGED <<host, calls>>
\* The method ends, or its minute is over, which answers but does not stop it.
Ends(i) ==
  /\ At(i, "running")
  /\ rpcs' = IF rpcs[i].answer = "nobody" THEN [rpcs EXCEPT ![i] = None] ELSE Answered(i, "ended")
  /\ UNCHANGED <<host, calls>>
withTimeout(i) ==
  /\ At(i, "running") /\ rpcs[i].answer = None
  /\ rpcs' = [rpcs EXCEPT ![i].answer = "failed"]
  /\ UNCHANGED <<host, calls>>

-----------------------------------------------------------------------------
(* The store, by the owner of the host and by pairing *)

\* Mutant: the device is what it asks to be, whatever the owner chose.
AsItAsks(prev, ro) == ro
Kept(prev, ro) == IF prev = None THEN ro ELSE records[prev].readOnly
\* Pairing, again or for the first time: a phone (ro) is read-only unless the owner chose otherwise.
addPaired(ro) ==
  /\ records' = [records EXCEPT ![changes'] = [readOnly |-> Kept(current, ro), scopes |-> {}]]
  /\ current' = changes'
  /\ expired' = FALSE
  /\ held' = IF current = None THEN ro ELSE held
  /\ UNCHANGED <<readOnly, shared>>
setPairedReadOnly(v) ==
  /\ current # None
  /\ records' = [records EXCEPT ![current].readOnly = v]
  /\ held' = v
  /\ UNCHANGED <<readOnly, current, expired, shared>>
setPairedScopes(s) ==
  /\ current # None
  /\ records' = [records EXCEPT ![current].scopes = s]
  /\ UNCHANGED <<readOnly, current, expired, shared, held>>
revokePaired ==
  /\ current # None
  /\ current' = None
  /\ held' = FALSE
  /\ UNCHANGED <<readOnly, records, expired, shared>>
setServer ==
  /\ readOnly' = ~readOnly
  /\ UNCHANGED <<records, current, expired, shared, held>>
\* The token of the device expires; the repository's tab is closed and its project forgotten.
Expire ==
  /\ current # None /\ ~expired
  /\ expired' = TRUE
  /\ UNCHANGED <<readOnly, records, current, shared, held>>
Unshare ==
  /\ shared' = ~shared
  /\ UNCHANGED <<readOnly, records, current, expired, held>>

\* A request stays barred as long as what barred it stands.
Owner ==
  /\ changes < MaxChanges
  /\ changes' = changes + 1
  /\ \/ \E v \in BOOLEAN : addPaired(v) \/ setPairedReadOnly(v)
     \/ \E s \in SUBSET WRITE_METHODS : setPairedScopes(s)
     \/ revokePaired \/ setServer \/ Expire \/ Unshare
  /\ rpcs' = [i \in Ids |-> IF Live(i) THEN [rpcs[i] EXCEPT !.barred =
                               @ \cap Bars(readOnly', held', records'[rpcs[i].of], rpcs[i].method)]
                            ELSE None]
  /\ UNCHANGED calls

-----------------------------------------------------------------------------
Init ==
  /\ readOnly \in BOOLEAN
  /\ records = [n \in 0..MaxChanges |-> [readOnly |-> FALSE, scopes |-> {}]]
  /\ current = None /\ expired = FALSE /\ shared = TRUE /\ held = FALSE
  /\ rpcs = [i \in Ids |-> None]
  /\ changes = 0 /\ calls = 0

Next ==
  \/ \E i \in Ids : \/ \E m \in Methods, f \in BOOLEAN : rpc(i, m, f)
                    \/ Told(i) \/ handle(i) \/ handleRpc(i) \/ resolveRepo(i) \/ Ends(i)
                    \/ withTimeout(i)
  \/ Owner

Spec == Init /\ [][Next]_vars

-----------------------------------------------------------------------------
\* A write that arrived while the host, or its owner for this device, did not allow it does not run
\* as long as that stands: although the device pairs again, which gives it another record, and
\* requests hold the record they came with (peer-store.ts:149-168, peer-server.ts:339-353).
OwnersChoiceHolds ==
  \A i \in Ids : Live(i) /\ rpcs[i].barred # {} => rpcs[i].stage \notin {"resolving", "running"}
\* Refuted (peer-server.ts:342 "The host-wide switch always wins."): a write whose repository is
\* being looked up when the host is made read-only runs afterwards.
HostSwitchWins ==
  [][\A i \in Ids : At(i, "resolving") /\ At(i, "running")' /\ rpcs[i].method \in WRITE_METHODS
                      => ~readOnly]_vars

(* Why it holds *)

\* A call of the device, as the host keeps it.
Requests ==
  [method : Methods, force : BOOLEAN, of : 0..MaxChanges, barred : SUBSET {"host", "owner"},
   stage : {"sent", "received", "resolving", "running", "answered"},
   answer : {None, "nobody", "unauthorized", "refused", "ended", "failed"}]
\* The record that the store has says what the owner chose. A request that is barred is barred by what
\* stands and was not let past the check; one barred by the owner came with a record that says so.
Inv ==
  /\ readOnly \in BOOLEAN /\ held \in BOOLEAN /\ changes \in 0..MaxChanges
  /\ records \in [0..MaxChanges -> [readOnly : BOOLEAN, scopes : SUBSET WRITE_METHODS]]
  /\ current \in 1..changes \cup {None}
  /\ rpcs \in [Ids -> Requests \cup {None}]
  /\ current # None /\ held => records[current].readOnly
  /\ \A i \in Ids : Live(i) =>
       /\ rpcs[i].of <= changes
       /\ rpcs[i].barred \subseteq Bars(readOnly, held, Device(i), rpcs[i].method)
       /\ "owner" \in rpcs[i].barred => Device(i).readOnly
       /\ rpcs[i].barred # {} => rpcs[i].stage \in {"received", "answered"}
================================================================================
