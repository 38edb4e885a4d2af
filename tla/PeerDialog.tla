------------------------------ MODULE PeerDialog ------------------------------
(***************************************************************************)
(* Where a person pairs machines: the Peers window (PeerModal.tsx), the sharing *)
(* controls of Settings with the QR code for phones (PeersSection), and the   *)
(* snapshot of main's peers both mirror (usePeers.ts).                        *)
(*                                                                         *)
(* The main process publishes what it knows 50 ms after a change, over one      *)
(* ordered channel, `wire`; the window acts on the snapshot it has. React keeps *)
(* the state of a component that stays in its place: PairForm when another    *)
(* nearby machine is picked, PeerDetail when another paired one is.           *)
(* A machine stands for its address, its certificate and its repositories.     *)
(* Left out: how a probe, a pairing or a connection works (PeerConnection,     *)
(* Credentials), the names and kinds of machines, the relay's line, the list  *)
(* of paired devices with its switches, styles and explanations.             *)
(***************************************************************************)
EXTENDS Naturals, Sequences

CONSTANTS Machines, None, MaxCodes, MaxPorts, MaxTurns   \* the last three are bounds

VARIABLES known, near, online,   \* main: paired machines, those discovered, those connected
          serving, code, port,   \* main: the server, its pairing code and its port
          due,                   \* a publication is scheduled
          wire,                  \* snapshots and QR codes on their way to the window
          shown,                 \* the snapshot the window has
          sel,                   \* what is selected in the Peers window
          found,                 \* Connect by address: the machine that answered
          looking,               \* Connect by address: a lookup runs
          form,                  \* PairForm
          detail,                \* PeerDetail
          calls,                 \* what the window has asked and not been told yet
          qr, asks,              \* the QR code shown; how many were asked for
          turns

peers == <<known, near, online>>
server == <<serving, code, port>>
window == <<sel, found, looking, form, detail, calls>>
card == <<qr, asks>>
vars == <<known, near, online, serving, code, port, due, wire, shown, sel, found, looking, form, detail,
          calls, qr, asks, turns>>

Turn == turns < MaxTurns /\ turns' = turns + 1
Closed == [kind |-> "closed", peer |-> None]
Nothing == [kind |-> "none", peer |-> None]
Manual == [kind |-> "manual", peer |-> None]
On(kind, p) == [kind |-> kind, peer |-> p]
Call(what, p) == [what |-> what, peer |-> p, live |-> TRUE]
NoForm == [host |-> None, fp |-> None, probe |-> "none", busy |-> FALSE, error |-> None]
NoDetail == [peer |-> None, repos |-> None, loading |-> FALSE, confirm |-> FALSE]

-----------------------------------------------------------------------------
(* What a change of the selection, of the snapshot or of what was found renders *)

\* A nearby machine that got paired jumps to the paired list.
Jumped(s, snap) == IF s.kind = "discovered" /\ s.peer \in snap.known THEN On("peer", s.peer) ELSE s
FormHost(s, snap, f) ==
  IF s.kind = "discovered" /\ s.peer \in snap.near THEN s.peer
  ELSE IF s.kind = "manual" THEN f ELSE None
FormAfter(s, snap, f) ==
  LET h == FormHost(s, snap, f)
      stays == form.host # None /\ s.kind = sel.kind
  IN IF h = None THEN NoForm
     ELSE IF stays /\ h = form.host THEN form
     ELSE IF stays THEN [form EXCEPT !.host = h, !.probe = "out"]
     ELSE IF s.kind = "manual" THEN [NoForm EXCEPT !.host = h, !.fp = h, !.probe = "given"]
     ELSE [NoForm EXCEPT !.host = h, !.probe = "out"]
Loads(s, snap) ==
  /\ s.kind = "peer" /\ s.peer \in snap.known \cap snap.online
  /\ detail.peer # s.peer \/ s.peer \notin shown.online
DetailAfter(s, snap) ==
  IF s.kind # "peer" \/ s.peer \notin snap.known THEN NoDetail
  ELSE [detail EXCEPT !.peer = s.peer, !.loading = @ \/ Loads(s, snap)]
\* Mutant: the probe of an earlier address is not told apart.
AnyProbe(c, changes) == c
\* The effect's clean-up: the probe of an earlier address, or of a form that is gone, no longer counts.
Outdated(c, changes) == IF c.what = "probe" /\ changes THEN [c EXCEPT !.live = FALSE] ELSE c
CallsAfter(s, snap, f) ==
  LET next == FormAfter(s, snap, f)
      moved == <<s.kind, next.host>> # <<sel.kind, form.host>>
      unmounted(c) == \/ c.what = "pair" /\ (next = NoForm \/ s.kind # sel.kind)
                      \/ c.what = "list" /\ DetailAfter(s, snap) = NoDetail
                      \/ c.what = "lookup" /\ s.kind # "manual"
                      \/ s.kind = "closed"
  IN {IF unmounted(c) THEN [c EXCEPT !.live = FALSE] ELSE Outdated(c, moved) : c \in calls}
       \cup {Call("probe", p) : p \in IF moved /\ next.probe = "out" THEN {next.host} ELSE {}}
       \cup {Call("list", p) : p \in IF Loads(s, snap) THEN {s.peer} ELSE {}}
Render(to, snap, f) ==
  LET s == Jumped(to, snap)
  IN /\ sel' = s /\ found' = f
     /\ form' = FormAfter(s, snap, f) /\ detail' = DetailAfter(s, snap) /\ calls' = CallsAfter(s, snap, f)
     /\ looking' = (looking /\ s.kind = "manual")

-----------------------------------------------------------------------------
(* The main process *)

\* Machines come and go on the network, connect and drop; another machine's
\* pairing may bring its own credentials.
Around ==
  /\ Turn /\ due' = TRUE
  /\ \E p \in Machines :
       \/ /\ near' = (near \ {p}) \cup ({p} \ near) /\ UNCHANGED <<known, online>>
       \/ /\ p \in known /\ online' = (online \ {p}) \cup ({p} \ online) /\ UNCHANGED <<known, near>>
       \/ /\ known' = known \cup {p} /\ known' # known /\ UNCHANGED <<near, online>>
  /\ UNCHANGED <<server, wire, shown, window, card>>
\* regenerateCode: the button, or a device that paired.
regenerateCode ==
  /\ Turn /\ serving /\ code < MaxCodes /\ code' = code + 1 /\ due' = TRUE
  /\ UNCHANGED <<peers, serving, port, wire, shown, window, card>>
\* The switch and the port of the sharing controls; the code stays as it is.
setServer ==
  /\ Turn /\ due' = TRUE
  /\ \/ serving' = ~serving /\ UNCHANGED port
     \/ serving /\ port < MaxPorts /\ port' = port + 1 /\ UNCHANGED serving
  /\ UNCHANGED <<peers, code, wire, shown, window, card>>
Snapshot == [known |-> known, near |-> near, online |-> online, code |-> IF serving THEN code ELSE 0]
schedulePublish ==
  /\ due /\ due' = FALSE /\ wire' = Append(wire, [type |-> "state", state |-> Snapshot])
  /\ UNCHANGED <<peers, server, shown, window, card, turns>>
pairingQr ==
  /\ asks > 0 /\ asks' = asks - 1
  /\ wire' = Append(wire, [type |-> "qr", qr |-> IF serving THEN [code |-> code, port |-> port] ELSE None])
  /\ UNCHANGED <<peers, server, due, shown, window, qr, turns>>

-----------------------------------------------------------------------------
(* The window: what arrives, and the answers to what it asked *)

\* Mutant: the code shown is not asked for again.
AsksOnce(snap) == FALSE
\* A QR code on screen is asked for again when the pairing code changed.
AsksAgain(snap) == qr # None /\ snap.code # shown.code
Arrives ==
  /\ wire # <<>> /\ wire' = Tail(wire)
  /\ LET e == Head(wire)
     IN \/ /\ e.type = "state" /\ shown' = e.state
           /\ asks' = asks + (IF AsksAgain(e.state) THEN 1 ELSE 0)
           /\ Render(sel, e.state, found) /\ UNCHANGED qr
        \/ /\ e.type = "qr" /\ qr' = e.qr
           /\ UNCHANGED <<shown, asks, window>>
  /\ UNCHANGED <<peers, server, due, turns>>
Gone(c) == calls \ {c}
ProbeAnswers(c) ==
  /\ c \in calls /\ c.what = "probe" /\ calls' = Gone(c)
  /\ IF c.live
     THEN form' \in {[form EXCEPT !.fp = c.peer, !.probe = "done"], [form EXCEPT !.probe = "failed"]}
     ELSE UNCHANGED form
  /\ UNCHANGED <<peers, server, due, wire, shown, sel, found, looking, detail, card, turns>>
\* pair: on success the machine is stored and connects.
PairAnswers(c) ==
  /\ c \in calls /\ c.what = "pair" /\ calls' = Gone(c)
  /\ \/ /\ known' = known \cup {c.peer} /\ online' = online \cup {c.peer} /\ due' = TRUE
        /\ form' = IF c.live THEN [form EXCEPT !.busy = FALSE] ELSE form
     \/ /\ form' = IF c.live THEN [form EXCEPT !.busy = FALSE, !.error = c.peer] ELSE form
        /\ UNCHANGED <<known, online, due>>
  /\ UNCHANGED <<near, server, wire, shown, sel, found, looking, detail, card, turns>>
ListAnswers(c) ==
  /\ c \in calls /\ c.what = "list" /\ calls' = Gone(c)
  /\ IF c.live
     THEN \E r \in {c.peer, None} : detail' = [detail EXCEPT !.repos = r, !.loading = FALSE]
     ELSE UNCHANGED detail
  /\ UNCHANGED <<peers, server, due, wire, shown, sel, found, looking, form, card, turns>>
\* lookup: a probe that shows the form.
LookupAnswers(c) ==
  /\ c \in calls /\ c.what = "lookup" /\ calls' = Gone(c)
  /\ IF c.live
     THEN /\ looking' = FALSE
          /\ \E f \in {c.peer, None} : found' = f /\ form' = FormAfter(sel, shown, f)
     ELSE UNCHANGED <<looking, found, form>>
  /\ UNCHANGED <<peers, server, due, wire, shown, sel, detail, card, turns>>
\* lookup of a pasted payload: it carries the certificate and the code, and pairs at once.
pairPayload(c) ==
  /\ c \in calls /\ c.what = "lookup" /\ calls' = Gone(c)
  /\ known' = known \cup {c.peer} /\ online' = online \cup {c.peer} /\ due' = TRUE
  /\ looking' = (looking /\ ~c.live)
  /\ UNCHANGED <<near, server, wire, shown, sel, found, form, detail, card, turns>>
\* forget, then onForgotten: the selection is dropped, whatever it is by then.
ForgetAnswers(c) ==
  /\ c \in calls /\ c.what = "forget"
  /\ known' = known \ {c.peer} /\ online' = online \ {c.peer} /\ due' = TRUE
  /\ IF c.live
     THEN sel' = Nothing /\ form' = NoForm /\ detail' = NoDetail /\ found' = None /\ looking' = FALSE
     ELSE UNCHANGED <<sel, form, detail, found, looking>>
  /\ calls' = {IF c.live /\ d.what # "forget" THEN [d EXCEPT !.live = FALSE] ELSE d : d \in Gone(c)}
  /\ UNCHANGED <<near, server, wire, shown, card, turns>>

-----------------------------------------------------------------------------
(* The window: what the user does *)

Select ==
  /\ Turn
  /\ \/ /\ sel = Closed
        /\ LET first == {On("peer", p) : p \in shown.known}
           IN \E s \in IF first = {} THEN {Nothing} ELSE first : Render(s, shown, None)
     \/ /\ sel # Closed
        /\ \E s \in {On("peer", p) : p \in shown.known} \cup {On("discovered", p) : p \in shown.near \ shown.known}
                      \cup {Manual, Closed} :
             s # sel /\ Render(s, shown, None)
  /\ UNCHANGED <<peers, server, due, wire, shown, card>>
submit ==
  /\ Turn /\ form # NoForm /\ ~form.busy
  /\ form' = [form EXCEPT !.busy = TRUE, !.error = None]
  /\ calls' = calls \cup {Call("pair", form.host)}
  /\ UNCHANGED <<peers, server, due, wire, shown, sel, found, looking, detail, card>>
lookup ==
  /\ Turn /\ sel = Manual /\ ~looking
  /\ looking' = TRUE /\ found' = None /\ form' = NoForm
  /\ \E p \in Machines :
       calls' = {IF c.what = "pair" THEN [c EXCEPT !.live = FALSE] ELSE c : c \in calls} \cup {Call("lookup", p)}
  /\ UNCHANGED <<peers, server, due, wire, shown, sel, detail, card>>
load ==
  /\ Turn /\ detail # NoDetail /\ ~detail.loading /\ detail.peer \in shown.online
  /\ detail' = [detail EXCEPT !.loading = TRUE] /\ calls' = calls \cup {Call("list", detail.peer)}
  /\ UNCHANGED <<peers, server, due, wire, shown, sel, found, looking, form, card>>
Forget ==
  /\ Turn /\ detail # NoDetail
  /\ \/ /\ detail' = [detail EXCEPT !.confirm = ~@] /\ UNCHANGED calls
     \/ /\ detail.confirm /\ calls' = calls \cup {Call("forget", detail.peer)} /\ UNCHANGED detail
  /\ UNCHANGED <<peers, server, due, wire, shown, sel, found, looking, form, card>>
connect ==
  /\ Turn /\ detail # NoDetail /\ detail.peer \in known /\ due' = TRUE
  /\ \/ detail.peer \in shown.online /\ online' = online \ {detail.peer}
     \/ detail.peer \notin shown.online /\ online' \in {online, online \cup {detail.peer}}
  /\ UNCHANGED <<known, near, server, wire, shown, window, card>>
toggleQr ==
  /\ Turn /\ shown.code # 0
  /\ IF qr # None THEN qr' = None /\ UNCHANGED asks ELSE asks' = asks + 1 /\ UNCHANGED qr
  /\ UNCHANGED <<peers, server, due, wire, shown, window>>

Init ==
  /\ known \in SUBSET Machines /\ near \in SUBSET Machines /\ online = known
  /\ serving = TRUE /\ code = 1 /\ port = 1 /\ due = FALSE /\ wire = <<>> /\ shown = Snapshot
  /\ sel = Closed /\ found = None /\ looking = FALSE /\ form = NoForm /\ detail = NoDetail /\ calls = {}
  /\ qr = None /\ asks = 0 /\ turns = 0
\* What the main process does for the dialog.
Answers ==
  \/ regenerateCode \/ setServer \/ pairingQr
  \/ \E c \in calls : ProbeAnswers(c) \/ PairAnswers(c) \/ ListAnswers(c) \/ LookupAnswers(c)
                      \/ pairPayload(c) \/ ForgetAnswers(c)
Next ==
  \/ Around \/ schedulePublish \/ Arrives \/ Answers
  \/ Select \/ submit \/ lookup \/ load \/ Forget \/ connect \/ toggleQr
Spec == Init /\ [][Next]_vars

-----------------------------------------------------------------------------
(* Properties *)

\* Every variable has the values its counterpart in the code can have.
TypeOK ==
  /\ known \subseteq Machines /\ near \subseteq Machines /\ online \subseteq known
  /\ serving \in BOOLEAN /\ code \in 1..MaxCodes /\ port \in 1..MaxPorts /\ due \in BOOLEAN
  /\ sel.kind \in {"closed", "none", "peer", "discovered", "manual"} /\ sel.peer \in Machines \cup {None}
  /\ found \in Machines \cup {None} /\ looking \in BOOLEAN
  /\ form.host \in Machines \cup {None} /\ form.fp \in Machines \cup {None}
  /\ detail.peer \in Machines \cup {None} /\ detail.repos \in Machines \cup {None}
  /\ asks \in Nat /\ turns \in 0..MaxTurns

\* The certificate that PairForm asks the user to compare is of the machine the
\* code will go to, once that machine's probe has answered: the answer of a machine
\* picked before it, or of a slow first probe, never takes its place.
CertificateIsOfTheHost == form.probe \in {"done", "given"} => form.fp = form.host

\* Why it holds: a probe that counts is of the machine of the form, and only a nearby machine's form
\* has one; a lookup that counts is the only one, and runs while the window still shows no machine.
ProbesAreOfTheForm ==
  /\ form = [host |-> form.host, fp |-> form.fp, probe |-> form.probe, busy |-> form.busy, error |-> form.error]
  /\ \A c \in calls : c = [what |-> c.what, peer |-> c.peer, live |-> c.live] /\ c.live \in BOOLEAN
  /\ \A c \in calls : c.what = "probe" /\ c.live = TRUE => c.peer = form.host /\ sel.kind = "discovered"
  /\ \A c, d \in calls : {c.what, d.what} = {"lookup"} /\ c.live = TRUE => looking = TRUE /\ (d.live = TRUE => c = d)
  /\ looking \in BOOLEAN
  /\ looking = TRUE => sel.kind = "manual" /\ found = None
  /\ sel.kind = "manual" => form.host = found
  /\ form.host # None => sel.kind \in {"discovered", "manual"}
  /\ CertificateIsOfTheHost

\* A QR code left on screen while pairing codes rotate ends up carrying the code the
\* server accepts: when nothing is under way, a phone that scans it can pair
\* (PeersSection's effect; the snapshot and the QR code come over the same channel).
QrIsCurrent ==
  due \/ wire # <<>> \/ asks > 0 \/ qr = None \/ (serving /\ qr.code = code)

-----------------------------------------------------------------------------
(* Sentences of the code and its documents that the code does not keep *)

\* peer-sharing/spec.md:21: "it shows the certificate fingerprint it received, which
\* equals the fingerprint the host shows beside its pairing code". Picking another
\* nearby machine keeps the certificate of the one before until (and unless) it answers.
FingerprintEqualsTheHosts == form.fp \in {None, form.host}

\* PeerModal.tsx:370, "Repositories on {peer.name}": PeerDetail keeps the list of the
\* peer selected before, for good if the one selected now is not connected.
ReposAreOfThePeer == detail.repos \in {None, detail.peer}

\* PeerModal.tsx:408-409: "Refetched whenever the code rotates so a stale QR is never
\* shown". A changed port rotates no code, and the QR keeps the old port.
StaleQrIsNeverShown == due \/ wire # <<>> \/ asks > 0 \/ qr = None \/ qr.port = port
=============================================================================
