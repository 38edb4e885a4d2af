------------------------------- MODULE Storage --------------------------------
(***************************************************************************)
(* What the peer feature keeps on disk (peer-store.ts) across crashes and failed  *)
(* writes: its identity, the devices paired with it, the peers it knows and   *)
(* its TLS key and certificate.                                             *)
(*                                                                         *)
(* A call changes the memory first and then works through `todo`, its steps on   *)
(* the files. A write opens the file, which empties it, and then fills it; the   *)
(* process may die between any two steps. A step that fails is logged and      *)
(* forgotten, with the rest of its try block. Identities and keys are numbers   *)
(* in the order they are made; an identity file is a pair of them.            *)
(* Left out: the settings, whose file is written as the others are, the names,   *)
(* and every field of a device or a peer but that it is there.               *)
(***************************************************************************)
EXTENDS Naturals, Sequences

CONSTANTS Devices,                   \* the devices and the peers there are
          Absent, Torn,              \* a file that is not there, and one that cannot be parsed
          None,
          MaxTurns, MaxStarts, MaxFaults   \* bounds: calls, starts of the process, failing steps

VARIABLES disk,
          up, peer, relay, paired, known, tls, sealed,  \* the process: `sealed`, whether it can encrypt
          call, todo,                \* the running call and its remaining steps
          made, aged,                \* the last number given out; certificates about to expire
          revoked,                   \* history: devices whose revocation was answered
          void,                      \* history: the last number made before an answered rotation
          failed,                    \* history: the operations that failed
          turns, starts, faults

memory == <<up, peer, relay, paired, known, tls, sealed>>
past == <<revoked, void, failed>>
bounds == <<turns, starts, faults>>
vars == <<disk, memory, call, todo, made, aged, past, bounds>>

FileNames == {"identity", "paired", "known", "key", "cert"}
Open(f) == [op |-> "open", file |-> f]
Fill(f) == [op |-> "fill", file |-> f]
Unlink(f) == [op |-> "unlink", file |-> f]
Load == [op |-> "load", file |-> "cert"]
Write(f) == <<Open(f), Fill(f)>>
WriteTls == <<Open("key"), Fill("key"), Open("cert"), Fill("cert")>>
Readable(f) == disk[f] \notin {Absent, Torn}
Value(f) ==
  CASE f = "identity" -> <<peer, relay>>
    [] f = "paired" -> paired
    [] f = "known" -> [peers |-> known, sealed |-> sealed]
    [] f \in {"key", "cert"} -> tls.key

-----------------------------------------------------------------------------
(* The constructor *)

\* A file written under the other scheme, in clear or encrypted, does not decrypt.
readEncrypted(canSeal) ==
  IF Readable("known") THEN IF disk["known"].sealed = canSeal THEN disk["known"].peers ELSE {} ELSE {}
\* It writes the identity back, the one it read included.
Start ==
  /\ ~up /\ starts < MaxStarts /\ starts' = starts + 1 /\ up' = TRUE
  /\ \E canSeal \in BOOLEAN : sealed' = canSeal /\ known' = readEncrypted(canSeal)
  /\ IF Readable("identity")
     THEN peer' = disk["identity"][1] /\ relay' = disk["identity"][2] /\ UNCHANGED made
     ELSE made' = made + 1 /\ peer' = made' /\ relay' = 0
  /\ paired' = (IF Readable("paired") THEN disk["paired"] ELSE {})
  /\ call' = [name |-> "new", of |-> None, before |-> made] /\ todo' = Write("identity")
  /\ UNCHANGED <<disk, tls, aged, past, turns, faults>>
Crash ==
  /\ up /\ up' = FALSE /\ call' = None /\ todo' = <<>> /\ tls' = None
  /\ peer' = 0 /\ relay' = 0 /\ paired' = {} /\ known' = {} /\ sealed' = FALSE
  /\ UNCHANGED <<disk, made, aged, past, bounds>>

-----------------------------------------------------------------------------
(* The calls *)

CallNames ==
  {"new", "addPaired", "revokePaired", "upsertKnown", "forgetKnown", "getRelayToken", "getTls", "rotateTls"}
Call(name, d) ==
  /\ up /\ call = None /\ turns < MaxTurns /\ turns' = turns + 1
  /\ call' = [name |-> name, of |-> d, before |-> made]
  /\ UNCHANGED <<disk, up, peer, sealed, aged, void, failed, starts, faults>>
addPaired(d) ==
  /\ Call("addPaired", d) /\ paired' = paired \cup {d} /\ todo' = Write("paired")
  /\ revoked' = revoked \ {d} /\ UNCHANGED <<relay, known, tls, made>>
\* Mutant: the file is not written, since the device may pair again.
OnlyInMemory(d) ==
  /\ Call("revokePaired", d) /\ paired' = paired \ {d} /\ todo' = <<>>
  /\ UNCHANGED <<relay, known, tls, made, revoked>>
revokePaired(d) ==
  /\ Call("revokePaired", d) /\ paired' = paired \ {d}
  /\ todo' = (IF d \in paired THEN Write("paired") ELSE <<>>)
  /\ UNCHANGED <<relay, known, tls, made, revoked>>
upsertKnown(d) ==
  /\ Call("upsertKnown", d) /\ known' = known \cup {d} /\ todo' = Write("known")
  /\ UNCHANGED <<relay, paired, tls, made, revoked>>
forgetKnown(d) ==
  /\ Call("forgetKnown", d) /\ known' = known \ {d}
  /\ todo' = (IF d \in known THEN Write("known") ELSE <<>>)
  /\ UNCHANGED <<relay, paired, tls, made, revoked>>
getRelayToken ==
  /\ relay = 0 /\ Call("getRelayToken", None) /\ made' = made + 1 /\ relay' = made'
  /\ todo' = Write("identity") /\ UNCHANGED <<paired, known, tls, revoked>>
getTls ==
  /\ tls = None /\ Call("getTls", None) /\ todo' = <<Load>>
  /\ UNCHANGED <<relay, paired, known, tls, made, revoked>>
\* Mutant: the new pair is written over the old one.
OverwritesThePair ==
  /\ Call("rotateTls", None) /\ made' = made + 1 /\ tls' = [key |-> made', cert |-> made']
  /\ todo' = WriteTls /\ UNCHANGED <<relay, paired, known, revoked>>
rotateTls ==
  /\ Call("rotateTls", None) /\ tls' = None
  /\ todo' = <<Unlink("key"), Unlink("cert"), Load>>
  /\ UNCHANGED <<relay, paired, known, made, revoked>>

-----------------------------------------------------------------------------
(* The steps of a call *)

\* Mutant: both files parse, so the pair is taken.
BothParse(key, cert) == TRUE
\* The certificate is signed with the key, and does not expire within a day.
validateIdentity(key, cert) == key = cert /\ cert \notin aged
LoadTls ==
  /\ IF Readable("key") /\ Readable("cert") /\ validateIdentity(disk["key"], disk["cert"])
     THEN tls' = [key |-> disk["key"], cert |-> disk["cert"]] /\ todo' = Tail(todo) /\ UNCHANGED made
     ELSE /\ made' = made + 1 /\ tls' = [key |-> made', cert |-> made']
          /\ todo' = WriteTls
  /\ UNCHANGED <<disk, failed, faults>>
Works(s) ==
  /\ disk' = [disk EXCEPT ![s.file] =
       CASE s.op = "unlink" -> Absent [] s.op = "open" -> Torn [] s.op = "fill" -> Value(s.file)]
  /\ todo' = Tail(todo) /\ UNCHANGED <<tls, made, failed, faults>>
\* A failed unlink is skipped; a failed write ends its try block, the other file of a pair included.
Fails(s) ==
  /\ faults < MaxFaults /\ faults' = faults + 1 /\ failed' = failed \cup {s.op}
  /\ todo' = (IF s.op = "unlink" THEN Tail(todo) ELSE <<>>) /\ UNCHANGED <<disk, tls, made>>
Step ==
  /\ todo # <<>>
  /\ LET s == Head(todo) IN IF s.op = "load" THEN LoadTls ELSE Works(s) \/ Fails(s)
  /\ UNCHANGED <<up, peer, relay, paired, known, sealed, call, aged, revoked, void, turns, starts>>
Returns ==
  /\ call # None /\ todo = <<>> /\ call' = None
  /\ revoked' = (IF call.name = "revokePaired" THEN revoked \cup {call.of} ELSE revoked)
  /\ void' = (IF call.name = "rotateTls" THEN call.before ELSE void)
  /\ UNCHANGED <<disk, memory, todo, made, aged, failed, bounds>>
\* Ten years pass.
Ages ==
  /\ Readable("cert") /\ disk["cert"] \notin aged /\ turns < MaxTurns /\ turns' = turns + 1
  /\ aged' = aged \cup {disk["cert"]} /\ UNCHANGED <<disk, memory, call, todo, made, past, starts, faults>>

-----------------------------------------------------------------------------
Init ==
  /\ disk = [f \in FileNames |-> Absent]
  /\ up = FALSE /\ peer = 0 /\ relay = 0 /\ paired = {} /\ known = {} /\ tls = None /\ sealed = FALSE
  /\ call = None /\ todo = <<>> /\ made = 0 /\ aged = {} /\ revoked = {} /\ void = 0 /\ failed = {}
  /\ turns = 0 /\ starts = 0 /\ faults = 0
Device == \E d \in Devices : addPaired(d) \/ revokePaired(d)
Peer == \E d \in Devices : upsertKnown(d) \/ forgetKnown(d)
Next ==
  \/ Start \/ Crash \/ Step \/ Returns \/ Ages
  \/ Device \/ Peer \/ getRelayToken \/ getTls \/ rotateTls
Spec == Init /\ [][Next]_vars

-----------------------------------------------------------------------------
(* Properties *)

\* Type correctness of the files, of the process and of the histories.
TypeOK ==
  /\ DOMAIN disk = FileNames /\ up \in BOOLEAN /\ sealed \in BOOLEAN
  /\ paired \subseteq Devices /\ known \subseteq Devices /\ revoked \subseteq Devices
  /\ {peer, relay, made, void} \subseteq Nat /\ aged \subseteq 1..made
  /\ tls = None \/ tls \in [key : 1..made, cert : 1..made]
  /\ failed \subseteq {"open", "fill", "unlink"}
  /\ \A i \in DOMAIN todo : todo[i].op \in {"open", "fill", "unlink", "load"} /\ todo[i].file \in FileNames

\* A host never serves a certificate with another one's key, whichever step of writing the two
\* files the process died in and whichever of them failed (peer-store.ts, getTls).
ServedIsAPair == tls # None => tls.key = tls.cert

\* A device whose revocation was answered is not let in after a restart, unless a file of it could
\* not be opened for writing (peer-store.ts, revokePaired, writeJson).
RevokedStaysOut == "open" \notin failed => paired \cap revoked = {}

\* After an answered rotation no certificate made before it is served again, by this process or a
\* later one, unless a file could not be removed: "every paired device must re-pair (their pin
\* breaks)" (peer-store.ts, rotateTls).
PinBreaks == "unlink" \notin failed /\ tls # None => tls.cert > void

(* Why they hold: what a rotation and a revocation have done to the files, at each of their steps *)

\* What a running call still has to do.
Programs ==
  {<<>>, WriteTls, Tail(WriteTls), <<Load>>, <<Unlink("cert"), Load>>, <<Unlink("key"), Unlink("cert"), Load>>}
  \cup {Write(f) : f \in FileNames} \cup {<<Fill(f)>> : f \in FileNames}
\* It removes or reads the pair; it writes what is in the memory of it.
Removes(q) == \E i \in DOMAIN q : q[i].op \in {"unlink", "load"}
FillsTls(q) == \E i \in DOMAIN q : q[i].op = "fill" /\ q[i].file \in {"key", "cert"}
Rotating == call # None /\ call.name = "rotateTls"
Revoking == call # None /\ call.name = "revokePaired"
HasTls == tls \in [key : 1..made, cert : 1..made] /\ tls.key = tls.cert
\* The files of a call that was made by a running process are its own.
CallsAreOfTheProcess ==
  /\ todo \in Programs /\ made \in Nat /\ void \in 0..made /\ FileNames \subseteq DOMAIN disk
  /\ up \in BOOLEAN /\ (~up => call = None)
  /\ call = None => todo = <<>>
  /\ call # None => call.before \in 0..made
  /\ tls # None => HasTls
  /\ FillsTls(todo) => HasTls
  /\ \A f \in {"key", "cert"} : Readable(f) => disk[f] \in 1..made
\* No key and no certificate is left that is older than an answered rotation, or than a rotation
\* that has come to write its own.
NoneIsLeft ==
  /\ \A f \in {"key", "cert"} : Readable(f) => disk[f] > void
  /\ HasTls => tls.cert > void
  /\ Rotating =>
       /\ todo \in {<<Unlink("cert"), Load>>, <<Load>>} => ~Readable("key")
       /\ todo = <<Load>> => ~Readable("cert")
       /\ ~Removes(todo) =>
            /\ HasTls => tls.cert > call.before
            /\ \A f \in {"key", "cert"} : Readable(f) => disk[f] > call.before
\* At rest the file lists whom the process lists; a revoked device is in neither.
ListIsWritten ==
  /\ paired \cap revoked = {}
  /\ Readable("paired") => disk["paired"] \cap revoked = {}
  /\ todo = <<Fill("paired")>> => ~Readable("paired")
  /\ up /\ todo # Write("paired") /\ Readable("paired") => disk["paired"] = paired
  /\ Revoking => call.of \notin paired /\ todo \in {Write("paired"), <<Fill("paired")>>, <<>>}
Inv ==
  /\ CallsAreOfTheProcess
  /\ "unlink" \notin failed => NoneIsLeft
  /\ "open" \notin failed => ListIsWritten

(* Sentences the code does not keep *)

\* "Generated once" (peer-store.ts:128): the constructor writes the identity file at every start,
\* and one that dies in it leaves no identity to the next.
GeneratedOnce == up => peer = 1
=============================================================================
