---------------------------- MODULE Introductions ----------------------------
(***************************************************************************)
(* What the relay promises, without connections, frames or timeouts: a     *)
(* caller asks for an introduction to a peer and is either matched, once,  *)
(* with a party that stands for that peer, or turned away for good.  Each  *)
(* end of a match is told separately; nobody hears of a match that did not *)
(* take place, and nobody who was turned away is matched afterwards.       *)
(***************************************************************************)
CONSTANTS
  Calls,     \* requests for an introduction
  Peers,     \* who can be asked for
  Parties,   \* who can answer for a peer
  PeerOf,    \* the peer each party stands for
  Nobody

VARIABLES
  phase,     \* of every call: "new", "asked", "matched" or "refused"
  wanted,    \* the peer the call asked for
  party,     \* who it was matched with
  told       \* the ends that know of the match: "caller", "host"

vars == <<phase, wanted, party, told>>

Init ==
  /\ phase = [c \in Calls |-> "new"]
  /\ wanted = [c \in Calls |-> Nobody]
  /\ party = [c \in Calls |-> Nobody]
  /\ told = [c \in Calls |-> {}]

Ask(c, p) ==
  /\ phase[c] = "new"
  /\ phase' = [phase EXCEPT ![c] = "asked"]
  /\ wanted' = [wanted EXCEPT ![c] = p]
  /\ UNCHANGED <<party, told>>

Match(c, l) ==
  /\ phase[c] = "asked"
  /\ PeerOf[l] = wanted[c]
  /\ phase' = [phase EXCEPT ![c] = "matched"]
  /\ party' = [party EXCEPT ![c] = l]
  /\ UNCHANGED <<wanted, told>>

\* All the calls of C at once: the relay may go down.
Refuse(C) ==
  /\ \A c \in C : phase[c] = "asked"
  /\ phase' = [c \in Calls |-> IF c \in C THEN "refused" ELSE phase[c]]
  /\ UNCHANGED <<wanted, party, told>>

Tell(c, end) ==
  /\ phase[c] = "matched"
  /\ end \notin told[c]
  /\ told' = [told EXCEPT ![c] = @ \cup {end}]
  /\ UNCHANGED <<phase, wanted, party>>

Next ==
  \/ \E c \in Calls :
       \/ \E p \in Peers : Ask(c, p)
       \/ \E l \in Parties : Match(c, l)
       \/ \E end \in {"caller", "host"} : Tell(c, end)
  \/ \E C \in SUBSET Calls : Refuse(C)

Spec == Init /\ [][Next]_vars

=============================================================================
