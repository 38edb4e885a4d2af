-------------------------- MODULE MCPeerConnection --------------------------
(***************************************************************************)
(* Small instances of PeerConnection for TLC.                              *)
(***************************************************************************)
EXTENDS PeerConnection, TLC

\* What is checked: every behaviour, and those in which timers fire and handshakes end.
Behaviours == Init /\ [][Next]_vars
FairBehaviours == FairSpec

\* Request slots are interchangeable.
ReqSymmetry == Permutations(Reqs)

=============================================================================
