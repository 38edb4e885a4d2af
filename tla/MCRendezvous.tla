---------------------------- MODULE MCRendezvous ----------------------------
EXTENDS Rendezvous, TLC

CONSTANTS l1, l2, p1

\* What is checked: every behaviour, and those in which timers fire and sockets are noticed to end.
Behaviours == Init /\ [][Next]_vars
FairBehaviours == Behaviours /\ Fairness

\* Two links of one host: the second is made when the relay setting changes or
\* sharing is switched off and on.
SameHost == l1 :> p1 @@ l2 :> p1
OneLink == l1 :> p1

ConnSymmetry == Permutations(Conns)

=============================================================================
