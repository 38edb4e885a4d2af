---------------------------- MODULE MCCredentials ----------------------------
EXTENDS Credentials, TLC

\* What is checked: every behaviour of the pairing machines.
Behaviours == Init /\ [][Next]_vars

SlotSymmetry == Permutations(Ceremonies) \cup Permutations(Rotations)

=============================================================================
