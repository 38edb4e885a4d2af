---------------------------- MODULE MCEventStreams ----------------------------
(* Two shared repositories; a peer has a worktree of the first one open.   *)
EXTENDS EventStreams, TLC

CONSTANTS main, other, tree

\* What is checked: behaviours in which timers fire and what is written arrives.
Behaviours == Init /\ [][Next]_vars /\ Fairness

TreeOfMain == tree :> main
=============================================================================
