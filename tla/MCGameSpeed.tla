---------------------------- MODULE MCGameSpeed ----------------------------
(* Model-checking instances of GameSpeed.                                   *)
EXTENDS GameSpeed, TLC

CONSTANTS p1, p2, p3
Symmetric == Permutations(Peers)
=============================================================================
