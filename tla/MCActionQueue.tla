--------------------------- MODULE MCActionQueue ---------------------------
(* Instances of ActionQueue: who belongs to whom.                          *)
EXTENDS ActionQueue

CONSTANTS First

AllOfFirst == [u \in Units |-> First]
=============================================================================
