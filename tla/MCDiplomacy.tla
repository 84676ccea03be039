---------------------------- MODULE MCDiplomacy ----------------------------
(* Instances of Diplomacy: a player (h1) and AI nations (a1, a2).          *)
EXTENDS Diplomacy

CONSTANTS h1, a1, a2
=============================================================================
