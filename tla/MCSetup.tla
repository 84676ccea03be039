------------------------------ MODULE MCSetup ------------------------------
(* Instances of Setup.                                                      *)
EXTENDS Setup, TLC

CONSTANTS h, c1, c2, c3, red, green, blue

ColourSymmetry == Permutations(Colours)

\* c1 joins first and stays, c2 may change its mind and leave, c3 comes when c2 has left.
Visits ==
  /\ Phase(c2)' # "away" => Phase(c1)' # "away"
  /\ Phase(c3)' # "away" => Phase(c2)' = "out"
  /\ \A c \in {c1, c3} : Phase(c)' # "out"
  /\ choices' # choices => chan'[c2] # chan[c2]
=============================================================================
