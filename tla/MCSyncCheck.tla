---------------------------- MODULE MCSyncCheck ----------------------------
(* Model-checking instances of SyncCheck.                                   *)
EXTENDS SyncCheck

\* One trouble at a time: a fault of the simulation, players who leave or are
\* lost, or requests to save.  Players leave early on.
SomeLeft == playing # Peers \/ \E p \in Peers : humans[p] # Peers
OneTrouble ==
  /\ Faults # {} => ~SomeLeft /\ requests = 0
  /\ SomeLeft => requests = 0 /\ \A p \in Peers : frame_count[p] < 6
=============================================================================
