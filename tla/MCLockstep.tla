----------------------------- MODULE MCLockstep -----------------------------
(* Model-checking instances of Lockstep: its constants are plain values.    *)
EXTENDS Lockstep
=============================================================================
