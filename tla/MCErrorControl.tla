--------------------------- MODULE MCErrorControl ---------------------------
(* Model-checking instances of ErrorControl.                                *)
EXTENDS ErrorControl, FiniteSets, TLC

CONSTANTS p1, p2

\* Five messages over four frame ids one way, and one the other way
Answered == (p1 :> 5 @@ p2 :> 1)
\* One sender
Stream   == (p1 :> 3 @@ p2 :> 0)

\* States with more datagrams in flight than this are not explored further.
FewInFlight == Cardinality(net) <= 3
=============================================================================
