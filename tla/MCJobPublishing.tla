-------------------------- MODULE MCJobPublishing --------------------------
(***************************************************************************)
(* Small instances of JobPublishing for TLC.                               *)
(***************************************************************************)
EXTENDS JobPublishing, TLC

CONSTANTS r1, r2, r3, none

Two == {r1, r2}
Three == {r1, r2, r3}

\* Requests and the runs they start are interchangeable.  For runs without liveness.
Symmetry == Permutations(Requests)

EveryFault == FaultKinds
NoStrays == FaultKinds \ {"stray"}
Unreachable == {"unreachable"}
=============================================================================
