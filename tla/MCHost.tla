-------------------------------- MODULE MCHost --------------------------------
(*****************************************************************************)
(* One launch at a host and the calls that stop it, for TLC.                 *)
(*****************************************************************************)
EXTENDS HostStop, TLC

CONSTANTS s1, c1, c2

\* Both calls stop the one segment.
TheSegment == [caller \in Callers |-> s1]

\* Callers are interchangeable.
Symmetry == Permutations(Callers)
=============================================================================
