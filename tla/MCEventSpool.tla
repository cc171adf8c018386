---------------------------- MODULE MCEventSpool ----------------------------
(***************************************************************************)
(* Instances of EventSpool for TLC: two segments whose appends interleave  *)
(* with the passes of the one publisher.                                   *)
(***************************************************************************)
EXTENDS EventSpool, TLC

CONSTANTS s1, s2

SegmentSymmetry == Permutations({s1, s2})
=============================================================================
