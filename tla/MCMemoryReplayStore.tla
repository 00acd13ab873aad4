------------------------ MODULE MCMemoryReplayStore ------------------------
(***************************************************************************)
(* Instances of MemoryReplayStore for TLC.  Callers are interchangeable,   *)
(* and so are the pairs that pass validation: no definition tells one from *)
(* another.  The liveness runs use no symmetry.                            *)
(***************************************************************************)
EXTENDS MemoryReplayStore, TLC

CallersAndPairs == Permutations(Callers) \cup Permutations(Identities \ Malformed)
WellFormedPairs == Permutations(Identities \ Malformed)
=============================================================================
