------------------------- MODULE MCReplayExpiryHeap -------------------------
(* ReplayExpiryHeap for TLC; identities are interchangeable. *)
EXTENDS ReplayExpiryHeap, TLC

IdentitySymmetry == Permutations(Identities)
=============================================================================
