------------------------ MODULE MCTrailerSigningBody ------------------------
(* TrailerSigningBody for TLC. *)
EXTENDS TrailerSigningBody
=============================================================================
