---------------------- MODULE MCTrailerResponseWriter ----------------------
(* TrailerResponseWriter for TLC. *)
EXTENDS TrailerResponseWriter
=============================================================================
