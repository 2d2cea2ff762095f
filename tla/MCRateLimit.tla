----------------------------- MODULE MCRateLimit -----------------------------
(* RateLimit with a window of three seconds and two requests in it. *)
EXTENDS RateLimit
=============================================================================
