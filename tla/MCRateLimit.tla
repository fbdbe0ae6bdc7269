---------------------------- MODULE MCRateLimit ----------------------------
(***************************************************************************)
(* The rate limiter on a small instance.                                   *)
(***************************************************************************)
EXTENDS RateLimit
============================================================================
