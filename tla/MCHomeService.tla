---------------------------- MODULE MCHomeService ----------------------------
(***************************************************************************)
(* The home service on a small instance.                                   *)
(***************************************************************************)
EXTENDS HomeService
==============================================================================
