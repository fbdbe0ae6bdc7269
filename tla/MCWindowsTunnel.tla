---------------------------- MODULE MCWindowsTunnel ----------------------------
(***************************************************************************)
(* The Windows supervisor on a small instance.                             *)
(***************************************************************************)
EXTENDS WindowsTunnel
================================================================================
