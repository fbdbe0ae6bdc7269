---------------------------- MODULE MCCoreVPN ----------------------------
(***************************************************************************)
(* The core and its helper on a small instance.                            *)
(***************************************************************************)
EXTENDS CoreVPN
==========================================================================
