--------------------------- MODULE MCVPNController ---------------------------
(***************************************************************************)
(* The app's tunnel control on a small instance: two exits, of which the   *)
(* core lists the VPS first.                                               *)
(***************************************************************************)
EXTENDS VPNController
==============================================================================
