---------------------------- MODULE MCVPNManager ----------------------------
(***************************************************************************)
(* The VPN helper on a small instance.                                     *)
(***************************************************************************)
EXTENDS VPNManager

Symmetry == Permutations(Devices) \cup Permutations(Keys)
=============================================================================
