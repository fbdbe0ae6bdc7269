----------------------------- MODULE MCPairing -----------------------------
(***************************************************************************)
(* Pairing on small instances.                                             *)
(***************************************************************************)
EXTENDS Pairing, TLC

Symmetry ==
    Permutations(Devices) \cup Permutations(Requests) \cup Permutations(Generations)
=============================================================================
