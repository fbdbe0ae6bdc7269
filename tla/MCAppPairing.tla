----------------------------- MODULE MCAppPairing -----------------------------
(***************************************************************************)
(* Pairing from the app on a small instance.                               *)
(***************************************************************************)
EXTENDS AppPairing, TLC

Symmetry == Permutations(Devices) \cup Permutations(Connects)
===============================================================================
