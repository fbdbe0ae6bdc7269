----------------------------- MODULE MCSessions -----------------------------
(***************************************************************************)
(* Sessions on a small instance.                                           *)
(***************************************************************************)
EXTENDS Sessions, TLC

Symmetry ==
    Permutations(Devices) \cup Permutations(Requests) \cup Permutations(Tokens)
        \cup Permutations(Challenges)
=============================================================================
