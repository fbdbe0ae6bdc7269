--------------------------- MODULE MCCoreController ---------------------------
(***************************************************************************)
(* The app's link to its core on a small instance.                         *)
(***************************************************************************)
EXTENDS CoreController
===============================================================================
