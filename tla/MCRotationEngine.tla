--------------------------- MODULE MCRotationEngine ---------------------------
(***************************************************************************)
(* The small instance of RotationEngine: the values are in the .cfg files. *)
(***************************************************************************)
EXTENDS RotationEngine
==============================================================================
