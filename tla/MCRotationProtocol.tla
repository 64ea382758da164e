-------------------------- MODULE MCRotationProtocol --------------------------
(***************************************************************************)
(* Small instances of RotationProtocol: the values are in the .cfg files.  *)
(***************************************************************************)
EXTENDS RotationProtocol
==============================================================================
