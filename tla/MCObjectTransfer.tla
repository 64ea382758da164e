--------------------------- MODULE MCObjectTransfer ---------------------------
(***************************************************************************)
(* Small instances of ObjectTransfer; two uploading connections are as     *)
(* good as each other.                                                     *)
(***************************************************************************)
EXTENDS ObjectTransfer, TLC

Symmetry == Permutations(Sessions)
==============================================================================
