--------------------------- MODULE MCServerIdentity ---------------------------
(***************************************************************************)
(* Small instances of ServerIdentity: the values are in the .cfg files.    *)
(***************************************************************************)
EXTENDS ServerIdentity
==============================================================================
