----------------------------- MODULE MCProxyRelay -----------------------------
(***************************************************************************)
(* Small instances of ProxyRelay: the values are in the .cfg files.        *)
(***************************************************************************)
EXTENDS ProxyRelay
==============================================================================
