----------------------------- MODULE MCRegistry -----------------------------
(***************************************************************************)
(* The small instances of Registry: the values are in the .cfg files.      *)
(* Threads are interchangeable, tokens are not: NoJob names one of them.   *)
(***************************************************************************)
EXTENDS Registry, TLC

\* Bound: the last version is followed up only as long as no calls overlapped.
LastVersionAlone == overlapped => MaxVersion \notin Known(creds)

ThreadSymmetry == Permutations(Threads)
==============================================================================
