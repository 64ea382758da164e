---------------------------- MODULE MCEnvelopeAuth ----------------------------
(***************************************************************************)
(* Small instances of EnvelopeAuth; no envelope or thread is special.      *)
(***************************************************************************)
EXTENDS EnvelopeAuth, TLC

Symmetry == Permutations(Envelopes) \cup Permutations(Threads)
==============================================================================
