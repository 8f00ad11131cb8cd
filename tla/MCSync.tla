------------------------------- MODULE MCSync -------------------------------
(***************************************************************************)
(* Session import and repair for TLC: threads and providers are alike.     *)
(***************************************************************************)
EXTENDS Sync, TLC

Symmetry == Permutations(Threads) \cup Permutations(Providers)
=============================================================================
