----------------------------- MODULE MCInstall -----------------------------
(***************************************************************************)
(* Install for TLC: neither versions nor the user's commands differ in     *)
(* anything but their names.                                               *)
(***************************************************************************)
EXTENDS Install, TLC

Symmetry == Permutations(Versions) \cup Permutations(Codexes)
=============================================================================
