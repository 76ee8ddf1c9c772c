-------------------------- MODULE MCThreadRegistry --------------------------
(***************************************************************************)
(* The thread registry for TLC.  The threads other than Main are created   *)
(* in any order and the pages mapped in any order, so both are symmetric.  *)
(***************************************************************************)
EXTENDS ThreadRegistry, TLC

Symmetry == Permutations(Threads \ {Main}) \cup Permutations(Pages)

=============================================================================
