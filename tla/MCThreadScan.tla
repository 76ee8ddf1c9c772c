---------------------------- MODULE MCThreadScan ----------------------------
(***************************************************************************)
(* Small instances of ThreadScan for TLC.  Addresses are the integers of   *)
(* Ptrs (the sweep depends on their order, so they are not symmetric); the *)
(* threads other than Main are interchangeable.                            *)
(***************************************************************************)
EXTENDS ThreadScanInv, TLC

CONSTANTS t1, t2, t3

\* The created threads play the same role.
Created == Permutations(Threads \ {Main})

=============================================================================
