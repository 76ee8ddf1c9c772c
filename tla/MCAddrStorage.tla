---------------------------- MODULE MCAddrStorage ----------------------------
(***************************************************************************)
(* AddrStorage for TLC: reclaimers, addresses and blocks are alike.        *)
(***************************************************************************)
EXTENDS AddrStorage, TLC

Alike == Permutations(Reclaimers) \cup Permutations(Addrs) \cup Permutations(Blocks)

=============================================================================
