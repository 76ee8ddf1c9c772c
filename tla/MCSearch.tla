------------------------------ MODULE MCSearch ------------------------------
(***************************************************************************)
(* Instances of Search for TLC: every list over a few addresses, with up   *)
(* to two zero entries, against two threads with one or two words each.    *)
(***************************************************************************)
EXTENDS Search, SequencesExt

CONSTANT Addresses

\* Zero entries first, then a set of addresses in increasing order.
MCLists ==
    {[z \in 1..n |-> 0] \o SetToSortSeq(A, <) : n \in 0..2, A \in SUBSET Addresses}
        \ {<<>>}

\* A word is zero, an address, or an address with a bit hidden in it.
MCRanges == {<<4>>, <<10>>, <<12, 20>>, <<20, 0>>}

=============================================================================
