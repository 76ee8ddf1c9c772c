------------------------------- MODULE Buffers -------------------------------
(***************************************************************************)
(* What a list of addresses under reclamation says, without its layout.    *)
(* ThreadScan keeps the lists of a round in this form; WorkingList checks  *)
(* it against the arrays of the code.                                      *)
(***************************************************************************)
EXTENDS Integers, FiniteSets

\* Mutant: the low bit stays in the stored address.
PTR_MASK_none(w) == w

\* The address in a word, without the low bits.
PTR_MASK(w) == w - (w % 4)

(***************************************************************************)
(* A stored block: addrs, and nulls further entries that are 0, which is   *)
(* what handle_unreferenced_ptrs leaves of an entry it overwrites.         *)
(***************************************************************************)
NoBlock == [addrs |-> {}, nulls |-> 0]

(***************************************************************************)
(* The sorted working list: its addresses, those whose low bit is set, its *)
(* zero entries (they sort first), and the low bit of entry 0 when it is a *)
(* zero entry: do_search never marks another one.                          *)
(***************************************************************************)
EmptyBuffer == [addrs |-> {}, marks |-> {}, nulls |-> 0, nullmark |-> FALSE]

NAddrs(b) == Cardinality(b.addrs) + b.nulls
\* The list with more addresses in it; with the low bits of found and of zero set.
AddTo(b, addrs) == [b EXCEPT !.addrs = @ \cup addrs]
Mark(b, found, zero) ==
    [b EXCEPT !.marks = @ \cup (found \cap b.addrs), !.nullmark = zero]

(***************************************************************************)
(* handle_unreferenced_ptrs walks the sorted list, moves a marked entry    *)
(* down to write_position and then clears entry i: when no earlier entry   *)
(* was unmarked the two are the same entry and the address is overwritten  *)
(* with zero.                                                              *)
(***************************************************************************)
UnmarkedBefore(b, p) ==
    \/ b.nulls > 1
    \/ b.nulls = 1 /\ ~b.nullmark
    \/ \E q \in b.addrs \ b.marks : q < p

\* The marked addresses that survive; what is freed; what is left to store.
Kept(b) == {p \in b.marks : UnmarkedBefore(b, p)}
Unreferenced(b) == b.addrs \ b.marks
Remaining(b) ==
    [addrs |-> Kept(b),
     nulls |-> Cardinality(b.marks \ Kept(b)) + (IF b.nullmark THEN 1 ELSE 0)]

=============================================================================
