----------------------------- MODULE WorkingList -----------------------------
(***************************************************************************)
(* The array of addresses that a reclaimer works on, with its layout: it   *)
(* is filled from the stored blocks and the queues, sorted (util.c),       *)
(* marked, swept in place, shuffled, and turned into a stored block whose  *)
(* header overlays its first two words (threadscan.c).  Rounds follow each *)
(* other, so that what one leaves behind is what the next one gets.        *)
(*                                                                         *)
(* One reclaimer does all this, in steps of one iteration of a loop.  The  *)
(* array is a function from 0.  Addresses are multiples of four.           *)
(***************************************************************************)
EXTENDS Buffers, SequencesExt

CONSTANTS
    Addresses,        \* what the application may collect
    BufMax,           \* g_tsdata.max_ptrs * 2
    SORT_THRESHOLD,
    MaxRounds         \* bound: rounds of reclamation

ASSUME WorkingListAssumption ==
    /\ Addresses \subseteq Nat \ {0} /\ \A p \in Addresses : p % 4 = 0
    /\ IsFiniteSet(Addresses)
    /\ BufMax \in Nat \ {0} /\ SORT_THRESHOLD \in Nat /\ MaxRounds \in Nat

VARIABLES
    stage,       \* where threadscan_reclaim is
    addrs, n,    \* the mapping, and the entries in use
    calls,       \* the calls of quicksort that have not returned, the present one first
    idx, dst,    \* the index of a loop; the place it writes to
    pivot_val,
    storage,     \* the words of the stored block, <<>> if there is none
    freed,       \* arguments of free, in order
    before,      \* the list as it was before the present stage (for the properties)
    collected,   \* addresses collected so far
    round

loopVars == <<calls, idx, dst, pivot_val>>
listVars == <<stage, addrs, n, loopVars, storage, freed, before, collected, round>>

List == [k \in 1..n |-> addrs[k-1]]
Cleared == [k \in 0..BufMax-1 |-> 0]

ListInit ==
    /\ stage = "collect" /\ addrs = Cleared /\ n = 0 /\ storage = <<>>
    /\ calls = <<>> /\ idx = 0 /\ dst = 0 /\ pivot_val = 0
    /\ freed = <<>> /\ before = <<>> /\ collected = {} /\ round = 0

-----------------------------------------------------------------------------
(* util.c.                                                                  *)

swap(a, x, y) == [a EXCEPT ![x] = a[y], ![y] = a[x]]

\* threadscan_util_sort(g_tsdata.buf_addrs, g_tsdata.n_addrs).
util_sort ==
    /\ stage = "generated" /\ stage' = "quicksort"
    /\ calls' = <<[min |-> 0, max |-> n - 1]>>
    /\ before' = List
    /\ UNCHANGED <<addrs, n, idx, dst, pivot_val, storage, freed, collected, round>>

\* The call goes on with partition, up to its loop, or with insertion_sort.
quicksort ==
    /\ stage = "quicksort" /\ calls # <<>>
    /\ LET min == calls[1].min
           max == calls[1].max
           pivot == (max + min) \div 2
       IN \/ /\ max - min > SORT_THRESHOLD /\ stage' = "partition"
             /\ pivot_val' = addrs[pivot] /\ addrs' = swap(addrs, pivot, max)
             /\ idx' = min /\ dst' = min
          \/ /\ max - min <= SORT_THRESHOLD /\ stage' = "insertion"
             /\ idx' = min + 1 /\ dst' = min + 1
             /\ UNCHANGED <<addrs, pivot_val>>
    /\ UNCHANGED <<n, calls, storage, freed, before, collected, round>>

\* An iteration of partition; dst is mid.
partition ==
    /\ stage = "partition" /\ idx < calls[1].max
    /\ IF addrs[idx] <= pivot_val THEN addrs' = swap(addrs, idx, dst) /\ dst' = dst + 1
                                ELSE UNCHANGED <<addrs, dst>>
    /\ idx' = idx + 1
    /\ UNCHANGED <<stage, n, calls, pivot_val, storage, freed, before, collected, round>>

\* Mutant: the pivot stays at the end.
Placed_not(a, mid, max) == a

\* The pivot is put between the two parts.
Placed(a, mid, max) == swap(a, mid, max)

\* partition returns, and quicksort calls itself for the two parts.
partitioned ==
    /\ stage = "partition" /\ idx = calls[1].max
    /\ addrs' = Placed(addrs, dst, calls[1].max)
    /\ calls' = <<[min |-> calls[1].min, max |-> dst - 1],
                  [min |-> dst + 1, max |-> calls[1].max]>> \o Tail(calls)
    /\ stage' = "quicksort" /\ idx' = 0 /\ dst' = 0 /\ pivot_val' = 0
    /\ UNCHANGED <<n, storage, freed, before, collected, round>>

\* An iteration of a loop of insertion_sort: the inner one runs down to 0, not to min.
insertion_sort ==
    /\ stage = "insertion" /\ idx <= calls[1].max
    /\ IF dst > 0 /\ addrs[dst-1] > addrs[dst]
       THEN addrs' = swap(addrs, dst, dst-1) /\ dst' = dst - 1 /\ UNCHANGED idx
       ELSE idx' = idx + 1 /\ dst' = idx + 1 /\ UNCHANGED addrs
    /\ UNCHANGED <<stage, n, calls, pivot_val, storage, freed, before, collected, round>>

\* insertion_sort returns, and with it its call of quicksort, perhaps the last.
insertion_sorted ==
    /\ stage = "insertion" /\ idx > calls[1].max
    /\ calls' = Tail(calls) /\ idx' = 0 /\ dst' = 0
    /\ stage' = IF Tail(calls) = <<>> THEN "sorted" ELSE "quicksort"
    /\ UNCHANGED <<addrs, n, pivot_val, storage, freed, before, collected, round>>

(***************************************************************************)
(* (k * 2147483647) % m in 32-bit unsigned arithmetic: k * (2^31 - 1) is 0 *)
(* for k = 0, 2^32 - k for another even k and 2^31 - k for an odd one.     *)
(***************************************************************************)
shuffle_index(k, m) ==
    CASE k = 0     -> 0
      [] k % 2 = 1 -> (2147483647 - (k - 1)) % m
      [] OTHER     -> ((65536 % m) * (65536 % m) - k) % m

\* An iteration of threadscan_util_randomize.
util_randomize ==
    /\ stage = "shuffle" /\ idx < n
    /\ addrs' = swap(addrs, idx, shuffle_index(idx, n)) /\ idx' = idx + 1
    /\ UNCHANGED <<stage, n, calls, dst, pivot_val, storage, freed, before, collected, round>>

-----------------------------------------------------------------------------
(* threadscan.c.                                                            *)

\* The words of a stored block that hold its addresses.
BlockAddrs(s) == SubSeq(s.words, 3, s.length + 2)

(***************************************************************************)
(* generate_working_pointers_list on a fresh mapping: the stored block,    *)
(* then what the queues hold, in any order; what does not fit stays in the *)
(* queues.                                                                 *)
(***************************************************************************)
generate_working_pointers_list ==
    /\ stage = "collect" /\ round < MaxRounds
    /\ LET leftovers == IF storage = <<>> THEN <<>> ELSE BlockAddrs(storage) IN
       \E fresh \in UNION {SetToSeqs(A) : A \in SUBSET (Addresses \ collected)} :
          LET all == leftovers \o fresh IN
          /\ Len(all) <= BufMax
          /\ n' = Len(all)
          /\ addrs' = [k \in 0..BufMax-1 |-> IF k < Len(all) THEN all[k+1] ELSE 0]
          /\ collected' = collected \cup ToSet(fresh)
          /\ before' = all
    /\ storage' = <<>> /\ freed' = <<>> /\ round' = round + 1 /\ stage' = "generated"
    /\ UNCHANGED loopVars

\* The searches: any addresses, and the first entry if it is zero (Search).
do_search ==
    /\ stage = "sorted" /\ stage' = "searched"
    /\ \E found \in SUBSET (ToSet(List) \ {0}) : \E zero \in BOOLEAN :
          /\ zero => n > 0 /\ addrs[0] = 0
          /\ addrs' = [k \in 0..BufMax-1 |->
                 IF addrs[k] \in found \/ (zero /\ k = 0) THEN addrs[k] + 1
                 ELSE addrs[k]]
    /\ before' = List
    /\ UNCHANGED <<n, loopVars, storage, freed, collected, round>>

\* threadscan_reclaim calls handle_unreferenced_ptrs.
handle_unreferenced ==
    /\ stage = "searched" /\ stage' = "sweep"
    /\ idx' = 0 /\ dst' = 0 /\ before' = List
    /\ UNCHANGED <<addrs, n, calls, pivot_val, storage, freed, collected, round>>

\* An iteration of handle_unreferenced_ptrs; dst is write_position.
handle_unreferenced_ptrs ==
    /\ stage = "sweep" /\ idx < n
    /\ \/ /\ addrs[idx] % 2 = 1
          /\ addrs' = [[addrs EXCEPT ![dst] = PTR_MASK(addrs[idx])] EXCEPT ![idx] = 0]
          /\ dst' = dst + 1 /\ UNCHANGED freed
       \/ /\ addrs[idx] % 2 = 0
          /\ freed' = Append(freed, addrs[idx])
          /\ addrs' = [addrs EXCEPT ![idx] = 0] /\ UNCHANGED dst
    /\ idx' = idx + 1
    /\ UNCHANGED <<stage, n, calls, pivot_val, storage, before, collected, round>>

\* Its result is the number of addresses that remain.
handled_unreferenced ==
    /\ stage = "sweep" /\ idx = n
    /\ n' = dst /\ stage' = "swept" /\ idx' = 0 /\ dst' = 0
    /\ UNCHANGED <<addrs, calls, pivot_val, storage, freed, before, collected, round>>

\* threadscan_reclaim calls threadscan_util_randomize, which returns.
shuffle_remaining ==
    /\ stage = "swept" /\ stage' = "shuffle"
    /\ idx' = 0 /\ before' = List
    /\ UNCHANGED <<addrs, n, calls, dst, pivot_val, storage, freed, collected, round>>

shuffled_remaining ==
    /\ stage = "shuffle" /\ idx = n /\ stage' = "shuffled"
    /\ idx' = 0
    /\ UNCHANGED <<addrs, n, calls, dst, pivot_val, storage, freed, before, collected, round>>

\* Mutant: both words are saved at once.
Moved_at_once(a, m) == [a EXCEPT ![m] = a[0], ![m+1] = a[1]]

Moved(a, m) == LET one == [a EXCEPT ![m] = a[0]] IN [one EXCEPT ![m+1] = one[1]]

(***************************************************************************)
(* The first two addresses move to the end, one assignment after the       *)
(* other, and the header takes their place.                                *)
(***************************************************************************)
to_storage(a, m) ==
    [words |-> [k \in 1..BufMax |-> IF k <= 2 THEN 0 ELSE Moved(a, m)[k-1]],
     length |-> m]

store_remaining_addrs ==
    /\ stage = "shuffled"
    /\ \/ n = 0 /\ stage' = "collect" /\ UNCHANGED storage
       \/ n > 0 /\ n + 2 > BufMax /\ stage' = "fatal" /\ UNCHANGED storage
       \/ /\ n > 0 /\ n + 2 <= BufMax /\ stage' = "collect"
          /\ storage' = to_storage(addrs, n)
    /\ before' = List /\ addrs' = Cleared /\ n' = 0
    /\ UNCHANGED <<loopVars, freed, collected, round>>

Stop == (stage = "fatal" \/ (stage = "collect" /\ round = MaxRounds)) /\ UNCHANGED listVars

ListNext ==
    \/ generate_working_pointers_list
    \/ util_sort \/ quicksort \/ partition \/ partitioned
    \/ insertion_sort \/ insertion_sorted
    \/ do_search
    \/ handle_unreferenced \/ handle_unreferenced_ptrs \/ handled_unreferenced
    \/ shuffle_remaining \/ util_randomize \/ shuffled_remaining
    \/ store_remaining_addrs
    \/ Stop

ListSpec == ListInit /\ [][ListNext]_listVars

-----------------------------------------------------------------------------
(* Properties.                                                              *)

\* The arguments of a call of quicksort.
Call == [min : Nat, max : Int]

ListTypeOK ==
    /\ stage \in {"collect", "generated", "quicksort", "partition", "insertion",
                  "sorted", "searched", "sweep", "swept", "shuffle", "shuffled", "fatal"}
    /\ n \in 0..BufMax /\ addrs \in [0..BufMax-1 -> Nat]
    /\ calls \in Seq(Call)
    /\ idx \in Nat /\ dst \in Nat /\ pivot_val \in Nat
    /\ storage = <<>> \/ storage \in [length : 1..BufMax-2, words : [1..BufMax -> Nat]]
    /\ freed \in Seq(Nat) /\ before \in Seq(Nat)
    /\ collected \subseteq Addresses /\ round \in 0..MaxRounds

(***************************************************************************)
(* threadscan_util_sort leaves the same entries in increasing order, and   *)
(* strictly so but for the zeros that an earlier sweep left: an address is *)
(* in the list once ("Sort the pointers and remove duplicates").           *)
(***************************************************************************)
SortSorts ==
    stage = "sorted" =>
        /\ \A k \in 1..n-1 : addrs[k-1] < addrs[k] \/ (addrs[k-1] = 0 /\ addrs[k] = 0)
        /\ ToBag(List) = ToBag(before)

\* The list before the sweep, as the protocol model has it.
Abstract(l) ==
    LET words == ToSet(l) IN
    [addrs    |-> {PTR_MASK(w) : w \in words} \ {0},
     marks    |-> {PTR_MASK(w) : w \in {x \in words : x % 2 = 1}} \ {0},
     nulls    |-> Cardinality({k \in 1..Len(l) : PTR_MASK(l[k]) = 0}),
     nullmark |-> 1 \in words]

(***************************************************************************)
(* handle_unreferenced_ptrs on the array does what Buffers says of it:     *)
(* every unmarked address is freed, once, no marked one is, and what is    *)
(* left to store are the addresses Kept names and a zero for each other.   *)
(***************************************************************************)
SweepAsModelled ==
    stage = "swept" =>
        /\ ToSet(freed) \ {0} = Unreferenced(Abstract(before))
        /\ \A j, k \in 1..Len(freed) : freed[j] = freed[k] /\ freed[j] # 0 => j = k
        /\ ToSet(List) \ {0} = Remaining(Abstract(before)).addrs
        /\ n = NAddrs(Remaining(Abstract(before)))

(***************************************************************************)
(* What is stored is what the next round reads back, although the header   *)
(* overlays the first two words and the list may have only one, and the    *)
(* shuffle neither loses nor repeats an entry.                             *)
(***************************************************************************)
StoredIsReadBack ==
    /\ stage = "shuffled" => ToBag(List) = ToBag(before)
    /\ stage = "collect" /\ storage # <<>> =>
          ToBag(BlockAddrs(storage)) = ToBag(before)

=============================================================================
