------------------------------- MODULE Search -------------------------------
(***************************************************************************)
(* do_search and the two-level search under it (threadscan.c), run by the  *)
(* reclaimer and by every signalled thread at once over the one working    *)
(* list, without a lock: each sets low bits in entries that the others are *)
(* reading.  One step is one access to the list.                           *)
(*                                                                         *)
(* ThreadScan takes a whole search as one step that marks the addresses it *)
(* finds; this module shows that the interleaved searches do just that.    *)
(***************************************************************************)
EXTENDS Buffers, Sequences

CONSTANTS
    Searchers,         \* threads searching their stacks
    Lists,             \* working lists: sorted, addresses once, zeros first
    Ranges,            \* contents of a stack, as sequences of words
    PerPage,           \* PAGESIZE / sizeof(size_t)
    BINARY_THRESHOLD

\* A list that generate_working_pointers_list and threadscan_util_sort leave.
Searchable(l) ==
    /\ l # <<>> /\ \A j \in 1..Len(l) : l[j] % 4 = 0
    /\ \A j, k \in 1..Len(l) : j < k => l[j] < l[k] \/ l[j] = 0

ASSUME SearchAssumption ==
    /\ PerPage \in Nat \ {0} /\ BINARY_THRESHOLD \in Nat \ {0, 1}
    /\ Ranges \subseteq Seq(Nat) /\ Lists \subseteq Seq(Nat)
    /\ \A l \in Lists : Searchable(l)

VARIABLES
    n_addrs, buf_addrs, buf_scan_map,   \* of g_tsdata
    mem, i,              \* the range a thread searches, and the index in it
    pc, min_ptr, max_ptr, cmp,          \* locals of do_search
    level, min, max,     \* locals of binary_search and iterative_search
    loc,                 \* the entry found
    v                    \* local to SET_LOW_BIT

list == <<n_addrs, buf_scan_map, mem>>
locals == <<i, min_ptr, max_ptr, cmp>>
search == <<level, min, max>>
vars == <<list, buf_addrs, pc, locals, search, loc, v>>

\* generate_scan_map: the first entry of every page of the list.
n_scan_map == (n_addrs + PerPage - 1) \div PerPage
generate_scan_map(buf, n) ==
    [p \in 0..((n + PerPage - 1) \div PerPage) - 1 |-> buf[p * PerPage]]

Init ==
    /\ \E l \in Lists :
          /\ n_addrs = Len(l)
          /\ buf_addrs = [k \in 0..Len(l)-1 |-> l[k+1]]
    /\ buf_scan_map = generate_scan_map(buf_addrs, n_addrs)
    /\ mem \in [Searchers -> Ranges]
    /\ i = [s \in Searchers |-> 1] /\ pc = [s \in Searchers |-> "load_min"]
    /\ min_ptr = [s \in Searchers |-> 0] /\ max_ptr = [s \in Searchers |-> 0]
    /\ cmp = [s \in Searchers |-> 0] /\ level = [s \in Searchers |-> 1]
    /\ min = [s \in Searchers |-> 0] /\ max = [s \in Searchers |-> 0]
    /\ loc = [s \in Searchers |-> 0] /\ v = [s \in Searchers |-> 0]

Goto(s, at) == pc' = [pc EXCEPT ![s] = at]

-----------------------------------------------------------------------------
(* do_search: the bounds are read once, then each word is looked up.        *)

load_min(s) ==
    /\ pc[s] = "load_min" /\ Goto(s, "load_max")
    /\ min_ptr' = [min_ptr EXCEPT ![s] = buf_addrs[0]]
    /\ UNCHANGED <<list, buf_addrs, i, max_ptr, cmp, search, loc, v>>

load_max(s) ==
    /\ pc[s] = "load_max" /\ Goto(s, "word")
    /\ max_ptr' = [max_ptr EXCEPT ![s] = buf_addrs[n_addrs - 1]]
    /\ UNCHANGED <<list, buf_addrs, i, min_ptr, cmp, search, loc, v>>

\* "continue": the next word, with the locals of this one out of scope.
NextWord(s) ==
    /\ Goto(s, "word") /\ i' = [i EXCEPT ![s] = @ + 1]
    /\ cmp' = [cmp EXCEPT ![s] = 0]
    /\ level' = [level EXCEPT ![s] = 1]
    /\ min' = [min EXCEPT ![s] = 0] /\ max' = [max EXCEPT ![s] = 0]
    /\ loc' = [loc EXCEPT ![s] = 0] /\ v' = [v EXCEPT ![s] = 0]
    /\ UNCHANGED <<min_ptr, max_ptr>>

word(s) ==
    /\ pc[s] = "word" /\ i[s] <= Len(mem[s])
    /\ LET c == PTR_MASK(mem[s][i[s]]) IN
       \/ /\ c < min_ptr[s] \/ c > max_ptr[s]
          /\ NextWord(s)
       \/ /\ c >= min_ptr[s] /\ c <= max_ptr[s]
          /\ cmp' = [cmp EXCEPT ![s] = c]
          /\ \/ /\ c = min_ptr[s] /\ loc' = [loc EXCEPT ![s] = 0]
                /\ Goto(s, "bit") /\ UNCHANGED search
             \/ /\ c # min_ptr[s] /\ c = max_ptr[s]
                /\ loc' = [loc EXCEPT ![s] = n_addrs - 1]
                /\ Goto(s, "bit") /\ UNCHANGED search
             \/ /\ c # min_ptr[s] /\ c # max_ptr[s]
                /\ min' = [min EXCEPT ![s] = 0]
                /\ max' = [max EXCEPT ![s] = n_scan_map]
                /\ Goto(s, "binary") /\ UNCHANGED <<level, loc>>
          /\ UNCHANGED <<i, min_ptr, max_ptr, v>>
    /\ UNCHANGED <<list, buf_addrs>>

return(s) ==
    /\ pc[s] = "word" /\ i[s] > Len(mem[s]) /\ Goto(s, "done")
    /\ UNCHANGED <<list, buf_addrs, locals, search, loc, v>>

-----------------------------------------------------------------------------
(* binary_search in the scan map (level 1), then in one page (level 2).     *)

Array(s) == IF level[s] = 1 THEN buf_scan_map ELSE buf_addrs

\* Mutant: every page is full.
PageEnd_full(p) == (p + 1) * PerPage

\* Where the entries of a page of the list end.
PageEnd(p) == IF p = n_scan_map - 1 THEN n_addrs ELSE (p + 1) * PerPage

\* The search returns the index "at": the page, or the entry.
Found(s, at) ==
    IF level[s] = 1
    THEN /\ level' = [level EXCEPT ![s] = 2]
         /\ min' = [min EXCEPT ![s] = at * PerPage]
         /\ max' = [max EXCEPT ![s] = PageEnd(at)]
         /\ Goto(s, "binary") /\ UNCHANGED loc
    ELSE /\ loc' = [loc EXCEPT ![s] = at]
         /\ Goto(s, "check") /\ UNCHANGED search

\* Mutant: the half below mid leaves out mid - 1.
Below_short(mid) == mid - 1

\* Mutant: the half below mid includes mid.
Below_stuck(mid) == mid + 1

\* The end of the half below mid.
Below(mid) == mid

\* One turn of the loop of binary_search.
binary_search(s) ==
    LET mid == (max[s] + min[s]) \div 2 IN
    /\ pc[s] = "binary" /\ max[s] - min[s] >= BINARY_THRESHOLD
    /\ \/ Array(s)[mid] = cmp[s] /\ Found(s, mid)
       \/ /\ Array(s)[mid] > cmp[s] /\ max' = [max EXCEPT ![s] = Below(mid)]
          /\ UNCHANGED <<pc, level, min, loc>>
       \/ /\ Array(s)[mid] < cmp[s] /\ min' = [min EXCEPT ![s] = mid]
          /\ UNCHANGED <<pc, level, max, loc>>
    /\ UNCHANGED <<list, buf_addrs, locals, v>>

\* The loop ends, and iterative_search tests its first entry.
iterative_search(s) ==
    /\ pc[s] = "binary" /\ max[s] - min[s] < BINARY_THRESHOLD
    /\ IF Array(s)[min[s]] > cmp[s] \/ min[s] = max[s]
       THEN Found(s, min[s])
       ELSE Goto(s, "iterate") /\ UNCHANGED <<search, loc>>
    /\ UNCHANGED <<list, buf_addrs, locals, v>>

\* One turn of the loop of iterative_search.
iterate(s) ==
    /\ pc[s] = "iterate"
    /\ \/ min[s] < max[s] /\ Array(s)[min[s]] = cmp[s] /\ Found(s, min[s])
       \/ min[s] < max[s] /\ Array(s)[min[s]] > cmp[s] /\ Found(s, min[s] - 1)
       \/ /\ min[s] < max[s] /\ Array(s)[min[s]] < cmp[s]
          /\ min' = [min EXCEPT ![s] = @ + 1]
          /\ UNCHANGED <<pc, level, max, loc>>
       \/ min[s] >= max[s] /\ Found(s, min[s] - 1)
    /\ UNCHANGED <<list, buf_addrs, locals, v>>

-----------------------------------------------------------------------------
(* if (buf_addrs[loc] == cmp) SET_LOW_BIT(&buf_addrs[loc]).                 *)

check(s) ==
    /\ pc[s] = "check"
    /\ IF buf_addrs[loc[s]] = cmp[s]
       THEN Goto(s, "bit") /\ UNCHANGED <<locals, search, loc, v>>
       ELSE NextWord(s)
    /\ UNCHANGED <<list, buf_addrs>>

\* SET_LOW_BIT loads the entry and, if the bit is clear, stores it plus one.
SET_LOW_BIT(s) ==
    /\ pc[s] = "bit"
    /\ IF buf_addrs[loc[s]] % 2 = 0
       THEN /\ v' = [v EXCEPT ![s] = buf_addrs[loc[s]]]
            /\ Goto(s, "store") /\ UNCHANGED <<locals, search, loc>>
       ELSE NextWord(s)
    /\ UNCHANGED <<list, buf_addrs>>

\* Mutant: the entry is read again and incremented.
Marked_again(s) == buf_addrs[loc[s]] + 1

Marked(s) == v[s] + 1

SET_LOW_BIT_store(s) ==
    /\ pc[s] = "store"
    /\ buf_addrs' = [buf_addrs EXCEPT ![loc[s]] = Marked(s)]
    /\ NextWord(s) /\ UNCHANGED list

-----------------------------------------------------------------------------
Step(s) ==
    \/ load_min(s) \/ load_max(s) \/ word(s) \/ return(s)
    \/ binary_search(s) \/ iterative_search(s) \/ iterate(s)
    \/ check(s) \/ SET_LOW_BIT(s) \/ SET_LOW_BIT_store(s)

AllDone == (\A s \in Searchers : pc[s] = "done") /\ UNCHANGED vars

Next == (\E s \in Searchers : Step(s)) \/ AllDone

Spec == Init /\ [][Next]_vars

\* The scheduler runs the handlers and the reclaimer.
FairSpec == Spec /\ \A s \in Searchers : WF_vars(Step(s))

-----------------------------------------------------------------------------
(* Properties.                                                              *)

Entries == 0..n_addrs-1
TypeOK ==
    /\ n_addrs \in Nat \ {0} /\ buf_addrs \in [Entries -> Nat]
    /\ buf_scan_map \in [0..n_scan_map-1 -> Nat]
    /\ mem \in [Searchers -> Ranges] /\ i \in [Searchers -> Nat \ {0}]
    /\ pc \in [Searchers -> {"load_min", "load_max", "word", "binary", "iterate",
                             "check", "bit", "store", "done"}]
    /\ min_ptr \in [Searchers -> Nat] /\ max_ptr \in [Searchers -> Nat]
    /\ cmp \in [Searchers -> Nat] /\ level \in [Searchers -> {1, 2}]
    /\ min \in [Searchers -> Nat] /\ max \in [Searchers -> Nat]
    /\ loc \in [Searchers -> Int] /\ v \in [Searchers -> Nat]

\* What the words of s point to; the words that its search has gone past.
Words(s) == {PTR_MASK(mem[s][k]) : k \in 1..Len(mem[s])}
Past(s) == {PTR_MASK(mem[s][k]) : k \in 1..i[s]-1}

(***************************************************************************)
(* No reference is missed: once a search has gone past a word that points  *)
(* to an entry, the low bit of that entry is set, although entries change  *)
(* under the comparisons of the search and its min_ptr and max_ptr may be  *)
(* marked values or stale ones.                                            *)
(***************************************************************************)
NothingMissed ==
    \A s \in Searchers : \A k \in Entries :
        PTR_MASK(buf_addrs[k]) \in Past(s) \ {0} => buf_addrs[k] % 2 = 1

(***************************************************************************)
(* Only referenced entries are marked, each one time: the low bits of an   *)
(* entry are 00, or 01 when some thread has the address; two threads that  *)
(* find the same entry do not add up.  Of several zero entries only the    *)
(* first can be marked.                                                    *)
(***************************************************************************)
OnlyFound ==
    \A k \in Entries :
        /\ buf_addrs[k] % 4 \in {0, 1}
        /\ buf_addrs[k] % 4 = 1 =>
              /\ \E s \in Searchers : PTR_MASK(buf_addrs[k]) \in Words(s)
              /\ PTR_MASK(buf_addrs[k]) = 0 => k = 0

(***************************************************************************)
(* The index that is read next lies inside the array: the search leaves    *)
(* neither the scan map nor the list, whose last page may be partly full.  *)
(***************************************************************************)
InMapping ==
    \A s \in Searchers :
        /\ pc[s] = "binary" =>
              /\ min[s] \in DOMAIN Array(s)
              /\ max[s] > min[s] /\ max[s] - 1 \in DOMAIN Array(s)
        /\ pc[s] = "iterate" /\ min[s] < max[s] => min[s] \in DOMAIN Array(s)
        /\ pc[s] \in {"check", "bit", "store"} => loc[s] \in Entries

\* Every search ends.
SearchEnds == \A s \in Searchers : <>(pc[s] = "done")

=============================================================================
