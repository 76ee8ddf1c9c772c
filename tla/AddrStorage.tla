---------------------------- MODULE AddrStorage -----------------------------
(***************************************************************************)
(* g_tsdata.storage, the stack of stored blocks (threadscan.c).  A         *)
(* reclaimer that holds the cleanup lock takes the whole stack with one    *)
(* exchange, copies each block into its working list and unmaps it.  After *)
(* it has released the lock it sweeps, turns its working list into a block *)
(* and pushes that with a CAS, while the next reclaimer takes the stack    *)
(* and others still push.  A block is named by its address, and mmap may   *)
(* return an address that was unmapped before: the word that a CAS         *)
(* compares may have come back.                                            *)
(*                                                                         *)
(* That one reclaimer holds the lock is shown in ThreadScan.  What happens *)
(* to the words of a list is the subject of WorkingList.  Here a member of *)
(* Addrs is an entry of a list, an address that was collected: a sweep may *)
(* overwrite a marked address with zero (ThreadScan's NothingLost), and    *)
(* the zero word stays the entry, stored and counted like the others.      *)
(***************************************************************************)
EXTENDS Integers, FiniteSets, Links

CONSTANTS
    Reclaimers, Addrs,
    Blocks,       \* addresses at which a working buffer may be mapped
    BufMax,       \* g_tsdata.max_ptrs * 2
    NULL

ASSUME StorageAssumption ==
    /\ IsFiniteSet(Addrs) /\ IsFiniteSet(Blocks)
    /\ NULL \notin Blocks /\ NULL \notin Reclaimers /\ BufMax \in Nat

VARIABLES
    storage,           \* g_tsdata.storage
    mapped,            \* the blocks that are mapped
    next,              \* addr_storage_t.next
    addrs,             \* the entries in a block
    lock,              \* who holds the cleanup lock
    pc, working_memory, leftovers, tmp,
    untracked,         \* addresses that the application may collect
    status             \* "ok" or "fatal"

blockVars == <<mapped, next, addrs>>
vars == <<storage, blockVars, lock, pc, working_memory, leftovers, tmp, untracked,
          status>>

Init ==
    /\ storage = NULL /\ mapped = {} /\ lock = NULL
    /\ next = [b \in Blocks |-> NULL] /\ addrs = [b \in Blocks |-> {}]
    /\ pc = [t \in Reclaimers |-> "idle"]
    /\ working_memory = [t \in Reclaimers |-> NULL]
    /\ leftovers = [t \in Reclaimers |-> NULL] /\ tmp = [t \in Reclaimers |-> NULL]
    /\ untracked = Addrs /\ status = "ok"

Runs(t, at) == status = "ok" /\ pc[t] = at
Goto(t, at) == pc' = [pc EXCEPT ![t] = at]

\* threadscan_alloc_munmap: nothing of the block can be read any more.
Unmap(b) ==
    /\ mapped' = mapped \ {b}
    /\ next' = [next EXCEPT ![b] = NULL]
    /\ addrs' = [addrs EXCEPT ![b] = {}]

-----------------------------------------------------------------------------
(* With the cleanup lock.                                                   *)

\* threadscan_reclaim maps the working buffer.
reclaim(t, b) ==
    /\ Runs(t, "idle") /\ Goto(t, "take") /\ lock = NULL /\ b \notin mapped
    /\ lock' = t /\ mapped' = mapped \cup {b}
    /\ working_memory' = [working_memory EXCEPT ![t] = b]
    /\ UNCHANGED <<storage, next, addrs, leftovers, tmp, untracked, status>>

\* Mutant: the stack is read, and not emptied.
Taken_kept == storage

\* What is left in g_tsdata.storage by the exchange.
Taken == NULL

take_leftovers(t) ==
    /\ Runs(t, "take") /\ Goto(t, "add")
    /\ leftovers' = [leftovers EXCEPT ![t] = storage]
    /\ storage' = Taken
    /\ UNCHANGED <<blockVars, lock, working_memory, tmp, untracked, status>>

\* Mutant: leftovers moves on when the block has been unmapped.
Advance_late(t) == leftovers[t]

\* leftovers = leftovers->next
Advance(t) == next[leftovers[t]]

\* add_to_buf_addrs, which gives up when the block does not fit.
add_to_buf_addrs(t) ==
    LET b == leftovers[t]
        w == working_memory[t]
    IN /\ Runs(t, "add") /\ b # NULL
       /\ \/ /\ Cardinality(addrs[w]) + Cardinality(addrs[b]) <= BufMax
             /\ Goto(t, "unmap")
             /\ addrs' = [addrs EXCEPT ![w] = @ \cup addrs[b]]
             /\ tmp' = [tmp EXCEPT ![t] = b]
             /\ leftovers' = [leftovers EXCEPT ![t] = Advance(t)]
             /\ UNCHANGED status
          \/ /\ Cardinality(addrs[w]) + Cardinality(addrs[b]) > BufMax
             /\ status' = "fatal"
             /\ UNCHANGED <<pc, addrs, tmp, leftovers>>
       /\ UNCHANGED <<storage, mapped, next, lock, working_memory, untracked>>

unmap_leftover(t) ==
    /\ Runs(t, "unmap") /\ Goto(t, "add")
    /\ Unmap(tmp[t])
    /\ tmp' = [tmp EXCEPT ![t] = NULL]
    /\ UNCHANGED <<storage, lock, working_memory, leftovers, untracked, status>>

\* pop_bulk of the queues, as much as the buffer takes.
pop_bulk(t, S) ==
    LET w == working_memory[t] IN
    /\ Runs(t, "add") /\ Goto(t, "scan") /\ leftovers[t] = NULL
    /\ Cardinality(addrs[w]) + Cardinality(S) <= BufMax
    /\ addrs' = [addrs EXCEPT ![w] = @ \cup S]
    /\ untracked' = untracked \ S
    /\ UNCHANGED <<storage, mapped, next, lock, working_memory, leftovers, tmp,
                   status>>

cleanup_release(t) ==
    /\ Runs(t, "scan") /\ Goto(t, "sweep")
    /\ lock' = NULL
    /\ UNCHANGED <<storage, blockVars, working_memory, leftovers, tmp, untracked,
                   status>>

-----------------------------------------------------------------------------
(* After its release.                                                       *)

\* handle_unreferenced_ptrs frees the entries F; what is freed may be collected
\* again.  The others stay, those among them that it overwrites with zero too.
handle_unreferenced_ptrs(t, F) ==
    LET w == working_memory[t] IN
    /\ Runs(t, "sweep") /\ Goto(t, "store") /\ F \subseteq addrs[w]
    /\ addrs' = [addrs EXCEPT ![w] = @ \ F]
    /\ untracked' = untracked \cup F
    /\ UNCHANGED <<storage, mapped, next, lock, working_memory, leftovers, tmp,
                   status>>

\* Mutant: a word too many for the header.
NoRoom_early(n) == n + 3 > BufMax

\* The next pointer and the length take two words of the buffer.
NoRoom(n) == n + 2 > BufMax

\* store_remaining_addrs up to its loop; n counts every entry, zero or not.
store_remaining_addrs(t) ==
    LET w == working_memory[t]
        n == Cardinality(addrs[w])
    IN /\ Runs(t, "store")
       /\ \/ /\ n = 0 /\ Goto(t, "idle")
             /\ Unmap(w)
             /\ working_memory' = [working_memory EXCEPT ![t] = NULL]
             /\ UNCHANGED status
          \/ /\ n # 0 /\ NoRoom(n) /\ status' = "fatal"
             /\ UNCHANGED <<pc, blockVars, working_memory>>
          \/ /\ n # 0 /\ ~NoRoom(n) /\ Goto(t, "next")
             /\ UNCHANGED <<blockVars, working_memory, status>>
       /\ UNCHANGED <<storage, lock, leftovers, tmp, untracked>>

\* tmp->next = g_tsdata.storage
store_next(t) ==
    /\ Runs(t, "next") /\ Goto(t, "cas")
    /\ next' = [next EXCEPT ![working_memory[t]] = storage]
    /\ UNCHANGED <<storage, mapped, addrs, lock, working_memory, leftovers, tmp,
                   untracked, status>>

\* Mutant: a plain store.
Unchanged_anyway(t) == TRUE

\* What the CAS compares: the address, which may have been unmapped meanwhile.
Unchanged(t) == storage = next[working_memory[t]]

store_cas(t) ==
    /\ Runs(t, "cas")
    /\ \/ /\ Unchanged(t) /\ Goto(t, "idle")
          /\ storage' = working_memory[t]
          /\ working_memory' = [working_memory EXCEPT ![t] = NULL]
       \/ /\ ~Unchanged(t) /\ Goto(t, "next")
          /\ UNCHANGED <<storage, working_memory>>
    /\ UNCHANGED <<blockVars, lock, leftovers, tmp, untracked, status>>

-----------------------------------------------------------------------------
Dead == status = "fatal" /\ UNCHANGED vars

Next ==
    \/ \E t \in Reclaimers :
          \/ \E b \in Blocks : reclaim(t, b)
          \/ take_leftovers(t) \/ add_to_buf_addrs(t) \/ unmap_leftover(t)
          \/ \E S \in SUBSET untracked : pop_bulk(t, S)
          \/ cleanup_release(t)
          \/ \E F \in SUBSET Addrs : handle_unreferenced_ptrs(t, F)
          \/ store_remaining_addrs(t) \/ store_next(t) \/ store_cas(t)
    \/ Dead

Spec == Init /\ [][Next]_vars

-----------------------------------------------------------------------------
(* Properties.                                                              *)

\* The blocks that a walk from b meets.
Chain(b) == Reachable(Blocks, next, b)

\* The blocks that carry the addresses of a reclaimer's working list.
ListOf(t) == Chain(leftovers[t]) \cup ({working_memory[t]} \ {NULL})

(***************************************************************************)
(* A mapped block is on the stack, or in the hands of one reclaimer: no    *)
(* mapping leaks, no reclaimer walks into a block that another has pushed  *)
(* or unmapped, and nothing unmapped is linked.  A working buffer is in no *)
(* chain.                                                                  *)
(***************************************************************************)
BlocksInOnePlace ==
    /\ mapped = Chain(storage)
                \cup UNION {(ListOf(t) \cup {tmp[t]}) \ {NULL} : t \in Reclaimers}
    /\ \A t \in Reclaimers :
          /\ working_memory[t] \notin Chain(leftovers[t])
          /\ (ListOf(t) \cup {tmp[t]}) \cap Chain(storage) = {}
          /\ tmp[t] \notin ListOf(t)
          /\ \A u \in Reclaimers \ {t} :
                (ListOf(t) \cup {tmp[t]}) \cap (ListOf(u) \cup {tmp[u]}) \subseteq {NULL}

(***************************************************************************)
(* threadscan_fatal ("Ran out of storage space", "overflowed address       *)
(* list") is called only when there are more entries, zeros of earlier     *)
(* sweeps included, than a block has room for, however many blocks rounds  *)
(* that overlap have stored.                                               *)
(***************************************************************************)
FatalOnlyWhenFull ==
    status = "fatal" => Cardinality(Addrs \ untracked) + 2 > BufMax

AddrsOf(B) == UNION {addrs[b] : b \in B}

(***************************************************************************)
(* "They should be stored for the next round" (threadscan_reclaim): the    *)
(* linked stack is the set of entries that ThreadScan takes it for.  The   *)
(* exchange takes all of it, a CAS adds a whole block to it, whatever was  *)
(* pushed, taken, unmapped or mapped again at the same address between the *)
(* read of the top and the CAS.                                            *)
(***************************************************************************)
S == INSTANCE AddrSet WITH
        stored <- AddrsOf(Chain(storage)),
        held   <- [t \in Reclaimers |-> AddrsOf(ListOf(t))]
IsAddrSet == S!Spec

=============================================================================
