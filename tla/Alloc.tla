------------------------------- MODULE Alloc --------------------------------
(***************************************************************************)
(* The internal allocator (alloc.c): mappings obtained from the kernel,    *)
(* and the metadata by which munmap finds how long a mapping is.  The      *)
(* nodes of metadata are carved out of pool blocks, which are mappings     *)
(* themselves: the first node of a pool block describes the block, the     *)
(* others go to the free list.  Nodes in use are on a circular list,       *)
(* sorted by address.                                                      *)
(*                                                                         *)
(* An address is the number of a page, and a node is named by its page and *)
(* its place in it.  The kernel (external) places a mapping wherever it    *)
(* fits.  Both lists are accessed with list_lock only, so a critical       *)
(* section without a loop is one step and an iteration of a loop is one.   *)
(***************************************************************************)
EXTENDS Integers, FiniteSets, Links

CONSTANTS
    Threads, NULL,
    NPages,       \* bound: pages of the address space
    Sizes,        \* the sizes that are asked for, in pages
    PoolNodes     \* nodes of a pool block besides its own

Pages == 1..NPages
Nodes == Pages \X (0..PoolNodes)

ASSUME AllocAssumption ==
    /\ NULL \notin Threads /\ NULL \notin Nodes /\ NPages \in Nat /\ PoolNodes \in Nat \ {0}
    /\ Sizes \subseteq Nat \ {0}

VARIABLES
    alloc_list, free_list, list_lock,
    addr, length, next, prev,      \* memory_metadata_t
    mapped,                        \* the kernel's view: pages that are mapped
    held,                          \* blocks, <<address, pages>>, that callers have
    pc,
    ptr,                           \* the argument of alloc_munmap
    meta, node, curr,              \* locals: the caller's node, the one inserted
    status                         \* "ok" or "fatal"

listVars == <<alloc_list, free_list, addr, length, next, prev>>
vars == <<listVars, list_lock, mapped, held, pc, ptr, meta, node, curr, status>>

Init ==
    /\ alloc_list = NULL /\ free_list = NULL /\ list_lock = NULL
    /\ addr = [m \in Nodes |-> 0] /\ length = [m \in Nodes |-> 0]
    /\ next = [m \in Nodes |-> NULL] /\ prev = [m \in Nodes |-> NULL]
    /\ mapped = {} /\ held = {}
    /\ pc = [t \in Threads |-> "user"]
    /\ ptr = [t \in Threads |-> 0]
    /\ meta = [t \in Threads |-> NULL] /\ node = [t \in Threads |-> NULL]
    /\ curr = [t \in Threads |-> NULL]
    /\ status = "ok"

Runs(t, at) == status = "ok" /\ pc[t] = at
Goto(t, at) == pc' = [pc EXCEPT ![t] = at]

LOW_ADDR(m) == addr[m]
HIGH_ADDR(m) == addr[m] + length[m]
Span(a, n) == a .. a+n-1
PagesOf(m) == Span(addr[m], length[m])

\* Where the kernel may place n pages.
Places(n) == {a \in Pages : Span(a, n) \subseteq Pages \ mapped}

\* mmap_wrap: "This function will terminate the program".
mmap_fails(t) ==
    /\ \/ Runs(t, "user") /\ list_lock = NULL /\ free_list = NULL /\ Places(1) = {}
       \/ Runs(t, "mmap") /\ \E n \in Sizes : Places(n) = {}
    /\ status' = "fatal"
    /\ UNCHANGED <<listVars, list_lock, mapped, held, pc, ptr, meta, node, curr>>

-----------------------------------------------------------------------------
(* metadata_do_insert, with the lock, of node[t].                           *)

\* Links the node before c.
Link(t, c) ==
    LET m == node[t] IN
    /\ next' = [next EXCEPT ![m] = c, ![prev[c]] = m]
    /\ prev' = [prev EXCEPT ![m] = prev[c], ![c] = m]

insert_first(t) ==
    /\ Runs(t, "insert") /\ alloc_list = NULL
    /\ alloc_list' = node[t]
    /\ next' = [next EXCEPT ![node[t]] = node[t]]
    /\ prev' = [prev EXCEPT ![node[t]] = node[t]]
    /\ Goto(t, "linked")
    /\ UNCHANGED <<free_list, addr, length, list_lock, mapped, held, ptr,
                   meta, node, curr, status>>

\* Mutant: not directly behind the last.
Behind_strict(t) == HIGH_ADDR(prev[alloc_list]) < LOW_ADDR(node[t])

Behind(t) == HIGH_ADDR(prev[alloc_list]) <= LOW_ADDR(node[t])

\* "This is the common case": behind the last, or else look for the place.
insert_last(t) ==
    /\ Runs(t, "insert") /\ alloc_list # NULL
    /\ \/ /\ Behind(t)
          /\ Link(t, alloc_list) /\ Goto(t, "linked") /\ UNCHANGED curr
       \/ /\ ~Behind(t)
          /\ curr' = [curr EXCEPT ![t] = alloc_list]
          /\ Goto(t, "walk") /\ UNCHANGED <<next, prev>>
    /\ UNCHANGED <<alloc_list, free_list, addr, length, list_lock, mapped, held,
                   ptr, meta, node, status>>

insert_walk(t) ==
    /\ Runs(t, "walk") /\ LOW_ADDR(curr[t]) < HIGH_ADDR(node[t])
    /\ curr' = [curr EXCEPT ![t] = next[@]]
    /\ UNCHANGED <<listVars, list_lock, mapped, held, pc, ptr, meta, node,
                   status>>

\* Mutant: the head of the list is left where it was.
NewHead_same(t) == alloc_list

\* if (curr == alloc_list) alloc_list = meta
NewHead(t) == IF curr[t] = alloc_list THEN node[t] ELSE alloc_list

insert_before(t) ==
    /\ Runs(t, "walk") /\ LOW_ADDR(curr[t]) >= HIGH_ADDR(node[t])
    /\ Link(t, curr[t])
    /\ alloc_list' = NewHead(t)
    /\ curr' = [curr EXCEPT ![t] = NULL]
    /\ Goto(t, "linked")
    /\ UNCHANGED <<free_list, addr, length, list_lock, mapped, held, ptr,
                   meta, node, status>>

-----------------------------------------------------------------------------
(* threadscan_alloc_mmap.                                                   *)

\* metadata_new: "Grab the first free entry", or map a pool block.
metadata_new(t) ==
    /\ Runs(t, "user") /\ list_lock = NULL
    /\ \/ /\ free_list # NULL
          /\ meta' = [meta EXCEPT ![t] = free_list]
          /\ free_list' = next[free_list]
          /\ Goto(t, "mmap")
          /\ UNCHANGED <<list_lock, mapped, addr, length, node>>
       \/ /\ free_list = NULL
          /\ \E p \in Places(1) :
                /\ mapped' = mapped \cup {p}
                /\ addr' = [addr EXCEPT ![<<p, 0>>] = p]
                /\ length' = [length EXCEPT ![<<p, 0>>] = 1]
                /\ node' = [node EXCEPT ![t] = <<p, 0>>]
          /\ list_lock' = t
          /\ Goto(t, "insert")
          /\ UNCHANGED <<free_list, meta>>
    /\ UNCHANGED <<alloc_list, next, prev, held, ptr, curr, status>>

\* Mutant: the last node gets no end.
Pooled_open(p) ==
    [m \in Nodes |-> IF m[1] = p /\ m[2] > 0 THEN <<p, IF m[2] > 1 THEN m[2] - 1 ELSE 1>>
                     ELSE next[m]]

\* The links when the other nodes of the pool block are a list.
Pooled(p) ==
    [m \in Nodes |-> IF m[1] = p /\ m[2] > 0
                     THEN IF m[2] > 1 THEN <<p, m[2] - 1>> ELSE NULL
                     ELSE next[m]]

\* The rest of metadata_new: fill the pool and take its first node.
metadata_new_pool(t) ==
    /\ Runs(t, "linked") /\ node[t][2] = 0
    /\ LET p == node[t][1] IN
          /\ next' = Pooled(p)
          /\ meta' = [meta EXCEPT ![t] = <<p, PoolNodes>>]
          /\ free_list' = Pooled(p)[<<p, PoolNodes>>]
    /\ list_lock' = NULL /\ node' = [node EXCEPT ![t] = NULL]
    /\ Goto(t, "mmap")
    /\ UNCHANGED <<alloc_list, addr, length, prev, mapped, held, ptr, curr,
                   status>>

mmap_wrap(t) ==
    /\ Runs(t, "mmap")
    /\ \E n \in Sizes : \E a \in Places(n) :
          /\ mapped' = mapped \cup Span(a, n)
          /\ addr' = [addr EXCEPT ![meta[t]] = a]
          /\ length' = [length EXCEPT ![meta[t]] = n]
    /\ Goto(t, "insert_lock")
    /\ UNCHANGED <<alloc_list, free_list, next, prev, list_lock, held, ptr,
                   meta, node, curr, status>>

metadata_insert(t) ==
    /\ Runs(t, "insert_lock") /\ list_lock = NULL
    /\ list_lock' = t /\ node' = [node EXCEPT ![t] = meta[t]]
    /\ Goto(t, "insert")
    /\ UNCHANGED <<listVars, mapped, held, ptr, meta, curr, status>>

\* Unlock; mprotect changes nothing that is modelled; return meta->addr.
alloc_mmap_return(t) ==
    LET m == node[t] IN
    /\ Runs(t, "linked") /\ m[2] > 0
    /\ list_lock' = NULL
    /\ held' = held \cup {<<addr[m], length[m]>>}
    /\ node' = [node EXCEPT ![t] = NULL] /\ meta' = [meta EXCEPT ![t] = NULL]
    /\ Goto(t, "user")
    /\ UNCHANGED <<listVars, mapped, ptr, curr, status>>

-----------------------------------------------------------------------------
(* threadscan_alloc_munmap.                                                 *)

\* A caller releases a block once; metadata_remove starts its search.
metadata_remove(t, b) ==
    /\ Runs(t, "user") /\ b \in held /\ list_lock = NULL
    /\ held' = held \ {b} /\ ptr' = [ptr EXCEPT ![t] = b[1]]
    /\ list_lock' = t /\ curr' = [curr EXCEPT ![t] = alloc_list]
    /\ Goto(t, "find")
    /\ UNCHANGED <<listVars, mapped, meta, node, status>>

remove_walk(t) ==
    /\ Runs(t, "find") /\ addr[curr[t]] # ptr[t]
    /\ curr' = [curr EXCEPT ![t] = next[@]]
    /\ UNCHANGED <<listVars, list_lock, mapped, held, pc, ptr, meta, node,
                   status>>

(***************************************************************************)
(* The node is unlinked; if it is the only one, alloc_list still points to *)
(* it, whose links are NULL.                                               *)
(***************************************************************************)
remove_unlink(t) ==
    LET c == curr[t] IN
    /\ Runs(t, "find") /\ addr[c] = ptr[t]
    /\ prev' = [prev EXCEPT ![next[c]] = prev[c], ![c] = NULL]
    /\ next' = [next EXCEPT ![prev[c]] = next[c], ![c] = NULL]
    /\ alloc_list' = IF c = alloc_list THEN next[c] ELSE alloc_list
    /\ meta' = [meta EXCEPT ![t] = c] /\ curr' = [curr EXCEPT ![t] = NULL]
    /\ list_lock' = NULL /\ ptr' = [ptr EXCEPT ![t] = 0]
    /\ Goto(t, "munmap")
    /\ UNCHANGED <<free_list, addr, length, mapped, held, node, status>>

\* Mutant: the length is not the one recorded.
Released_page(m) == {addr[m]}

\* munmap_wrap(meta->addr, meta->length)
Released(m) == PagesOf(m)

munmap_wrap(t) ==
    /\ Runs(t, "munmap")
    /\ mapped' = mapped \ Released(meta[t])
    /\ Goto(t, "free")
    /\ UNCHANGED <<listVars, list_lock, held, ptr, meta, node, curr, status>>

\* Nobody reads the address of a free node, so it is cleared (in the model only).
metadata_free(t) ==
    /\ Runs(t, "free") /\ list_lock = NULL
    /\ next' = [next EXCEPT ![meta[t]] = free_list]
    /\ free_list' = meta[t]
    /\ addr' = [addr EXCEPT ![meta[t]] = 0] /\ length' = [length EXCEPT ![meta[t]] = 0]
    /\ meta' = [meta EXCEPT ![t] = NULL]
    /\ Goto(t, "user")
    /\ UNCHANGED <<alloc_list, prev, list_lock, mapped, held, ptr, node, curr, status>>

-----------------------------------------------------------------------------
Insert(t) == insert_first(t) \/ insert_last(t) \/ insert_walk(t) \/ insert_before(t)

Mmap(t) ==
    \/ metadata_new_pool(t) \/ mmap_wrap(t) \/ metadata_insert(t)
    \/ Insert(t) \/ alloc_mmap_return(t)

Munmap(t) ==
    remove_walk(t) \/ remove_unlink(t) \/ munmap_wrap(t) \/ metadata_free(t)

Dead == status = "fatal" /\ UNCHANGED vars

Next ==
    \/ \E t \in Threads :
          \/ metadata_new(t) \/ Mmap(t) \/ mmap_fails(t)
          \/ \E b \in held : metadata_remove(t, b)
          \/ Munmap(t)
    \/ Dead

Spec == Init /\ [][Next]_vars

\* A thread in the middle of a call goes on; the kernel schedules every thread.
FairSpec == Spec /\ \A t \in Threads : WF_vars(Mmap(t) \/ Munmap(t))

-----------------------------------------------------------------------------
(* Properties.                                                              *)

\* The nodes that there are: those of the pool blocks.
Pool == {m \in Nodes : addr[<<m[1], 0>>] # 0}

\* The nodes that a walk from m meets.
Reach(m) == Reachable(Pool, next, m)

Ring == Reach(alloc_list)

(***************************************************************************)
(* "The list is sorted": from alloc_list it goes once around, forwards and *)
(* backwards, at increasing addresses and without overlaps, wherever the   *)
(* kernel places a block, and it has an end also when the first block or   *)
(* all that callers hold have been released.                               *)
(***************************************************************************)
RingSorted ==
    LET ring == Ring IN
    \A m \in ring :
        /\ next[m] \in ring /\ prev[next[m]] = m
        /\ next[m] # alloc_list => HIGH_ADDR(m) <= LOW_ADDR(next[m])

\* Mappings that are not on the list, because their node is in a thread's hands.
InTransit ==
    {meta[t] : t \in {u \in Threads : pc[u] \in {"insert_lock", "munmap"}}}
    \cup {node[t] : t \in {u \in Threads : pc[u] \in {"insert", "walk"}}}

(***************************************************************************)
(* "lost track of memory": what the kernel has mapped is what the listed   *)
(* nodes and the ones in transit say, page by page and each page once; and *)
(* a block that a caller has, or is releasing, is listed with its length,  *)
(* so that munmap gives back this block, all of it and nothing else.       *)
(***************************************************************************)
MappedIsTracked ==
    LET ring == Ring
        known == ring \cup InTransit
    IN /\ mapped = UNION {PagesOf(m) : m \in known}
       /\ \A m, n \in known : m # n => PagesOf(m) \cap PagesOf(n) = {}
       /\ held \subseteq {<<addr[m], length[m]>> : m \in ring}
       /\ \A t \in Threads : pc[t] = "find" =>
                                \E m \in ring : addr[m] = ptr[t] /\ m[2] > 0

\* The nodes that pool blocks have for others, once they are filled.
PoolOf == {m \in Pool : m[2] > 0 /\ \A t \in Threads : node[t] # <<m[1], 0>>}

\* The nodes that threads have taken from the free list or unlinked.
InHand == {meta[t] : t \in {u \in Threads : pc[u] # "linked"}} \ {NULL}

(***************************************************************************)
(* A node of a pool is on one list or in one thread's hands: none leaks,   *)
(* none is handed out twice, and a pool block is never released under its  *)
(* nodes.                                                                  *)
(***************************************************************************)
NodesInOnePlace ==
    LET ring == Ring
        free == Reach(free_list)
    IN /\ {m \in ring : m[2] > 0} \cup free \cup InHand = PoolOf
       /\ ring \cap free = {} /\ InHand \cap (ring \cup free) = {}
       /\ \A m \in PoolOf : <<m[1], 0>> \in ring
       /\ \A t, u \in Threads : t # u /\ meta[t] # NULL => meta[t] # meta[u]

(***************************************************************************)
(* Whoever takes list_lock gives it back: both searches end, although the  *)
(* list is circular and neither counts its steps.                          *)
(***************************************************************************)
LockIsReleased == \A t \in Threads : list_lock = t ~> list_lock # t \/ status = "fatal"

=============================================================================
