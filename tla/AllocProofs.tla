----------------------------- MODULE AllocProofs -----------------------------
(***************************************************************************)
(* Proofs about the internal allocator: for any number of threads, pages   *)
(* and nodes of a pool block, and any sizes, the list of mappings stays a  *)
(* sorted ring, what is mapped is what the nodes say, and no node leaks or *)
(* is handed out twice.                                                    *)
(***************************************************************************)
EXTENDS Alloc, LinksProofs, TLAPS

-----------------------------------------------------------------------------
(* The inductive invariant.                                                 *)

PC == {"user", "insert", "walk", "linked", "mmap", "insert_lock", "find", "munmap", "free"}

TypeInv ==
    /\ alloc_list \in Pool \cup {NULL} /\ free_list \in Pool \cup {NULL}
    /\ list_lock \in Threads \cup {NULL}
    /\ addr \in [Nodes -> Nat] /\ length \in [Nodes -> Nat]
    /\ next \in [Nodes -> Nodes \cup {NULL}] /\ prev \in [Nodes -> Nodes \cup {NULL}]
    /\ mapped \subseteq Pages /\ held \subseteq Pages \X Nat
    /\ pc \in [Threads -> PC] /\ ptr \in [Threads -> Nat]
    /\ meta \in [Threads -> Nodes \cup {NULL}] /\ node \in [Threads -> Pool \cup {NULL}]
    /\ curr \in [Threads -> Nodes \cup {NULL}] /\ status \in {"ok", "fatal"}

LockInv ==
    \A t \in Threads : pc[t] \in {"insert", "walk", "linked", "find"} <=> list_lock = t

\* What a thread has in its hands at each place.
HandInv ==
    \A t \in Threads :
        /\ pc[t] \in {"user", "find"} => meta[t] = NULL
        /\ pc[t] \in {"mmap", "insert_lock", "munmap", "free"} => meta[t] # NULL
        /\ pc[t] \in {"insert", "walk", "linked"} <=> node[t] # NULL
        /\ node[t] # NULL => IF node[t][2] = 0 THEN meta[t] = NULL /\ free_list = NULL
                             ELSE meta[t] = node[t]
        /\ pc[t] \in {"walk", "find"} => curr[t] \in Ring
        /\ pc[t] \in {"insert", "walk"} => node[t] \notin Ring
        /\ pc[t] = "linked" => node[t] \in Ring

Free == Reach(free_list)

ShapeInv ==
    /\ IsRing(Pool, next, prev, alloc_list) /\ IsList(Pool, next, free_list)
    /\ \A m \in Free : next[m] \in Pool \cup {NULL}

Known == Ring \cup InTransit

\* The first node of a pool block describes the block.
BaseInv == \A m \in Pool : m[2] = 0 => addr[m] = m[1] /\ length[m] = 1 /\ m \in Known

\* What is mapped is what the known nodes say, once.
PagesInv ==
    /\ \A m \in Known : addr[m] \in Pages /\ length[m] \in Nat \ {0}
    /\ mapped = UNION {PagesOf(m) : m \in Known}
    /\ \A m, n \in Known : m # n => PagesOf(m) \cap PagesOf(n) = {}

\* The list is sorted, and the search for the place of a node has passed what is before it.
SortInv ==
    /\ \A m \in Ring : next[m] # alloc_list => HIGH_ADDR(m) <= LOW_ADDR(next[m])
    /\ \A t \in Threads : pc[t] = "walk" => \/ curr[t] = alloc_list
                                            \/ LOW_ADDR(prev[curr[t]]) < HIGH_ADDR(node[t])

\* A block that a caller has, or is releasing, is on the list.
HeldInv ==
    /\ \A b \in held : \E m \in Ring : m[2] > 0 /\ b = <<addr[m], length[m]>>
    /\ \A t \in Threads : pc[t] = "find" =>
          /\ \E m \in Ring : m[2] > 0 /\ addr[m] = ptr[t]
          /\ \A b \in held : b[1] # ptr[t]

IInv ==
    /\ TypeInv /\ LockInv /\ HandInv /\ ShapeInv /\ BaseInv /\ PagesInv /\ SortInv
    /\ HeldInv /\ NodesInOnePlace

-----------------------------------------------------------------------------
(* Nodes, and the sets of nodes that the invariant is about.                *)

LEMMA NodeFacts ==
  /\ NULL \notin Nodes
  /\ \A m \in Nodes : /\ m[1] \in Pages /\ m[2] \in Nat /\ m[2] <= PoolNodes
                      /\ m = <<m[1], m[2]>> /\ <<m[1], 0>> \in Nodes
  /\ \A p \in Pages : \A k \in 0..PoolNodes :
        <<p, k>> \in Nodes /\ <<p, k>>[1] = p /\ <<p, k>>[2] = k
  /\ \A p \in Pages : <<p, 0>> \in Nodes /\ <<p, 0>>[1] = p /\ <<p, 0>>[2] = 0
BY AllocAssumption DEF Nodes, Pages

LEMMA ListsAreNodes == Ring \subseteq Pool /\ Free \subseteq Pool /\ Pool \subseteq Nodes
BY ReachedAreNodes DEF Ring, Free, Reach, Pool

LEMMA Transit ==
  /\ \A m : m \in InTransit <=>
        \E t \in Threads : \/ pc[t] \in {"insert_lock", "munmap"} /\ m = meta[t]
                           \/ pc[t] \in {"insert", "walk"} /\ m = node[t]
  /\ \A m : m \in InTransit' <=>
        \E t \in Threads : \/ pc'[t] \in {"insert_lock", "munmap"} /\ m = meta'[t]
                           \/ pc'[t] \in {"insert", "walk"} /\ m = node'[t]
BY DEF InTransit

LEMMA Hands ==
  /\ \A m : m \in InHand <=> m # NULL /\ \E t \in Threads : pc[t] # "linked" /\ meta[t] = m
  /\ \A m : m \in InHand' <=> m # NULL /\ \E t \in Threads : pc'[t] # "linked" /\ meta'[t] = m
BY DEF InHand

LEMMA PoolKept ==
  ASSUME \A p \in Pages : addr'[<<p, 0>>] = addr[<<p, 0>>]
  PROVE  Pool' = Pool
BY NodeFacts DEF Pool

LEMMA RingKept ==
  ASSUME ShapeInv, Pool' = Pool, alloc_list' = alloc_list,
         \A m \in Ring : next'[m] = next[m] /\ prev'[m] = prev[m]
  PROVE  Ring' = Ring /\ IsRing(Pool, next, prev, alloc_list)'
<1>1. /\ Reachable(Pool, next', alloc_list) = Ring
      /\ IsRing(Pool, next', prev', alloc_list)
  BY RingSame DEF Ring, Reach, ShapeInv
<1> QED BY <1>1 DEF Ring, Reach

LEMMA FreeKept ==
  ASSUME ShapeInv, Pool' = Pool, free_list' = free_list,
         \A m \in Free : next'[m] = next[m]
  PROVE  /\ Free' = Free /\ IsList(Pool, next, free_list)'
         /\ \A m \in Free' : next'[m] \in Pool \cup {NULL}
<1>1. Reachable(Pool, next', free_list) = Free /\ IsList(Pool, next', free_list)
  BY ReachesSame, ListSame DEF Free, Reach, ShapeInv
<1> QED BY <1>1 DEF Free, Reach, ShapeInv

LEMMA ListsKept ==
  ASSUME ShapeInv, UNCHANGED <<alloc_list, free_list, next, prev>>,
         \A p \in Pages : addr'[<<p, 0>>] = addr[<<p, 0>>]
  PROVE  Pool' = Pool /\ Ring' = Ring /\ Free' = Free /\ ShapeInv'
<1>1. Pool' = Pool
  BY PoolKept
<1> QED BY <1>1, RingKept, FreeKept DEF ShapeInv

\* A node with a page of its own is not the first of a pool block.
LEMMA PoolOfKept ==
  ASSUME Pool' = Pool, \A p \in Pages : (\E t \in Threads : node'[t] = <<p, 0>>)
                                    <=> (\E t \in Threads : node[t] = <<p, 0>>)
  PROVE  PoolOf' = PoolOf
<1>1. \A m \in Pool : m[1] \in Pages
  BY ListsAreNodes, NodeFacts
<1> QED BY <1>1 DEF PoolOf

LEMMA PagesKept ==
  ASSUME PagesInv, Known' = Known, mapped' = mapped,
         \A m \in Known : addr'[m] = addr[m] /\ length'[m] = length[m]
  PROVE  PagesInv'
<1>1. \A m \in Known : PagesOf(m)' = PagesOf(m)
  BY DEF PagesOf, Span
<1> QED BY <1>1 DEF PagesInv

\* Where a node may be that is not free.
LEMMA PlaceFacts ==
  ASSUME IInv
  PROVE  /\ \A m \in PoolOf : m \in Pool /\ m[2] > 0
         /\ \A m \in Ring : m[2] > 0 => m \in PoolOf
         /\ \A m \in Free : m \in PoolOf
         /\ \A m \in InHand : m \in PoolOf
         /\ \A m \in PoolOf : m \in Ring \/ m \in Free \/ m \in InHand
         /\ \A m \in Ring : m \notin Free /\ m \notin InHand
         /\ \A m \in Free : m \notin InHand
         /\ \A m \in PoolOf : <<m[1], 0>> \in Ring
         /\ \A t, u \in Threads : t # u /\ meta[t] # NULL => meta[t] # meta[u]
<1>1. NodesInOnePlace
  BY DEF IInv
<1>2. \A m : m \in PoolOf <=> (m \in Ring /\ m[2] > 0) \/ m \in Free \/ m \in InHand
  BY <1>1 DEF NodesInOnePlace, Free
<1>3. \A m \in PoolOf : m \in Pool /\ m[2] > 0
  BY DEF PoolOf
<1> QED BY <1>1, <1>2, <1>3 DEF NodesInOnePlace, Free

\* The same, to show it after a step.
LEMMA PlaceForm ==
  ASSUME \A m : m \in PoolOf' <=> (m \in Ring' /\ m[2] > 0) \/ m \in Free' \/ m \in InHand',
         \A m \in Ring' : m \notin Free' /\ m \notin InHand',
         \A m \in Free' : m \notin InHand',
         \A m \in PoolOf' : <<m[1], 0>> \in Ring',
         \A t, u \in Threads : t # u /\ meta'[t] # NULL => meta'[t] # meta'[u]
  PROVE  NodesInOnePlace'
<1>1. \A m : m \in {x \in Ring' : x[2] > 0} <=> m \in Ring' /\ m[2] > 0
  OBVIOUS
<1> QED BY <1>1 DEF NodesInOnePlace, Free

\* What a thread carries, and where it is not.
LEMMA HandFacts ==
  ASSUME IInv, NEW t \in Threads
  PROVE  /\ node[t] # NULL => node[t] \in Pool /\ node[t] \in Nodes /\ node[t] \notin Free
         /\ pc[t] \in {"mmap", "insert_lock", "munmap", "free"} =>
               /\ meta[t] \in PoolOf /\ meta[t] \in Pool /\ meta[t] \in Nodes /\ meta[t][2] > 0
               /\ meta[t] \notin Ring /\ meta[t] \notin Free /\ meta[t] \in InHand
         /\ pc[t] \in {"insert", "walk"} /\ node[t][2] > 0 => node[t] \in InHand
<1> USE PlaceFacts
<1>1. pc[t] \in {"mmap", "insert_lock", "munmap", "free"} => meta[t] \in InHand
  BY Hands DEF IInv, HandInv
<1>2. pc[t] \in {"insert", "walk"} /\ node[t][2] > 0 => node[t] \in InHand
  BY Hands DEF IInv, HandInv
<1>3. node[t] # NULL => node[t] \in Pool /\ node[t] \in Nodes
  BY ListsAreNodes DEF IInv, TypeInv
<1>4. node[t] # NULL => node[t] \notin Free
  <2>1. node[t] # NULL => node[t][2] \in Nat
    BY <1>3, NodeFacts
  <2>2. node[t] # NULL => pc[t] \in {"insert", "walk", "linked"}
    BY DEF IInv, HandInv
  <2>3. pc[t] = "linked" => node[t] \in Ring
    BY DEF IInv, HandInv
  <2> QED BY <1>2, <2>1, <2>2, <2>3
<1> QED BY <1>1, <1>2, <1>3, <1>4, ListsAreNodes

\* A node in a thread's hands is in no other's.
LEMMA OneOwner ==
  ASSUME IInv, NEW t \in Threads, pc[t] \in {"mmap", "insert_lock", "munmap", "free"},
         NEW u \in Threads, meta[u] = meta[t] \/ node[u] = meta[t]
  PROVE  u = t
<1>1. meta[t] # NULL /\ meta[t][2] # 0
  BY HandFacts, NodeFacts
<1>2. node[u] = meta[t] => meta[u] = meta[t]
  BY <1>1 DEF IInv, HandInv
<1> QED BY <1>1, <1>2 DEF IInv, NodesInOnePlace

LEMMA KnownAreNodes ==
  ASSUME IInv
  PROVE  Known \subseteq Nodes
<1>1. \A u \in Threads : meta[u] # NULL => meta[u] \in Nodes
  BY DEF IInv, TypeInv
<1>2. \A u \in Threads : node[u] # NULL => node[u] \in Nodes
  BY HandFacts
<1>3. \A m \in InTransit : m \in Nodes
  BY <1>1, <1>2, Transit DEF IInv, HandInv
<1> QED BY <1>3, ListsAreNodes DEF Known

\* Only the thread with the lock is in the middle of a list.
LEMMA LockFacts ==
  ASSUME IInv, NEW t \in Threads, list_lock = NULL \/ pc[t] \in {"insert", "walk", "linked", "find"}
  PROVE  /\ \A u \in Threads : u # t => pc[u] \in {"user", "mmap", "insert_lock", "munmap", "free"}
         /\ \A u \in Threads : u # t => node[u] = NULL
         /\ list_lock = NULL => pc[t] \in {"user", "mmap", "insert_lock", "munmap", "free"}
<1>1. \A u \in Threads : u # t => pc[u] \notin {"insert", "walk", "linked", "find"}
  BY AllocAssumption DEF IInv, LockInv
<1>2. list_lock = NULL => pc[t] \notin {"insert", "walk", "linked", "find"}
  BY AllocAssumption DEF IInv, LockInv
<1> QED BY <1>1, <1>2 DEF IInv, TypeInv, HandInv, PC

-----------------------------------------------------------------------------
(* Steps that leave the lists as they are.                                  *)

LEMMA Step_insert_walk ==
  ASSUME IInv, NEW t \in Threads, insert_walk(t)
  PROVE  IInv'
<1> USE DEF insert_walk, Runs, Goto, listVars
<1>1. Pool' = Pool /\ Ring' = Ring /\ Free' = Free /\ ShapeInv'
  BY ListsKept DEF IInv
<1>2. Known' = Known
  BY <1>1 DEF Known, InTransit
<1>3. PoolOf' = PoolOf /\ InHand' = InHand
  BY <1>1, PoolOfKept DEF InHand
<1>4. curr[t] \in Ring /\ next[curr[t]] \in Ring /\ prev[next[curr[t]]] = curr[t]
  BY DEF IInv, HandInv, ShapeInv, IsRing, Ring, Reach
<1>5. curr' = [curr EXCEPT ![t] = next[curr[t]]]
  BY DEF IInv, TypeInv
<1>6. TypeInv'
  BY <1>1, <1>4, <1>5, ListsAreNodes DEF IInv, TypeInv
<1>7. LockInv'
  BY DEF IInv, LockInv
<1>8. HandInv'
  BY <1>1, <1>4, <1>5 DEF IInv, TypeInv, HandInv
<1>9. BaseInv' /\ PagesInv'
  BY <1>1, <1>2, PagesKept DEF IInv, BaseInv
<1>10. SortInv'
  BY <1>1, <1>4, <1>5 DEF IInv, TypeInv, SortInv, LOW_ADDR, HIGH_ADDR
<1>11. HeldInv'
  BY <1>1 DEF IInv, HeldInv
<1>12. NodesInOnePlace'
  BY <1>1, <1>3, PlaceFacts, PlaceForm
<1> QED BY <1>1, <1>6, <1>7, <1>8, <1>9, <1>10, <1>11, <1>12 DEF IInv

LEMMA Step_remove_walk ==
  ASSUME IInv, NEW t \in Threads, remove_walk(t)
  PROVE  IInv'
<1> USE DEF remove_walk, Runs, Goto, listVars
<1>1. Pool' = Pool /\ Ring' = Ring /\ Free' = Free /\ ShapeInv'
  BY ListsKept DEF IInv
<1>2. Known' = Known
  BY <1>1 DEF Known, InTransit
<1>3. PoolOf' = PoolOf /\ InHand' = InHand
  BY <1>1, PoolOfKept DEF InHand
<1>4. curr[t] \in Ring /\ next[curr[t]] \in Ring
  BY DEF IInv, HandInv, ShapeInv, IsRing, Ring, Reach
<1>5. curr' = [curr EXCEPT ![t] = next[curr[t]]]
  BY DEF IInv, TypeInv
<1>6. TypeInv'
  BY <1>1, <1>4, <1>5, ListsAreNodes DEF IInv, TypeInv
<1>7. LockInv'
  BY DEF IInv, LockInv
<1>8. HandInv'
  BY <1>1, <1>4, <1>5 DEF IInv, TypeInv, HandInv
<1>9. BaseInv' /\ PagesInv'
  BY <1>1, <1>2, PagesKept DEF IInv, BaseInv
<1>10. SortInv'
  BY <1>1, <1>5 DEF IInv, TypeInv, SortInv, LOW_ADDR, HIGH_ADDR
<1>11. HeldInv'
  BY <1>1 DEF IInv, HeldInv
<1>12. NodesInOnePlace'
  BY <1>1, <1>3, PlaceFacts, PlaceForm
<1> QED BY <1>1, <1>6, <1>7, <1>8, <1>9, <1>10, <1>11, <1>12 DEF IInv

LEMMA Step_metadata_insert ==
  ASSUME IInv, NEW t \in Threads, metadata_insert(t)
  PROVE  IInv'
<1> USE DEF metadata_insert, Runs, Goto, listVars
<1>1. Pool' = Pool /\ Ring' = Ring /\ Free' = Free /\ ShapeInv'
  BY ListsKept DEF IInv
<1>2. /\ meta[t] \in Pool /\ meta[t] \notin Ring /\ meta[t] # NULL
      /\ meta[t][2] > 0 /\ meta[t][2] # 0 /\ node[t] = NULL
  BY HandFacts, NodeFacts, ListsAreNodes DEF IInv, HandInv
<1>3. Known' = Known
  <2>1. \A m : m \in InTransit' <=> m \in InTransit
    BY <1>2, Transit DEF IInv, TypeInv
  <2> QED BY <1>1, <2>1 DEF Known
<1>4. PoolOf' = PoolOf
  <2>1. \A p \in Pages : meta[t] # <<p, 0>> /\ node[t] # <<p, 0>>
    BY <1>2, NodeFacts
  <2> QED BY <1>1, <2>1, PoolOfKept DEF IInv, TypeInv
<1>5. InHand' = InHand
  BY DEF InHand, IInv, TypeInv
<1>6. TypeInv'
  BY <1>1, <1>2 DEF IInv, TypeInv, PC
<1>7. LockInv'
  BY LockFacts, AllocAssumption DEF IInv, TypeInv, LockInv
<1>8. HandInv'
  BY <1>1, <1>2 DEF IInv, TypeInv, HandInv
<1>9. BaseInv' /\ PagesInv'
  BY <1>1, <1>3, PagesKept DEF IInv, BaseInv
<1>10. SortInv'
  BY <1>1 DEF IInv, TypeInv, SortInv, LOW_ADDR, HIGH_ADDR
<1>11. HeldInv'
  BY <1>1 DEF IInv, TypeInv, HeldInv
<1>12. NodesInOnePlace'
  BY <1>1, <1>4, <1>5, PlaceFacts, PlaceForm
<1> QED BY <1>1, <1>6, <1>7, <1>8, <1>9, <1>10, <1>11, <1>12 DEF IInv

LEMMA Step_alloc_mmap_return ==
  ASSUME IInv, NEW t \in Threads, alloc_mmap_return(t)
  PROVE  IInv'
<1> USE DEF alloc_mmap_return, Runs, Goto, listVars
<1>1. Pool' = Pool /\ Ring' = Ring /\ Free' = Free /\ ShapeInv'
  BY ListsKept DEF IInv
<1>2. /\ node[t] \in Ring /\ node[t] \in Nodes /\ node[t] # NULL
      /\ node[t][2] > 0 /\ node[t][2] # 0 /\ meta[t] = node[t]
  BY HandFacts, NodeFacts, ListsAreNodes DEF IInv, HandInv
<1>3. Known' = Known
  <2>1. \A m : m \in InTransit' <=> m \in InTransit
    BY <1>2, Transit DEF IInv, TypeInv
  <2> QED BY <1>1, <2>1 DEF Known
<1>4. PoolOf' = PoolOf
  <2>1. \A p \in Pages : NULL # <<p, 0>> /\ node[t] # <<p, 0>>
    BY <1>2, NodeFacts
  <2> QED BY <1>1, <2>1, PoolOfKept DEF IInv, TypeInv
<1>5. InHand' = InHand
  <2>1. \A m : m \in InHand' <=> m \in InHand
    BY Hands DEF IInv, TypeInv
  <2> QED BY <2>1
<1>6. addr[node[t]] \in Pages /\ length[node[t]] \in Nat
  BY <1>2 DEF IInv, PagesInv, Known
<1>7. TypeInv'
  BY <1>1, <1>6 DEF IInv, TypeInv, PC
<1>8. LockInv'
  BY LockFacts, AllocAssumption DEF IInv, TypeInv, LockInv
<1>9. HandInv'
  BY <1>1, LockFacts DEF IInv, TypeInv, HandInv
<1>10. BaseInv' /\ PagesInv'
  BY <1>1, <1>3, PagesKept DEF IInv, BaseInv
<1>11. SortInv'
  BY <1>1, LockFacts DEF IInv, TypeInv, SortInv, LOW_ADDR, HIGH_ADDR
<1>12. HeldInv'
  BY <1>1, <1>2, LockFacts DEF IInv, TypeInv, HeldInv
<1>13. NodesInOnePlace'
  BY <1>1, <1>4, <1>5, PlaceFacts, PlaceForm DEF IInv, TypeInv
<1> QED BY <1>1, <1>7, <1>8, <1>9, <1>10, <1>11, <1>12, <1>13 DEF IInv

\* Blocks of callers are known by their addresses.
LEMMA SameAddress ==
  ASSUME IInv, NEW m \in Known, NEW n \in Known, addr[m] = addr[n]
  PROVE  m = n
<1>1. addr[m] \in Int /\ length[m] \in Nat \ {0} /\ length[n] \in Nat \ {0}
  BY AllocAssumption DEF IInv, PagesInv, Pages
<1>2. addr[m] \in PagesOf(m) /\ addr[m] \in PagesOf(n)
  BY <1>1 DEF PagesOf, Span
<1> QED BY <1>2 DEF IInv, PagesInv

LEMMA Step_metadata_remove ==
  ASSUME IInv, NEW t \in Threads, NEW b \in held, metadata_remove(t, b)
  PROVE  IInv'
<1> USE DEF metadata_remove, Runs, Goto, listVars
<1>1. Pool' = Pool /\ Ring' = Ring /\ Free' = Free /\ ShapeInv'
  BY ListsKept DEF IInv
<1>2. PICK m \in Ring : m[2] > 0 /\ b = <<addr[m], length[m]>>
  BY DEF IInv, HeldInv
<1>3. alloc_list \in Ring
  <2>1. alloc_list \notin Pool => Ring = {}
    BY ReachesNothing DEF Ring, Reach
  <2>2. alloc_list \in Pool => alloc_list \in Ring
    BY ReachesStart DEF Ring, Reach
  <2> QED BY <1>2, <2>1, <2>2
<1>4. Known' = Known
  <2>1. \A n : n \in InTransit' <=> n \in InTransit
    BY Transit DEF IInv, TypeInv
  <2> QED BY <1>1, <2>1 DEF Known
<1>5. PoolOf' = PoolOf
  BY <1>1, PoolOfKept
<1>6. InHand' = InHand
  <2>1. \A n : n \in InHand' <=> n \in InHand
    BY Hands DEF IInv, TypeInv
  <2> QED BY <2>1
<1>7. TypeInv'
  <2>1. b[1] \in Nat /\ held' \subseteq Pages \X Nat
    BY AllocAssumption DEF IInv, TypeInv, Pages
  <2> QED BY <1>1, <1>3, <2>1, ListsAreNodes DEF IInv, TypeInv, PC
<1>8. LockInv'
  BY LockFacts, AllocAssumption DEF IInv, TypeInv, LockInv
<1>9. HandInv'
  BY <1>1, <1>3 DEF IInv, TypeInv, HandInv
<1>10. BaseInv' /\ PagesInv'
  BY <1>1, <1>4, PagesKept DEF IInv, BaseInv
<1>11. SortInv'
  BY <1>1, LockFacts DEF IInv, TypeInv, SortInv, LOW_ADDR, HIGH_ADDR
<1>12. HeldInv'
  <2>1. \A c \in held' : c[1] # b[1]
    <3> SUFFICES ASSUME NEW c \in held, c # b, c[1] = b[1] PROVE FALSE
      OBVIOUS
    <3>1. PICK n \in Ring : c = <<addr[n], length[n]>>
      BY DEF IInv, HeldInv
    <3>2. addr[n] = addr[m]
      BY <1>2, <3>1
    <3>3. n = m
      BY <3>2, SameAddress DEF Known
    <3> QED BY <1>2, <3>1, <3>3
  <2>2. \A u \in Threads : pc'[u] = "find" => u = t
    BY LockFacts DEF IInv, TypeInv
  <2>3. ptr'[t] = b[1] /\ m[2] > 0 /\ addr'[m] = b[1]
    BY <1>2 DEF IInv, TypeInv
  <2> QED BY <1>1, <2>1, <2>2, <2>3 DEF IInv, HeldInv
<1>13. NodesInOnePlace'
  BY <1>1, <1>5, <1>6, PlaceFacts, PlaceForm
<1> QED BY <1>1, <1>7, <1>8, <1>9, <1>10, <1>11, <1>12, <1>13 DEF IInv

-----------------------------------------------------------------------------
(* Steps that map and unmap pages.                                          *)

LEMMA FreshPages ==
  ASSUME IInv, NEW n \in Nat \ {0}, NEW a \in Places(n)
  PROVE  /\ a \in Pages /\ a \in Nat \ {0} /\ a \in Span(a, n)
         /\ Span(a, n) \subseteq Pages /\ Span(a, n) \cap mapped = {}
         /\ \A m \in Known : Span(a, n) \cap PagesOf(m) = {}
<1>1. a \in Pages /\ Span(a, n) \subseteq Pages /\ Span(a, n) \cap mapped = {}
  BY DEF Places
<1>2. a \in Nat \ {0} /\ a \in Span(a, n)
  BY <1>1, AllocAssumption DEF Pages, Span
<1>3. \A m \in Known : PagesOf(m) \subseteq mapped
  BY DEF IInv, PagesInv
<1> QED BY <1>1, <1>2, <1>3

\* A node comes to be known, with pages that were not mapped.
LEMMA PagesAdded ==
  ASSUME IInv, NEW n \in Nat \ {0}, NEW a \in Places(n), NEW x, x \notin Known,
         Known' = Known \cup {x}, mapped' = mapped \cup Span(a, n),
         addr'[x] = a, length'[x] = n,
         \A m \in Known : addr'[m] = addr[m] /\ length'[m] = length[m]
  PROVE  PagesInv'
<1>1. \A m \in Known : PagesOf(m)' = PagesOf(m)
  BY DEF PagesOf, Span
<1>2. PagesOf(x)' = Span(a, n)
  BY DEF PagesOf, Span
<1>3. \A m \in Known' : addr'[m] \in Pages /\ length'[m] \in Nat \ {0}
  BY FreshPages DEF IInv, PagesInv
<1>4. mapped' = UNION {PagesOf(m)' : m \in Known'}
  <2>1. \A q : q \in mapped <=> \E m \in Known : q \in PagesOf(m)
    BY DEF IInv, PagesInv
  <2>2. \A q : q \in mapped' <=> q \in Span(a, n) \/ \E m \in Known : q \in PagesOf(m)'
    BY <1>1, <2>1
  <2>3. \A q : q \in mapped' <=> \E m \in Known' : q \in PagesOf(m)'
    BY <1>2, <2>2
  <2> QED BY <2>3
<1>5. \A m, k \in Known' : m # k => PagesOf(m)' \cap PagesOf(k)' = {}
  BY <1>1, <1>2, FreshPages DEF IInv, PagesInv
<1> QED BY <1>3, <1>4, <1>5 DEF PagesInv

\* A node is forgotten, and its pages are unmapped.
LEMMA PagesDropped ==
  ASSUME IInv, NEW x \in Known, Known' = Known \ {x}, mapped' = mapped \ PagesOf(x),
         UNCHANGED <<addr, length>>
  PROVE  PagesInv'
<1>1. \A m : PagesOf(m)' = PagesOf(m)
  BY DEF PagesOf, Span
<1>2. \A q : q \in mapped <=> \E m \in Known : q \in PagesOf(m)
  BY DEF IInv, PagesInv
<1>3. \A m \in Known' : PagesOf(m) \cap PagesOf(x) = {}
  BY DEF IInv, PagesInv
<1>4. \A q : q \in mapped' <=> \E m \in Known' : q \in PagesOf(m)'
  BY <1>1, <1>2, <1>3
<1>5. mapped' = UNION {PagesOf(m)' : m \in Known'}
  BY <1>4
<1> QED BY <1>1, <1>5 DEF IInv, PagesInv

LEMMA Step_mmap_wrap ==
  ASSUME IInv, NEW t \in Threads, mmap_wrap(t)
  PROVE  IInv'
<1> USE DEF mmap_wrap, Runs, Goto
<1>1. PICK n \in Sizes : \E a \in Places(n) :
          /\ mapped' = mapped \cup Span(a, n)
          /\ addr' = [addr EXCEPT ![meta[t]] = a]
          /\ length' = [length EXCEPT ![meta[t]] = n]
  OBVIOUS
<1>2. PICK a \in Places(n) : /\ mapped' = mapped \cup Span(a, n)
                             /\ addr' = [addr EXCEPT ![meta[t]] = a]
                             /\ length' = [length EXCEPT ![meta[t]] = n]
  BY <1>1
<1>3. n \in Nat \ {0} /\ a \in Pages /\ a \in Nat \ {0} /\ Span(a, n) \subseteq Pages
  BY FreshPages, AllocAssumption
<1>4. PICK x \in Nodes : x = meta[t]
  BY HandFacts
<1>5. /\ x \in Pool /\ x \notin Ring /\ x \notin Free /\ x \in InHand /\ x # NULL
      /\ x[2] > 0 /\ x[2] # 0
  BY <1>4, HandFacts, NodeFacts
<1>6. \A m \in Nodes \ {x} : addr'[m] = addr[m] /\ length'[m] = length[m]
  BY <1>2, <1>4 DEF IInv, TypeInv
<1>7. addr'[x] = a /\ length'[x] = n
  BY <1>2, <1>4 DEF IInv, TypeInv
<1>8. Pool' = Pool /\ Ring' = Ring /\ Free' = Free /\ ShapeInv'
  <2>1. \A p \in Pages : <<p, 0>> \in Nodes /\ <<p, 0>> # x
    BY <1>5, NodeFacts
  <2> QED BY <1>6, <2>1, ListsKept DEF IInv
<1>9. x \notin Known
  BY <1>4, <1>5, OneOwner, Transit DEF Known
<1>10. Known' = Known \cup {x}
  <2>1. \A m : m \in InTransit' <=> m \in InTransit \/ m = x
    BY <1>4, Transit DEF IInv, TypeInv
  <2> QED BY <1>8, <2>1 DEF Known
<1>11. Known \subseteq Nodes
  BY KnownAreNodes
<1>12. PoolOf' = PoolOf
  BY <1>8, PoolOfKept
<1>13. InHand' = InHand
  <2>1. \A m : m \in InHand' <=> m \in InHand
    BY Hands DEF IInv, TypeInv
  <2> QED BY <2>1
<1>14. TypeInv'
  BY <1>2, <1>3, <1>8 DEF IInv, TypeInv, PC
<1>15. LockInv'
  BY DEF IInv, TypeInv, LockInv
<1>16. HandInv'
  BY <1>8 DEF IInv, TypeInv, HandInv
<1>17. BaseInv'
  BY <1>5, <1>6, <1>8, <1>10, ListsAreNodes DEF IInv, BaseInv
<1>18. PagesInv'
  BY <1>2, <1>3, <1>6, <1>7, <1>9, <1>10, <1>11, PagesAdded
<1>19. SortInv'
  <2>1. \A m \in Ring : next[m] \in Ring /\ prev[m] \in Ring
    BY DEF IInv, ShapeInv, IsRing, Ring, Reach
  <2>2. \A m \in Nodes \ {x} : LOW_ADDR(m)' = LOW_ADDR(m) /\ HIGH_ADDR(m)' = HIGH_ADDR(m)
    BY <1>6 DEF LOW_ADDR, HIGH_ADDR
  <2>3. \A m \in Ring : m \in Nodes \ {x}
    BY <1>5, ListsAreNodes
  <2>4. \A u \in Threads : u # t => pc'[u] = pc[u]
    BY DEF IInv, TypeInv
  <2>5. pc'[t] # "walk"
    BY DEF IInv, TypeInv
  <2>6. ASSUME NEW u \in Threads, pc[u] = "walk"
        PROVE  /\ curr[u] \in Ring /\ prev[curr[u]] \in Ring
               /\ node[u] \in Nodes \ {x}
    <3>1. curr[u] \in Ring /\ node[u] \in Known
      BY <2>6, Transit DEF IInv, HandInv, Known
    <3> QED BY <1>9, <1>11, <2>1, <3>1
  <2> QED BY <1>8, <2>1, <2>2, <2>3, <2>4, <2>5, <2>6 DEF IInv, SortInv
<1>20. HeldInv'
  <2>1. \A m \in Ring : addr'[m] = addr[m] /\ length'[m] = length[m]
    BY <1>5, <1>6, ListsAreNodes
  <2> QED BY <1>8, <2>1 DEF IInv, TypeInv, HeldInv
<1>21. NodesInOnePlace'
  BY <1>8, <1>12, <1>13, PlaceFacts, PlaceForm
<1> QED BY <1>8, <1>14, <1>15, <1>16, <1>17, <1>18, <1>19, <1>20, <1>21 DEF IInv

LEMMA Step_munmap_wrap ==
  ASSUME IInv, NEW t \in Threads, munmap_wrap(t)
  PROVE  IInv'
<1> USE DEF munmap_wrap, Runs, Goto, listVars
<1>1. Pool' = Pool /\ Ring' = Ring /\ Free' = Free /\ ShapeInv'
  BY ListsKept DEF IInv
<1>2. PICK x \in Nodes : x = meta[t]
  BY HandFacts
<1>3. /\ x \in Pool /\ x \notin Ring /\ x \in InHand /\ x # NULL
      /\ x[2] > 0 /\ x[2] # 0
  BY <1>2, HandFacts, NodeFacts
<1>4. \A u \in Threads : meta[u] = x \/ node[u] = x => u = t
  BY <1>2, OneOwner
<1>5. x \in Known
  BY <1>2, Transit DEF Known
<1>6. Known' = Known \ {x}
  <2>1. node[t] = NULL
    BY DEF IInv, HandInv
  <2>2. \A m : m \in InTransit' <=> m \in InTransit /\ m # x
    BY <1>2, <1>3, <1>4, <2>1, Transit DEF IInv, TypeInv
  <2> QED BY <1>1, <1>3, <2>2 DEF Known
<1>7. PoolOf' = PoolOf
  BY <1>1, PoolOfKept
<1>8. InHand' = InHand
  <2>1. \A m : m \in InHand' <=> m \in InHand
    BY Hands DEF IInv, TypeInv
  <2> QED BY <2>1
<1>9. TypeInv'
  BY <1>1 DEF IInv, TypeInv, PC
<1>10. LockInv'
  BY DEF IInv, TypeInv, LockInv
<1>11. HandInv'
  BY <1>1 DEF IInv, TypeInv, HandInv
<1>12. BaseInv'
  BY <1>1, <1>3, <1>6 DEF IInv, BaseInv
<1>13. PagesInv'
  BY <1>2, <1>5, <1>6, PagesDropped DEF Released
<1>14. SortInv'
  BY <1>1 DEF IInv, TypeInv, SortInv, LOW_ADDR, HIGH_ADDR
<1>15. HeldInv'
  BY <1>1 DEF IInv, TypeInv, HeldInv
<1>16. NodesInOnePlace'
  BY <1>1, <1>7, <1>8, PlaceFacts, PlaceForm
<1> QED BY <1>1, <1>9, <1>10, <1>11, <1>12, <1>13, <1>14, <1>15, <1>16 DEF IInv

-----------------------------------------------------------------------------
(* Steps that take nodes from the free list and give them back.             *)

LEMMA NoNodes == alloc_list = NULL => Ring = {}
BY ReachesNothing, ListsAreNodes, NodeFacts DEF Ring, Reach

LEMMA NoneFree == free_list = NULL => Free = {}
BY ReachesNothing, ListsAreNodes, NodeFacts DEF Free, Reach

LEMMA Step_metadata_new_free ==
  ASSUME IInv, NEW t \in Threads, metadata_new(t), free_list # NULL
  PROVE  IInv'
<1> USE DEF metadata_new, Runs, Goto
<1>1. PICK x \in Nodes : x = free_list
  BY ListsAreNodes DEF IInv, TypeInv
<1>2. x \in Free /\ x \in Pool /\ x # NULL
  BY <1>1, ReachesStart, NodeFacts DEF IInv, TypeInv, Free, Reach
<1>3. Pool' = Pool
  BY PoolKept
<1>4. Ring' = Ring /\ IsRing(Pool, next, prev, alloc_list)'
  BY <1>3, RingKept DEF IInv
<1>5. Free' = Free \ {x} /\ IsList(Pool, next, free_list)'
  <2>1. /\ Reachable(Pool, next, next[x]) = Reachable(Pool, next, x) \ {x}
        /\ IsList(Pool, next, next[x])
    BY <1>1, <1>2, Pops DEF IInv, ShapeInv
  <2> QED BY <1>1, <1>3, <2>1 DEF Free, Reach
<1>6. ShapeInv'
  BY <1>3, <1>4, <1>5 DEF IInv, ShapeInv
<1>7. x \in PoolOf /\ x \notin Ring /\ x \notin InHand
  BY <1>2, PlaceFacts
<1>8. Known' = Known
  <2>1. \A m : m \in InTransit' <=> m \in InTransit
    BY Transit DEF IInv, TypeInv
  <2> QED BY <1>4, <2>1 DEF Known
<1>9. PoolOf' = PoolOf
  BY <1>3, PoolOfKept
<1>10. meta[t] = NULL /\ \A u \in Threads : u # t => meta[u] # x
  <2>1. \A u \in Threads : pc[u] # "linked"
    BY LockFacts
  <2> QED BY <1>2, <1>7, <2>1, Hands DEF IInv, HandInv
<1>11. \A m : m \in InHand' <=> m \in InHand \/ m = x
  BY <1>1, <1>2, <1>10, Hands DEF IInv, TypeInv
<1>12. TypeInv'
  BY <1>1, <1>2, <1>3 DEF IInv, TypeInv, PC, ShapeInv
<1>13. LockInv'
  BY DEF IInv, TypeInv, LockInv
<1>14. HandInv'
  BY <1>1, <1>2, <1>4, LockFacts DEF IInv, TypeInv, HandInv
<1>15. BaseInv' /\ PagesInv'
  BY <1>3, <1>8, PagesKept DEF IInv, BaseInv
<1>16. SortInv'
  BY <1>4 DEF IInv, TypeInv, SortInv, LOW_ADDR, HIGH_ADDR
<1>17. HeldInv'
  BY <1>4 DEF IInv, TypeInv, HeldInv
<1>18. NodesInOnePlace'
  <2>1. \A u, w \in Threads : u # w /\ meta'[u] # NULL => meta'[u] # meta'[w]
    BY <1>1, <1>10, PlaceFacts DEF IInv, TypeInv
  <2> QED BY <1>2, <1>4, <1>5, <1>7, <1>9, <1>11, <2>1, PlaceFacts, PlaceForm
<1> QED BY <1>6, <1>12, <1>13, <1>14, <1>15, <1>16, <1>17, <1>18 DEF IInv

\* A page that is not mapped is no pool block.
LEMMA FreshPool ==
  ASSUME IInv, NEW p \in Places(1)
  PROVE  p \in Pages /\ \A m \in Pool : m[1] # p
<1>1. p \in Pages /\ p \in Span(p, 1) /\ \A m \in Known : Span(p, 1) \cap PagesOf(m) = {}
  BY FreshPages
<1>2. <<p, 0>> \notin Pool
  <2> SUFFICES ASSUME <<p, 0>> \in Pool PROVE FALSE
    OBVIOUS
  <2>1. <<p, 0>> \in Known /\ addr[<<p, 0>>] = p /\ length[<<p, 0>>] = 1
    BY <1>1, NodeFacts DEF IInv, BaseInv
  <2> QED BY <1>1, <2>1 DEF PagesOf
<1>3. \A m \in Pool : <<m[1], 0>> \in Pool
  BY NodeFacts DEF Pool
<1> QED BY <1>1, <1>2, <1>3

LEMMA Step_metadata_new_block ==
  ASSUME IInv, NEW t \in Threads, metadata_new(t), free_list = NULL
  PROVE  IInv'
<1> USE DEF metadata_new, Runs, Goto
<1>1. PICK p \in Places(1) : /\ mapped' = mapped \cup {p}
                             /\ addr' = [addr EXCEPT ![<<p, 0>>] = p]
                             /\ length' = [length EXCEPT ![<<p, 0>>] = 1]
                             /\ node' = [node EXCEPT ![t] = <<p, 0>>]
  OBVIOUS
<1>2. p \in Pages /\ p \in Nat \ {0} /\ Span(p, 1) = {p} /\ \A m \in Pool : m[1] # p
  BY FreshPool, FreshPages, AllocAssumption DEF Span, Pages
<1>3. PICK x \in Nodes : x = <<p, 0>>
  BY <1>2, NodeFacts
<1>4. x[1] = p /\ x[2] = 0 /\ x # NULL /\ x \notin Pool /\ x \notin Ring
  BY <1>2, <1>3, NodeFacts, ListsAreNodes
<1>5. /\ \A m \in Nodes \ {x} : addr'[m] = addr[m] /\ length'[m] = length[m]
      /\ addr'[x] = p /\ length'[x] = 1
  BY <1>1, <1>3 DEF IInv, TypeInv
<1>6. \A m : m \in Pool' <=> m \in Pool \/ (m \in Nodes /\ m[1] = p)
  <2>1. \A m \in Nodes : <<m[1], 0>> = x <=> m[1] = p
    BY <1>3, NodeFacts
  <2> QED BY <1>2, <1>5, <2>1, NodeFacts DEF Pool
<1>7. Ring' = Ring /\ IsRing(Pool, next, prev, alloc_list)'
  <2>1. \A m \in Ring : next[m] \in Ring
    BY DEF IInv, ShapeInv, IsRing, Ring, Reach
  <2>2. Pool \subseteq Pool' /\ (alloc_list \in Pool' => alloc_list \in Pool)
    BY <1>6, NodeFacts DEF IInv, TypeInv
  <2>3. Reachable(Pool', next, alloc_list) = Ring
    BY <2>1, <2>2, Widens, ListsAreNodes DEF Ring, Reach
  <2>4. IsRing(Pool', next, prev, alloc_list)
    BY <2>3 DEF IInv, ShapeInv, IsRing, Ring, Reach
  <2> QED BY <2>3, <2>4 DEF Ring, Reach
<1>8. Free = {} /\ Free' = {} /\ IsList(Pool, next, free_list)'
  <2>1. NULL \notin Pool'
    BY <1>6, NodeFacts, ListsAreNodes
  <2>2. Reachable(Pool', next, NULL) = {}
    BY <2>1, ReachesNothing
  <2> QED BY <2>2, NoneFree DEF Free, Reach, IsList
<1>9. ShapeInv'
  BY <1>7, <1>8 DEF ShapeInv
<1>10. node[t] = NULL /\ meta[t] = NULL /\ \A u \in Threads : node[u] = NULL
  BY LockFacts DEF IInv, HandInv
<1>11. x \notin Known
  <2>1. \A u \in Threads : pc[u] \in {"insert_lock", "munmap"} => meta[u] # x
    BY <1>4, HandFacts
  <2> QED BY <1>4, <1>10, <2>1, Transit DEF Known
<1>12. Known' = Known \cup {x}
  <2>1. /\ \A u \in Threads : u # t => pc'[u] = pc[u] /\ pc[u] \notin {"insert", "walk"}
        /\ pc[t] = "user" /\ pc'[t] = "insert" /\ node'[t] = x /\ meta' = meta
    BY <1>1, <1>3, LockFacts DEF IInv, TypeInv
  <2>2. \A m : m \in InTransit' <=> m \in InTransit \/ m = x
    BY <2>1, Transit
  <2> QED BY <1>7, <2>2 DEF Known
<1>13. PoolOf' = PoolOf
  <2>1. \A m \in Pool' : <<m[1], 0>> = x <=> m[1] = p
    BY <1>3, <1>6, NodeFacts
  <2>2. \A m \in Pool' : <<m[1], 0>> # NULL
    BY <1>6, NodeFacts, ListsAreNodes
  <2>3. \A u \in Threads : node'[u] = IF u = t THEN x ELSE NULL
    BY <1>1, <1>3, <1>10 DEF IInv, TypeInv
  <2>4. \A m : m \in PoolOf' <=> m \in Pool' /\ m[2] > 0 /\ m[1] # p
    BY <2>1, <2>2, <2>3 DEF PoolOf
  <2>5. \A m : m \in PoolOf <=> m \in Pool /\ m[2] > 0
    BY <1>6, <1>10, <2>2 DEF PoolOf
  <2> QED BY <1>2, <1>6, <2>4, <2>5
<1>14. InHand' = InHand
  <2>1. \A m : m \in InHand' <=> m \in InHand
    BY Hands, LockFacts DEF IInv, TypeInv
  <2> QED BY <2>1
<1>15. TypeInv'
  <2>1. alloc_list' \in Pool' \cup {NULL} /\ free_list' \in Pool' \cup {NULL}
    BY <1>6 DEF IInv, TypeInv
  <2>2. x \in Pool' /\ node' = [node EXCEPT ![t] = x]
    BY <1>1, <1>3, <1>4, <1>6
  <2>3. node' \in [Threads -> Pool' \cup {NULL}]
    BY <1>6, <2>2 DEF IInv, TypeInv
  <2>4. addr' \in [Nodes -> Nat] /\ length' \in [Nodes -> Nat]
    BY <1>1, <1>2 DEF IInv, TypeInv
  <2> QED BY <1>1, <1>2, <2>1, <2>3, <2>4 DEF IInv, TypeInv, PC
<1>16. LockInv'
  BY LockFacts, AllocAssumption DEF IInv, TypeInv, LockInv
<1>17. HandInv'
  BY <1>1, <1>3, <1>4, <1>7, <1>10, LockFacts DEF IInv, TypeInv, HandInv
<1>18. BaseInv'
  <2>1. \A m \in Nodes : m[1] = p /\ m[2] = 0 => m = x
    BY <1>3, NodeFacts
  <2>2. \A m \in Pool : m \in Nodes \ {x}
    BY <1>4, ListsAreNodes
  <2> QED BY <1>4, <1>5, <1>6, <1>12, <2>1, <2>2 DEF IInv, BaseInv
<1>19. PagesInv'
  BY <1>1, <1>2, <1>5, <1>11, <1>12, KnownAreNodes, PagesAdded
<1>20. SortInv'
  <2>1. \A m \in Ring : next[m] \in Ring
    BY DEF IInv, ShapeInv, IsRing, Ring, Reach
  <2>2. \A m \in Ring : LOW_ADDR(m)' = LOW_ADDR(m) /\ HIGH_ADDR(m)' = HIGH_ADDR(m)
    BY <1>4, <1>5, ListsAreNodes DEF LOW_ADDR, HIGH_ADDR
  <2>3. \A u \in Threads : pc'[u] # "walk"
    BY LockFacts DEF IInv, TypeInv
  <2> QED BY <1>7, <2>1, <2>2, <2>3 DEF IInv, SortInv
<1>21. HeldInv'
  <2>1. \A m \in Ring : addr'[m] = addr[m] /\ length'[m] = length[m]
    BY <1>4, <1>5, ListsAreNodes
  <2> QED BY <1>7, <2>1, LockFacts DEF IInv, TypeInv, HeldInv
<1>22. NodesInOnePlace'
  BY <1>7, <1>8, <1>13, <1>14, PlaceFacts, PlaceForm
<1> QED BY <1>9, <1>15, <1>16, <1>17, <1>18, <1>19, <1>20, <1>21, <1>22 DEF IInv

LEMMA Step_metadata_new_pool ==
  ASSUME IInv, NEW t \in Threads, metadata_new_pool(t)
  PROVE  IInv'
<1> USE DEF metadata_new_pool, Runs, Goto
<1>1. PICK p \in Pages : <<p, 0>> = node[t]
  <2>1. node[t] \in Nodes
    BY HandFacts DEF IInv, HandInv
  <2>2. node[t][1] \in Pages /\ node[t] = <<node[t][1], node[t][2]>> /\ node[t][2] = 0
    BY <2>1, NodeFacts
  <2> QED BY <2>2
<1>2. <<p, 0>> \in Pool /\ <<p, 0>> \in Ring /\ node[t][1] = p /\ node[t][2] = 0 /\ node[t] # NULL
  BY <1>1, HandFacts, NodeFacts DEF IInv, HandInv
<1>3. meta[t] = NULL /\ free_list = NULL /\ Free = {}
  BY <1>2, NoneFree DEF IInv, HandInv
<1>4. Pool' = Pool
  BY PoolKept
<1>5. \A m \in Nodes : m[1] = p => m \in Pool
  BY <1>2 DEF Pool
<1>6. /\ next' = [m \in Nodes |-> IF m[1] = p /\ m[2] > 0
                                  THEN IF m[2] > 1 THEN <<p, m[2] - 1>> ELSE NULL
                                  ELSE next[m]]
      /\ meta' = [meta EXCEPT ![t] = <<p, PoolNodes>>]
      /\ free_list' = next'[<<p, PoolNodes>>]
  BY <1>2 DEF Pooled
<1>7. \A m \in Nodes : ~(m[1] = p /\ m[2] > 0) => next'[m] = next[m]
  BY <1>6
<1>8. \A k \in 1..PoolNodes :
          /\ <<p, k>> \in Pool /\ <<p, k>>[1] = p /\ <<p, k>>[2] = k
          /\ next'[<<p, k>>] = IF k > 1 THEN <<p, k-1>> ELSE NULL
  BY <1>5, <1>6, NodeFacts
<1>9. \A m : m \in PoolOf => m[1] # p
  BY <1>1 DEF PoolOf
<1>10. Ring' = Ring /\ IsRing(Pool, next, prev, alloc_list)'
  <2>1. \A m \in Ring : next'[m] = next[m] /\ prev'[m] = prev[m]
    BY <1>7, <1>9, PlaceFacts, ListsAreNodes
  <2> QED BY <1>4, <2>1, RingKept DEF IInv
<1>11. PICK n \in Nat : n = PoolNodes - 1 /\ PoolNodes \in 1..PoolNodes /\ n+1 = PoolNodes
  BY AllocAssumption
<1>12. Free' = {<<p, k>> : k \in 1..n} /\ IsList(Pool, next, free_list)'
  <2>1. free_list' = IF n > 0 THEN <<p, n>> ELSE NULL
    BY <1>6, <1>8, <1>11
  <2>2. \A k \in 1..n : k \in 1..PoolNodes
    BY <1>11
  <2>3. ASSUME NEW k \in 1..n
        PROVE  /\ <<p, k>> \in Pool
               /\ k > 1 => next'[<<p, k>>] = <<p, k-1>>
               /\ k = 1 => next'[<<p, k>>] = NULL
    <3> HIDE DEF metadata_new_pool
    <3>1. <<p, k>> \in Pool /\ next'[<<p, k>>] = IF k > 1 THEN <<p, k-1>> ELSE NULL
      BY <1>8, <2>2
    <3> QED BY <3>1
  <2>4. LaidOut(Pool, next', p, n, NULL, free_list')
    BY <2>1, <2>3, NodeFacts, ListsAreNodes DEF LaidOut
  <2>5. /\ Reachable(Pool, next', free_list') = {<<p, k>> : k \in 1..n}
        /\ IsList(Pool, next', free_list')
    BY <2>4, ReachesDown
  <2> QED BY <1>4, <2>5 DEF Free, Reach
<1>13. ShapeInv'
  <2>1. ASSUME NEW k \in 1..n PROVE next'[<<p, k>>] \in Pool \cup {NULL}
    <3>1. k \in 1..PoolNodes /\ (k > 1 => k-1 \in 1..PoolNodes)
      BY <1>11
    <3> QED BY <1>8, <3>1
  <2>2. \A m \in Free' : next'[m] \in Pool' \cup {NULL}
    BY <1>4, <1>12, <2>1
  <2> QED BY <1>10, <1>12, <2>2 DEF ShapeInv
<1>14. PICK x \in Pool : x = <<p, PoolNodes>>
  BY <1>8, <1>11
<1>15. x[1] = p /\ x[2] = PoolNodes /\ x # NULL /\ x \in Nodes /\ x \notin PoolOf /\ x \notin Ring
  <2>1. x[1] = p /\ x[2] = PoolNodes /\ x \in Nodes /\ x # NULL
    BY <1>8, <1>11, <1>14, NodeFacts, ListsAreNodes
  <2>2. PoolNodes > 0
    BY AllocAssumption
  <2> QED BY <1>9, <2>1, <2>2, PlaceFacts
<1>16. \A m : m \in Free' \/ m = x <=> m \in Nodes /\ m[1] = p /\ m[2] > 0
  <2>1. ASSUME NEW m \in Nodes, m[1] = p, m[2] > 0 PROVE m \in Free' \/ m = x
    <3>1. m = <<p, m[2]>> /\ m[2] \in Nat /\ m[2] <= PoolNodes
      BY <2>1, NodeFacts
    <3>2. m[2] = PoolNodes \/ m[2] \in 1..n
      BY <1>11, <2>1, <3>1
    <3> QED BY <1>12, <1>14, <3>1, <3>2
  <2>2. ASSUME NEW k \in 1..n PROVE <<p, k>> \in Nodes /\ <<p, k>>[1] = p /\ <<p, k>>[2] > 0
    <3>1. k \in 1..PoolNodes /\ k > 0
      BY <1>11
    <3> QED BY <1>8, <3>1, ListsAreNodes
  <2>3. PoolNodes > 0
    BY AllocAssumption
  <2> QED BY <1>12, <1>15, <2>1, <2>2, <2>3
<1>17. x \notin Free'
  <2>1. ASSUME NEW k \in 1..n PROVE x # <<p, k>>
    <3>1. <<p, k>>[2] = k /\ k # PoolNodes
      BY <1>8, <1>11
    <3> QED BY <1>15, <3>1
  <2> QED BY <1>12, <2>1
<1>18. \A u \in Threads : u # t => node[u] = NULL
  BY LockFacts
<1>19. \A m : m \in PoolOf' <=> m \in PoolOf \/ (m \in Nodes /\ m[1] = p /\ m[2] > 0)
  <2>1. \A u \in Threads : node'[u] = NULL
    BY <1>18 DEF IInv, TypeInv
  <2>2. \A m \in Pool : <<m[1], 0>> # NULL /\ m \in Nodes
    BY NodeFacts, ListsAreNodes
  <2>3. \A m \in Pool : node[t] = <<m[1], 0>> <=> m[1] = p
    BY <1>1, ListsAreNodes, NodeFacts
  <2>4. \A m : m \in PoolOf' <=> m \in Pool /\ m[2] > 0
    BY <1>4, <2>1, <2>2 DEF PoolOf
  <2>5. \A m : m \in PoolOf <=> m \in Pool /\ m[2] > 0 /\ m[1] # p
    BY <1>18, <2>2, <2>3 DEF PoolOf
  <2> QED BY <1>5, <2>2, <2>4, <2>5
<1>20. meta' = [meta EXCEPT ![t] = x] /\ \A u \in Threads : u # t => meta[u] # x
  <2>1. \A u \in Threads : u # t => pc[u] # "linked"
    BY LockFacts
  <2> QED BY <1>6, <1>14, <1>15, <2>1, Hands, PlaceFacts
<1>21. \A m : m \in InHand' <=> m \in InHand \/ m = x
  BY <1>3, <1>15, <1>20, Hands DEF IInv, TypeInv
<1>22. Known' = Known
  <2>1. \A m : m \in InTransit' <=> m \in InTransit
    BY <1>18, <1>20, Transit DEF IInv, TypeInv
  <2> QED BY <1>10, <2>1 DEF Known
<1>23. TypeInv'
  <2>1. free_list' \in Pool \cup {NULL}
    <3>1. PoolNodes > 1 => n \in 1..PoolNodes
      BY <1>11
    <3>2. PoolNodes > 1 => <<p, n>> \in Pool
      BY <1>8, <3>1
    <3>3. free_list' = IF PoolNodes > 1 THEN <<p, n>> ELSE NULL
      BY <1>6, <1>8, <1>11
    <3> QED BY <3>2, <3>3
  <2>2. next' \in [Nodes -> Nodes \cup {NULL}]
    <3>1. \A m \in Nodes : m[1] = p /\ m[2] > 1 => <<p, m[2] - 1>> \in Nodes
      <4> SUFFICES ASSUME NEW m \in Nodes, m[2] > 1 PROVE <<p, m[2] - 1>> \in Nodes
        OBVIOUS
      <4>1. m[2] \in Nat /\ m[2] <= PoolNodes
        BY NodeFacts
      <4>2. m[2] - 1 \in 0..PoolNodes
        BY <1>11, <4>1
      <4> QED BY <4>2, NodeFacts
    <3> QED BY <1>6, <3>1 DEF IInv, TypeInv
  <2> QED BY <1>4, <1>15, <1>20, <2>1, <2>2 DEF IInv, TypeInv, PC
<1>24. LockInv'
  BY LockFacts, AllocAssumption DEF IInv, TypeInv, LockInv
<1>25. HandInv'
  BY <1>10, <1>15, <1>18, <1>20, LockFacts DEF IInv, TypeInv, HandInv
<1>26. BaseInv' /\ PagesInv'
  BY <1>4, <1>22, PagesKept DEF IInv, BaseInv
<1>27. SortInv'
  <2>1. \A m \in Ring : next'[m] = next[m]
    BY <1>7, <1>9, PlaceFacts, ListsAreNodes
  <2>2. \A u \in Threads : pc'[u] # "walk"
    BY LockFacts DEF IInv, TypeInv
  <2> QED BY <1>10, <2>1, <2>2 DEF IInv, SortInv, LOW_ADDR, HIGH_ADDR
<1>28. HeldInv'
  BY <1>10, LockFacts DEF IInv, TypeInv, HeldInv
<1>29. NodesInOnePlace'
  <2>1. \A u, w \in Threads : u # w /\ meta'[u] # NULL => meta'[u] # meta'[w]
    BY <1>20, PlaceFacts DEF IInv, TypeInv
  <2>2. \A m \in Nodes : m[1] = p => <<m[1], 0>> \in Ring
    BY <1>2
  <2>3. \A m \in Free' : m[1] = p /\ m \in Nodes /\ m[2] > 0 /\ m \notin PoolOf
    BY <1>9, <1>16
  <2>4. \A m \in Free' : m \notin Ring /\ m \notin InHand
    BY <2>3, PlaceFacts
  <2>5. \A m : m \in PoolOf <=> (m \in Ring /\ m[2] > 0) \/ m \in InHand
    BY <1>3, PlaceFacts
  <2>6. x[2] > 0
    BY <1>15, AllocAssumption
  <2>7. \A m : m \in PoolOf' <=> (m \in Ring' /\ m[2] > 0) \/ m \in Free' \/ m \in InHand'
    BY <1>10, <1>16, <1>19, <1>21, <2>5
  <2>8. \A m \in Ring' : m \notin Free' /\ m \notin InHand'
    BY <1>10, <1>15, <1>21, <2>4, PlaceFacts
  <2>9. \A m \in Free' : m \notin InHand'
    BY <1>17, <1>21, <2>4
  <2>10. \A m \in PoolOf' : <<m[1], 0>> \in Ring'
    BY <1>10, <1>19, <2>2, PlaceFacts
  <2> QED BY <2>1, <2>7, <2>8, <2>9, <2>10, PlaceForm
<1> QED BY <1>13, <1>23, <1>24, <1>25, <1>26, <1>27, <1>28, <1>29 DEF IInv

LEMMA Step_metadata_free ==
  ASSUME IInv, NEW t \in Threads, metadata_free(t)
  PROVE  IInv'
<1> USE DEF metadata_free, Runs, Goto
<1>1. PICK x \in Nodes : x = meta[t]
  BY HandFacts
<1>2. /\ x \in Pool /\ x \notin Ring /\ x \notin Free /\ x \in InHand /\ x \in PoolOf
      /\ x # NULL /\ x[2] > 0 /\ x[2] # 0
  BY <1>1, HandFacts, NodeFacts
<1>3. /\ \A m \in Nodes \ {x} : /\ addr'[m] = addr[m] /\ length'[m] = length[m]
                                /\ next'[m] = next[m]
      /\ next'[x] = free_list /\ free_list' = x
  BY <1>1 DEF IInv, TypeInv
<1>4. Pool' = Pool
  <2>1. \A p \in Pages : <<p, 0>> \in Nodes /\ <<p, 0>> # x
    BY <1>2, NodeFacts
  <2> QED BY <1>3, <2>1, PoolKept
<1>5. Ring' = Ring /\ IsRing(Pool, next, prev, alloc_list)'
  <2>1. \A m \in Ring : next'[m] = next[m]
    BY <1>2, <1>3, ListsAreNodes
  <2> QED BY <1>4, <2>1, RingKept DEF IInv
<1>6. Free' = Free \cup {x} /\ IsList(Pool, next, free_list)'
  <2>1. \A m \in Pool \ {x} : next'[m] = next[m]
    BY <1>3, ListsAreNodes
  <2>2. /\ Reachable(Pool, next', x) = Reachable(Pool, next, free_list) \cup {x}
        /\ IsList(Pool, next', x)
    <3>1. IsList(Pool, next, free_list) /\ x \notin Reachable(Pool, next, free_list)
      BY <1>2 DEF IInv, ShapeInv, Free, Reach
    <3> HIDE DEF metadata_free
    <3> QED BY <1>2, <1>3, <2>1, <3>1, PushedOn
  <2> QED BY <1>3, <1>4, <2>2 DEF Free, Reach
<1>7. ShapeInv'
  <2>1. \A m \in Free : next'[m] = next[m]
    BY <1>2, <1>3, ListsAreNodes
  <2> QED BY <1>3, <1>4, <1>5, <1>6, <2>1 DEF IInv, TypeInv, ShapeInv
<1>8. \A u \in Threads : meta[u] = x \/ node[u] = x => u = t
  BY <1>1, OneOwner
<1>9. node[t] = NULL
  BY DEF IInv, HandInv
<1>10. x \notin Known
  BY <1>2, <1>8, <1>9, Transit DEF Known
<1>11. Known' = Known
  <2>1. \A m : m \in InTransit' <=> m \in InTransit
    BY Transit DEF IInv, TypeInv
  <2> QED BY <1>5, <2>1 DEF Known
<1>12. PoolOf' = PoolOf
  BY <1>4, PoolOfKept
<1>13. \A m : m \in InHand' <=> m \in InHand /\ m # x
  BY <1>1, <1>8, Hands DEF IInv, TypeInv
<1>14. TypeInv'
  BY <1>1, <1>2, <1>4, ListsAreNodes DEF IInv, TypeInv, PC
<1>15. LockInv'
  BY DEF IInv, TypeInv, LockInv
<1>16. HandInv'
  BY <1>5, LockFacts DEF IInv, TypeInv, HandInv
<1>17. BaseInv'
  BY <1>2, <1>3, <1>4, <1>11, ListsAreNodes DEF IInv, BaseInv
<1>18. PagesInv'
  BY <1>3, <1>10, <1>11, KnownAreNodes, PagesKept DEF IInv
<1>19. SortInv'
  <2>1. \A m \in Ring : next[m] \in Ring
    BY DEF IInv, ShapeInv, IsRing, Ring, Reach
  <2>2. \A m \in Ring : /\ LOW_ADDR(m)' = LOW_ADDR(m) /\ HIGH_ADDR(m)' = HIGH_ADDR(m)
                        /\ next'[m] = next[m]
    BY <1>2, <1>3, ListsAreNodes DEF LOW_ADDR, HIGH_ADDR
  <2>3. \A u \in Threads : pc'[u] # "walk"
    BY LockFacts DEF IInv, TypeInv
  <2> QED BY <1>5, <2>1, <2>2, <2>3 DEF IInv, SortInv
<1>20. HeldInv'
  <2>1. \A m \in Ring : addr'[m] = addr[m] /\ length'[m] = length[m]
    BY <1>2, <1>3, ListsAreNodes
  <2> QED BY <1>5, <2>1, LockFacts DEF IInv, TypeInv, HeldInv
<1>21. NodesInOnePlace'
  <2>1. \A u, w \in Threads : u # w /\ meta'[u] # NULL => meta'[u] # meta'[w]
    BY PlaceFacts DEF IInv, TypeInv
  <2> QED BY <1>2, <1>5, <1>6, <1>12, <1>13, <2>1, PlaceFacts, PlaceForm
<1> QED BY <1>7, <1>14, <1>15, <1>16, <1>17, <1>18, <1>19, <1>20, <1>21 DEF IInv

-----------------------------------------------------------------------------
(* Steps that link a node into the ring, and unlink it.                     *)

\* Blocks do not overlap, so one that starts below another's end ends before it.
LEMMA Apart ==
  ASSUME IInv, NEW m \in Known, NEW n \in Known, m # n, LOW_ADDR(m) < HIGH_ADDR(n)
  PROVE  HIGH_ADDR(m) <= LOW_ADDR(n)
<1>1. /\ addr[m] \in Int /\ addr[n] \in Int
      /\ length[m] \in Nat \ {0} /\ length[n] \in Nat \ {0}
  BY AllocAssumption DEF IInv, PagesInv, Pages
<1>2. PagesOf(m) \cap PagesOf(n) = {}
  BY DEF IInv, PagesInv
<1>3. addr[n] >= addr[m] /\ addr[n] < addr[m] + length[m] =>
          addr[n] \in PagesOf(m) /\ addr[n] \in PagesOf(n)
  BY <1>1 DEF PagesOf, Span
<1>4. addr[m] >= addr[n] /\ addr[m] < addr[n] + length[n] =>
          addr[m] \in PagesOf(m) /\ addr[m] \in PagesOf(n)
  BY <1>1 DEF PagesOf, Span
<1> QED BY <1>1, <1>2, <1>3, <1>4 DEF LOW_ADDR, HIGH_ADDR

\* All but the order, when node[t] has been linked in.
LEMMA Inserted ==
  ASSUME IInv, NEW t \in Threads, pc[t] \in {"insert", "walk"}, Goto(t, "linked"),
         UNCHANGED <<addr, length, list_lock, mapped, held, ptr, meta, node, status, free_list>>,
         Ring' = Ring \cup {node[t]}, Free' = Free, Pool' = Pool, ShapeInv', SortInv',
         alloc_list' \in Pool \cup {NULL}, curr' \in [Threads -> Nodes \cup {NULL}],
         next' \in [Nodes -> Nodes \cup {NULL}], prev' \in [Nodes -> Nodes \cup {NULL}]
  PROVE  IInv'
<1> USE DEF Goto
<1>1. PICK x \in Nodes : x = node[t]
  BY HandFacts DEF IInv, HandInv
<1>2. x \in Pool /\ x \notin Ring /\ x \notin Free /\ x # NULL
  BY <1>1, HandFacts DEF IInv, HandInv
<1>3. /\ \A u \in Threads : u # t => /\ pc'[u] = pc[u] /\ node[u] = NULL
                                     /\ pc[u] \in {"user", "mmap", "insert_lock", "munmap", "free"}
      /\ pc'[t] = "linked"
  BY LockFacts DEF IInv, TypeInv
<1>4. \A u \in Threads : u # t => meta[u] # x
  <2>1. CASE x[2] = 0
    <3>1. \A u \in Threads : u # t /\ meta[u] = x => meta[u] \in PoolOf
      BY <1>2, <1>3, Hands, PlaceFacts
    <3> QED BY <2>1, <3>1 DEF PoolOf
  <2>2. CASE x[2] # 0
    BY <1>1, <1>2, <2>2, PlaceFacts DEF IInv, HandInv
  <2> QED BY <2>1, <2>2
<1>5. Known' = Known
  <2>1. \A m : m \in InTransit' \/ m = x <=> m \in InTransit
    BY <1>1, <1>3, <1>4, Transit
  <2> QED BY <1>1, <2>1 DEF Known
<1>6. PoolOf' = PoolOf
  BY PoolOfKept
<1>7. meta[t] = x \/ meta[t] = NULL
  BY <1>1, <1>2 DEF IInv, HandInv
<1>8. \A m : m \in InHand' <=> m \in InHand /\ m # x
  BY <1>3, <1>4, <1>7, Hands
<1>9. x \in InHand <=> x[2] > 0
  <2>1. x[2] > 0 => x \in InHand
    BY <1>1, HandFacts
  <2> QED BY <2>1, PlaceFacts
<1>10. TypeInv'
  BY DEF IInv, TypeInv, PC
<1>11. LockInv'
  BY <1>3 DEF IInv, TypeInv, LockInv
<1>12. HandInv'
  BY <1>1, <1>2, <1>3, <1>4 DEF IInv, TypeInv, HandInv
<1>13. BaseInv' /\ PagesInv'
  BY <1>5, PagesKept DEF IInv, BaseInv
<1>14. HeldInv'
  BY <1>3 DEF IInv, TypeInv, HeldInv
<1>15. NodesInOnePlace'
  <2>1. \A m : m \in PoolOf' <=> (m \in Ring' /\ m[2] > 0) \/ m \in Free' \/ m \in InHand'
    BY <1>1, <1>6, <1>8, <1>9, PlaceFacts
  <2>2. \A m \in Ring' : m \notin Free' /\ m \notin InHand'
    BY <1>1, <1>2, <1>8, PlaceFacts
  <2>3. \A m \in Free' : m \notin InHand'
    BY <1>8, PlaceFacts
  <2>4. \A m \in PoolOf' : <<m[1], 0>> \in Ring'
    BY <1>6, PlaceFacts
  <2> QED BY <2>1, <2>2, <2>3, <2>4, PlaceFacts, PlaceForm
<1> QED BY <1>10, <1>11, <1>12, <1>13, <1>14, <1>15 DEF IInv

LEMMA Step_insert_first ==
  ASSUME IInv, NEW t \in Threads, insert_first(t)
  PROVE  IInv'
<1> USE DEF insert_first, Runs
<1>1. PICK x \in Nodes : x = node[t]
  BY HandFacts DEF IInv, HandInv
<1>2. x \in Pool /\ x \notin Free /\ Ring = {}
  BY <1>1, HandFacts, NoNodes DEF IInv, HandInv
<1>3. /\ next'[x] = x /\ prev'[x] = x /\ \A m \in Nodes \ {x} : next'[m] = next[m]
      /\ next' \in [Nodes -> Nodes \cup {NULL}] /\ prev' \in [Nodes -> Nodes \cup {NULL}]
  BY <1>1 DEF IInv, TypeInv
<1>4. Pool' = Pool
  BY PoolKept
<1>5. Ring' = {x} /\ IsRing(Pool, next, prev, alloc_list)'
  <2>1. Reachable(Pool, next', x) = {x} /\ IsRing(Pool, next', prev', x)
    <3> HIDE DEF insert_first
    <3>1. PICK f : f = next'
      OBVIOUS
    <3>2. PICK g : g = prev'
      OBVIOUS
    <3>3. Reachable(Pool, f, x) = {x} /\ IsRing(Pool, f, g, x)
      BY <1>2, <1>3, <3>1, <3>2, RingAlone
    <3> QED BY <3>1, <3>2, <3>3
  <2> QED BY <1>1, <1>4, <2>1 DEF Ring, Reach
<1>6. Free' = Free /\ ShapeInv'
  <2>1. \A m \in Free : next'[m] = next[m]
    BY <1>2, <1>3, ListsAreNodes
  <2> QED BY <1>4, <1>5, <2>1, FreeKept DEF IInv, ShapeInv
<1>7. SortInv'
  <2>1. \A u \in Threads : pc'[u] # "walk"
    BY LockFacts DEF IInv, TypeInv, Goto
  <2> QED BY <1>1, <1>3, <1>5, <2>1 DEF SortInv
<1>8. Ring' = Ring \cup {node[t]} /\ alloc_list' \in Pool \cup {NULL}
  BY <1>1, <1>2, <1>5
<1>9. curr' \in [Threads -> Nodes \cup {NULL}]
  BY DEF IInv, TypeInv
<1> QED BY <1>3, <1>4, <1>6, <1>7, <1>8, <1>9, Inserted

\* node[t] is linked before c.
LEMMA Linked ==
  ASSUME IInv, NEW t \in Threads, pc[t] \in {"insert", "walk"}, NEW c \in Ring, Link(t, c),
         UNCHANGED <<addr, free_list>>,
         alloc_list' = alloc_list \/ (alloc_list' = node[t] /\ c = alloc_list)
  PROVE  /\ Pool' = Pool /\ Ring' = Ring \cup {node[t]} /\ Free' = Free /\ ShapeInv'
         /\ next'[node[t]] = c /\ next'[prev[c]] = node[t] /\ prev[c] \in Ring
         /\ \A m \in Ring : m # prev[c] => next'[m] = next[m] /\ next[m] # c
         /\ alloc_list' \in Pool
         /\ next' \in [Nodes -> Nodes \cup {NULL}] /\ prev' \in [Nodes -> Nodes \cup {NULL}]
<1>1. PICK x \in Nodes : x = node[t]
  BY HandFacts DEF IInv, HandInv
<1>2. x \in Pool /\ x \notin Ring /\ x \notin Free
  BY <1>1, HandFacts DEF IInv, HandInv
<1>3. \A m \in Ring : /\ next[m] \in Ring /\ prev[m] \in Ring
                      /\ prev[next[m]] = m /\ next[prev[m]] = m
  BY DEF IInv, ShapeInv, IsRing, Ring, Reach
<1>4. PICK d \in Ring : d = prev[c]
  BY <1>3
<1>5. c \in Nodes /\ d \in Nodes /\ c # x /\ d # x /\ c \in Pool
  BY <1>2, ListsAreNodes
<1>6. /\ next' = [next EXCEPT ![x] = c, ![d] = x]
      /\ prev' = [prev EXCEPT ![x] = d, ![c] = x]
  BY <1>1, <1>4 DEF Link
<1>7. /\ next'[x] = c /\ next'[d] = x /\ \A m \in Nodes \ {x, d} : next'[m] = next[m]
      /\ prev'[x] = d /\ prev'[c] = x /\ \A m \in Nodes \ {x, c} : prev'[m] = prev[m]
  BY <1>5, <1>6 DEF IInv, TypeInv
<1>8. next' \in [Nodes -> Nodes \cup {NULL}] /\ prev' \in [Nodes -> Nodes \cup {NULL}]
  BY <1>5, <1>6 DEF IInv, TypeInv
<1>9. Pool' = Pool
  BY PoolKept
<1>10. alloc_list \in Pool
  <2>1. alloc_list \notin Pool => Ring = {}
    BY ReachesNothing DEF Ring, Reach
  <2> QED BY <2>1
<1>11. Ring' = Ring \cup {x} /\ IsRing(Pool, next, prev, alloc_list)'
  <2>1. PICK f : f = next'
    OBVIOUS
  <2>2. PICK g : g = prev'
    OBVIOUS
  <2>3. PICK k : k = alloc_list'
    OBVIOUS
  <2>4. /\ f[x] = c /\ f[prev[c]] = x /\ \A y \in Pool \ {x, prev[c]} : f[y] = next[y]
        /\ g[x] = prev[c] /\ g[c] = x /\ \A y \in Pool \ {x, c} : g[y] = prev[y]
    BY <1>4, <1>7, <2>1, <2>2, ListsAreNodes
  <2>5. k = alloc_list \/ (k = x /\ c = alloc_list)
    BY <1>1, <2>3
  <2>6. /\ IsRing(Pool, next, prev, alloc_list)
        /\ c \in Reachable(Pool, next, alloc_list) /\ x \notin Reachable(Pool, next, alloc_list)
    BY <1>2 DEF IInv, ShapeInv, Ring, Reach
  <2>7. /\ Reachable(Pool, f, k) = Reachable(Pool, next, alloc_list) \cup {x}
        /\ IsRing(Pool, f, g, k)
    BY <1>2, <1>10, <2>4, <2>5, <2>6, RingGrows
  <2> QED BY <1>9, <2>1, <2>2, <2>3, <2>7 DEF Ring, Reach
<1>12. Free' = Free /\ ShapeInv'
  <2>1. \A m \in Free : m # x /\ m # d /\ m \in Nodes
    BY <1>2, PlaceFacts, ListsAreNodes
  <2>2. \A m \in Free : next'[m] = next[m]
    BY <1>7, <2>1
  <2> QED BY <1>9, <1>11, <2>2, FreeKept DEF IInv, ShapeInv
<1>13. \A m \in Ring : m # d => next'[m] = next[m] /\ next[m] # c
  BY <1>2, <1>3, <1>4, <1>7, ListsAreNodes
<1> QED BY <1>1, <1>2, <1>4, <1>7, <1>8, <1>9, <1>10, <1>11, <1>12, <1>13

LEMMA Step_insert_last ==
  ASSUME IInv, NEW t \in Threads, insert_last(t)
  PROVE  IInv'
<1> USE DEF insert_last, Runs
<1>1. alloc_list \in Ring
  BY ReachesStart DEF IInv, TypeInv, Ring, Reach
<1>2. CASE Behind(t)
  <2>1. /\ Link(t, alloc_list) /\ Goto(t, "linked") /\ curr' = curr
    BY <1>2
  <2>2. /\ Pool' = Pool /\ Ring' = Ring \cup {node[t]} /\ Free' = Free /\ ShapeInv'
        /\ next'[node[t]] = alloc_list /\ next'[prev[alloc_list]] = node[t]
        /\ prev[alloc_list] \in Ring
        /\ \A m \in Ring : m # prev[alloc_list] => next'[m] = next[m] /\ next[m] # alloc_list
        /\ next' \in [Nodes -> Nodes \cup {NULL}] /\ prev' \in [Nodes -> Nodes \cup {NULL}]
    BY <1>1, <2>1, Linked
  <2>3. SortInv'
    <3>1. \A u \in Threads : pc'[u] # "walk"
      BY <2>1, LockFacts DEF IInv, TypeInv, Goto
    <3>2. \A m : LOW_ADDR(m)' = LOW_ADDR(m) /\ HIGH_ADDR(m)' = HIGH_ADDR(m)
      BY DEF LOW_ADDR, HIGH_ADDR
    <3>3. \A m \in Ring' : next'[m] # alloc_list' => HIGH_ADDR(m) <= LOW_ADDR(next'[m])
      BY <1>2, <2>2 DEF IInv, SortInv, Behind
    <3>4. \A m \in Ring' : next'[m] # alloc_list' => HIGH_ADDR(m)' <= LOW_ADDR(next[m])'
      BY <3>3 DEF LOW_ADDR, HIGH_ADDR
    <3> QED BY <3>1, <3>4 DEF SortInv
  <2>4. alloc_list' \in Pool \cup {NULL} /\ curr' \in [Threads -> Nodes \cup {NULL}]
    BY <2>1 DEF IInv, TypeInv
  <2> QED BY <2>1, <2>2, <2>3, <2>4, Inserted
<1>3. CASE ~Behind(t)
  <2>1. /\ curr' = [curr EXCEPT ![t] = alloc_list] /\ pc' = [pc EXCEPT ![t] = "walk"]
        /\ UNCHANGED <<next, prev>>
    BY <1>3 DEF Goto
  <2>2. Pool' = Pool /\ Ring' = Ring /\ Free' = Free /\ ShapeInv'
    BY <2>1, ListsKept DEF IInv
  <2>3. Known' = Known
    <3>1. \A m : m \in InTransit' <=> m \in InTransit
      BY <2>1, Transit DEF IInv, TypeInv
    <3> QED BY <2>2, <3>1 DEF Known
  <2>4. PoolOf' = PoolOf
    BY <2>2, PoolOfKept
  <2>5. InHand' = InHand
    <3>1. \A m : m \in InHand' <=> m \in InHand
      BY <2>1, Hands DEF IInv, TypeInv
    <3> QED BY <3>1
  <2>6. TypeInv'
    BY <1>1, <2>1, <2>2, ListsAreNodes DEF IInv, TypeInv, PC
  <2>7. LockInv'
    BY <2>1 DEF IInv, TypeInv, LockInv
  <2>8. HandInv'
    BY <1>1, <2>1, <2>2 DEF IInv, TypeInv, HandInv
  <2>9. BaseInv' /\ PagesInv'
    BY <2>2, <2>3, PagesKept DEF IInv, BaseInv
  <2>10. SortInv'
    BY <2>1, <2>2 DEF IInv, TypeInv, SortInv, LOW_ADDR, HIGH_ADDR
  <2>11. HeldInv'
    BY <2>1, <2>2 DEF IInv, TypeInv, HeldInv
  <2>12. NodesInOnePlace'
    BY <2>2, <2>4, <2>5, PlaceFacts, PlaceForm
  <2> QED BY <2>2, <2>6, <2>7, <2>8, <2>9, <2>10, <2>11, <2>12 DEF IInv
<1> QED BY <1>2, <1>3

LEMMA Step_insert_before ==
  ASSUME IInv, NEW t \in Threads, insert_before(t)
  PROVE  IInv'
<1> USE DEF insert_before, Runs
<1>1. PICK c \in Ring : c = curr[t]
  BY DEF IInv, HandInv
<1>2. PICK x \in Nodes : x = node[t]
  BY HandFacts DEF IInv, HandInv
<1>3. alloc_list' = alloc_list \/ (alloc_list' = x /\ c = alloc_list)
  BY <1>1, <1>2 DEF NewHead
<1>4. c = alloc_list => alloc_list' = x
  BY <1>1, <1>2 DEF NewHead
<1>5. /\ Pool' = Pool /\ Ring' = Ring \cup {x} /\ Free' = Free /\ ShapeInv'
      /\ next'[x] = c /\ next'[prev[c]] = x /\ prev[c] \in Ring
      /\ \A m \in Ring : m # prev[c] => next'[m] = next[m] /\ next[m] # c
      /\ alloc_list' \in Pool
      /\ next' \in [Nodes -> Nodes \cup {NULL}] /\ prev' \in [Nodes -> Nodes \cup {NULL}]
  BY <1>1, <1>2, <1>3, Linked
<1>6. SortInv'
  <2>1. \A u \in Threads : pc'[u] # "walk"
    BY LockFacts DEF IInv, TypeInv, Goto
  <2>2. c # alloc_list => HIGH_ADDR(prev[c]) <= LOW_ADDR(x)
    <3>1. prev[c] # x /\ prev[c] \in Known /\ x \in Known
      BY <1>2, <1>5, Transit DEF IInv, HandInv, Known
    <3>2. c # alloc_list => LOW_ADDR(prev[c]) < HIGH_ADDR(x)
      BY <1>1, <1>2 DEF IInv, SortInv
    <3> QED BY <1>5, <3>1, <3>2, Apart
  <2>3. HIGH_ADDR(x) <= LOW_ADDR(c)
    <3>1. HIGH_ADDR(x) \in Int /\ LOW_ADDR(c) \in Int
      BY ListsAreNodes DEF IInv, TypeInv, HIGH_ADDR, LOW_ADDR
    <3> QED BY <1>1, <1>2, <3>1
  <2>4. \A m \in Ring' : next'[m] # alloc_list' => HIGH_ADDR(m) <= LOW_ADDR(next'[m])
    BY <1>3, <1>4, <1>5, <2>2, <2>3 DEF IInv, SortInv
  <2>5. \A m \in Ring' : next'[m] # alloc_list' => HIGH_ADDR(m)' <= LOW_ADDR(next[m])'
    BY <2>4 DEF LOW_ADDR, HIGH_ADDR
  <2> QED BY <2>1, <2>5 DEF SortInv
<1>7. curr' \in [Threads -> Nodes \cup {NULL}]
  BY DEF IInv, TypeInv
<1> QED BY <1>2, <1>5, <1>6, <1>7, Inserted

\* The node that a search finds is the caller's, and the ring has others.
LEMMA Found ==
  ASSUME IInv, NEW t \in Threads, pc[t] = "find", addr[curr[t]] = ptr[t]
  PROVE  curr[t] \in Ring /\ curr[t][2] > 0 /\ Ring # {curr[t]}
<1>1. curr[t] \in Ring
  BY DEF IInv, HandInv
<1>2. PICK m \in Ring : m[2] > 0 /\ addr[m] = ptr[t]
  BY DEF IInv, HeldInv
<1>3. m = curr[t]
  BY <1>1, <1>2, SameAddress DEF Known
<1>4. <<m[1], 0>> \in Ring /\ m[2] # 0
  BY <1>2, PlaceFacts, NodeFacts, ListsAreNodes
<1>5. <<m[1], 0>>[2] = 0
  OBVIOUS
<1> QED BY <1>1, <1>2, <1>3, <1>4, <1>5

LEMMA Step_remove_unlink ==
  ASSUME IInv, NEW t \in Threads, remove_unlink(t)
  PROVE  IInv'
<1> USE DEF remove_unlink, Runs, Goto
<1>1. PICK c \in Ring : c = curr[t] /\ c[2] > 0 /\ Ring # {c} /\ addr[c] = ptr[t]
  BY Found
<1>2. \A m \in Ring : /\ next[m] \in Ring /\ prev[m] \in Ring
                      /\ prev[next[m]] = m /\ next[prev[m]] = m
  BY DEF IInv, ShapeInv, IsRing, Ring, Reach
<1>3. PICK d \in Ring : d = prev[c]
  BY <1>2
<1>4. PICK e \in Ring : e = next[c]
  BY <1>2
<1>5. c \in Nodes /\ d \in Nodes /\ e \in Nodes /\ c # NULL
  BY ListsAreNodes, NodeFacts
<1>6. /\ prev' = [prev EXCEPT ![e] = d, ![c] = NULL]
      /\ next' = [next EXCEPT ![d] = e, ![c] = NULL]
      /\ alloc_list' = IF c = alloc_list THEN e ELSE alloc_list
  BY <1>1, <1>3, <1>4
<1>7. Pool' = Pool
  BY PoolKept
<1>8. d # c /\ e # c
  <2>1. next[c] # c
    BY <1>1, RingOthers DEF IInv, ShapeInv, Ring, Reach
  <2> QED BY <1>2, <1>3, <1>4, <2>1
<1>9. /\ next'[d] = e /\ \A m \in Nodes \ {c, d} : next'[m] = next[m]
      /\ prev'[e] = d /\ \A m \in Nodes \ {c, e} : prev'[m] = prev[m]
  BY <1>5, <1>6, <1>8 DEF IInv, TypeInv
<1>10. Ring' = Ring \ {c} /\ IsRing(Pool, next, prev, alloc_list)'
  <2> HIDE DEF remove_unlink
  <2>1. PICK f : f = next'
    OBVIOUS
  <2>2. PICK g : g = prev'
    OBVIOUS
  <2>3. PICK k : k = alloc_list'
    OBVIOUS
  <2>4. /\ f[prev[c]] = next[c] /\ \A y \in Pool \ {c, prev[c]} : f[y] = next[y]
        /\ g[next[c]] = prev[c] /\ \A y \in Pool \ {c, next[c]} : g[y] = prev[y]
    BY <1>3, <1>4, <1>9, <2>1, <2>2, ListsAreNodes
  <2>5. TakenOut(Pool, next, prev, alloc_list, c, f, g, k)
    BY <1>4, <1>6, <2>3, <2>4 DEF TakenOut
  <2>6. /\ IsRing(Pool, next, prev, alloc_list)
        /\ c \in Reachable(Pool, next, alloc_list) /\ Reachable(Pool, next, alloc_list) # {c}
    BY <1>1 DEF IInv, ShapeInv, Ring, Reach
  <2>7. /\ Reachable(Pool, f, k) = Reachable(Pool, next, alloc_list) \ {c}
        /\ IsRing(Pool, f, g, k)
    BY <2>5, <2>6, RingShrinks
  <2> QED BY <1>7, <2>1, <2>2, <2>3, <2>7 DEF Ring, Reach
<1>11. Free' = Free /\ ShapeInv'
  <2>1. \A m \in Free : m # c /\ m # d /\ m \in Nodes
    BY PlaceFacts, ListsAreNodes
  <2>2. \A m \in Free : next'[m] = next[m]
    BY <1>9, <2>1
  <2> QED BY <1>7, <1>10, <2>2, FreeKept DEF IInv, ShapeInv
<1>12. PoolOf' = PoolOf
  BY <1>7, PoolOfKept
<1>13. /\ \A u \in Threads : u # t => /\ pc'[u] = pc[u] /\ node[u] = NULL /\ meta'[u] = meta[u]
                                      /\ pc[u] \in {"user", "mmap", "insert_lock", "munmap", "free"}
       /\ pc'[t] = "munmap" /\ meta'[t] = c /\ meta[t] = NULL /\ node[t] = NULL
  BY <1>1, LockFacts DEF IInv, TypeInv, HandInv
<1>14. \A u \in Threads : meta[u] # c
  BY <1>5, <1>13, Hands, PlaceFacts
<1>15. Known' = Known
  <2>1. \A m : m \in InTransit' <=> m \in InTransit \/ m = c
    BY <1>13, Transit
  <2> QED BY <1>10, <2>1 DEF Known
<1>16. \A m : m \in InHand' <=> m \in InHand \/ m = c
  BY <1>5, <1>13, Hands
<1>17. TypeInv'
  <2>1. next' \in [Nodes -> Nodes \cup {NULL}] /\ prev' \in [Nodes -> Nodes \cup {NULL}]
    <3> HIDE DEF remove_unlink
    <3>1. next \in [Nodes -> Nodes \cup {NULL}] /\ prev \in [Nodes -> Nodes \cup {NULL}]
      BY DEF IInv, TypeInv
    <3>2. next' \in [Nodes -> Nodes \cup {NULL}]
      BY <1>5, <1>6, <3>1
    <3>3. prev' \in [Nodes -> Nodes \cup {NULL}]
      BY <1>5, <1>6, <3>1
    <3> QED BY <3>2, <3>3
  <2>2. alloc_list' \in Pool \cup {NULL}
    BY <1>6, ListsAreNodes DEF IInv, TypeInv
  <2> QED BY <1>1, <1>5, <1>7, <2>1, <2>2 DEF IInv, TypeInv, PC
<1>18. LockInv'
  BY <1>13, AllocAssumption DEF IInv, TypeInv, LockInv
<1>19. HandInv'
  BY <1>5, <1>13 DEF IInv, TypeInv, HandInv
<1>20. BaseInv' /\ PagesInv'
  BY <1>7, <1>15, PagesKept DEF IInv, BaseInv
<1>21. SortInv'
  <2>1. \A u \in Threads : pc'[u] # "walk"
    BY <1>13
  <2>2. \A m \in Ring \ {c} : next'[m] # alloc_list' => HIGH_ADDR(m) <= LOW_ADDR(next'[m])
    <3>1. \A m \in Ring \ {c, d} : next'[m] = next[m] /\ next[m] # c /\ next[m] # e
      <4> HIDE DEF remove_unlink
      <4>1. \A m \in Ring \ {c, d} : next'[m] = next[m]
        BY <1>9, ListsAreNodes
      <4>2. \A m \in Ring \ {c, d} : prev[next[m]] = m
        BY <1>2
      <4>3. prev[c] = d /\ prev[e] = c
        BY <1>2, <1>3, <1>4
      <4> QED BY <4>1, <4>2, <4>3
    <3>2. ASSUME NEW m \in Ring \ {c, d}, next'[m] # alloc_list'
          PROVE  HIGH_ADDR(m) <= LOW_ADDR(next'[m])
      <4>1. next[m] # alloc_list
        BY <1>6, <3>1, <3>2
      <4> QED BY <3>1, <4>1 DEF IInv, SortInv
    <3>3. ASSUME e # alloc_list' PROVE HIGH_ADDR(d) <= LOW_ADDR(e)
      <4>1. c # alloc_list /\ e # alloc_list
        BY <1>6, <3>3
      <4>2. HIGH_ADDR(d) <= LOW_ADDR(c) /\ HIGH_ADDR(c) <= LOW_ADDR(e)
        BY <1>2, <1>3, <1>4, <4>1 DEF IInv, SortInv
      <4>3. addr[c] \in Nat /\ addr[d] \in Nat /\ addr[e] \in Nat /\ length[c] \in Nat /\ length[d] \in Nat
        BY <1>5 DEF IInv, TypeInv
      <4> QED BY <4>2, <4>3 DEF LOW_ADDR, HIGH_ADDR
    <3> QED BY <1>9, <3>2, <3>3
  <2>3. \A m \in Ring' : next'[m] # alloc_list' => HIGH_ADDR(m)' <= LOW_ADDR(next[m])'
    BY <1>10, <2>2 DEF LOW_ADDR, HIGH_ADDR
  <2> QED BY <2>1, <2>3 DEF SortInv
<1>22. HeldInv'
  <2>1. \A u \in Threads : pc'[u] # "find"
    BY <1>13
  <2>2. ASSUME NEW b \in held PROVE \E m \in Ring \ {c} : m[2] > 0 /\ b = <<addr[m], length[m]>>
    <3>1. PICK m \in Ring : m[2] > 0 /\ b = <<addr[m], length[m]>>
      BY DEF IInv, HeldInv
    <3>2. b[1] # ptr[t]
      BY DEF IInv, HeldInv
    <3> QED BY <1>1, <3>1, <3>2
  <2> QED BY <1>10, <2>1, <2>2 DEF HeldInv
<1>23. NodesInOnePlace'
  <2>1. \A u, w \in Threads : u # w /\ meta'[u] # NULL => meta'[u] # meta'[w]
    BY <1>13, <1>14, PlaceFacts
  <2>2. ASSUME NEW m \in PoolOf PROVE <<m[1], 0>> \in Ring \ {c}
    <3> HIDE DEF remove_unlink
    <3>1. PICK y \in Ring : y = <<m[1], 0>>
      BY PlaceFacts
    <3>2. y[2] = 0
      BY <3>1
    <3>3. y # c
      BY <1>1, <3>2
    <3> QED BY <3>1, <3>3
  <2>3. c \notin Free /\ c \notin InHand /\ c \in PoolOf
    BY <1>1, PlaceFacts
  <2> QED BY <1>1, <1>10, <1>11, <1>12, <1>16, <2>1, <2>2, <2>3, PlaceFacts, PlaceForm
<1> QED BY <1>11, <1>17, <1>18, <1>19, <1>20, <1>21, <1>22, <1>23 DEF IInv

-----------------------------------------------------------------------------
(* The theorems.                                                            *)

LEMMA Stutters ==
  ASSUME IInv, UNCHANGED <<listVars, list_lock, mapped, held, pc, ptr, meta, node, curr>>,
         status' \in {"ok", "fatal"}
  PROVE  IInv'
<1> USE DEF listVars
<1>1. Pool' = Pool /\ Ring' = Ring /\ Free' = Free /\ ShapeInv'
  BY ListsKept DEF IInv
<1>2. Known' = Known /\ PoolOf' = PoolOf /\ InHand' = InHand
  BY <1>1, PoolOfKept DEF Known, InTransit, InHand
<1>3. TypeInv' /\ LockInv'
  BY <1>1 DEF IInv, TypeInv, LockInv
<1>4. HandInv'
  BY <1>1 DEF IInv, HandInv
<1>5. BaseInv' /\ PagesInv'
  BY <1>1, <1>2, PagesKept DEF IInv, BaseInv
<1>6. SortInv'
  BY <1>1 DEF IInv, SortInv, LOW_ADDR, HIGH_ADDR
<1>7. HeldInv'
  BY <1>1 DEF IInv, HeldInv
<1>8. NodesInOnePlace'
  BY <1>1, <1>2, PlaceFacts, PlaceForm
<1> QED BY <1>1, <1>3, <1>4, <1>5, <1>6, <1>7, <1>8 DEF IInv

LEMMA Inductive == IInv /\ [Next]_vars => IInv'
<1> SUFFICES ASSUME IInv, [Next]_vars PROVE IInv'
  OBVIOUS
<1>1. status \in {"ok", "fatal"}
  BY DEF IInv, TypeInv
<1>2. CASE UNCHANGED vars \/ Dead
  BY <1>1, <1>2, Stutters DEF Dead, vars
<1>3. ASSUME NEW t \in Threads, metadata_new(t) PROVE IInv'
  BY <1>3, Step_metadata_new_free, Step_metadata_new_block
<1>4. ASSUME NEW t \in Threads, Mmap(t) PROVE IInv'
  BY <1>4, Step_metadata_new_pool, Step_mmap_wrap, Step_metadata_insert, Step_insert_first,
     Step_insert_last, Step_insert_walk, Step_insert_before, Step_alloc_mmap_return
     DEF Mmap, Insert
<1>5. ASSUME NEW t \in Threads, mmap_fails(t) PROVE IInv'
  BY <1>5, Stutters DEF mmap_fails
<1>6. ASSUME NEW t \in Threads, NEW b \in held, metadata_remove(t, b) PROVE IInv'
  BY <1>6, Step_metadata_remove
<1>7. ASSUME NEW t \in Threads, Munmap(t) PROVE IInv'
  BY <1>7, Step_remove_walk, Step_remove_unlink, Step_munmap_wrap, Step_metadata_free DEF Munmap
<1> QED BY <1>2, <1>3, <1>4, <1>5, <1>6, <1>7 DEF Next

LEMMA Starts == Init => IInv
<1> SUFFICES ASSUME Init PROVE IInv
  OBVIOUS
<1> USE DEF Init
<1>1. Pool = {}
  BY NodeFacts DEF Pool
<1>2. Ring = {} /\ Free = {}
  BY <1>1, ListsAreNodes
<1>3. InTransit = {} /\ InHand = {} /\ PoolOf = {} /\ Known = {}
  BY <1>1, <1>2 DEF InTransit, InHand, PoolOf, Known
<1>4. TypeInv
  BY DEF TypeInv, PC
<1>5. LockInv /\ HandInv
  BY AllocAssumption DEF LockInv, HandInv
<1>6. ShapeInv
  BY <1>2 DEF ShapeInv, IsRing, IsList, Ring, Free, Reach
<1>7. BaseInv /\ PagesInv /\ SortInv /\ HeldInv
  BY <1>1, <1>2, <1>3 DEF BaseInv, PagesInv, SortInv, HeldInv
<1>8. NodesInOnePlace
  BY <1>2, <1>3 DEF NodesInOnePlace, Free
<1> QED BY <1>4, <1>5, <1>6, <1>7, <1>8 DEF IInv

LEMMA Invariant == Spec => []IInv
BY Starts, Inductive, PTL DEF Spec

\* alloc.c's pointers point to nodes of pool blocks, at every place of every call.
THEOREM TypeCorrect == Spec => []TypeInv
<1>1. IInv => TypeInv
  BY DEF IInv
<1> QED BY <1>1, Invariant, PTL

(***************************************************************************)
(* metadata_do_insert and metadata_remove keep "the list sorted": a ring,  *)
(* linked both ways, of blocks at increasing addresses, wherever the       *)
(* kernel places them.                                                     *)
(***************************************************************************)
THEOREM ListStaysSorted == Spec => []RingSorted
<1>1. IInv => RingSorted
  BY DEF IInv, ShapeInv, SortInv, RingSorted, IsRing, Ring, Reach
<1> QED BY <1>1, Invariant, PTL

(***************************************************************************)
(* threadscan_alloc_munmap never loses "track of memory": the kernel has   *)
(* mapped what the nodes say, page by page, and the block of a caller is   *)
(* found by its address, with its length.                                  *)
(***************************************************************************)
THEOREM MemoryIsTracked == Spec => []MappedIsTracked
<1>1. IInv => MappedIsTracked
  <2> SUFFICES ASSUME IInv PROVE MappedIsTracked
    OBVIOUS
  <2>1. held \subseteq {<<addr[m], length[m]>> : m \in Ring}
    BY DEF IInv, HeldInv
  <2>2. \A t \in Threads : pc[t] = "find" => \E m \in Ring : addr[m] = ptr[t] /\ m[2] > 0
    BY DEF IInv, HeldInv
  <2> QED BY <2>1, <2>2 DEF IInv, PagesInv, Known, MappedIsTracked
<1> QED BY <1>1, Invariant, PTL

(***************************************************************************)
(* metadata_new and metadata_free neither leak a node nor hand one out     *)
(* twice, and the pool block of a node in use is never unmapped.           *)
(***************************************************************************)
THEOREM NodesStayInOnePlace == Spec => []NodesInOnePlace
<1>1. IInv => NodesInOnePlace
  BY DEF IInv
<1> QED BY <1>1, Invariant, PTL

=============================================================================
