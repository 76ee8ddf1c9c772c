---------------------------- MODULE StorageProofs ----------------------------
(***************************************************************************)
(* Proofs about the stack of stored blocks: for any number of reclaimers,  *)
(* blocks and addresses, it is the set of addresses that ThreadScan takes  *)
(* it for, although a CAS compares an address that may have been unmapped  *)
(* and mapped again.                                                       *)
(***************************************************************************)
EXTENDS AddrStorage, LinksProofs, FiniteSetTheorems, TLAPS

-----------------------------------------------------------------------------
(* The inductive invariant.                                                 *)

PC == {"idle", "take", "add", "unmap", "scan", "sweep", "store", "next", "cas"}

TypeInv ==
    /\ storage \in Blocks \cup {NULL} /\ mapped \in SUBSET Blocks
    /\ next \in [Blocks -> Blocks \cup {NULL}] /\ addrs \in [Blocks -> SUBSET Addrs]
    /\ lock \in Reclaimers \cup {NULL} /\ pc \in [Reclaimers -> PC]
    /\ working_memory \in [Reclaimers -> Blocks \cup {NULL}]
    /\ leftovers \in [Reclaimers -> Blocks \cup {NULL}]
    /\ tmp \in [Reclaimers -> Blocks \cup {NULL}]
    /\ untracked \in SUBSET Addrs /\ status \in {"ok", "fatal"}

\* What a reclaimer has in its hands at each place, and where it holds the lock.
HandsInv ==
    \A t \in Reclaimers :
        /\ pc[t] \in {"take", "add", "unmap", "scan"} <=> lock = t
        /\ pc[t] = "idle" <=> working_memory[t] = NULL
        /\ pc[t] = "unmap" <=> tmp[t] # NULL
        /\ pc[t] \notin {"add", "unmap"} => leftovers[t] = NULL

Left(t) == Chain(leftovers[t])
Stack == Chain(storage)
Has(t, b) == b \in Left(t) \/ b = working_memory[t] \/ b = tmp[t]

\* BlocksInOnePlace, block by block.
PlaceInv ==
    /\ \A b \in Blocks : b \in mapped <=> b \in Stack \/ \E t \in Reclaimers : Has(t, b)
    /\ \A b \in Stack : \A t \in Reclaimers : ~Has(t, b)
    /\ \A b \in Blocks : \A t, u \in Reclaimers : Has(t, b) /\ Has(u, b) => t = u
    /\ \A t \in Reclaimers :
          /\ working_memory[t] \notin Left(t) /\ tmp[t] \notin Left(t)
          /\ tmp[t] # NULL => tmp[t] # working_memory[t]

\* No chain comes back to a block that it has passed.
ShapeInv ==
    /\ IsList(Blocks, next, storage)
    /\ \A t \in Reclaimers : IsList(Blocks, next, leftovers[t])

IsTmp(b) == \E t \in Reclaimers : tmp[t] = b

(***************************************************************************)
(* A tracked address is in one block, except that a block that has been    *)
(* copied is still to be unmapped.                                         *)
(***************************************************************************)
ContentInv ==
    /\ \A b \in Blocks : addrs[b] \cap untracked = {} /\ (b \notin mapped => addrs[b] = {})
    /\ \A b, c \in Blocks : b # c /\ ~IsTmp(b) /\ ~IsTmp(c) => addrs[b] \cap addrs[c] = {}
    /\ \A t \in Reclaimers :
          /\ pc[t] = "take" => addrs[working_memory[t]] = {}
          /\ pc[t] = "unmap" => addrs[tmp[t]] \subseteq addrs[working_memory[t]]

IInv ==
    /\ TypeInv /\ HandsInv /\ PlaceInv /\ ShapeInv /\ ContentInv /\ FatalOnlyWhenFull

-----------------------------------------------------------------------------
(* The chains of blocks.                                                    *)

LEMMA ChainsAreBlocks == Stack \subseteq Blocks /\ \A t \in Reclaimers : Left(t) \subseteq Blocks
BY ReachedAreNodes DEF Stack, Left, Chain

\* A block that is in no chain may be relinked, or unmapped.
LEMMA ChainsSame ==
  ASSUME ShapeInv, NEW x, x \notin Stack, \A u \in Reclaimers : x \notin Left(u),
         UNCHANGED <<storage, leftovers>>, \A y \in Blocks \ {x} : next'[y] = next[y]
  PROVE  Stack' = Stack /\ (\A u \in Reclaimers : Left(u)' = Left(u)) /\ ShapeInv'
<1>1. \A y \in Stack : next'[y] = next[y]
  BY ChainsAreBlocks
<1>2. Reachable(Blocks, next', storage) = Stack /\ IsList(Blocks, next', storage)
  BY <1>1, ReachesSame, ListSame DEF Stack, Chain, ShapeInv
<1>3. \A u \in Reclaimers : /\ Reachable(Blocks, next', leftovers[u]) = Left(u)
                            /\ IsList(Blocks, next', leftovers[u])
  <2> SUFFICES ASSUME NEW u \in Reclaimers
               PROVE  /\ Reachable(Blocks, next', leftovers[u]) = Left(u)
                      /\ IsList(Blocks, next', leftovers[u])
    OBVIOUS
  <2>1. \A y \in Left(u) : next'[y] = next[y]
    BY ChainsAreBlocks
  <2> QED BY <2>1, ReachesSame, ListSame DEF Left, Chain, ShapeInv
<1> QED BY <1>2, <1>3 DEF Stack, Left, Chain, ShapeInv

LEMMA ChainsKept ==
  ASSUME ShapeInv, UNCHANGED <<storage, leftovers, next>>
  PROVE  Stack' = Stack /\ (\A u \in Reclaimers : Left(u)' = Left(u)) /\ ShapeInv'
BY DEF Stack, Left, Chain, ShapeInv


\* What a working buffer holds is in no other block, unless it was just copied.
LEMMA WorkingApart ==
  ASSUME IInv, NEW t \in Reclaimers, pc[t] \notin {"idle", "unmap"}
  PROVE  /\ working_memory[t] \in Blocks
         /\ \A b \in Blocks \ {working_memory[t]} : addrs[b] \cap addrs[working_memory[t]] = {}
<1>1. \A u \in Reclaimers : working_memory[u] # NULL => ~IsTmp(working_memory[u])
  BY DEF IInv, TypeInv, PlaceInv, Has, IsTmp
<1>2. working_memory[t] \in Blocks /\ ~IsTmp(working_memory[t])
  BY <1>1 DEF IInv, TypeInv, HandsInv
<1>3. ASSUME NEW b \in Blocks \ {working_memory[t]}
      PROVE  addrs[b] \cap addrs[working_memory[t]] = {}
  <2>1. CASE ~IsTmp(b)
    BY <1>2, <1>3, <2>1 DEF IInv, ContentInv
  <2>2. CASE IsTmp(b)
    <3>1. PICK u \in Reclaimers : tmp[u] = b
      BY <2>2 DEF IsTmp
    <3>2. pc[u] = "unmap" /\ u # t
      BY <3>1, StorageAssumption DEF IInv, TypeInv, HandsInv
    <3>3. working_memory[u] \in Blocks /\ working_memory[u] # working_memory[t]
      BY <1>2, <3>2 DEF IInv, TypeInv, HandsInv, PlaceInv, Has
    <3>4. addrs[working_memory[u]] \cap addrs[working_memory[t]] = {}
      BY <1>1, <1>2, <3>3, StorageAssumption DEF IInv, ContentInv
    <3> QED BY <3>1, <3>2, <3>4 DEF IInv, ContentInv
  <2> QED BY <2>1, <2>2
<1> QED BY <1>2, <1>3

\* Blocks that share nothing hold no more than is tracked.
LEMMA TrackedBound ==
  ASSUME IInv, NEW b \in Blocks, NEW c \in Blocks, addrs[b] \cap addrs[c] = {}
  PROVE  /\ Cardinality(addrs[b]) \in Nat /\ Cardinality(addrs[c]) \in Nat
         /\ Cardinality(Addrs \ untracked) \in Nat
         /\ Cardinality(addrs[b]) + Cardinality(addrs[c]) <= Cardinality(Addrs \ untracked)
<1> DEFINE B == addrs[b]
           C == addrs[c]
           T == Addrs \ untracked
<1>1. IsFiniteSet(T)
  BY StorageAssumption, FS_Difference
<1>2. B \in SUBSET T /\ C \in SUBSET T /\ B \cup C \in SUBSET T
  BY DEF IInv, TypeInv, ContentInv
<1>3. B \cap C = {}
  OBVIOUS
<1> HIDE DEF B, C, T
<1>4. IsFiniteSet(B) /\ IsFiniteSet(C) /\ Cardinality(B \cup C) <= Cardinality(T)
  BY <1>1, <1>2, FS_Subset
<1>5. Cardinality(B) \in Nat /\ Cardinality(C) \in Nat /\ Cardinality(T) \in Nat
  BY <1>1, <1>4, FS_CardinalityType
<1>6. Cardinality(B \cup C) = Cardinality(B) + Cardinality(C) - 0
  BY <1>3, <1>4, FS_Union, FS_EmptySet
<1> QED BY <1>4, <1>5, <1>6 DEF B, C, T

-----------------------------------------------------------------------------
(* The steps, action by action.                                             *)

LEMMA Step_reclaim ==
  ASSUME IInv, NEW t \in Reclaimers, NEW b \in Blocks, reclaim(t, b)
  PROVE  IInv'
<1> USE StorageAssumption DEF reclaim, Runs, Goto, blockVars
<1>1. TypeInv'
  BY DEF IInv, TypeInv, PC
<1>2. HandsInv'
  BY DEF IInv, TypeInv, HandsInv
<1>3. Stack' = Stack /\ (\A u \in Reclaimers : Left(u)' = Left(u)) /\ ShapeInv'
  BY ChainsKept DEF IInv
<1>4. PlaceInv'
  BY <1>3, ChainsAreBlocks DEF IInv, TypeInv, HandsInv, PlaceInv, Has
<1>5. ContentInv'
  BY DEF IInv, TypeInv, HandsInv, PlaceInv, Has, ContentInv, IsTmp
<1>6. FatalOnlyWhenFull'
  BY DEF IInv, TypeInv, FatalOnlyWhenFull
<1> QED BY <1>1, <1>2, <1>3, <1>4, <1>5, <1>6 DEF IInv

LEMMA Chains_take_leftovers ==
  ASSUME IInv, NEW t \in Reclaimers, take_leftovers(t)
  PROVE  /\ Stack' = {} /\ ShapeInv'
         /\ \A u \in Reclaimers : Left(u)' = IF u = t THEN Stack ELSE Left(u)
<1> USE StorageAssumption DEF take_leftovers, Runs, Goto, blockVars, Taken
<1>1. Stack' = {} /\ IsList(Blocks, next, NULL)
  BY ReachesNothing DEF Stack, Chain, IsList
<1> QED BY <1>1 DEF IInv, TypeInv, Stack, Left, Chain, ShapeInv

LEMMA Step_take_leftovers ==
  ASSUME IInv, NEW t \in Reclaimers, take_leftovers(t)
  PROVE  IInv'
<1> USE StorageAssumption DEF take_leftovers, Runs, Goto, blockVars, Taken
<1>1. TypeInv'
  BY DEF IInv, TypeInv, PC
<1>2. HandsInv'
  BY DEF IInv, TypeInv, HandsInv
<1>3. /\ Stack' = {} /\ ShapeInv'
      /\ \A u \in Reclaimers : Left(u)' = IF u = t THEN Stack ELSE Left(u)
  BY Chains_take_leftovers
<1>4. PlaceInv'
  <2>1. Left(t) = {}
    BY ReachesNothing DEF IInv, HandsInv, Left, Chain
  <2>2. \A u \in Reclaimers, b \in Blocks : Has(u, b)' <=> Has(u, b) \/ (u = t /\ b \in Stack)
    BY <1>3, <2>1 DEF Has
  <2>3. working_memory[t] \notin Stack /\ tmp[t] = NULL
    BY DEF IInv, TypeInv, HandsInv, PlaceInv, Has
  <2>4. \A u \in Reclaimers :
          /\ working_memory[u] \notin Left(u)' /\ tmp[u] \notin Left(u)'
          /\ tmp[u] # NULL => tmp[u] # working_memory[u]
    BY <1>3, <2>3, ChainsAreBlocks DEF IInv, PlaceInv
  <2>5. \A b \in Blocks : b \in mapped' <=> b \in Stack' \/ \E u \in Reclaimers : Has(u, b)'
    BY <1>3, <2>2 DEF IInv, PlaceInv
  <2>6. \A b \in Blocks : \A u, v \in Reclaimers : Has(u, b)' /\ Has(v, b)' => u = v
    BY <2>2 DEF IInv, PlaceInv
  <2> QED BY <1>3, <2>4, <2>5, <2>6 DEF PlaceInv
<1>5. ContentInv'
  BY DEF IInv, TypeInv, HandsInv, PlaceInv, Has, ContentInv, IsTmp
<1>6. FatalOnlyWhenFull'
  BY DEF IInv, TypeInv, FatalOnlyWhenFull
<1> QED BY <1>1, <1>2, <1>3, <1>4, <1>5, <1>6 DEF IInv

LEMMA Chains_add_to_buf_addrs ==
  ASSUME IInv, NEW t \in Reclaimers, add_to_buf_addrs(t)
  PROVE  /\ Stack' = Stack /\ ShapeInv'
         /\ \A u \in Reclaimers :
               Left(u)' = IF status' = "ok" /\ u = t THEN Left(u) \ {leftovers[t]} ELSE Left(u)
<1> USE StorageAssumption DEF add_to_buf_addrs, Runs, Goto, blockVars, Advance
<1>1. PICK x \in Blocks : x = leftovers[t]
  BY DEF IInv, TypeInv
<1>2. /\ Reachable(Blocks, next, next[x]) = Reachable(Blocks, next, x) \ {x}
      /\ IsList(Blocks, next, next[x])
  BY <1>1, Pops DEF IInv, ShapeInv
<1> QED BY <1>1, <1>2 DEF IInv, TypeInv, Stack, Left, Chain, ShapeInv

LEMMA Step_add_to_buf_addrs ==
  ASSUME IInv, NEW t \in Reclaimers, add_to_buf_addrs(t)
  PROVE  IInv'
<1> USE StorageAssumption DEF add_to_buf_addrs, Runs, Goto, blockVars, Advance
<1>1. TypeInv'
  BY DEF IInv, TypeInv, PC
<1>2. HandsInv'
  BY DEF IInv, TypeInv, HandsInv
<1>3. /\ Stack' = Stack /\ ShapeInv'
      /\ \A u \in Reclaimers :
            Left(u)' = IF status' = "ok" /\ u = t THEN Left(u) \ {leftovers[t]} ELSE Left(u)
  BY Chains_add_to_buf_addrs
<1>4. PlaceInv'
  <2>1. leftovers[t] \in Blocks /\ leftovers[t] \in Left(t) /\ tmp[t] = NULL
    BY ReachesStart DEF IInv, TypeInv, HandsInv, Left, Chain
  <2>2. \A u \in Reclaimers, b \in Blocks : Has(u, b)' <=> Has(u, b)
    BY <1>3, <2>1 DEF IInv, TypeInv, Has
  <2>3. \A u \in Reclaimers :
          /\ working_memory[u] \notin Left(u)' /\ tmp'[u] \notin Left(u)'
          /\ tmp'[u] # NULL => tmp'[u] # working_memory[u]
    BY <1>3, <2>1 DEF IInv, TypeInv, PlaceInv
  <2>4. \A b \in Stack' : \A u \in Reclaimers : ~Has(u, b)'
    BY <1>3, <2>2, ChainsAreBlocks DEF IInv, PlaceInv
  <2> QED BY <1>3, <2>2, <2>3, <2>4 DEF IInv, PlaceInv
<1>5. ContentInv'
  BY DEF IInv, TypeInv, HandsInv, PlaceInv, Has, ContentInv, IsTmp
<1>6. FatalOnlyWhenFull'
  <2>1. leftovers[t] \in Blocks \ {working_memory[t]}
    BY ReachesStart DEF IInv, TypeInv, HandsInv, PlaceInv, Left, Chain
  <2>2. Cardinality(addrs[working_memory[t]]) \in Nat /\ Cardinality(addrs[leftovers[t]]) \in Nat
        /\ Cardinality(Addrs \ untracked) \in Nat
        /\ Cardinality(addrs[working_memory[t]]) + Cardinality(addrs[leftovers[t]])
              <= Cardinality(Addrs \ untracked)
    BY <2>1, WorkingApart, TrackedBound
  <2> QED BY <2>2 DEF IInv, TypeInv, FatalOnlyWhenFull
<1> QED BY <1>1, <1>2, <1>3, <1>4, <1>5, <1>6 DEF IInv

LEMMA Chains_unmap_leftover ==
  ASSUME IInv, NEW t \in Reclaimers, unmap_leftover(t)
  PROVE  /\ Stack' = Stack /\ (\A u \in Reclaimers : Left(u)' = Left(u)) /\ ShapeInv'
<1> USE StorageAssumption DEF unmap_leftover, Runs, Goto, blockVars, Unmap
<1>1. tmp[t] \in Blocks /\ tmp[t] \notin Stack /\ \A u \in Reclaimers : tmp[t] \notin Left(u)
  BY DEF IInv, TypeInv, HandsInv, PlaceInv, Has
<1>2. \A y \in Blocks \ {tmp[t]} : next'[y] = next[y]
  BY DEF IInv, TypeInv
<1> QED BY <1>1, <1>2, ChainsSame DEF IInv

LEMMA Step_unmap_leftover ==
  ASSUME IInv, NEW t \in Reclaimers, unmap_leftover(t)
  PROVE  IInv'
<1> USE StorageAssumption DEF unmap_leftover, Runs, Goto, blockVars, Unmap
<1>1. TypeInv'
  BY DEF IInv, TypeInv, PC
<1>2. HandsInv'
  BY DEF IInv, TypeInv, HandsInv
<1>3. Stack' = Stack /\ (\A u \in Reclaimers : Left(u)' = Left(u)) /\ ShapeInv'
  BY Chains_unmap_leftover
<1>4. PlaceInv'
  BY <1>3, ChainsAreBlocks DEF IInv, TypeInv, HandsInv, PlaceInv, Has
<1>5. ContentInv'
  BY DEF IInv, TypeInv, HandsInv, PlaceInv, Has, ContentInv, IsTmp
<1>6. FatalOnlyWhenFull'
  BY DEF IInv, TypeInv, FatalOnlyWhenFull
<1> QED BY <1>1, <1>2, <1>3, <1>4, <1>5, <1>6 DEF IInv

LEMMA Step_pop_bulk ==
  ASSUME IInv, NEW t \in Reclaimers, NEW G \in SUBSET untracked, pop_bulk(t, G)
  PROVE  IInv'
<1> USE StorageAssumption DEF pop_bulk, Runs, Goto, blockVars
<1>1. TypeInv'
  BY DEF IInv, TypeInv, PC
<1>2. HandsInv'
  BY DEF IInv, TypeInv, HandsInv
<1>3. Stack' = Stack /\ (\A u \in Reclaimers : Left(u)' = Left(u)) /\ ShapeInv'
  BY ChainsKept DEF IInv
<1>4. PlaceInv'
  BY <1>3, ChainsAreBlocks DEF IInv, TypeInv, HandsInv, PlaceInv, Has
<1>5. ContentInv'
  BY DEF IInv, TypeInv, HandsInv, PlaceInv, Has, ContentInv, IsTmp
<1>6. FatalOnlyWhenFull'
  BY DEF IInv, TypeInv, FatalOnlyWhenFull
<1> QED BY <1>1, <1>2, <1>3, <1>4, <1>5, <1>6 DEF IInv

LEMMA Step_cleanup_release ==
  ASSUME IInv, NEW t \in Reclaimers, cleanup_release(t)
  PROVE  IInv'
<1> USE StorageAssumption DEF cleanup_release, Runs, Goto, blockVars
<1>1. TypeInv'
  BY DEF IInv, TypeInv, PC
<1>2. HandsInv'
  BY DEF IInv, TypeInv, HandsInv
<1>3. Stack' = Stack /\ (\A u \in Reclaimers : Left(u)' = Left(u)) /\ ShapeInv'
  BY ChainsKept DEF IInv
<1>4. PlaceInv'
  BY <1>3, ChainsAreBlocks DEF IInv, TypeInv, HandsInv, PlaceInv, Has
<1>5. ContentInv'
  BY DEF IInv, TypeInv, HandsInv, PlaceInv, Has, ContentInv, IsTmp
<1>6. FatalOnlyWhenFull'
  BY DEF IInv, TypeInv, FatalOnlyWhenFull
<1> QED BY <1>1, <1>2, <1>3, <1>4, <1>5, <1>6 DEF IInv

LEMMA Step_handle_unreferenced_ptrs ==
  ASSUME IInv, NEW t \in Reclaimers, NEW F \in SUBSET Addrs, handle_unreferenced_ptrs(t, F)
  PROVE  IInv'
<1> USE StorageAssumption DEF handle_unreferenced_ptrs, Runs, Goto, blockVars
<1>1. TypeInv'
  BY DEF IInv, TypeInv, PC
<1>2. HandsInv'
  BY DEF IInv, TypeInv, HandsInv
<1>3. Stack' = Stack /\ (\A u \in Reclaimers : Left(u)' = Left(u)) /\ ShapeInv'
  BY ChainsKept DEF IInv
<1>4. PlaceInv'
  BY <1>3, ChainsAreBlocks DEF IInv, TypeInv, HandsInv, PlaceInv, Has
<1>5. ContentInv'
  BY WorkingApart DEF IInv, TypeInv, HandsInv, PlaceInv, Has, ContentInv, IsTmp
<1>6. FatalOnlyWhenFull'
  BY DEF IInv, TypeInv, FatalOnlyWhenFull
<1> QED BY <1>1, <1>2, <1>3, <1>4, <1>5, <1>6 DEF IInv

LEMMA Chains_store_remaining_addrs ==
  ASSUME IInv, NEW t \in Reclaimers, store_remaining_addrs(t)
  PROVE  /\ Stack' = Stack /\ (\A u \in Reclaimers : Left(u)' = Left(u)) /\ ShapeInv'
<1> USE StorageAssumption DEF store_remaining_addrs, Runs, Goto, blockVars, Unmap, NoRoom
<1>1. /\ working_memory[t] \in Blocks /\ working_memory[t] \notin Stack
      /\ \A u \in Reclaimers : working_memory[t] \notin Left(u)
  BY DEF IInv, TypeInv, HandsInv, PlaceInv, Has
<1>2. \A y \in Blocks \ {working_memory[t]} : next'[y] = next[y]
  BY DEF IInv, TypeInv
<1> QED BY <1>1, <1>2, ChainsSame DEF IInv

LEMMA Step_store_remaining_addrs ==
  ASSUME IInv, NEW t \in Reclaimers, store_remaining_addrs(t)
  PROVE  IInv'
<1> USE StorageAssumption DEF store_remaining_addrs, Runs, Goto, blockVars, Unmap, NoRoom
<1>1. TypeInv'
  BY DEF IInv, TypeInv, PC
<1>2. HandsInv'
  BY DEF IInv, TypeInv, HandsInv
<1>3. Stack' = Stack /\ (\A u \in Reclaimers : Left(u)' = Left(u)) /\ ShapeInv'
  BY Chains_store_remaining_addrs
<1>4. PlaceInv'
  BY <1>3, ChainsAreBlocks DEF IInv, TypeInv, HandsInv, PlaceInv, Has
<1>5. ContentInv'
  <2>1. CASE pc'[t] = "idle" /\ Unmap(working_memory[t])
    <3>1. working_memory[t] \in Blocks
      BY WorkingApart
    <3>2. \A b \in Blocks : addrs'[b] \subseteq addrs[b]
      BY <2>1, <3>1 DEF IInv, TypeInv
    <3>3. \A b \in Blocks \ {working_memory[t]} : addrs'[b] = addrs[b]
      BY <2>1, <3>1 DEF IInv, TypeInv
    <3>4. addrs'[working_memory[t]] = {} /\ mapped' = mapped \ {working_memory[t]}
      BY <2>1, <3>1 DEF IInv, TypeInv
    <3>5. \A u \in Reclaimers :
            /\ pc'[u] = "take" => addrs'[working_memory'[u]] = {}
            /\ pc'[u] = "unmap" => addrs'[tmp'[u]] \subseteq addrs'[working_memory'[u]]
      <4> SUFFICES ASSUME NEW u \in Reclaimers
                   PROVE  /\ pc'[u] = "take" => addrs'[working_memory'[u]] = {}
                          /\ pc'[u] = "unmap" =>
                               addrs'[tmp'[u]] \subseteq addrs'[working_memory'[u]]
        OBVIOUS
      <4>1. CASE u = t
        BY <2>1, <4>1 DEF IInv, TypeInv
      <4>2. CASE u # t
        <5>1. pc'[u] = pc[u] /\ working_memory'[u] = working_memory[u] /\ tmp'[u] = tmp[u]
          BY <2>1, <4>2 DEF IInv, TypeInv
        <5>2. pc[u] \in {"take", "unmap"} => working_memory[u] \in Blocks \ {working_memory[t]}
          BY <3>1, <4>2 DEF IInv, TypeInv, HandsInv, PlaceInv, Has
        <5>3. pc[u] = "unmap" => tmp[u] \in Blocks
          BY DEF IInv, TypeInv, HandsInv
        <5> HIDE DEF store_remaining_addrs
        <5> QED BY <3>2, <3>3, <5>1, <5>2, <5>3 DEF IInv, ContentInv
      <4> QED BY <4>1, <4>2
    <3>6. UNCHANGED <<tmp, untracked>>
      OBVIOUS
    <3> HIDE DEF store_remaining_addrs
    <3> QED BY <3>2, <3>3, <3>4, <3>5, <3>6 DEF IInv, ContentInv, IsTmp
  <2>2. CASE UNCHANGED <<addrs, mapped, working_memory>> /\ pc'[t] # "take" /\ pc'[t] # "unmap"
    BY <2>2 DEF IInv, TypeInv, ContentInv, IsTmp
  <2> QED BY <2>1, <2>2 DEF IInv, TypeInv
<1>6. FatalOnlyWhenFull'
  <2>1. PICK w \in Blocks : w = working_memory[t]
    BY WorkingApart
  <2>2. Cardinality(addrs[w]) \in Nat /\ Cardinality(Addrs \ untracked) \in Nat
        /\ Cardinality(addrs[w]) <= Cardinality(Addrs \ untracked)
    <3>1. addrs[w] \in SUBSET (Addrs \ untracked) /\ IsFiniteSet(Addrs \ untracked)
      BY FS_Difference DEF IInv, TypeInv, ContentInv
    <3> QED BY <3>1, FS_Subset, FS_CardinalityType
  <2> QED BY <2>1, <2>2 DEF IInv, TypeInv, FatalOnlyWhenFull
<1> QED BY <1>1, <1>2, <1>3, <1>4, <1>5, <1>6 DEF IInv

LEMMA Chains_store_next ==
  ASSUME IInv, NEW t \in Reclaimers, store_next(t)
  PROVE  /\ Stack' = Stack /\ (\A u \in Reclaimers : Left(u)' = Left(u)) /\ ShapeInv'
<1> USE StorageAssumption DEF store_next, Runs, Goto, blockVars
<1>1. /\ working_memory[t] \in Blocks /\ working_memory[t] \notin Stack
      /\ \A u \in Reclaimers : working_memory[t] \notin Left(u)
  BY DEF IInv, TypeInv, HandsInv, PlaceInv, Has
<1>2. \A y \in Blocks \ {working_memory[t]} : next'[y] = next[y]
  BY DEF IInv, TypeInv
<1> QED BY <1>1, <1>2, ChainsSame DEF IInv

LEMMA Step_store_next ==
  ASSUME IInv, NEW t \in Reclaimers, store_next(t)
  PROVE  IInv'
<1> USE StorageAssumption DEF store_next, Runs, Goto, blockVars
<1>1. TypeInv'
  BY DEF IInv, TypeInv, PC
<1>2. HandsInv'
  BY DEF IInv, TypeInv, HandsInv
<1>3. Stack' = Stack /\ (\A u \in Reclaimers : Left(u)' = Left(u)) /\ ShapeInv'
  BY Chains_store_next
<1>4. PlaceInv'
  BY <1>3, ChainsAreBlocks DEF IInv, TypeInv, HandsInv, PlaceInv, Has
<1>5. ContentInv'
  BY DEF IInv, TypeInv, HandsInv, PlaceInv, Has, ContentInv, IsTmp
<1>6. FatalOnlyWhenFull'
  BY DEF IInv, TypeInv, FatalOnlyWhenFull
<1> QED BY <1>1, <1>2, <1>3, <1>4, <1>5, <1>6 DEF IInv

LEMMA Chains_store_cas ==
  ASSUME IInv, NEW t \in Reclaimers, store_cas(t)
  PROVE  /\ Stack' = (IF pc'[t] = "idle" THEN Stack \cup {working_memory[t]} ELSE Stack)
         /\ ShapeInv' /\ \A u \in Reclaimers : Left(u)' = Left(u)
<1> USE StorageAssumption DEF store_cas, Runs, Goto, blockVars, Unchanged
<1>1. PICK x \in Blocks : x = working_memory[t]
  BY DEF IInv, TypeInv, HandsInv
<1>2. x \notin Stack
  BY <1>1 DEF IInv, TypeInv, PlaceInv, Has
<1>3. CASE Unchanged(t)
  <2>1. /\ Reachable(Blocks, next, x) = Reachable(Blocks, next, storage) \cup {x}
        /\ IsList(Blocks, next, x)
    <3>1. next[x] = storage /\ IsList(Blocks, next, storage)
          /\ x \notin Reachable(Blocks, next, storage) /\ \A y \in Blocks \ {x} : next[y] = next[y]
      BY <1>1, <1>2, <1>3 DEF IInv, ShapeInv, Stack, Chain
    <3> HIDE DEF store_cas
    <3> QED BY <3>1, PushedOn
  <2> QED BY <1>1, <1>3, <2>1 DEF IInv, TypeInv, Stack, Left, Chain, ShapeInv
<1>4. CASE ~Unchanged(t)
  BY <1>4, ChainsKept DEF IInv, TypeInv
<1> QED BY <1>3, <1>4

LEMMA Step_store_cas ==
  ASSUME IInv, NEW t \in Reclaimers, store_cas(t)
  PROVE  IInv'
<1> USE StorageAssumption DEF store_cas, Runs, Goto, blockVars, Unchanged
<1>1. TypeInv'
  BY DEF IInv, TypeInv, PC
<1>2. HandsInv'
  BY DEF IInv, TypeInv, HandsInv
<1>3. /\ Stack' = (IF pc'[t] = "idle" THEN Stack \cup {working_memory[t]} ELSE Stack)
      /\ ShapeInv' /\ \A u \in Reclaimers : Left(u)' = Left(u)
  BY Chains_store_cas
<1>4. PlaceInv'
  BY <1>3, ChainsAreBlocks DEF IInv, TypeInv, HandsInv, PlaceInv, Has
<1>5. ContentInv'
  BY DEF IInv, TypeInv, HandsInv, PlaceInv, Has, ContentInv, IsTmp
<1>6. FatalOnlyWhenFull'
  BY DEF IInv, TypeInv, FatalOnlyWhenFull
<1> QED BY <1>1, <1>2, <1>3, <1>4, <1>5, <1>6 DEF IInv

LEMMA Inductive == IInv /\ [Next]_vars => IInv'
<1> SUFFICES ASSUME IInv, [Next]_vars
             PROVE  IInv'
  OBVIOUS
<1>1. CASE UNCHANGED vars
  BY <1>1 DEF vars, blockVars, IInv, TypeInv, HandsInv, PlaceInv, ShapeInv, ContentInv,
     FatalOnlyWhenFull, Has, Left, Stack, IsTmp, Chain
<1> QED BY <1>1, Step_reclaim, Step_take_leftovers, Step_add_to_buf_addrs,
        Step_unmap_leftover, Step_pop_bulk, Step_cleanup_release,
        Step_handle_unreferenced_ptrs, Step_store_remaining_addrs, Step_store_next,
        Step_store_cas DEF Next, Dead

LEMMA Starts == Init => IInv
<1> SUFFICES ASSUME Init
             PROVE  IInv
  OBVIOUS
<1> USE StorageAssumption DEF Init
<1>1. Stack = {} /\ \A t \in Reclaimers : Left(t) = {}
  BY ReachesNothing DEF Stack, Left, Chain
<1>2. TypeInv /\ HandsInv
  BY DEF TypeInv, HandsInv, PC
<1>3. PlaceInv /\ ContentInv /\ FatalOnlyWhenFull
  BY <1>1 DEF PlaceInv, Has, ContentInv, IsTmp, FatalOnlyWhenFull
<1>4. ShapeInv
  BY <1>1 DEF ShapeInv, IsList, Stack, Left, Chain
<1> QED BY <1>2, <1>3, <1>4 DEF IInv

LEMMA Invariant == Spec => []IInv
BY Starts, Inductive, PTL DEF Spec

-----------------------------------------------------------------------------
(* The stack is a set of addresses.                                         *)

\* The refinement mapping.
Stored == AddrsOf(Stack)
Held == [t \in Reclaimers |-> AddrsOf(ListOf(t))]

\* An address is held if it is in a block that is left over, or in the buffer.
LEMMA InHands ==
  ASSUME NEW t \in Reclaimers, NEW a
  PROVE  /\ a \in Held[t] <=>
              \/ \E b \in Left(t) : a \in addrs[b]
              \/ working_memory[t] # NULL /\ a \in addrs[working_memory[t]]
         /\ a \in Held'[t] <=>
              \/ \E b \in Left(t)' : a \in addrs'[b]
              \/ working_memory'[t] # NULL /\ a \in addrs'[working_memory'[t]]
BY DEF Held, AddrsOf, ListOf, Left

LEMMA OnStack ==
  ASSUME NEW a
  PROVE  /\ a \in Stored <=> \E b \in Stack : a \in addrs[b]
         /\ a \in Stored' <=> \E b \in Stack' : a \in addrs'[b]
BY DEF Stored, AddrsOf

LEMMA HeldFunction ==
  /\ Held = [u \in Reclaimers |-> Held[u]]
  /\ Held' = [u \in Reclaimers |-> Held'[u]]
BY DEF Held

\* Nothing that the mapping looks at has changed.
LEMMA Stutters ==
  ASSUME \A a : a \in Stored' <=> a \in Stored,
         \A u \in Reclaimers : \A a : a \in Held'[u] <=> a \in Held[u],
         UNCHANGED untracked
  PROVE  [S!Next]_S!vars
<1>1. Stored' = Stored
  OBVIOUS
<1>2. \A u \in Reclaimers : Held'[u] = Held[u]
  OBVIOUS
<1>3. Held' = Held
  BY <1>2, HeldFunction
<1> QED BY <1>1, <1>3 DEF Stored, Held, Stack, S!vars

LEMMA Refines_reclaim ==
  ASSUME IInv, NEW t \in Reclaimers, NEW b \in Blocks, reclaim(t, b)
  PROVE  [S!Next]_S!vars
<1> USE StorageAssumption DEF reclaim, Runs, Goto
<1>1. Stack' = Stack /\ \A u \in Reclaimers : Left(u)' = Left(u)
  BY ChainsKept DEF IInv
<1>2. addrs[b] = {} /\ working_memory[t] = NULL
  BY DEF IInv, HandsInv, ContentInv
<1>3. \A a : a \in Stored' <=> a \in Stored
  BY <1>1, OnStack
<1>4. \A u \in Reclaimers : \A a : a \in Held'[u] <=> a \in Held[u]
  BY <1>1, <1>2, InHands DEF IInv, TypeInv
<1> QED BY <1>3, <1>4, Stutters

LEMMA Refines_take_leftovers ==
  ASSUME IInv, NEW t \in Reclaimers, take_leftovers(t)
  PROVE  S!Take(t)
<1> USE StorageAssumption DEF take_leftovers, Runs, Goto, blockVars, Taken
<1>1. Stack' = {} /\ \A u \in Reclaimers : Left(u)' = IF u = t THEN Stack ELSE Left(u)
  BY Chains_take_leftovers
<1>2. addrs[working_memory[t]] = {} /\ Left(t) = {}
  BY ReachesNothing DEF IInv, HandsInv, ContentInv, Left, Chain
<1>3. Stored' = {}
  BY <1>1, OnStack
<1>4. Held[t] = {}
  BY <1>2, InHands
<1>5. \A u \in Reclaimers : \A a : a \in Held'[u] <=> a \in (IF u = t THEN Stored ELSE Held[u])
  BY <1>1, <1>2, InHands, OnStack
<1>6. \A u \in Reclaimers : Held'[u] = IF u = t THEN Stored ELSE Held[u]
  BY <1>5
<1>7. Held' = [Held EXCEPT ![t] = Stored]
  BY <1>6, HeldFunction
<1> QED BY <1>3, <1>4, <1>7 DEF Stored, Held, Stack, S!Take

LEMMA Refines_add_to_buf_addrs ==
  ASSUME IInv, NEW t \in Reclaimers, add_to_buf_addrs(t)
  PROVE  [S!Next]_S!vars
<1> USE StorageAssumption DEF add_to_buf_addrs, Runs, Goto
<1>1. /\ Stack' = Stack
      /\ \A u \in Reclaimers :
            Left(u)' = IF status' = "ok" /\ u = t THEN Left(u) \ {leftovers[t]} ELSE Left(u)
  BY Chains_add_to_buf_addrs
<1>2. leftovers[t] \in Left(t) /\ working_memory[t] \in Blocks
  BY ReachesStart DEF IInv, TypeInv, HandsInv, Left, Chain
<1>3. working_memory[t] \notin Stack
      /\ \A u \in Reclaimers : /\ working_memory[t] \notin Left(u)
                               /\ u # t => working_memory[u] # working_memory[t]
  BY <1>2 DEF IInv, PlaceInv, Has
<1>4. \A b \in Blocks : addrs'[b] = IF status' = "ok" /\ b = working_memory[t]
                                    THEN addrs[b] \cup addrs[leftovers[t]] ELSE addrs[b]
  BY <1>2 DEF IInv, TypeInv
<1>5. \A a : a \in Stored' <=> a \in Stored
  BY <1>1, <1>3, <1>4, OnStack, ChainsAreBlocks
<1>6. \A u \in Reclaimers \ {t} : \A a : a \in Held'[u] <=> a \in Held[u]
  BY <1>1, <1>3, <1>4, InHands, ChainsAreBlocks DEF IInv, TypeInv
<1>7. \A a : a \in Held'[t] <=> a \in Held[t]
  BY <1>1, <1>2, <1>3, <1>4, InHands, ChainsAreBlocks DEF IInv, TypeInv
<1> QED BY <1>5, <1>6, <1>7, Stutters

\* What is unmapped is nobody's: a block that was copied, or an empty buffer.
LEMMA UnmapStutters ==
  ASSUME IInv, NEW b \in Blocks, b \notin Stack, \A u \in Reclaimers : b \notin Left(u),
         \A u \in Reclaimers : working_memory'[u] # b, addrs' = [addrs EXCEPT ![b] = {}],
         \A u \in Reclaimers : \/ working_memory'[u] = working_memory[u]
                               \/ /\ working_memory'[u] = NULL /\ working_memory[u] = b
                                  /\ addrs[b] = {},
         Stack' = Stack, \A u \in Reclaimers : Left(u)' = Left(u), UNCHANGED untracked
  PROVE  [S!Next]_S!vars
<1>1. \A c \in Blocks \ {b} : addrs'[c] = addrs[c]
  BY DEF IInv, TypeInv
<1>2. \A a : a \in Stored' <=> a \in Stored
  BY <1>1, OnStack, ChainsAreBlocks
<1>3. \A u \in Reclaimers : \A a : a \in Held'[u] <=> a \in Held[u]
  BY <1>1, InHands, ChainsAreBlocks DEF IInv, TypeInv
<1> QED BY <1>2, <1>3, Stutters

LEMMA Refines_unmap_leftover ==
  ASSUME IInv, NEW t \in Reclaimers, unmap_leftover(t)
  PROVE  [S!Next]_S!vars
<1>1. PICK b \in Blocks : b = tmp[t]
  BY DEF unmap_leftover, Runs, IInv, TypeInv, HandsInv
<1>2. b \notin Stack /\ \A u \in Reclaimers : b \notin Left(u) /\ working_memory[u] # b
  BY <1>1, StorageAssumption DEF IInv, PlaceInv, Has
<1>3. Stack' = Stack /\ \A u \in Reclaimers : Left(u)' = Left(u)
  BY Chains_unmap_leftover
<1> QED BY <1>1, <1>2, <1>3, UnmapStutters DEF unmap_leftover, Unmap

LEMMA Refines_pop_bulk ==
  ASSUME IInv, NEW t \in Reclaimers, NEW G \in SUBSET untracked, pop_bulk(t, G)
  PROVE  S!Gather(t)
<1> USE StorageAssumption DEF pop_bulk, Runs, Goto
<1>1. Stack' = Stack /\ \A u \in Reclaimers : Left(u)' = Left(u)
  BY ChainsKept DEF IInv
<1>2. working_memory[t] \in Blocks
  BY DEF IInv, TypeInv, HandsInv
<1>3. working_memory[t] \notin Stack
      /\ \A u \in Reclaimers : /\ working_memory[t] \notin Left(u)
                               /\ u # t => working_memory[u] # working_memory[t]
  BY <1>2 DEF IInv, PlaceInv, Has
<1>4. \A b \in Blocks : addrs'[b] = IF b = working_memory[t] THEN addrs[b] \cup G ELSE addrs[b]
  BY <1>2 DEF IInv, TypeInv
<1>5. \A a : a \in Stored' <=> a \in Stored
  BY <1>1, <1>3, <1>4, OnStack, ChainsAreBlocks
<1>6. \A u \in Reclaimers : \A a :
         a \in Held'[u] <=> a \in (IF u = t THEN Held[t] \cup G ELSE Held[u])
  BY <1>1, <1>2, <1>3, <1>4, InHands, ChainsAreBlocks DEF IInv, TypeInv
<1>7. \A u \in Reclaimers : Held'[u] = IF u = t THEN Held[t] \cup G ELSE Held[u]
  BY <1>6
<1>8. Held' = [Held EXCEPT ![t] = @ \cup G]
  BY <1>7, HeldFunction
<1>9. Stored' = Stored
  BY <1>5
<1> QED BY <1>8, <1>9 DEF Stored, Held, Stack, S!Gather

LEMMA Refines_handle_unreferenced_ptrs ==
  ASSUME IInv, NEW t \in Reclaimers, NEW F \in SUBSET Addrs, handle_unreferenced_ptrs(t, F)
  PROVE  S!Free(t)
<1> USE StorageAssumption DEF handle_unreferenced_ptrs, Runs, Goto
<1>1. Stack' = Stack /\ \A u \in Reclaimers : Left(u)' = Left(u)
  BY ChainsKept DEF IInv
<1>2. working_memory[t] \in Blocks /\ Left(t) = {}
  BY ReachesNothing DEF IInv, TypeInv, HandsInv, Left, Chain
<1>3. working_memory[t] \notin Stack
      /\ \A u \in Reclaimers : /\ working_memory[t] \notin Left(u)
                               /\ u # t => working_memory[u] # working_memory[t]
  BY <1>2 DEF IInv, PlaceInv, Has
<1>4. \A b \in Blocks : addrs'[b] = IF b = working_memory[t] THEN addrs[b] \ F ELSE addrs[b]
  BY <1>2 DEF IInv, TypeInv
<1>5. \A a : a \in Stored' <=> a \in Stored
  BY <1>1, <1>3, <1>4, OnStack, ChainsAreBlocks
<1>6. \A u \in Reclaimers : \A a :
         a \in Held'[u] <=> a \in (IF u = t THEN Held[t] \ F ELSE Held[u])
  BY <1>1, <1>2, <1>3, <1>4, InHands, ChainsAreBlocks DEF IInv, TypeInv
<1>7. \A u \in Reclaimers : Held'[u] = IF u = t THEN Held[t] \ F ELSE Held[u]
  BY <1>6
<1>8. Held' = [Held EXCEPT ![t] = @ \ F]
  BY <1>7, HeldFunction
<1>9. Stored' = Stored /\ F \in SUBSET Held[t]
  BY <1>2, <1>5, InHands
<1> QED BY <1>8, <1>9 DEF Stored, Held, Stack, S!Free

LEMMA Refines_store_remaining_addrs ==
  ASSUME IInv, NEW t \in Reclaimers, store_remaining_addrs(t)
  PROVE  [S!Next]_S!vars
<1>1. Stack' = Stack /\ \A u \in Reclaimers : Left(u)' = Left(u)
  BY Chains_store_remaining_addrs
<1>2. PICK b \in Blocks : b = working_memory[t]
  BY WorkingApart DEF store_remaining_addrs, Runs
<1>3. CASE Cardinality(addrs[b]) = 0
  <2>1. addrs[b] = {}
    <3>1. addrs[b] \in SUBSET Addrs /\ IsFiniteSet(Addrs)
      BY StorageAssumption DEF IInv, TypeInv
    <3>2. IsFiniteSet(addrs[b])
      BY <3>1, FS_Subset
    <3> QED BY <1>3, <3>2, FS_EmptySet
  <2>2. b \notin Stack /\ \A u \in Reclaimers : /\ b \notin Left(u)
                                                /\ u # t => working_memory[u] # b
    BY <1>2 DEF IInv, PlaceInv, Has
  <2>3. /\ addrs' = [addrs EXCEPT ![b] = {}] /\ untracked' = untracked
        /\ working_memory' = [working_memory EXCEPT ![t] = NULL]
    BY <1>2, <1>3 DEF store_remaining_addrs, Unmap
  <2>4. \A u \in Reclaimers : working_memory'[u] = IF u = t THEN NULL ELSE working_memory[u]
    BY <2>3 DEF IInv, TypeInv
  <2>5. b # NULL
    BY StorageAssumption
  <2> QED BY <1>1, <1>2, <2>1, <2>2, <2>3, <2>4, <2>5, UnmapStutters
<1>4. CASE Cardinality(addrs[b]) # 0
  <2>1. UNCHANGED <<addrs, working_memory, untracked>>
    BY <1>2, <1>4 DEF store_remaining_addrs, blockVars
  <2> QED BY <1>1, <2>1, InHands, OnStack, Stutters
<1> QED BY <1>3, <1>4

LEMMA Refines_store_cas ==
  ASSUME IInv, NEW t \in Reclaimers, store_cas(t)
  PROVE  [\E u \in Reclaimers : S!Put(u)]_S!vars
<1> USE StorageAssumption DEF store_cas, Runs, Goto, blockVars
<1>1. /\ Stack' = (IF pc'[t] = "idle" THEN Stack \cup {working_memory[t]} ELSE Stack)
      /\ \A u \in Reclaimers : Left(u)' = Left(u)
  BY Chains_store_cas
<1>2. working_memory[t] \in Blocks /\ Left(t) = {}
  BY ReachesNothing DEF IInv, TypeInv, HandsInv, Left, Chain
<1>3. CASE Unchanged(t)
  <2>1. pc'[t] = "idle" /\ working_memory' = [working_memory EXCEPT ![t] = NULL]
    BY <1>3 DEF IInv, TypeInv
  <2>2. \A a : a \in Stored' <=> a \in Stored \cup Held[t]
    BY <1>1, <1>2, <2>1, OnStack, InHands
  <2>3. \A u \in Reclaimers : \A a : a \in Held'[u] <=> a \in (IF u = t THEN {} ELSE Held[u])
    BY <1>1, <1>2, <2>1, InHands DEF IInv, TypeInv
  <2>4. \A u \in Reclaimers : Held'[u] = IF u = t THEN {} ELSE Held[u]
    BY <2>3
  <2>5. Held' = [Held EXCEPT ![t] = {}]
    BY <2>4, HeldFunction
  <2>6. Stored' = Stored \cup Held[t]
    BY <2>2
  <2>7. S!Put(t)
    BY <2>5, <2>6 DEF Stored, Held, Stack, S!Put
  <2> QED BY <2>7
<1>4. CASE ~Unchanged(t)
  <2>1. pc'[t] # "idle" /\ UNCHANGED <<addrs, working_memory, untracked>>
    BY <1>4 DEF IInv, TypeInv
  <2>2. \A a : a \in Stored' <=> a \in Stored
    BY <1>1, <2>1, OnStack
  <2>3. \A u \in Reclaimers : \A a : a \in Held'[u] <=> a \in Held[u]
    BY <1>1, <2>1, InHands
  <2>4. Stored' = Stored /\ \A u \in Reclaimers : Held'[u] = Held[u]
    BY <2>2, <2>3
  <2>5. Held' = Held
    BY <2>4, HeldFunction
  <2> QED BY <2>1, <2>4, <2>5 DEF Stored, Held, Stack, S!vars
<1> QED BY <1>3, <1>4

LEMMA RefinesNext ==
  IInv /\ [Next]_vars => [S!Next]_S!vars
<1> SUFFICES ASSUME IInv, [Next]_vars
             PROVE  [S!Next]_S!vars
  OBVIOUS
<1>1. ASSUME NEW t \in Reclaimers, cleanup_release(t)
      PROVE  [S!Next]_S!vars
  <2>1. UNCHANGED <<storage, leftovers, next, addrs, working_memory, untracked>>
    BY <1>1 DEF cleanup_release, blockVars
  <2>2. Stack' = Stack /\ \A u \in Reclaimers : Left(u)' = Left(u)
    BY <2>1, ChainsKept DEF IInv
  <2> QED BY <2>1, <2>2, InHands, OnStack, Stutters
<1>2. ASSUME NEW t \in Reclaimers, store_next(t)
      PROVE  [S!Next]_S!vars
  <2>1. UNCHANGED <<addrs, working_memory, untracked>>
    BY <1>2 DEF store_next
  <2>2. Stack' = Stack /\ \A u \in Reclaimers : Left(u)' = Left(u)
    BY <1>2, Chains_store_next
  <2> QED BY <2>1, <2>2, InHands, OnStack, Stutters
<1>3. CASE UNCHANGED vars
  <2>1. UNCHANGED <<storage, leftovers, next, addrs, working_memory, untracked>>
    BY <1>3 DEF vars, blockVars
  <2>2. Stack' = Stack /\ \A u \in Reclaimers : Left(u)' = Left(u)
    BY <2>1, ChainsKept DEF IInv
  <2> QED BY <2>1, <2>2, InHands, OnStack, Stutters
<1>4. \A t \in Reclaimers : S!Take(t) \/ S!Gather(t) \/ S!Free(t) \/ S!Put(t) => S!Next
  BY DEF S!Next
<1>5. ASSUME NEW t \in Reclaimers, store_cas(t)
      PROVE  [S!Next]_S!vars
  BY <1>4, <1>5, Refines_store_cas
<1> QED BY <1>1, <1>2, <1>3, <1>4, <1>5, Refines_reclaim, Refines_take_leftovers,
        Refines_add_to_buf_addrs, Refines_unmap_leftover, Refines_pop_bulk,
        Refines_handle_unreferenced_ptrs, Refines_store_remaining_addrs DEF Next, Dead

-----------------------------------------------------------------------------
(* The theorems.                                                            *)

\* Every variable of the storage keeps its type.
THEOREM TypeCorrect == Spec => []TypeInv
BY Invariant, PTL DEF IInv

(***************************************************************************)
(* take_leftovers, the unmapping of what was copied, and the CAS of        *)
(* store_remaining_addrs leave each mapped block on the stack or with one  *)
(* reclaimer, whatever rounds overlap and whichever addresses mmap reuses. *)
(***************************************************************************)
THEOREM BlocksStayInOnePlace == Spec => []BlocksInOnePlace
<1>1. IInv => BlocksInOnePlace
  <2> SUFFICES ASSUME IInv
               PROVE  BlocksInOnePlace
    OBVIOUS
  <2>1. \A t \in Reclaimers : \A b :
          b \in (ListOf(t) \cup {tmp[t]}) \ {NULL} <=> b # NULL /\ Has(t, b)
    BY ChainsAreBlocks, StorageAssumption DEF ListOf, Left, Has
  <2>2. \A t \in Reclaimers : \A b : b # NULL /\ Has(t, b) => b \in Blocks
    BY ChainsAreBlocks DEF IInv, TypeInv, Has
  <2>3. \A b : b \in mapped <=>
          b \in Chain(storage)
                \cup UNION {(ListOf(t) \cup {tmp[t]}) \ {NULL} : t \in Reclaimers}
    <3>1. \A b : b \in UNION {(ListOf(t) \cup {tmp[t]}) \ {NULL} : t \in Reclaimers}
                 <=> \E t \in Reclaimers : b # NULL /\ Has(t, b)
      BY <2>1
    <3>2. \A b : b \in mapped <=> b \in Stack \/ \E t \in Reclaimers : b # NULL /\ Has(t, b)
      BY <2>2, ChainsAreBlocks, StorageAssumption DEF IInv, TypeInv, PlaceInv
    <3> QED BY <3>1, <3>2 DEF Stack
  <2>4. mapped = Chain(storage)
                 \cup UNION {(ListOf(t) \cup {tmp[t]}) \ {NULL} : t \in Reclaimers}
    BY <2>3
  <2>5. NULL \notin Chain(storage) /\ \A t \in Reclaimers : NULL \notin ListOf(t)
    BY ChainsAreBlocks, StorageAssumption DEF Stack, ListOf, Left
  <2>6. \A t \in Reclaimers : (ListOf(t) \cup {tmp[t]}) \cap Chain(storage) = {}
    BY <2>1, <2>5 DEF IInv, PlaceInv, Stack
  <2>7. \A t \in Reclaimers : working_memory[t] \notin Chain(leftovers[t]) /\ tmp[t] \notin ListOf(t)
    BY <2>5 DEF IInv, PlaceInv, Left, ListOf
  <2>8. \A t \in Reclaimers : \A u \in Reclaimers \ {t} :
           (ListOf(t) \cup {tmp[t]}) \cap (ListOf(u) \cup {tmp[u]}) \subseteq {NULL}
    BY <2>1, <2>2 DEF IInv, PlaceInv
  <2> QED BY <2>4, <2>6, <2>7, <2>8 DEF BlocksInOnePlace
<1> QED BY <1>1, Invariant, PTL

(***************************************************************************)
(* threadscan_fatal in add_to_buf_addrs and store_remaining_addrs: no      *)
(* overlap of rounds makes a list outgrow its block while what is tracked  *)
(* fits one.  An entry is in one block, so two that are merged hold no     *)
(* more than is tracked.                                                   *)
(***************************************************************************)
THEOREM FatalMeansFull == Spec => []FatalOnlyWhenFull
BY Invariant, PTL DEF IInv

(***************************************************************************)
(* The linked stack implements the set that ThreadScan takes it for: the   *)
(* exchange takes all that is stored, and a CAS that succeeds, even after  *)
(* the top was taken, unmapped and pushed again, adds one block whole.     *)
(***************************************************************************)
THEOREM StackIsAddrSet == Spec => IsAddrSet
<1>1. Init => S!Init
  <2> SUFFICES ASSUME Init
               PROVE  S!Init
    OBVIOUS
  <2>1. Stack = {} /\ \A t \in Reclaimers : Left(t) = {}
    BY StorageAssumption, ReachesNothing DEF Init, Stack, Left, Chain
  <2>2. Stored = {} /\ \A t \in Reclaimers : Held[t] = {}
    BY <2>1, OnStack, InHands DEF Init
  <2>3. Held = [t \in Reclaimers |-> {}]
    BY <2>2, HeldFunction
  <2> QED BY <2>2, <2>3 DEF Init, Stored, Held, Stack, S!Init
<1> QED BY <1>1, RefinesNext, Invariant, PTL DEF Spec, IsAddrSet, S!Spec

=============================================================================
