---------------------------- MODULE ListProofs -----------------------------
(***************************************************************************)
(* Proofs about the working list of a round.                               *)
(*                                                                         *)
(* Search, for any number of searching threads, any sorted list, any       *)
(* ranges, any page size and any BINARY_THRESHOLD from 2 on: no search     *)
(* leaves the list, no entry is marked without a reference to it, none     *)
(* that a word refers to is left unmarked, and no loop goes on forever.    *)
(*                                                                         *)
(* WorkingList, for any addresses, any size of the buffer, any             *)
(* SORT_THRESHOLD and any number of rounds: the sort yields a list that    *)
(* Search may be given, the sweep does what the protocol model says of it, *)
(* what a round stores is what the next one reads back, and a round ends.  *)
(***************************************************************************)
EXTENDS Search, WorkingList, FiniteSetTheorems, TLAPS

-----------------------------------------------------------------------------
(* The inductive invariant.                                                 *)

\* The address in an entry, marked or not; whether it is marked.
A(k) == PTR_MASK(buf_addrs[k])
Odd(k) == buf_addrs[k] % 2 = 1

\* Marking moves no address: the list stays sorted and the scan map true.
ListInv ==
    /\ \A j, k \in Entries : j < k => A(j) < A(k) \/ A(j) = 0
    /\ \A p \in 0..n_scan_map-1 : buf_scan_map[p] = A(p * PerPage)

Looking == {"binary", "iterate"}
Landed == {"check", "bit", "store"}

\* cmp is the word at i.
WordInv(s) ==
    pc[s] \in Looking \cup Landed =>
        i[s] <= Len(mem[s]) /\ cmp[s] = PTR_MASK(mem[s][i[s]])

\* A search begins in the scan map.
LevelInv(s) == pc[s] \notin Looking \cup Landed => level[s] = 1

\* A bound that was read marked is of an entry that is marked.
BoundsInv(s) ==
    /\ pc[s] # "load_min" =>
          min_ptr[s] = A(0) \/ (min_ptr[s] = A(0) + 1 /\ Odd(0))
    /\ pc[s] \notin {"load_min", "load_max"} =>
          max_ptr[s] \in {A(n_addrs-1), A(n_addrs-1) + 1}

\* The entries that the search of s has not excluded, as indexes of the list.
Left(s, k) ==
    IF level[s] = 2 THEN min[s] <= k /\ k < max[s]
    ELSE /\ (IF pc[s] = "binary" THEN min[s] ELSE min[s] - 1) * PerPage <= k
         /\ k < max[s] * PerPage

(***************************************************************************)
(* The entry that is searched for is among those left, or another thread   *)
(* has marked it, which may lead this search astray.  The first entry has  *)
(* been excluded before, so that iterative_search may step back.           *)
(***************************************************************************)
RangeInv(s) ==
    pc[s] \in Looking =>
        /\ A(0) < cmp[s]
        /\ max[s] <= IF level[s] = 1 THEN n_scan_map ELSE n_addrs
        /\ IF pc[s] = "binary" THEN min[s] < max[s]
           ELSE min[s] <= max[s] /\ 0 < max[s]
        /\ \A k \in Entries : A(k) = cmp[s] => Odd(k) \/ Left(s, k)

\* An entry has been chosen; if it is another one, the right one is marked.
LocInv(s) ==
    pc[s] \in Landed =>
        /\ loc[s] \in Entries
        /\ cmp[s] = 0 => loc[s] = 0 /\ pc[s] # "check"
        /\ \A k \in Entries : A(k) = cmp[s] /\ cmp[s] # 0 => k = loc[s] \/ Odd(k)
        /\ pc[s] # "check" => A(loc[s]) = cmp[s]
        /\ pc[s] = "store" => v[s] = cmp[s]

\* What the words gone past refer to is marked.
PastInv(s) ==
    \A k \in Entries : \A j \in 1..i[s]-1 :
        A(k) = PTR_MASK(mem[s][j]) /\ A(k) # 0 => Odd(k)

ThreadInv(s) ==
    /\ WordInv(s) /\ LevelInv(s) /\ BoundsInv(s) /\ RangeInv(s) /\ LocInv(s)
    /\ PastInv(s)

IInv == TypeOK /\ ListInv /\ OnlyFound /\ \A s \in Searchers : ThreadInv(s)

-----------------------------------------------------------------------------
(* Facts about the operators.                                               *)

LEMMA ConstantTypes ==
  /\ PerPage \in Nat \ {0} /\ BINARY_THRESHOLD \in Nat \ {0, 1}
  /\ Ranges \subseteq Seq(Nat) /\ Lists \subseteq Seq(Nat)
BY SearchAssumption

\* A word is an address, or an address with low bits.
LEMMA Masked ==
  ASSUME NEW w \in Nat
  PROVE  PTR_MASK(w) \in Nat /\ PTR_MASK(w) % 4 = 0 /\ PTR_MASK(w) <= w
BY DEF PTR_MASK

\* An entry is its address, or one more when it is marked.
LEMMA MaskedEntry ==
  ASSUME NEW w \in Nat, w % 4 \in {0, 1}
  PROVE  /\ w % 2 \in {0, 1}
         /\ w % 2 = 0 => w = PTR_MASK(w)
         /\ w % 2 = 1 => w = PTR_MASK(w) + 1
         /\ w % 4 = 1 <=> w % 2 = 1
BY DEF PTR_MASK

\* Marking an address.
LEMMA MarkedEntry ==
  ASSUME NEW w \in Nat, w % 4 = 0
  PROVE  PTR_MASK(w + 1) = w /\ (w + 1) % 2 = 1 /\ (w + 1) % 4 = 1 /\ PTR_MASK(w) = w
BY DEF PTR_MASK

LEMMA TimesMonotone ==
  ASSUME NEW x \in Int, NEW y \in Int, x <= y
  PROVE  x * PerPage <= y * PerPage /\ x * PerPage \in Int /\ y * PerPage \in Int
BY ConstantTypes

LEMMA TimesNext ==
  ASSUME NEW x \in Int
  PROVE  (x + 1) * PerPage = x * PerPage + PerPage
BY ConstantTypes

\* The pages cover the list, and every page begins inside it.
LEMMA PagesCover ==
  ASSUME NEW len \in Nat \ {0}, NEW m, m = (len + PerPage - 1) \div PerPage
  PROVE  /\ m \in Nat \ {0} /\ len <= m * PerPage
         /\ \A p \in Int : p < m => p * PerPage < len
<1> DEFINE t == len + PerPage - 1
           r == t % PerPage
           w == m * PerPage
<1> USE ConstantTypes
<1>1. t \in Nat /\ t >= PerPage
  OBVIOUS
<1>2. m \in Int /\ r \in 0..PerPage-1 /\ t = PerPage * m + r
  BY <1>1
<1>3. w \in Int /\ t = w + r
  BY <1>2
<1>4. len <= w /\ w <= len + PerPage - 1
  <2> HIDE DEF r, w
  <2> QED BY <1>2, <1>3
<1>5. m > 0
  <2>1. ASSUME m <= 0 PROVE FALSE
    <3>1. m * PerPage <= 0 * PerPage
      BY <2>1, <1>2, TimesMonotone
    <3> QED BY <3>1, <1>4
  <2> QED BY <2>1, <1>2
<1>6. ASSUME NEW p \in Int, p < m PROVE p * PerPage < len
  <2>1. p + 1 \in Int /\ p + 1 <= m
    BY <1>2, <1>6
  <2>2. (p + 1) * PerPage <= w
    BY <2>1, <1>2, TimesMonotone
  <2>3. (p + 1) * PerPage = p * PerPage + PerPage /\ p * PerPage \in Int
    BY TimesNext
  <2> HIDE DEF w
  <2> QED BY <2>2, <2>3, <1>3, <1>4
<1> QED BY <1>2, <1>4, <1>5, <1>6

-----------------------------------------------------------------------------
(* What the invariant says of the list.                                     *)

LEMMA ListFacts ==
  ASSUME IInv
  PROVE  /\ n_addrs \in Nat \ {0} /\ 0 \in Entries /\ n_addrs - 1 \in Entries
         /\ n_scan_map \in Nat \ {0} /\ n_addrs <= n_scan_map * PerPage
         /\ \A p \in Int : p < n_scan_map => p * PerPage < n_addrs
<1>1. n_addrs \in Nat \ {0}
  BY DEF IInv, TypeOK
<1>2. n_scan_map = (n_addrs + PerPage - 1) \div PerPage
  BY DEF n_scan_map
<1>3. /\ n_scan_map \in Nat \ {0} /\ n_addrs <= n_scan_map * PerPage
      /\ \A p \in Int : p < n_scan_map => p * PerPage < n_addrs
  BY ONLY <1>1, <1>2, PagesCover
<1> QED BY <1>1, <1>3 DEF Entries

LEMMA EntryFacts ==
  ASSUME IInv, NEW k \in Entries
  PROVE  /\ k \in Nat /\ buf_addrs[k] \in Nat /\ A(k) \in Nat /\ A(k) % 4 = 0
         /\ buf_addrs[k] = IF Odd(k) THEN A(k) + 1 ELSE A(k)
<1>1. k \in Nat /\ buf_addrs[k] \in Nat /\ buf_addrs[k] % 4 \in {0, 1}
  BY DEF IInv, TypeOK, OnlyFound, Entries
<1> QED BY <1>1, Masked, MaskedEntry DEF A, Odd

LEMMA Sorted ==
  ASSUME IInv, NEW j \in Entries, NEW k \in Entries
  PROVE  /\ j <= k => A(j) <= A(k)
         /\ A(j) < A(k) => j < k
         /\ A(j) = A(k) /\ A(k) # 0 => j = k
<1>1. j \in Nat /\ k \in Nat /\ A(j) \in Nat /\ A(k) \in Nat
  BY EntryFacts
<1>2. /\ j < k => A(j) < A(k) \/ A(j) = 0
      /\ k < j => A(k) < A(j) \/ A(k) = 0
  BY DEF IInv, ListInv
<1> QED BY <1>1, <1>2

\* An entry of the scan map is the address of an entry of the list.
LEMMA MapFacts ==
  ASSUME IInv, NEW p \in Int, 0 <= p, p < n_scan_map
  PROVE  /\ p * PerPage \in Entries /\ buf_scan_map[p] = A(p * PerPage)
         /\ buf_scan_map[p] \in Nat
<1>1. p \in 0..n_scan_map-1 /\ p * PerPage < n_addrs
  BY ListFacts
<1>2. p * PerPage \in Nat
  BY ConstantTypes
<1>3. p * PerPage \in Entries
  BY <1>1, <1>2, ListFacts DEF Entries
<1>4. buf_scan_map[p] = A(p * PerPage)
  BY <1>1 DEF IInv, ListInv
<1> QED BY <1>3, <1>4, EntryFacts

-----------------------------------------------------------------------------
(* What a step may do to the list: mark.                                    *)

ListStep ==
    /\ UNCHANGED list /\ buf_addrs' \in [Entries -> Nat]
    /\ \A k \in Entries : /\ A(k)' = A(k) /\ (Odd(k) => Odd(k)')
                          /\ buf_addrs'[k] % 4 \in {0, 1}

LEMMA UnchangedListStep ==
  ASSUME IInv, UNCHANGED list, UNCHANGED buf_addrs
  PROVE  ListStep
BY DEF IInv, TypeOK, OnlyFound, ListStep, A, Odd, list

LEMMA StoreListStep ==
  ASSUME IInv, NEW s \in Searchers, SET_LOW_BIT_store(s)
  PROVE  ListStep /\ buf_addrs'[loc[s]] % 2 = 1
<1> PICK at : at = loc[s]
  OBVIOUS
<1>1. pc[s] = "store" /\ at \in Entries /\ A(at) = cmp[s] /\ v[s] = cmp[s]
  BY DEF IInv, ThreadInv, LocInv, Landed, SET_LOW_BIT_store
<1>2. v[s] \in Nat /\ v[s] % 4 = 0
  BY <1>1, EntryFacts
<1>3. buf_addrs' = [buf_addrs EXCEPT ![at] = v[s] + 1] /\ UNCHANGED list
  BY DEF SET_LOW_BIT_store, Marked
<1>4. /\ buf_addrs' \in [Entries -> Nat] /\ buf_addrs'[at] = v[s] + 1
      /\ \A k \in Entries : k # at => buf_addrs'[k] = buf_addrs[k]
  BY <1>1, <1>2, <1>3 DEF IInv, TypeOK
<1>5. A(at)' = A(at) /\ buf_addrs'[at] % 2 = 1 /\ buf_addrs'[at] % 4 = 1
  BY <1>1, <1>2, <1>4, MarkedEntry DEF A
<1>6. ASSUME NEW k \in Entries
      PROVE  A(k)' = A(k) /\ (Odd(k) => Odd(k)') /\ buf_addrs'[k] % 4 \in {0, 1}
  <2>1. CASE k = at
    BY <2>1, <1>5 DEF Odd
  <2>2. CASE k # at
    BY <2>2, <1>4 DEF IInv, OnlyFound, A, Odd
  <2> QED BY <2>1, <2>2
<1> QED BY <1>3, <1>4, <1>5, <1>6 DEF ListStep

LEMMA ListInvStep ==
  ASSUME IInv, ListStep
  PROVE  ListInv' /\ Entries' = Entries /\ n_scan_map' = n_scan_map
<1>1. /\ Entries' = Entries /\ n_scan_map' = n_scan_map
      /\ n_addrs' = n_addrs /\ buf_scan_map' = buf_scan_map
  BY DEF ListStep, list, Entries, n_scan_map
<1>2. \A j, k \in Entries : j < k => A(j)' < A(k)' \/ A(j)' = 0
  BY DEF ListStep, IInv, ListInv
<1>3. ASSUME NEW p \in 0..n_scan_map-1
      PROVE  buf_scan_map[p] = A(p * PerPage)'
  <2>1. p \in Int /\ 0 <= p /\ p < n_scan_map
    BY ListFacts
  <2>2. p * PerPage \in Entries /\ buf_scan_map[p] = A(p * PerPage)
    BY <2>1, MapFacts
  <2> QED BY <2>2 DEF ListStep
<1> QED BY <1>1, <1>2, <1>3 DEF ListInv

\* Nothing that belongs to u changes.
Same(u) ==
    /\ pc'[u] = pc[u] /\ i'[u] = i[u] /\ cmp'[u] = cmp[u]
    /\ min_ptr'[u] = min_ptr[u] /\ max_ptr'[u] = max_ptr[u]
    /\ level'[u] = level[u] /\ min'[u] = min[u] /\ max'[u] = max[u]
    /\ loc'[u] = loc[u] /\ v'[u] = v[u]

\* What a thread relies on survives the marks that the others set.
LEMMA OtherThread ==
  ASSUME IInv, ListStep, NEW u \in Searchers, Same(u)
  PROVE  ThreadInv(u)'
<1>1. ThreadInv(u)
  BY DEF IInv
<1>2. /\ Entries' = Entries /\ n_scan_map' = n_scan_map /\ n_addrs' = n_addrs
      /\ mem' = mem
      /\ \A k \in Entries : A(k)' = A(k) /\ (Odd(k) => Odd(k)')
  BY ListInvStep DEF ListStep, list
<1>3. WordInv(u)' /\ LevelInv(u)'
  BY <1>1, <1>2 DEF Same, ThreadInv, WordInv, LevelInv
<1>4. BoundsInv(u)'
  <2>1. 0 \in Entries /\ n_addrs - 1 \in Entries
    BY ListFacts
  <2>2. A(0)' = A(0) /\ (Odd(0) => Odd(0)') /\ A(n_addrs - 1)' = A(n_addrs - 1)
    BY <2>1, <1>2 DEF A
  <2> QED BY <1>1, <2>2 DEF Same, ThreadInv, BoundsInv
<1>5. RangeInv(u)'
  <2>1. A(0)' = A(0)
    BY <1>2, ListFacts
  <2>2. \A k \in Entries : Left(u, k)' = Left(u, k)
    BY DEF Same, Left
  <2> QED BY <1>1, <1>2, <2>1, <2>2 DEF Same, ThreadInv, RangeInv
<1>6. LocInv(u)'
  <2> PICK at : at = loc[u]
    OBVIOUS
  <2>1. at \in Entries => A(at)' = A(at)
    BY <1>2
  <2>2. A(loc[u])' = A(at)' /\ loc'[u] = at
    BY DEF A, Same
  <2> QED BY <1>1, <1>2, <2>1, <2>2 DEF Same, ThreadInv, LocInv
<1>7. PastInv(u)'
  BY <1>1, <1>2 DEF Same, ThreadInv, PastInv
<1> QED BY <1>3, <1>4, <1>5, <1>6, <1>7 DEF ThreadInv

-----------------------------------------------------------------------------
(* The two ways on from a word: the next word, and an index found.          *)

\* The bounds survive, whatever the thread does next.
LEMMA BoundsKept ==
  ASSUME IInv, ListStep, NEW s \in Searchers, BoundsInv(s),
         pc[s] \notin {"load_min", "load_max"},
         min_ptr'[s] = min_ptr[s], max_ptr'[s] = max_ptr[s]
  PROVE  BoundsInv(s)'
<1>1. 0 \in Entries /\ n_addrs - 1 \in Entries /\ n_addrs' = n_addrs
  BY ListFacts DEF ListStep, list
<1>2. A(0)' = A(0) /\ (Odd(0) => Odd(0)') /\ A(n_addrs - 1)' = A(n_addrs - 1)
  BY <1>1 DEF ListStep, A
<1> QED BY <1>2 DEF BoundsInv

\* The word is done: what it refers to must be marked.
LEMMA NextWordInv ==
  ASSUME IInv, ListStep, NEW s \in Searchers, NextWord(s),
         pc[s] \notin {"load_min", "load_max"},
         \A k \in Entries : A(k) = PTR_MASK(mem[s][i[s]]) /\ A(k) # 0 => Odd(k)'
  PROVE  ThreadInv(s)'
<1>1. ThreadInv(s) /\ i[s] \in Nat
  BY DEF IInv, TypeOK
<1>2. /\ pc'[s] = "word" /\ i'[s] = i[s] + 1 /\ level'[s] = 1
      /\ UNCHANGED <<min_ptr, max_ptr>>
  BY DEF IInv, TypeOK, NextWord, Goto
<1>3. WordInv(s)' /\ LevelInv(s)' /\ RangeInv(s)' /\ LocInv(s)'
  BY <1>2 DEF WordInv, LevelInv, RangeInv, LocInv, Looking, Landed
<1>4. BoundsInv(s)'
  BY <1>1, <1>2, BoundsKept DEF ThreadInv
<1>5. PastInv(s)'
  <2>1. Entries' = Entries /\ mem' = mem
    BY ListInvStep DEF ListStep, list
  <2> SUFFICES ASSUME NEW k \in Entries, NEW j \in 1..i'[s]-1,
                      A(k)' = PTR_MASK(mem[s][j]), A(k)' # 0
               PROVE  Odd(k)'
    BY <2>1 DEF PastInv
  <2>2. A(k)' = A(k) /\ (Odd(k) => Odd(k)')
    BY DEF ListStep
  <2>3. CASE j = i[s]
    BY <2>2, <2>3
  <2>4. CASE j # i[s]
    <3>1. j \in 1..i[s]-1
      BY <1>1, <1>2, <2>4
    <3> QED BY <1>1, <2>2, <3>1 DEF ThreadInv, PastInv
  <2> QED BY <2>3, <2>4
<1> QED BY <1>3, <1>4, <1>5 DEF ThreadInv

\* What is known of the index that a search returns.
Covers(s, at) ==
    IF level[s] = 1
    THEN /\ 0 <= at /\ at < n_scan_map
         /\ \A k \in Entries : A(k) = cmp[s] =>
               Odd(k) \/ (at * PerPage <= k /\ k < (at + 1) * PerPage)
    ELSE /\ at \in Entries
         /\ \A k \in Entries : A(k) = cmp[s] => k = at \/ Odd(k)

\* A page ends inside the list, after its first entry.
LEMMA PageEndFacts ==
  ASSUME IInv, NEW p \in Int, 0 <= p, p < n_scan_map
  PROVE  /\ p * PerPage \in Entries /\ PageEnd(p) \in Nat
         /\ p * PerPage < PageEnd(p) /\ PageEnd(p) <= n_addrs
         /\ \A k \in Entries : k < (p + 1) * PerPage => k < PageEnd(p)
<1> DEFINE a == p * PerPage
           b == (p + 1) * PerPage
<1>1. a \in Entries /\ a \in Int
  BY MapFacts, EntryFacts
<1>2. b = a + PerPage /\ b \in Int
  BY <1>1, TimesNext, ConstantTypes
<1>3. n_addrs \in Nat /\ n_scan_map \in Nat
  BY ListFacts
<1>4. p + 1 < n_scan_map => b < n_addrs
  BY ListFacts
<1>5. PageEnd(p) = IF p = n_scan_map - 1 THEN n_addrs ELSE b
  BY DEF PageEnd
<1> HIDE DEF a, b
<1>6. a < n_addrs /\ 0 <= a /\ a < b
  BY <1>1, <1>2, <1>3, ConstantTypes DEF Entries
<1>7. a \in Entries /\ PageEnd(p) \in Nat /\ a < PageEnd(p) /\ PageEnd(p) <= n_addrs
  BY <1>1, <1>2, <1>3, <1>4, <1>5, <1>6
<1>8. \A k \in Entries : k < b => k < PageEnd(p)
  BY <1>3, <1>5 DEF Entries
<1> QED BY <1>7, <1>8 DEF a, b

LEMMA FoundInv ==
  ASSUME IInv, NEW s \in Searchers, pc[s] \in Looking, NEW at \in Int, Covers(s, at),
         Found(s, at), UNCHANGED <<list, buf_addrs, locals, v>>
  PROVE  ThreadInv(s)' /\ TypeOK'
<1>1. ListStep
  BY UnchangedListStep
<1>2. ThreadInv(s) /\ TypeOK
  BY DEF IInv
<1>3. /\ Entries' = Entries /\ n_addrs' = n_addrs /\ n_scan_map' = n_scan_map
      /\ \A k \in Entries : A(k)' = A(k) /\ (Odd(k) => Odd(k)')
  BY <1>1, ListInvStep DEF ListStep, list
<1>4. BoundsInv(s)'
  BY <1>1, <1>2, BoundsKept DEF ThreadInv, locals, Looking
<1>5. PastInv(s)'
  BY <1>2, <1>3 DEF ThreadInv, PastInv, list, locals
<1>6. WordInv(s)'
  BY <1>2 DEF ThreadInv, WordInv, list, locals
<1>7. CASE level[s] = 1
  <2>1. /\ level' = [level EXCEPT ![s] = 2] /\ min' = [min EXCEPT ![s] = at * PerPage]
        /\ max' = [max EXCEPT ![s] = PageEnd(at)] /\ pc' = [pc EXCEPT ![s] = "binary"]
        /\ UNCHANGED loc
    BY <1>7 DEF Found, Goto
  <2>2. /\ at * PerPage \in Entries /\ PageEnd(at) \in Nat
        /\ at * PerPage < PageEnd(at) /\ PageEnd(at) <= n_addrs
        /\ \A k \in Entries : k < (at + 1) * PerPage => k < PageEnd(at)
    BY <1>7, PageEndFacts DEF Covers
  <2>3. at * PerPage \in Nat
    BY <2>2, EntryFacts
  <2>4. /\ level'[s] = 2 /\ min'[s] = at * PerPage /\ max'[s] = PageEnd(at)
        /\ pc'[s] = "binary"
    BY <2>1, <1>2 DEF TypeOK
  <2>5. TypeOK'
    BY <1>2, <1>3, <2>1, <2>2, <2>3 DEF TypeOK, list, locals
  <2>6. RangeInv(s)' /\ LevelInv(s)'
    <3>1. \A k \in Entries : A(k)' = cmp'[s] => Odd(k)' \/ Left(s, k)'
      BY <1>3, <1>7, <2>2, <2>4 DEF Covers, Left, locals
    <3>2. A(0)' < cmp'[s]
      BY <1>2, <1>3, ListFacts DEF ThreadInv, RangeInv, locals
    <3> QED BY <1>3, <2>2, <2>4, <3>1, <3>2 DEF RangeInv, LevelInv, Looking
  <2>7. LocInv(s)'
    BY <2>4 DEF LocInv, Landed
  <2> QED BY <1>4, <1>5, <1>6, <2>5, <2>6, <2>7 DEF ThreadInv
<1>8. CASE level[s] = 2
  <2>1. /\ loc' = [loc EXCEPT ![s] = at] /\ pc' = [pc EXCEPT ![s] = "check"]
        /\ UNCHANGED <<level, min, max>>
    BY <1>8 DEF Found, Goto, search
  <2>2. loc'[s] = at /\ pc'[s] = "check"
    BY <2>1, <1>2 DEF TypeOK
  <2>3. TypeOK'
    BY <1>2, <1>3, <2>1 DEF TypeOK, list, locals
  <2>4. RangeInv(s)' /\ LevelInv(s)'
    BY <2>2 DEF RangeInv, LevelInv, Looking, Landed
  <2>5. LocInv(s)'
    <3>1. A(0) < cmp[s] /\ A(0) \in Nat
      BY <1>2, ListFacts, EntryFacts DEF ThreadInv, RangeInv
    <3>2. at \in Entries /\ \A k \in Entries : A(k)' = cmp[s] => k = at \/ Odd(k)'
      BY <1>3, <1>8 DEF Covers
    <3> QED BY <1>3, <2>2, <3>1, <3>2 DEF LocInv, Landed, locals
  <2> QED BY <1>4, <1>5, <1>6, <2>3, <2>4, <2>5 DEF ThreadInv
<1> QED BY <1>2, <1>7, <1>8 DEF TypeOK

LEMMA NextWordTypes ==
  ASSUME IInv, ListStep, NEW s \in Searchers, NextWord(s)
  PROVE  TypeOK'
<1>1. TypeOK /\ Entries' = Entries /\ n_scan_map' = n_scan_map
  BY ListInvStep DEF IInv
<1> QED BY <1>1 DEF TypeOK, NextWord, Goto, ListStep, list

-----------------------------------------------------------------------------
(* One lemma per step of a thread.                                          *)

LEMMA LoadStep ==
  ASSUME IInv, NEW s \in Searchers, load_min(s) \/ load_max(s) \/ return(s)
  PROVE  TypeOK' /\ ThreadInv(s)'
<1>1. TypeOK /\ ThreadInv(s)
  BY DEF IInv
<1>2. ListStep
  BY UnchangedListStep DEF load_min, load_max, return
<1>3. /\ Entries' = Entries /\ n_addrs' = n_addrs /\ n_scan_map' = n_scan_map
      /\ buf_addrs' = buf_addrs /\ mem' = mem
  BY <1>2, ListInvStep DEF ListStep, list, load_min, load_max, return
<1>4. 0 \in Entries /\ n_addrs - 1 \in Entries
  BY ListFacts
<1>5. TypeOK'
  <2>1. buf_addrs[0] \in Nat /\ buf_addrs[n_addrs - 1] \in Nat
    BY <1>1, <1>4 DEF TypeOK
  <2>2. CASE load_min(s)
    BY <1>1, <1>3, <2>1, <2>2 DEF TypeOK, load_min, Goto, list, search
  <2>3. CASE load_max(s)
    BY <1>1, <1>3, <2>1, <2>3 DEF TypeOK, load_max, Goto, list, search
  <2>4. CASE return(s)
    BY <1>1, <1>3, <2>4 DEF TypeOK, return, Goto, list, locals, search
  <2> QED BY <2>2, <2>3, <2>4
<1>6. /\ pc'[s] \in {"load_max", "word", "done"} /\ i'[s] = i[s]
      /\ WordInv(s)' /\ LevelInv(s)' /\ RangeInv(s)' /\ LocInv(s)'
  BY <1>1 DEF TypeOK, load_min, load_max, return, Goto, locals, search, ThreadInv,
              WordInv, LevelInv, RangeInv, LocInv, Looking, Landed
<1>7. PastInv(s)'
  BY <1>1, <1>3, <1>6 DEF ThreadInv, PastInv, A, Odd
<1>8. BoundsInv(s)'
  <2>1. /\ A(0)' = A(0) /\ Odd(0)' = Odd(0) /\ A(n_addrs - 1)' = A(n_addrs - 1)
        /\ buf_addrs[0] = IF Odd(0) THEN A(0) + 1 ELSE A(0)
        /\ buf_addrs[n_addrs - 1] \in {A(n_addrs - 1), A(n_addrs - 1) + 1}
    BY <1>3, <1>4, EntryFacts DEF A, Odd
  <2>2. CASE load_min(s)
    <3>1. pc'[s] = "load_max" /\ min_ptr'[s] = buf_addrs[0]
      BY <2>2, <1>1 DEF load_min, Goto, TypeOK
    <3> QED BY <2>1, <3>1 DEF BoundsInv
  <2>3. CASE load_max(s)
    <3>1. /\ pc[s] = "load_max" /\ pc'[s] = "word" /\ min_ptr'[s] = min_ptr[s]
          /\ max_ptr'[s] = buf_addrs[n_addrs - 1]
      BY <2>3, <1>1 DEF load_max, Goto, TypeOK
    <3> QED BY <1>1, <2>1, <3>1 DEF ThreadInv, BoundsInv
  <2>4. CASE return(s)
    <3>1. pc[s] = "word" /\ UNCHANGED <<min_ptr, max_ptr>>
      BY <2>4 DEF return, locals
    <3> QED BY <1>1, <1>2, <3>1, BoundsKept DEF ThreadInv
  <2> QED BY <2>2, <2>3, <2>4
<1> QED BY <1>5, <1>6, <1>7, <1>8 DEF ThreadInv

LEMMA WordStep ==
  ASSUME IInv, NEW s \in Searchers, word(s)
  PROVE  TypeOK' /\ ThreadInv(s)'
<1> DEFINE c == PTR_MASK(mem[s][i[s]])
<1>1. TypeOK /\ ThreadInv(s) /\ pc[s] = "word" /\ i[s] <= Len(mem[s])
      /\ UNCHANGED <<list, buf_addrs>>
  BY DEF IInv, word
<1>2. ListStep
  BY <1>1, UnchangedListStep
<1>3. /\ Entries' = Entries /\ n_addrs' = n_addrs /\ n_scan_map' = n_scan_map
      /\ mem' = mem /\ \A k \in Entries : A(k)' = A(k) /\ Odd(k)' = Odd(k)
  BY <1>1, <1>2, ListInvStep DEF ListStep, list, A, Odd
<1>4. mem[s][i[s]] \in Nat /\ i[s] \in 1..Len(mem[s])
  BY <1>1, ConstantTypes DEF TypeOK
<1>5. c \in Nat /\ c % 4 = 0
  BY <1>4, Masked
<1>6. /\ min_ptr[s] = A(0) \/ (min_ptr[s] = A(0) + 1 /\ Odd(0))
      /\ max_ptr[s] \in {A(n_addrs-1), A(n_addrs-1) + 1}
  BY <1>1 DEF ThreadInv, BoundsInv
<1>7. /\ 0 \in Entries /\ n_addrs - 1 \in Entries /\ n_addrs \in Nat
      /\ A(0) \in Nat /\ A(0) % 4 = 0
      /\ A(n_addrs-1) \in Nat /\ A(n_addrs-1) % 4 = 0
  BY ListFacts, EntryFacts
<1>8. \A k \in Entries : A(k) \in Nat /\ A(0) <= A(k) /\ A(k) <= A(n_addrs-1)
  <2> TAKE k \in Entries
  <2>1. 0 <= k /\ k <= n_addrs - 1
    BY <1>7 DEF Entries
  <2> QED BY <2>1, <1>7, Sorted, EntryFacts
<1> HIDE DEF c
<1>9. CASE (c < min_ptr[s] \/ c > max_ptr[s]) /\ NextWord(s)
  <2>1. ASSUME NEW k \in Entries, A(k) = c, A(k) # 0 PROVE Odd(k)'
    <3>1. A(k) \in Nat /\ A(0) <= A(k) /\ A(k) <= A(n_addrs-1)
      BY <1>8
    <3>2. A(k) = A(0) /\ Odd(0)
      BY <1>5, <1>6, <1>7, <1>9, <2>1, <3>1
    <3>3. k = 0
      BY <2>1, <3>2, <1>7, Sorted
    <3> QED BY <3>2, <3>3, <1>3
  <2>2. ThreadInv(s)'
    BY <1>1, <1>2, <1>9, <2>1, NextWordInv DEF c
  <2> QED BY <2>2, <1>2, <1>9, NextWordTypes
<1>10. CASE /\ c >= min_ptr[s] /\ c <= max_ptr[s]
            /\ cmp' = [cmp EXCEPT ![s] = c]
            /\ \/ /\ c = min_ptr[s] /\ loc' = [loc EXCEPT ![s] = 0]
                  /\ Goto(s, "bit") /\ UNCHANGED search
               \/ /\ c # min_ptr[s] /\ c = max_ptr[s]
                  /\ loc' = [loc EXCEPT ![s] = n_addrs - 1]
                  /\ Goto(s, "bit") /\ UNCHANGED search
            /\ UNCHANGED <<i, min_ptr, max_ptr, v>>
  <2> PICK at \in {0, n_addrs - 1} :
          /\ loc' = [loc EXCEPT ![s] = at] /\ pc' = [pc EXCEPT ![s] = "bit"]
          /\ c = A(at) /\ (c = 0 => at = 0)
    BY <1>5, <1>6, <1>7, <1>10 DEF Goto
  <2>1. at \in Entries /\ at \in Int
    BY <1>7
  <2>2. TypeOK'
    BY <1>1, <1>3, <1>5, <1>10, <2>1 DEF TypeOK, list, search
  <2>3. /\ pc'[s] = "bit" /\ loc'[s] = at /\ cmp'[s] = c /\ i'[s] = i[s]
        /\ min_ptr'[s] = min_ptr[s] /\ max_ptr'[s] = max_ptr[s]
    BY <1>1, <1>10 DEF TypeOK
  <2>4. WordInv(s)' /\ LevelInv(s)' /\ RangeInv(s)'
    BY <1>1, <1>3, <2>3 DEF WordInv, LevelInv, RangeInv, Looking, Landed, c
  <2>5. BoundsInv(s)'
    BY <1>1, <1>2, <2>3, BoundsKept DEF ThreadInv
  <2>6. PastInv(s)'
    BY <1>1, <1>3, <2>3 DEF ThreadInv, PastInv
  <2>7. LocInv(s)'
    <3>1. \A k \in Entries : A(k) = c /\ c # 0 => k = at
      BY <2>1, Sorted
    <3>2. A(loc[s])' = A(at)' /\ A(at)' = A(at)
      BY <1>3, <2>1, <2>3 DEF A
    <3>3. \A k \in Entries' : A(k)' = cmp'[s] /\ cmp'[s] # 0 => k = loc'[s] \/ Odd(k)'
      BY <1>3, <2>3, <3>1
    <3>4. loc'[s] \in Entries' /\ A(loc[s])' = cmp'[s] /\ (cmp'[s] = 0 => loc'[s] = 0)
      BY <1>3, <2>1, <2>3, <3>2
    <3> QED BY <2>3, <3>3, <3>4 DEF LocInv
  <2> QED BY <2>2, <2>4, <2>5, <2>6, <2>7 DEF ThreadInv
<1>11. CASE /\ c >= min_ptr[s] /\ c <= max_ptr[s]
            /\ cmp' = [cmp EXCEPT ![s] = c]
            /\ c # min_ptr[s] /\ c # max_ptr[s]
            /\ min' = [min EXCEPT ![s] = 0]
            /\ max' = [max EXCEPT ![s] = n_scan_map]
            /\ Goto(s, "binary") /\ UNCHANGED <<level, loc>>
            /\ UNCHANGED <<i, min_ptr, max_ptr, v>>
  <2>1. n_scan_map \in Nat \ {0} /\ n_addrs <= n_scan_map * PerPage
    BY ListFacts
  <2>2. TypeOK'
    BY <1>1, <1>3, <1>5, <1>11, <2>1 DEF TypeOK, list, Goto
  <2>3. /\ pc'[s] = "binary" /\ cmp'[s] = c /\ i'[s] = i[s] /\ min'[s] = 0
        /\ max'[s] = n_scan_map /\ level'[s] = level[s]
        /\ min_ptr'[s] = min_ptr[s] /\ max_ptr'[s] = max_ptr[s]
    BY <1>1, <1>11 DEF TypeOK, Goto
  <2>4. WordInv(s)' /\ LevelInv(s)' /\ LocInv(s)'
    BY <1>1, <1>3, <2>3 DEF WordInv, LevelInv, LocInv, Looking, Landed, c
  <2>5. BoundsInv(s)'
    BY <1>1, <1>2, <2>3, BoundsKept DEF ThreadInv
  <2>6. PastInv(s)'
    BY <1>1, <1>3, <2>3 DEF ThreadInv, PastInv
  <2>7. RangeInv(s)'
    <3>1. level'[s] = 1
      BY <1>1, <2>3 DEF ThreadInv, LevelInv, Looking, Landed
    <3>2. A(0)' < cmp'[s]
      BY <1>3, <1>5, <1>6, <1>7, <1>11, <2>3
    <3>3. ASSUME NEW k \in Entries PROVE Left(s, k)'
      <4>1. k \in Nat /\ k < n_addrs /\ 0 * PerPage = 0
        BY <1>7, ConstantTypes DEF Entries
      <4> DEFINE w == n_scan_map * PerPage
      <4>2. k < w /\ 0 * PerPage <= k
        <5>1. w \in Int /\ n_addrs <= w
          BY <2>1, ConstantTypes
        <5> HIDE DEF w
        <5> QED BY <5>1, <4>1, <1>7
      <4> QED BY <2>3, <3>1, <4>2 DEF Left
    <3> QED BY <1>3, <2>1, <2>3, <3>1, <3>2, <3>3 DEF RangeInv
  <2> QED BY <2>2, <2>4, <2>5, <2>6, <2>7 DEF ThreadInv
<1> QED BY <1>9, <1>10, <1>11 DEF word, c

-----------------------------------------------------------------------------
(* The searches.                                                            *)

\* The index in the list of the entry that an index of the array stands for.
At(s, p) == IF level[s] = 1 THEN p * PerPage ELSE p
Length(s) == IF level[s] = 1 THEN n_scan_map ELSE n_addrs

LEMMA LookingFacts ==
  ASSUME IInv, NEW s \in Searchers, pc[s] \in Looking
  PROVE  /\ cmp[s] \in Nat /\ cmp[s] % 4 = 0 /\ cmp[s] # 0
         /\ min[s] \in Nat /\ max[s] \in Nat /\ max[s] <= Length(s)
         /\ Length(s) \in Nat /\ level[s] \in {1, 2}
         /\ A(0) < cmp[s] /\ A(0) \in Nat /\ A(0) % 4 = 0
<1>1. TypeOK /\ ThreadInv(s)
  BY DEF IInv
<1>2. i[s] \in 1..Len(mem[s]) /\ cmp[s] = PTR_MASK(mem[s][i[s]])
  BY <1>1, ConstantTypes DEF TypeOK, ThreadInv, WordInv
<1>3. mem[s][i[s]] \in Nat
  BY <1>1, <1>2, ConstantTypes DEF TypeOK
<1>4. cmp[s] \in Nat /\ cmp[s] % 4 = 0
  BY <1>2, <1>3, Masked
<1>5. A(0) < cmp[s] /\ max[s] <= Length(s)
  BY <1>1 DEF ThreadInv, RangeInv, Length
<1>6. A(0) \in Nat /\ A(0) % 4 = 0 /\ n_scan_map \in Nat /\ n_addrs \in Nat
  BY ListFacts, EntryFacts
<1> QED BY <1>1, <1>4, <1>5, <1>6 DEF TypeOK, Length

(***************************************************************************)
(* What a comparison tells, in the scan map and in the list itself, where  *)
(* the entry that is compared may be marked at any time.                   *)
(***************************************************************************)
LEMMA Compared ==
  ASSUME IInv, NEW s \in Searchers, pc[s] \in Looking,
         NEW p \in Int, 0 <= p, p < Length(s)
  PROVE  /\ Array(s)[p] \in Nat /\ p \in DOMAIN Array(s) /\ At(s, p) \in Entries
         /\ p = 0 => Array(s)[p] < cmp[s]
         /\ \A k \in Entries : A(k) = cmp[s] =>
               /\ Array(s)[p] = cmp[s] => k = At(s, p)
               /\ Array(s)[p] > cmp[s] => k < At(s, p) \/ Odd(k)
               /\ Array(s)[p] < cmp[s] => At(s, p) < k
<1>1. /\ cmp[s] \in Nat /\ cmp[s] % 4 = 0 /\ cmp[s] # 0 /\ level[s] \in {1, 2}
      /\ A(0) < cmp[s] /\ A(0) \in Nat /\ A(0) % 4 = 0
  BY LookingFacts
<1>2. CASE level[s] = 1
  <2> DEFINE j == p * PerPage
  <2>1. j \in Entries /\ Array(s)[p] = A(j) /\ p \in DOMAIN Array(s) /\ At(s, p) = j
    <3>1. p < n_scan_map
      BY <1>2 DEF Length
    <3>2. p \in 0..n_scan_map-1 /\ DOMAIN buf_scan_map = 0..n_scan_map-1
      <4>1. n_scan_map \in Nat
        BY ListFacts
      <4> QED BY <3>1, <4>1 DEF IInv, TypeOK
    <3> QED BY <1>2, <3>1, <3>2, MapFacts DEF At, Array
  <2>2. p = 0 => j = 0
    BY ConstantTypes
  <2> HIDE DEF j
  <2>3. A(j) \in Nat /\ (p = 0 => A(j) < cmp[s])
    BY <1>1, <2>1, <2>2, EntryFacts
  <2>4. ASSUME NEW k \in Entries, A(k) = cmp[s]
        PROVE  /\ A(j) = cmp[s] => k = j
               /\ A(j) > cmp[s] => k < j
               /\ A(j) < cmp[s] => j < k
    BY <1>1, <2>1, <2>3, <2>4, Sorted
  <2> QED BY <2>1, <2>3, <2>4
<1>3. CASE level[s] = 2
  <2>1. p \in Entries /\ Array(s)[p] = buf_addrs[p] /\ p \in DOMAIN Array(s)
        /\ At(s, p) = p
    BY <1>3, ListFacts DEF Length, Entries, At, Array, IInv, TypeOK
  <2>2. /\ A(p) \in Nat /\ A(p) % 4 = 0 /\ buf_addrs[p] \in Nat /\ p \in Nat
        /\ buf_addrs[p] = IF Odd(p) THEN A(p) + 1 ELSE A(p)
    BY <2>1, EntryFacts
  <2>3. p = 0 => buf_addrs[p] < cmp[s]
    BY <1>1, <2>2
  <2>4. ASSUME NEW k \in Entries, A(k) = cmp[s]
        PROVE  /\ buf_addrs[p] = cmp[s] => k = p
               /\ buf_addrs[p] > cmp[s] => k < p \/ Odd(k)
               /\ buf_addrs[p] < cmp[s] => p < k
    <3>1. /\ A(p) = cmp[s] => k = p
          /\ A(p) < cmp[s] => p < k
          /\ cmp[s] < A(p) => k < p
      BY <1>1, <2>1, <2>2, <2>4, Sorted
    <3>2. CASE Odd(p)
      BY <1>1, <2>2, <3>1, <3>2
    <3>3. CASE ~Odd(p)
      BY <1>1, <2>2, <3>1, <3>3
    <3> QED BY <3>2, <3>3
  <2> QED BY <2>1, <2>2, <2>3, <2>4
<1> QED BY <1>1, <1>2, <1>3

\* A turn of a loop that narrows the range, or goes on to the other loop.
LEMMA NarrowInv ==
  ASSUME IInv, NEW s \in Searchers, pc[s] \in Looking,
         UNCHANGED <<list, buf_addrs, locals, v, loc, level>>,
         pc' = [pc EXCEPT ![s] = pc'[s]],
         min' \in [Searchers -> Nat], max' \in [Searchers -> Nat],
         pc'[s] \in Looking, max'[s] <= max[s],
         IF pc'[s] = "binary" THEN min'[s] < max'[s]
         ELSE min'[s] <= max'[s] /\ 0 < max'[s],
         \A k \in Entries : A(k) = cmp[s] => Odd(k) \/ Left(s, k)'
  PROVE  ThreadInv(s)' /\ TypeOK'
<1>1. ListStep
  BY UnchangedListStep
<1>2. TypeOK /\ ThreadInv(s)
  BY DEF IInv
<1>3. /\ Entries' = Entries /\ n_addrs' = n_addrs /\ n_scan_map' = n_scan_map
      /\ \A k \in Entries : A(k)' = A(k) /\ Odd(k)' = Odd(k)
  BY <1>1, ListInvStep DEF ListStep, list, A, Odd
<1>4. level'[s] = level[s] /\ cmp'[s] = cmp[s]
  BY DEF locals
<1>5. TypeOK'
  BY <1>2, <1>3 DEF TypeOK, list, locals, Looking
<1>6. BoundsInv(s)'
  BY <1>1, <1>2, BoundsKept DEF ThreadInv, locals, Looking
<1>7. PastInv(s)' /\ WordInv(s)'
  BY <1>2, <1>3 DEF ThreadInv, PastInv, WordInv, list, locals
<1>8. LevelInv(s)' /\ LocInv(s)'
  BY <1>4 DEF LevelInv, LocInv, Looking, Landed
<1>9. RangeInv(s)'
  <2>1. A(0)' < cmp'[s]
    BY <1>3, <1>4, ListFacts, LookingFacts
  <2>2. max'[s] <= Length(s) /\ Length(s)' = Length(s)
    BY <1>3, <1>4, LookingFacts DEF Length
  <2> QED BY <1>3, <1>4, <2>1, <2>2 DEF RangeInv, Length
<1> QED BY <1>5, <1>6, <1>7, <1>8, <1>9 DEF ThreadInv

LEMMA BinarySearchStep ==
  ASSUME IInv, NEW s \in Searchers, binary_search(s)
  PROVE  TypeOK' /\ ThreadInv(s)'
<1> DEFINE mid == (max[s] + min[s]) \div 2
<1>1. /\ pc[s] = "binary" /\ pc[s] \in Looking
      /\ max[s] - min[s] >= BINARY_THRESHOLD
      /\ UNCHANGED <<list, buf_addrs, locals, v>>
  BY DEF binary_search, Looking
<1>2. /\ min[s] \in Nat /\ max[s] \in Nat /\ max[s] <= Length(s) /\ Length(s) \in Nat
      /\ level[s] \in {1, 2}
  BY <1>1, LookingFacts
<1>3. mid \in Nat /\ min[s] < mid /\ mid < max[s]
  BY <1>1, <1>2, ConstantTypes
<1>4. TypeOK /\ \A k \in Entries : A(k) = cmp[s] => Odd(k) \/ Left(s, k)
  BY <1>1 DEF IInv, ThreadInv, RangeInv
<1>5. /\ Array(s)[mid] \in Nat /\ At(s, mid) \in Entries
      /\ \A k \in Entries : A(k) = cmp[s] =>
               /\ Array(s)[mid] = cmp[s] => k = At(s, mid)
               /\ Array(s)[mid] > cmp[s] => k < At(s, mid) \/ Odd(k)
               /\ Array(s)[mid] < cmp[s] => At(s, mid) < k
  <2>1. mid \in Int /\ 0 <= mid /\ mid < Length(s)
    BY <1>2, <1>3
  <2> HIDE DEF mid
  <2> QED BY <2>1, <1>1, Compared
<1> HIDE DEF mid
<1>6. CASE Array(s)[mid] = cmp[s] /\ Found(s, mid)
  <2>1. Covers(s, mid)
    <3>1. CASE level[s] = 1
      <4>1. mid < n_scan_map /\ At(s, mid) = mid * PerPage
        BY <3>1, <1>2, <1>3 DEF Length, At
      <4>2. mid * PerPage < (mid + 1) * PerPage /\ mid * PerPage <= mid * PerPage
        BY <1>3, ConstantTypes
      <4> QED BY <3>1, <1>3, <1>5, <1>6, <4>1, <4>2 DEF Covers
    <3>2. CASE level[s] = 2
      BY <3>2, <1>5, <1>6 DEF Covers, At
    <3> QED BY <1>2, <3>1, <3>2
  <2> QED BY <1>1, <1>3, <1>6, <2>1, FoundInv
<1>7. CASE /\ Array(s)[mid] > cmp[s] /\ max' = [max EXCEPT ![s] = mid]
           /\ UNCHANGED <<pc, level, min, loc>>
  <2>1. pc' = [pc EXCEPT ![s] = "binary"] /\ min' = [min EXCEPT ![s] = min[s]]
    BY <1>1, <1>4, <1>7 DEF TypeOK
  <2>2. /\ pc'[s] = "binary" /\ min'[s] = min[s] /\ max'[s] = mid
        /\ level'[s] = level[s]
    BY <1>1, <1>4, <1>7 DEF TypeOK
  <2>3. ASSUME NEW k \in Entries, A(k) = cmp[s], ~Odd(k) PROVE Left(s, k)'
    <3>1. Left(s, k) /\ k < At(s, mid)
      BY <1>4, <1>5, <1>7, <2>3
    <3> QED BY <3>1, <2>2, <1>1, <1>2 DEF Left, At
  <2>4. /\ pc' = [pc EXCEPT ![s] = pc'[s]] /\ pc'[s] \in Looking
        /\ min' \in [Searchers -> Nat] /\ max' \in [Searchers -> Nat]
        /\ max'[s] <= max[s] /\ min'[s] < max'[s]
    <3>1. pc' = [pc EXCEPT ![s] = pc'[s]] /\ pc'[s] \in Looking
      BY <2>1, <2>2 DEF Looking
    <3>2. min' \in [Searchers -> Nat] /\ max' \in [Searchers -> Nat]
      BY <1>3, <1>4, <1>7 DEF TypeOK
    <3>3. max'[s] <= max[s] /\ min'[s] < max'[s]
      BY <1>2, <1>3, <2>2
    <3> QED BY <3>1, <3>2, <3>3
  <2>5. UNCHANGED <<list, buf_addrs, locals, v, loc, level>>
    BY <1>1, <1>7
  <2> QED BY <1>1, <2>2, <2>3, <2>4, <2>5, NarrowInv
<1>8. CASE /\ Array(s)[mid] < cmp[s] /\ min' = [min EXCEPT ![s] = mid]
           /\ UNCHANGED <<pc, level, max, loc>>
  <2>1. pc' = [pc EXCEPT ![s] = "binary"] /\ max' = [max EXCEPT ![s] = max[s]]
    BY <1>1, <1>4, <1>8 DEF TypeOK
  <2>2. /\ pc'[s] = "binary" /\ min'[s] = mid /\ max'[s] = max[s]
        /\ level'[s] = level[s]
    BY <1>1, <1>4, <1>8 DEF TypeOK
  <2>3. ASSUME NEW k \in Entries, A(k) = cmp[s], ~Odd(k) PROVE Left(s, k)'
    <3>1. Left(s, k) /\ At(s, mid) < k
      BY <1>4, <1>5, <1>8, <2>3
    <3>2. At(s, mid) <= k
      BY <3>1, <1>5, EntryFacts
    <3> QED BY <3>1, <3>2, <2>2, <1>1, <1>2 DEF Left, At
  <2>4. /\ pc' = [pc EXCEPT ![s] = pc'[s]] /\ pc'[s] \in Looking
        /\ min' \in [Searchers -> Nat] /\ max' \in [Searchers -> Nat]
        /\ max'[s] <= max[s] /\ min'[s] < max'[s]
    <3>1. pc' = [pc EXCEPT ![s] = pc'[s]] /\ pc'[s] \in Looking
      BY <2>1, <2>2 DEF Looking
    <3>2. min' \in [Searchers -> Nat] /\ max' \in [Searchers -> Nat]
      BY <1>3, <1>4, <1>8 DEF TypeOK
    <3>3. max'[s] <= max[s] /\ min'[s] < max'[s]
      BY <1>2, <1>3, <2>2
    <3> QED BY <3>1, <3>2, <3>3
  <2>5. UNCHANGED <<list, buf_addrs, locals, v, loc, level>>
    BY <1>1, <1>8
  <2> QED BY <1>1, <2>2, <2>3, <2>4, <2>5, NarrowInv
<1> QED BY <1>6, <1>7, <1>8 DEF binary_search, Below, mid

LEMMA IterativeSearchStep ==
  ASSUME IInv, NEW s \in Searchers, iterative_search(s)
  PROVE  TypeOK' /\ ThreadInv(s)'
<1> DEFINE lo == min[s]
<1>1. /\ pc[s] = "binary" /\ pc[s] \in Looking
      /\ UNCHANGED <<list, buf_addrs, locals, v>>
  BY DEF iterative_search, Looking
<1>2. /\ lo \in Nat /\ max[s] \in Nat /\ max[s] <= Length(s) /\ Length(s) \in Nat
      /\ level[s] \in {1, 2}
  BY <1>1, LookingFacts
<1>3. TypeOK /\ lo < max[s] /\ \A k \in Entries : A(k) = cmp[s] => Odd(k) \/ Left(s, k)
  BY <1>1 DEF IInv, ThreadInv, RangeInv
<1>4. /\ At(s, lo) \in Entries
      /\ \A k \in Entries : A(k) = cmp[s] =>
               (Array(s)[lo] > cmp[s] => k < At(s, lo) \/ Odd(k))
  <2>1. lo \in Int /\ 0 <= lo /\ lo < Length(s)
    BY <1>2, <1>3
  <2> QED BY <2>1, <1>1, Compared
<1>5. CASE Array(s)[lo] > cmp[s] /\ Found(s, lo)
  <2>1. ASSUME NEW k \in Entries, A(k) = cmp[s] PROVE Odd(k)
    <3>1. Odd(k) \/ (Left(s, k) /\ k < At(s, lo))
      BY <1>3, <1>4, <1>5, <2>1
    <3>2. ~(Left(s, k) /\ k < At(s, lo))
      <4>1. At(s, lo) \in Nat /\ k \in Nat
        BY <1>4, EntryFacts
      <4>2. Left(s, k) => At(s, lo) <= k
        BY <1>1, <1>2 DEF Left, At
      <4> QED BY <4>1, <4>2
    <3> QED BY <3>1, <3>2
  <2>2. Covers(s, lo)
    BY <1>2, <1>3, <1>4, <2>1 DEF Covers, At, Length
  <2> QED BY <1>1, <1>2, <1>5, <2>2, FoundInv
<1>6. CASE Goto(s, "iterate") /\ UNCHANGED <<search, loc>>
  <2>1. /\ pc' = [pc EXCEPT ![s] = "iterate"] /\ max' = [max EXCEPT ![s] = max[s]]
        /\ min' = [min EXCEPT ![s] = lo] /\ UNCHANGED <<level, loc>>
    BY <1>3, <1>6 DEF TypeOK, Goto, search
  <2>2. /\ pc'[s] = "iterate" /\ min'[s] = lo /\ max'[s] = max[s]
        /\ level'[s] = level[s]
    BY <1>3, <2>1 DEF TypeOK
  <2>3. ASSUME NEW k \in Entries, Left(s, k) PROVE Left(s, k)'
    <3>1. CASE level[s] = 2
      BY <2>2, <2>3, <3>1 DEF Left
    <3>2. CASE level[s] = 1
      <4> DEFINE a == lo * PerPage
                 b == (lo - 1) * PerPage
      <4>1. b <= a /\ a \in Int /\ b \in Int /\ k \in Int
        BY <1>2, TimesMonotone, EntryFacts
      <4>2. a <= k /\ k < max[s] * PerPage
        BY <1>1, <2>3, <3>2 DEF Left
      <4>3. b <= k
        <5> HIDE DEF a, b
        <5> QED BY <4>1, <4>2
      <4> QED BY <2>2, <3>2, <4>2, <4>3 DEF Left
    <3> QED BY <1>2, <3>1, <3>2
  <2>4. /\ pc' = [pc EXCEPT ![s] = pc'[s]] /\ pc'[s] \in Looking
        /\ min' \in [Searchers -> Nat] /\ max' \in [Searchers -> Nat]
        /\ max'[s] <= max[s] /\ min'[s] <= max'[s] /\ 0 < max'[s]
    BY <1>2, <1>3, <2>1, <2>2 DEF TypeOK, Looking
  <2>5. UNCHANGED <<list, buf_addrs, locals, v, loc, level>>
    BY <1>1, <2>1
  <2> QED BY <1>1, <1>3, <2>2, <2>3, <2>4, <2>5, NarrowInv
<1> QED BY <1>2, <1>3, <1>5, <1>6 DEF iterative_search

LEMMA IterateStep ==
  ASSUME IInv, NEW s \in Searchers, iterate(s)
  PROVE  TypeOK' /\ ThreadInv(s)'
<1> DEFINE lo == min[s]
<1>1. /\ pc[s] = "iterate" /\ pc[s] \in Looking
      /\ UNCHANGED <<list, buf_addrs, locals, v>>
  BY DEF iterate, Looking
<1>2. /\ lo \in Nat /\ max[s] \in Nat /\ max[s] <= Length(s) /\ Length(s) \in Nat
      /\ level[s] \in {1, 2} /\ cmp[s] \in Nat
  BY <1>1, LookingFacts
<1>3. /\ TypeOK /\ lo <= max[s] /\ 0 < max[s]
      /\ \A k \in Entries : A(k) = cmp[s] => Odd(k) \/ Left(s, k)
  BY <1>1 DEF IInv, ThreadInv, RangeInv
<1>4. ASSUME lo < max[s]
      PROVE  /\ Array(s)[lo] \in Nat /\ At(s, lo) \in Entries
             /\ lo = 0 => Array(s)[lo] < cmp[s]
             /\ \A k \in Entries : A(k) = cmp[s] =>
                  /\ Array(s)[lo] = cmp[s] => k = At(s, lo)
                  /\ Array(s)[lo] > cmp[s] => k < At(s, lo) \/ Odd(k)
                  /\ Array(s)[lo] < cmp[s] => At(s, lo) < k
  <2>1. lo \in Int /\ 0 <= lo /\ lo < Length(s)
    BY <1>2, <1>3, <1>4
  <2> QED BY <2>1, <1>1, Compared
<1> HIDE DEF lo
<1>5. CASE lo < max[s] /\ Array(s)[lo] = cmp[s] /\ Found(s, lo)
  <2>1. Covers(s, lo)
    <3>1. CASE level[s] = 1
      <4>1. lo < n_scan_map /\ 0 <= lo /\ At(s, lo) = lo * PerPage
        BY <3>1, <1>2, <1>3, <1>5 DEF Length, At
      <4>2. lo * PerPage < (lo + 1) * PerPage /\ lo * PerPage <= lo * PerPage
        BY <1>2, ConstantTypes
      <4> QED BY <3>1, <1>4, <1>5, <4>1, <4>2 DEF Covers
    <3>2. CASE level[s] = 2
      BY <3>2, <1>4, <1>5 DEF Covers, At
    <3> QED BY <1>2, <3>1, <3>2
  <2> QED BY <1>1, <1>2, <1>5, <2>1, FoundInv
\* The index before, in both ways of ending the loop without an equal entry.
<1>6. ASSUME 0 < lo, Found(s, lo - 1),
             \A k \in Entries : A(k) = cmp[s] => Odd(k) \/ (Left(s, k) /\ k < At(s, lo))
      PROVE  TypeOK' /\ ThreadInv(s)'
  <2>1. lo - 1 \in Nat /\ lo - 1 < Length(s) /\ (lo - 1) + 1 = lo
    BY <1>2, <1>3, <1>6
  <2>2. Covers(s, lo - 1)
    <3>1. CASE level[s] = 1
      <4>1. ASSUME NEW k \in Entries, A(k) = cmp[s], ~Odd(k)
            PROVE  (lo - 1) * PerPage <= k /\ k < ((lo - 1) + 1) * PerPage
        <5>1. Left(s, k) /\ k < At(s, lo)
          BY <1>6, <4>1
        <5>2. (lo - 1) * PerPage <= k /\ k < lo * PerPage
          BY <5>1, <1>1, <3>1 DEF Left, At, lo
        <5> QED BY <5>2, <2>1
      <4> QED BY <2>1, <3>1, <4>1 DEF Covers, Length
    <3>2. CASE level[s] = 2
      <4>1. lo - 1 \in Entries
        BY <2>1, <3>2, ListFacts DEF Length, Entries
      <4>2. ASSUME NEW k \in Entries, A(k) = cmp[s], ~Odd(k) PROVE FALSE
        <5>1. Left(s, k) /\ k < At(s, lo) /\ k \in Nat
          BY <1>6, <4>2, EntryFacts
        <5> QED BY <5>1, <3>2, <1>2 DEF Left, At, lo
      <4> QED BY <3>2, <4>1, <4>2 DEF Covers
    <3> QED BY <1>2, <3>1, <3>2
  <2> QED BY <1>1, <2>1, <2>2, <1>6, FoundInv
<1>7. CASE lo < max[s] /\ Array(s)[lo] > cmp[s] /\ Found(s, lo - 1)
  <2>1. 0 < lo
    BY <1>2, <1>4, <1>7
  <2>2. \A k \in Entries : A(k) = cmp[s] => Odd(k) \/ (Left(s, k) /\ k < At(s, lo))
    BY <1>3, <1>4, <1>7
  <2> QED BY <1>6, <1>7, <2>1, <2>2
<1>8. CASE lo >= max[s] /\ Found(s, lo - 1)
  <2>1. 0 < lo /\ lo = max[s]
    BY <1>2, <1>3, <1>8
  <2>2. \A k \in Entries : Left(s, k) => k < At(s, lo)
    BY <1>2, <2>1 DEF Left, At
  <2> QED BY <1>3, <1>6, <1>8, <2>1, <2>2
<1>9. CASE /\ lo < max[s] /\ Array(s)[lo] < cmp[s]
           /\ min' = [min EXCEPT ![s] = @ + 1]
           /\ UNCHANGED <<pc, level, max, loc>>
  <2>1. pc' = [pc EXCEPT ![s] = pc'[s]] /\ pc'[s] = "iterate"
    BY <1>1, <1>3, <1>9 DEF TypeOK
  <2>2. /\ min'[s] = lo + 1 /\ max'[s] = max[s] /\ level'[s] = level[s]
        /\ min' \in [Searchers -> Nat] /\ max' \in [Searchers -> Nat]
    BY <1>3, <1>9 DEF TypeOK, lo
  <2>3. ASSUME NEW k \in Entries, A(k) = cmp[s], ~Odd(k) PROVE Left(s, k)'
    <3>1. Left(s, k) /\ At(s, lo) < k /\ k \in Nat
      BY <1>3, <1>4, <1>9, <2>3, EntryFacts
    <3>2. CASE level[s] = 1
      <4> DEFINE a == lo * PerPage
      <4>1. At(s, lo) = a /\ a \in Int /\ k < max[s] * PerPage
        BY <3>1, <3>2, <1>2, ConstantTypes DEF At, Left
      <4>2. a <= k
        <5> HIDE DEF a
        <5> QED BY <3>1, <4>1
      <4>3. (lo + 1) - 1 = lo
        BY <1>2
      <4> QED BY <2>1, <2>2, <3>2, <4>1, <4>2, <4>3 DEF Left
    <3>3. CASE level[s] = 2
      BY <1>2, <2>1, <2>2, <3>1, <3>3 DEF Left, At
    <3> QED BY <1>2, <3>2, <3>3
  <2>4. max'[s] <= max[s] /\ min'[s] <= max'[s] /\ 0 < max'[s]
    BY <1>2, <1>3, <1>9, <2>2
  <2>5. UNCHANGED <<list, buf_addrs, locals, v, loc, level>> /\ pc'[s] \in Looking
    BY <1>1, <1>9, <2>1 DEF Looking
  <2> QED BY <1>1, <2>1, <2>2, <2>3, <2>4, <2>5, NarrowInv
<1> QED BY <1>5, <1>7, <1>8, <1>9 DEF iterate, lo

-----------------------------------------------------------------------------
(* The entry found is marked, or not.                                       *)

LEMMA LandedFacts ==
  ASSUME IInv, NEW s \in Searchers, pc[s] \in Landed
  PROVE  /\ loc[s] \in Entries /\ i[s] <= Len(mem[s])
         /\ cmp[s] = PTR_MASK(mem[s][i[s]]) /\ cmp[s] \in Nat /\ cmp[s] % 4 = 0
         /\ cmp[s] \in Words(s)
         /\ \A k \in Entries : A(k) = cmp[s] /\ cmp[s] # 0 => k = loc[s] \/ Odd(k)
<1>1. TypeOK /\ ThreadInv(s)
  BY DEF IInv
<1>2. i[s] \in 1..Len(mem[s]) /\ cmp[s] = PTR_MASK(mem[s][i[s]])
  BY <1>1, ConstantTypes DEF TypeOK, ThreadInv, WordInv
<1>3. mem[s][i[s]] \in Nat
  BY <1>1, <1>2, ConstantTypes DEF TypeOK
<1>4. cmp[s] \in Nat /\ cmp[s] % 4 = 0
  BY <1>2, <1>3, Masked
<1>5. cmp[s] \in Words(s)
  BY <1>2 DEF Words
<1>6. /\ loc[s] \in Entries
      /\ \A k \in Entries : A(k) = cmp[s] /\ cmp[s] # 0 => k = loc[s] \/ Odd(k)
  BY <1>1 DEF ThreadInv, LocInv
<1> QED BY <1>2, <1>4, <1>5, <1>6

\* From one of these points to the next, with the same entry in hand.
LEMMA LandedInv ==
  ASSUME IInv, NEW s \in Searchers, pc[s] \in Landed,
         UNCHANGED <<list, buf_addrs, locals, search, loc>>,
         pc'[s] \in {"bit", "store"}, A(loc[s]) = cmp[s],
         pc'[s] = "store" => v'[s] = cmp[s]
  PROVE  ThreadInv(s)'
<1>1. ListStep
  BY UnchangedListStep
<1>2. TypeOK /\ ThreadInv(s)
  BY DEF IInv
<1>3. /\ Entries' = Entries /\ A(loc[s])' = A(loc[s])
      /\ \A k \in Entries : A(k)' = A(k) /\ Odd(k)' = Odd(k)
  BY <1>1, ListInvStep DEF A, Odd
<1>4. BoundsInv(s)'
  BY <1>1, <1>2, BoundsKept DEF ThreadInv, locals, Landed
<1>5. PastInv(s)' /\ WordInv(s)'
  BY <1>2, <1>3 DEF ThreadInv, PastInv, WordInv, list, locals
<1>6. LevelInv(s)' /\ RangeInv(s)'
  BY DEF LevelInv, RangeInv, Looking, Landed
<1>7. LocInv(s)'
  BY <1>2, <1>3 DEF ThreadInv, LocInv, Landed, locals
<1> QED BY <1>4, <1>5, <1>6, <1>7 DEF ThreadInv

LEMMA CheckStep ==
  ASSUME IInv, NEW s \in Searchers, check(s)
  PROVE  TypeOK' /\ ThreadInv(s)'
<1>1. /\ pc[s] = "check" /\ pc[s] \in Landed /\ UNCHANGED <<list, buf_addrs>>
      /\ pc[s] \notin {"load_min", "load_max"} /\ TypeOK
  BY DEF check, Landed, IInv
<1>2. ListStep
  BY <1>1, UnchangedListStep
<1>3. /\ loc[s] \in Entries /\ cmp[s] = PTR_MASK(mem[s][i[s]])
      /\ cmp[s] \in Nat /\ cmp[s] % 4 = 0
      /\ \A k \in Entries : A(k) = cmp[s] /\ cmp[s] # 0 => k = loc[s] \/ Odd(k)
  BY <1>1, LandedFacts
<1>4. /\ A(loc[s]) \in Nat /\ A(loc[s]) % 4 = 0
      /\ buf_addrs[loc[s]] = IF Odd(loc[s]) THEN A(loc[s]) + 1 ELSE A(loc[s])
  BY <1>3, EntryFacts
<1>5. CASE /\ buf_addrs[loc[s]] = cmp[s] /\ Goto(s, "bit")
           /\ UNCHANGED <<locals, search, loc, v>>
  <2>1. A(loc[s]) = cmp[s]
    BY <1>3, <1>4, <1>5
  <2>2. pc'[s] = "bit"
    BY <1>1, <1>5 DEF TypeOK, Goto
  <2>3. TypeOK'
    BY <1>1, <1>5 DEF TypeOK, Goto, Entries, n_scan_map, list, locals, search
  <2> QED BY <1>1, <1>5, <2>1, <2>2, <2>3, LandedInv
<1>6. CASE buf_addrs[loc[s]] # cmp[s] /\ NextWord(s)
  <2>1. ASSUME NEW k \in Entries, A(k) = cmp[s], A(k) # 0 PROVE Odd(k)'
    <3>1. Odd(k)
      BY <1>3, <1>4, <1>6, <2>1
    <3> QED BY <3>1, <1>2 DEF ListStep
  <2>2. ThreadInv(s)'
    BY <1>1, <1>2, <1>3, <1>6, <2>1, NextWordInv
  <2> QED BY <1>2, <1>6, <2>2, NextWordTypes
<1> QED BY <1>5, <1>6 DEF check

LEMMA SetLowBitStep ==
  ASSUME IInv, NEW s \in Searchers, SET_LOW_BIT(s)
  PROVE  TypeOK' /\ ThreadInv(s)'
<1>1. /\ pc[s] = "bit" /\ pc[s] \in Landed /\ UNCHANGED <<list, buf_addrs>>
      /\ pc[s] \notin {"load_min", "load_max"} /\ TypeOK
  BY DEF SET_LOW_BIT, Landed, IInv
<1>2. ListStep
  BY <1>1, UnchangedListStep
<1>3. /\ loc[s] \in Entries /\ cmp[s] = PTR_MASK(mem[s][i[s]])
      /\ \A k \in Entries : A(k) = cmp[s] /\ cmp[s] # 0 => k = loc[s] \/ Odd(k)
  BY <1>1, LandedFacts
<1>4. A(loc[s]) = cmp[s]
  BY <1>1 DEF IInv, ThreadInv, LocInv
<1>5. /\ A(loc[s]) \in Nat /\ buf_addrs[loc[s]] \in Nat
      /\ buf_addrs[loc[s]] = IF Odd(loc[s]) THEN A(loc[s]) + 1 ELSE A(loc[s])
  BY <1>3, EntryFacts
<1>6. CASE /\ buf_addrs[loc[s]] % 2 = 0 /\ v' = [v EXCEPT ![s] = buf_addrs[loc[s]]]
           /\ Goto(s, "store") /\ UNCHANGED <<locals, search, loc>>
  <2>1. ~Odd(loc[s])
    BY <1>6 DEF Odd
  <2>2. pc'[s] = "store" /\ v'[s] = cmp[s]
    BY <1>1, <1>4, <1>5, <1>6, <2>1 DEF TypeOK, Goto
  <2>3. TypeOK'
    BY <1>1, <1>5, <1>6 DEF TypeOK, Goto, Entries, n_scan_map, list, locals, search
  <2> QED BY <1>1, <1>4, <1>6, <2>2, <2>3, LandedInv
<1>7. CASE buf_addrs[loc[s]] % 2 # 0 /\ NextWord(s)
  <2>1. Odd(loc[s])
    BY <1>5, <1>7 DEF Odd
  <2>2. ASSUME NEW k \in Entries, A(k) = cmp[s], A(k) # 0 PROVE Odd(k)'
    <3>1. Odd(k)
      BY <1>3, <2>1, <2>2
    <3> QED BY <3>1, <1>2 DEF ListStep
  <2>3. ThreadInv(s)'
    BY <1>1, <1>2, <1>3, <1>7, <2>2, NextWordInv
  <2> QED BY <1>2, <1>7, <2>3, NextWordTypes
<1> QED BY <1>6, <1>7 DEF SET_LOW_BIT

LEMMA StoreStep ==
  ASSUME IInv, NEW s \in Searchers, SET_LOW_BIT_store(s)
  PROVE  TypeOK' /\ ThreadInv(s)'
<1>1. /\ pc[s] = "store" /\ pc[s] \in Landed /\ NextWord(s)
      /\ pc[s] \notin {"load_min", "load_max"}
  BY DEF SET_LOW_BIT_store, Landed
<1>2. ListStep /\ buf_addrs'[loc[s]] % 2 = 1
  BY StoreListStep
<1>3. /\ cmp[s] = PTR_MASK(mem[s][i[s]])
      /\ \A k \in Entries : A(k) = cmp[s] /\ cmp[s] # 0 => k = loc[s] \/ Odd(k)
  BY <1>1, LandedFacts
<1>4. ASSUME NEW k \in Entries, A(k) = cmp[s], A(k) # 0 PROVE Odd(k)'
  BY <1>2, <1>3, <1>4 DEF ListStep, Odd
<1>5. ThreadInv(s)'
  BY <1>1, <1>2, <1>3, <1>4, NextWordInv
<1> QED BY <1>1, <1>2, <1>5, NextWordTypes

\* What is marked has been found.
LEMMA OnlyFoundStep ==
  ASSUME IInv, NEW s \in Searchers, Step(s), ListStep
  PROVE  OnlyFound'
<1>1. /\ Entries' = Entries /\ n_addrs' = n_addrs /\ mem' = mem
      /\ \A u \in Searchers : Words(u)' = Words(u)
  BY ListInvStep DEF ListStep, list, Words
<1>2. ASSUME NEW k \in Entries
      PROVE  /\ buf_addrs'[k] % 4 \in {0, 1} /\ A(k)' = A(k)
             /\ buf_addrs'[k] % 4 = 1 =>
                   /\ \E u \in Searchers : A(k) \in Words(u)
                   /\ A(k) = 0 => k = 0
  <2>1. buf_addrs'[k] % 4 \in {0, 1} /\ A(k)' = A(k)
    BY DEF ListStep
  <2>2. CASE buf_addrs'[k] = buf_addrs[k]
    BY <2>1, <2>2 DEF IInv, OnlyFound, A
  <2>3. CASE buf_addrs'[k] # buf_addrs[k]
    <3>1. SET_LOW_BIT_store(s)
      BY <2>3 DEF Step, load_min, load_max, word, return, binary_search,
                  iterative_search, iterate, check, SET_LOW_BIT
    <3>2. pc[s] = "store" /\ pc[s] \in Landed
      BY <3>1 DEF SET_LOW_BIT_store, Landed
    <3>3. k = loc[s]
      BY <2>3, <3>1 DEF SET_LOW_BIT_store, IInv, TypeOK
    <3>4. A(loc[s]) = cmp[s] /\ (cmp[s] = 0 => loc[s] = 0)
      BY <3>2 DEF IInv, ThreadInv, LocInv
    <3>5. cmp[s] \in Words(s)
      BY <3>2, LandedFacts
    <3> QED BY <2>1, <3>3, <3>4, <3>5
  <2> QED BY <2>1, <2>2, <2>3
<1> QED BY <1>1, <1>2 DEF OnlyFound, A

-----------------------------------------------------------------------------
(* The invariant.                                                           *)

\* A step of s changes nothing of the others.
LEMMA Frame ==
  ASSUME IInv, NEW s \in Searchers, Step(s), NEW u \in Searchers, u # s
  PROVE  Same(u)
<1> USE DEF IInv, TypeOK, Same, Goto, list, locals, search
<1>1. CASE load_min(s) \/ load_max(s) \/ return(s)
  BY <1>1 DEF load_min, load_max, return
<1>2. CASE word(s)
  BY <1>2 DEF word, NextWord
<1>3. CASE binary_search(s)
  BY <1>3 DEF binary_search, Found
<1>4. CASE iterative_search(s)
  BY <1>4 DEF iterative_search, Found
<1>5. CASE iterate(s)
  BY <1>5 DEF iterate, Found
<1>6. CASE check(s)
  BY <1>6 DEF check, NextWord
<1>7. CASE SET_LOW_BIT(s)
  BY <1>7 DEF SET_LOW_BIT, NextWord
<1>8. CASE SET_LOW_BIT_store(s)
  BY <1>8 DEF SET_LOW_BIT_store, NextWord
<1> QED BY <1>1, <1>2, <1>3, <1>4, <1>5, <1>6, <1>7, <1>8 DEF Step

LEMMA StepIInv ==
  ASSUME IInv, NEW s \in Searchers, Step(s)
  PROVE  IInv'
<1>1. ListStep
  <2>1. CASE SET_LOW_BIT_store(s)
    BY <2>1, StoreListStep
  <2>2. CASE ~SET_LOW_BIT_store(s)
    <3>1. UNCHANGED list /\ UNCHANGED buf_addrs
      BY <2>2 DEF Step, load_min, load_max, word, return, binary_search,
                  iterative_search, iterate, check, SET_LOW_BIT
    <3> QED BY <3>1, UnchangedListStep
  <2> QED BY <2>1, <2>2
<1>2. TypeOK' /\ ThreadInv(s)'
  BY LoadStep, WordStep, BinarySearchStep, IterativeSearchStep, IterateStep,
     CheckStep, SetLowBitStep, StoreStep DEF Step
<1>3. ASSUME NEW u \in Searchers PROVE ThreadInv(u)'
  BY <1>1, <1>2, Frame, OtherThread
<1>4. ListInv' /\ OnlyFound'
  BY <1>1, ListInvStep, OnlyFoundStep
<1> QED BY <1>2, <1>3, <1>4 DEF IInv

LEMMA InitIInv == Init => IInv
<1> SUFFICES ASSUME Init PROVE IInv
  OBVIOUS
<1>1. PICK l \in Lists : /\ n_addrs = Len(l)
                         /\ buf_addrs = [k \in 0..Len(l)-1 |-> l[k+1]]
  BY DEF Init
<1>2. /\ l \in Seq(Nat) /\ l # <<>> /\ \A j \in 1..Len(l) : l[j] % 4 = 0
      /\ \A j, k \in 1..Len(l) : j < k => l[j] < l[k] \/ l[j] = 0
  BY SearchAssumption DEF Searchable
<1>3. n_addrs \in Nat \ {0}
  BY <1>1, <1>2
<1>4. ASSUME NEW k \in Entries
      PROVE  /\ k \in Nat /\ k + 1 \in 1..Len(l) /\ buf_addrs[k] = l[k+1]
             /\ buf_addrs[k] \in Nat /\ buf_addrs[k] % 4 = 0 /\ A(k) = buf_addrs[k]
  <2>1. k \in Nat /\ k + 1 \in 1..Len(l) /\ buf_addrs[k] = l[k+1]
    BY <1>1, <1>3 DEF Entries
  <2>2. buf_addrs[k] \in Nat /\ buf_addrs[k] % 4 = 0
    BY <1>2, <2>1
  <2> QED BY <2>1, <2>2, MarkedEntry DEF A
<1>5. buf_addrs \in [Entries -> Nat]
  BY <1>1, <1>4 DEF Entries
<1>6. /\ n_scan_map \in Nat \ {0}
      /\ \A p \in Int : p < n_scan_map => p * PerPage < n_addrs
  <2>1. n_scan_map = (n_addrs + PerPage - 1) \div PerPage
    BY DEF n_scan_map
  <2> QED BY ONLY <1>3, <2>1, PagesCover
<1>7. ASSUME NEW p \in 0..n_scan_map-1
      PROVE  buf_scan_map[p] = buf_addrs[p * PerPage] /\ p * PerPage \in Entries
  <2>1. p \in Nat /\ p < n_scan_map
    BY <1>6
  <2>2. p * PerPage < n_addrs /\ p * PerPage \in Nat
    BY <1>6, <2>1, ConstantTypes
  <2>3. p * PerPage \in Entries
    BY <1>3, <2>2 DEF Entries
  <2>4. buf_scan_map = [q \in 0..n_scan_map-1 |-> buf_addrs[q * PerPage]]
    BY DEF Init, generate_scan_map, n_scan_map
  <2> QED BY <2>3, <2>4
<1>8. TypeOK
  <2>1. buf_scan_map \in [0..n_scan_map-1 -> Nat]
    <3>1. buf_scan_map = [q \in 0..n_scan_map-1 |-> buf_addrs[q * PerPage]]
      BY DEF Init, generate_scan_map, n_scan_map
    <3>2. \A q \in 0..n_scan_map-1 : buf_addrs[q * PerPage] \in Nat
      BY <1>5, <1>7
    <3> QED BY <3>1, <3>2
  <2> QED BY <1>3, <1>5, <2>1 DEF Init, TypeOK
<1>9. ListInv
  <2>1. ASSUME NEW j \in Entries, NEW k \in Entries, j < k
        PROVE  A(j) < A(k) \/ A(j) = 0
    <3>1. j + 1 \in 1..Len(l) /\ k + 1 \in 1..Len(l) /\ j + 1 < k + 1
      BY <1>4, <2>1
    <3> QED BY <1>2, <1>4, <3>1
  <2> QED BY <1>4, <1>7, <2>1 DEF ListInv
<1>10. OnlyFound
  BY <1>4 DEF OnlyFound
<1>11. ASSUME NEW s \in Searchers PROVE ThreadInv(s)
  <2>1. pc[s] = "load_min" /\ i[s] = 1 /\ level[s] = 1
    BY DEF Init
  <2> QED BY <2>1 DEF ThreadInv, WordInv, LevelInv, BoundsInv, RangeInv, LocInv,
                      PastInv, Looking, Landed
<1> QED BY <1>8, <1>9, <1>10, <1>11 DEF IInv

LEMMA StutterIInv ==
  ASSUME IInv, UNCHANGED vars
  PROVE  IInv'
<1>1. ListStep
  BY UnchangedListStep DEF vars
<1>2. TypeOK' /\ OnlyFound'
  BY DEF IInv, TypeOK, OnlyFound, Entries, n_scan_map, Words,
         vars, list, locals, search
<1>3. ListInv'
  BY <1>1, ListInvStep
<1>4. ASSUME NEW u \in Searchers PROVE ThreadInv(u)'
  BY <1>1, OtherThread DEF Same, vars, locals, search
<1> QED BY <1>2, <1>3, <1>4 DEF IInv

LEMMA NextIInv == IInv /\ [Next]_vars => IInv'
BY StepIInv, StutterIInv DEF Next, AllDone

LEMMA Invariance == Spec => []IInv
BY InitIInv, NextIInv, PTL DEF Spec

-----------------------------------------------------------------------------
(* The properties of Search.                                                *)

\* The variables stay in their types, min and loc included.
THEOREM TypeCorrect == Spec => []TypeOK
BY Invariance, PTL DEF IInv

(***************************************************************************)
(* No read of do_search, binary_search or iterative_search and no store of *)
(* SET_LOW_BIT is outside the scan map and the list.                       *)
(***************************************************************************)
THEOREM SearchStaysInMapping == Spec => []InMapping
<1>1. IInv => InMapping
  <2> SUFFICES ASSUME IInv, NEW s \in Searchers
               PROVE  /\ pc[s] = "binary" =>
                            /\ min[s] \in DOMAIN Array(s)
                            /\ max[s] > min[s] /\ max[s] - 1 \in DOMAIN Array(s)
                      /\ pc[s] = "iterate" /\ min[s] < max[s] =>
                            min[s] \in DOMAIN Array(s)
                      /\ pc[s] \in {"check", "bit", "store"} => loc[s] \in Entries
    BY DEF InMapping
  <2>1. ASSUME pc[s] \in Looking, min[s] < max[s]
        PROVE  min[s] \in DOMAIN Array(s) /\ max[s] - 1 \in DOMAIN Array(s)
               /\ max[s] > min[s]
    <3>1. min[s] \in Nat /\ max[s] \in Nat /\ max[s] <= Length(s) /\ Length(s) \in Nat
      BY <2>1, LookingFacts
    <3>2. /\ min[s] \in Int /\ 0 <= min[s] /\ min[s] < Length(s)
          /\ max[s] - 1 \in Int /\ 0 <= max[s] - 1 /\ max[s] - 1 < Length(s)
      BY <2>1, <3>1
    <3> QED BY <2>1, <3>1, <3>2, Compared
  <2>2. pc[s] = "binary" => min[s] < max[s]
    BY DEF IInv, ThreadInv, RangeInv, Looking
  <2>3. pc[s] \in Landed => loc[s] \in Entries
    BY LandedFacts
  <2> QED BY <2>1, <2>2, <2>3 DEF Looking, Landed
<1> QED BY <1>1, Invariance, PTL

(***************************************************************************)
(* Low bits of the working list are set only in entries that some thread   *)
(* refers to, and never twice, however many threads set the same one.      *)
(***************************************************************************)
THEOREM OnlyFoundAreMarked == Spec => []OnlyFound
BY Invariance, PTL DEF IInv

(***************************************************************************)
(* A reference in a searched range is never missed: when the search has    *)
(* gone past the word, its entry is marked, although the other threads     *)
(* change the entries that the binary search compares.                     *)
(***************************************************************************)
THEOREM NoReferenceMissed == Spec => []NothingMissed
<1>1. IInv => NothingMissed
  BY DEF IInv, ThreadInv, PastInv, NothingMissed, Past, A, Odd
<1> QED BY <1>1, Invariance, PTL

-----------------------------------------------------------------------------
(* Every search ends: what its steps lower.                                 *)

\* The words still to look at, the present one included.
WordsLeft(s) == Len(mem[s]) + 1 - i[s]

\* The lines of do_search and the functions it calls, for one word, from the last up.
Phase(s) ==
    CASE pc[s] = "load_min" -> 10
      [] pc[s] = "load_max" -> 9
      [] pc[s] = "word" -> 8
      [] pc[s] = "binary" -> IF level[s] = 1 THEN 7 ELSE 5
      [] pc[s] = "iterate" -> IF level[s] = 1 THEN 6 ELSE 4
      [] pc[s] = "check" -> 3
      [] pc[s] = "bit" -> 2
      [] pc[s] = "store" -> 1
      [] pc[s] = "done" -> 0

\* The entries that a loop has still before it.
Width(s) == IF pc[s] \in Looking THEN max[s] - min[s] ELSE 0

\* These numbers, taken as the digits of one, are less after the step.
Lowered(s) ==
    \/ WordsLeft(s)' < WordsLeft(s)
    \/ WordsLeft(s)' = WordsLeft(s) /\ Phase(s)' < Phase(s)
    \/ WordsLeft(s)' = WordsLeft(s) /\ Phase(s)' = Phase(s) /\ Width(s)' < Width(s)
Unlowered(s) == UNCHANGED <<WordsLeft(s), Phase(s), Width(s)>>

IndexInv == \A s \in Searchers : i[s] <= Len(mem[s]) + 1
Bounded == \A s \in Searchers : WordsLeft(s) \in Nat /\ Phase(s) \in 0..10 /\ Width(s) \in Nat

LEMMA SearcherTypes ==
  ASSUME TypeOK, NEW s \in Searchers
  PROVE  /\ Len(mem[s]) \in Nat /\ i[s] \in Nat /\ level[s] \in {1, 2}
         /\ min[s] \in Nat /\ max[s] \in Nat
         /\ pc[s] \in {"load_min", "load_max", "word", "binary", "iterate",
                       "check", "bit", "store", "done"}
<1>1. mem[s] \in Seq(Nat)
  BY ConstantTypes DEF TypeOK
<1> QED BY <1>1 DEF TypeOK

\* The number of a line, by the line.
LEMMA PhaseIs ==
  ASSUME NEW s \in Searchers
  PROVE  /\ pc[s] = "load_min" => Phase(s) = 10
         /\ pc[s] = "load_max" => Phase(s) = 9
         /\ pc[s] = "word" => Phase(s) = 8
         /\ pc[s] = "binary" => Phase(s) = IF level[s] = 1 THEN 7 ELSE 5
         /\ pc[s] = "iterate" => Phase(s) = IF level[s] = 1 THEN 6 ELSE 4
         /\ pc[s] = "check" => Phase(s) = 3
         /\ pc[s] = "bit" => Phase(s) = 2
         /\ pc[s] = "store" => Phase(s) = 1
         /\ pc[s] = "done" => Phase(s) = 0
BY DEF Phase

LEMMA PhaseIsNext ==
  ASSUME NEW s \in Searchers
  PROVE  /\ pc'[s] = "load_max" => Phase(s)' = 9
         /\ pc'[s] = "word" => Phase(s)' = 8
         /\ pc'[s] = "binary" => Phase(s)' = IF level'[s] = 1 THEN 7 ELSE 5
         /\ pc'[s] = "iterate" => Phase(s)' = IF level'[s] = 1 THEN 6 ELSE 4
         /\ pc'[s] = "check" => Phase(s)' = 3
         /\ pc'[s] = "bit" => Phase(s)' = 2
         /\ pc'[s] = "store" => Phase(s)' = 1
         /\ pc'[s] = "done" => Phase(s)' = 0
BY DEF Phase

LEMMA NextWordLowers ==
  ASSUME TypeOK, NEW s \in Searchers, NextWord(s), UNCHANGED list
  PROVE  Lowered(s) /\ i'[s] = i[s] + 1
<1>1. mem' = mem /\ i'[s] = i[s] + 1
  BY DEF TypeOK, NextWord, list
<1> QED BY <1>1, SearcherTypes DEF Lowered, WordsLeft

\* The index of the word is the same and the line further down.
LEMMA PhaseLowers ==
  ASSUME NEW s \in Searchers, UNCHANGED list, UNCHANGED i, Phase(s)' < Phase(s)
  PROVE  Lowered(s)
BY DEF Lowered, WordsLeft, list

LEMMA WidthLowers ==
  ASSUME NEW s \in Searchers, UNCHANGED <<list, i, pc, level>>, pc[s] \in Looking,
         max'[s] - min'[s] < max[s] - min[s]
  PROVE  Lowered(s)
BY DEF Lowered, WordsLeft, Width, Phase, list

\* A search that returns goes on at the second level, or to the check.
LEMMA FoundLowers ==
  ASSUME TypeOK, NEW s \in Searchers, pc[s] \in Looking, NEW at, Found(s, at),
         UNCHANGED list, UNCHANGED i
  PROVE  Lowered(s)
<1>1. CASE level[s] = 1
  <2>1. pc'[s] = "binary" /\ level'[s] = 2
    BY <1>1 DEF Found, TypeOK, Goto
  <2> QED BY <1>1, <2>1, PhaseIs, PhaseIsNext, PhaseLowers DEF Looking
<1>2. CASE level[s] # 1
  <2>1. pc'[s] = "check"
    BY <1>2 DEF Found, TypeOK, Goto
  <2> QED BY <1>2, <2>1, PhaseIs, PhaseIsNext, PhaseLowers DEF Looking
<1> QED BY <1>1, <1>2

LEMMA Halved ==
  ASSUME NEW x \in Nat, NEW y \in Nat, y - x >= BINARY_THRESHOLD,
         NEW mid, mid = (y + x) \div 2
  PROVE  mid \in Nat /\ x < mid /\ mid < y
BY ConstantTypes

LEMMA StepLowers ==
  ASSUME IInv, NEW s \in Searchers, Step(s)
  PROVE  Lowered(s)
<1>0. TypeOK /\ ThreadInv(s)
  BY DEF IInv
<1>1. CASE load_min(s)
  <2>1. pc[s] = "load_min" /\ pc'[s] = "load_max" /\ UNCHANGED list /\ UNCHANGED i
    BY <1>0, <1>1 DEF load_min, Goto, TypeOK
  <2> QED BY <2>1, PhaseIs, PhaseIsNext, PhaseLowers
<1>2. CASE load_max(s)
  <2>1. pc[s] = "load_max" /\ pc'[s] = "word" /\ UNCHANGED list /\ UNCHANGED i
    BY <1>0, <1>2 DEF load_max, Goto, TypeOK
  <2> QED BY <2>1, PhaseIs, PhaseIsNext, PhaseLowers
<1>3. CASE word(s)
  <2>1. ASSUME NextWord(s) PROVE Lowered(s)
    BY <2>1, <1>0, <1>3, NextWordLowers DEF word
  <2>2. ASSUME UNCHANGED i, Goto(s, "bit") \/ (Goto(s, "binary") /\ UNCHANGED level)
        PROVE  Lowered(s)
    <3>1. /\ pc[s] = "word" /\ UNCHANGED list /\ level[s] \in {1, 2}
          /\ pc'[s] = "bit" \/ pc'[s] = "binary"
      BY <1>0, <1>3, <2>2, SearcherTypes DEF word, Goto, TypeOK
    <3>2. Phase(s) = 8 /\ Phase(s)' \in {2, 5, 7}
      BY <3>1, PhaseIs, PhaseIsNext
    <3> QED BY <2>2, <3>1, <3>2, PhaseLowers
  <2> QED BY <1>3, <2>1, <2>2 DEF word
<1>4. CASE return(s)
  <2>1. pc[s] = "word" /\ pc'[s] = "done" /\ UNCHANGED list /\ UNCHANGED i
    BY <1>0, <1>4 DEF return, Goto, TypeOK, locals
  <2> QED BY <2>1, PhaseIs, PhaseIsNext, PhaseLowers
<1>5. CASE binary_search(s)
  <2>0. PICK mid : mid = (max[s] + min[s]) \div 2
    OBVIOUS
  <2>1. mid \in Nat /\ min[s] < mid /\ mid < max[s] /\ min[s] \in Nat /\ max[s] \in Nat
    BY <1>0, <1>5, <2>0, Halved, SearcherTypes DEF binary_search
  <2>2. pc[s] \in Looking /\ UNCHANGED list /\ UNCHANGED i
    BY <1>5 DEF binary_search, Looking, locals
  <2>3. \/ Found(s, mid)
        \/ max' = [max EXCEPT ![s] = mid] /\ UNCHANGED <<pc, level, min>>
        \/ min' = [min EXCEPT ![s] = mid] /\ UNCHANGED <<pc, level, max>>
    BY <1>5, <2>0 DEF binary_search, Below
  <2>4. CASE Found(s, mid)
    BY <1>0, <2>2, <2>4, FoundLowers
  <2>5. CASE max' = [max EXCEPT ![s] = mid] /\ UNCHANGED <<pc, level, min>>
    <3>1. max'[s] = mid /\ min'[s] = min[s]
      BY <1>0, <2>5 DEF TypeOK
    <3> QED BY <3>1, <2>1, <2>2, <2>5, WidthLowers
  <2>6. CASE min' = [min EXCEPT ![s] = mid] /\ UNCHANGED <<pc, level, max>>
    <3>1. max'[s] = max[s] /\ min'[s] = mid
      BY <1>0, <2>6 DEF TypeOK
    <3> QED BY <3>1, <2>1, <2>2, <2>6, WidthLowers
  <2> QED BY <2>3, <2>4, <2>5, <2>6
<1>6. CASE iterative_search(s)
  <2>1. /\ pc[s] = "binary" /\ UNCHANGED list /\ UNCHANGED i
        /\ Found(s, min[s]) \/ (Goto(s, "iterate") /\ UNCHANGED level)
    BY <1>6 DEF iterative_search, locals, search
  <2>2. CASE Found(s, min[s])
    BY <1>0, <2>1, <2>2, FoundLowers DEF Looking
  <2>3. CASE Goto(s, "iterate") /\ UNCHANGED level
    <3>1. pc'[s] = "iterate"
      BY <1>0, <2>3 DEF Goto, TypeOK
    <3> QED BY <3>1, <2>1, <2>3, PhaseIs, PhaseIsNext, PhaseLowers
  <2> QED BY <2>1, <2>2, <2>3
<1>7. CASE iterate(s)
  <2>1. /\ pc[s] \in Looking /\ UNCHANGED list /\ UNCHANGED i
        /\ \/ \E at : Found(s, at)
           \/ min' = [min EXCEPT ![s] = @ + 1] /\ UNCHANGED <<pc, level, max>>
    BY <1>7 DEF iterate, locals, Looking
  <2>2. CASE \E at : Found(s, at)
    BY <1>0, <2>1, <2>2, FoundLowers
  <2>3. CASE min' = [min EXCEPT ![s] = @ + 1] /\ UNCHANGED <<pc, level, max>>
    <3>1. max'[s] = max[s] /\ min'[s] = min[s] + 1 /\ min[s] \in Nat /\ max[s] \in Nat
      BY <1>0, <2>3 DEF TypeOK
    <3> QED BY <3>1, <2>1, <2>3, WidthLowers
  <2> QED BY <2>1, <2>2, <2>3
<1>8. CASE check(s)
  <2>1. pc[s] = "check" /\ UNCHANGED list
    BY <1>8 DEF check
  <2>2. CASE NextWord(s)
    BY <1>0, <2>1, <2>2, NextWordLowers
  <2>3. CASE Goto(s, "bit") /\ UNCHANGED i
    <3>1. pc'[s] = "bit"
      BY <1>0, <2>3 DEF Goto, TypeOK
    <3> QED BY <3>1, <2>1, <2>3, PhaseIs, PhaseIsNext, PhaseLowers
  <2> QED BY <1>8, <2>2, <2>3 DEF check, locals
<1>9. CASE SET_LOW_BIT(s)
  <2>1. pc[s] = "bit" /\ UNCHANGED list
    BY <1>9 DEF SET_LOW_BIT
  <2>2. CASE NextWord(s)
    BY <1>0, <2>1, <2>2, NextWordLowers
  <2>3. CASE Goto(s, "store") /\ UNCHANGED i
    <3>1. pc'[s] = "store"
      BY <1>0, <2>3 DEF Goto, TypeOK
    <3> QED BY <3>1, <2>1, <2>3, PhaseIs, PhaseIsNext, PhaseLowers
  <2> QED BY <1>9, <2>2, <2>3 DEF SET_LOW_BIT, locals
<1>10. CASE SET_LOW_BIT_store(s)
  BY <1>0, <1>10, NextWordLowers DEF SET_LOW_BIT_store
<1> QED BY <1>1, <1>2, <1>3, <1>4, <1>5, <1>6, <1>7, <1>8, <1>9, <1>10 DEF Step

\* The steps of the others leave these numbers alone.
LEMMA OthersLeave ==
  ASSUME UNCHANGED list, NEW s \in Searchers, Same(s)
  PROVE  Unlowered(s) /\ i'[s] = i[s] /\ Len(mem[s])' = Len(mem[s])
BY DEF Same, list, Unlowered, WordsLeft, Phase, Width

LEMMA ListStays ==
  ASSUME NEW s \in Searchers, Step(s)
  PROVE  UNCHANGED list
BY DEF Step, load_min, load_max, word, return, binary_search, iterative_search, iterate,
       check, SET_LOW_BIT, SET_LOW_BIT_store

\* do_search goes past a word only if there is one.
LEMMA IndexStep ==
  ASSUME IInv, IndexInv, NEW s \in Searchers, Step(s)
  PROVE  i'[s] <= Len(mem[s])' + 1
<1>1. TypeOK /\ WordInv(s) /\ i[s] <= Len(mem[s]) + 1
  BY DEF IInv, ThreadInv, IndexInv
<1>2. Len(mem[s]) \in Nat /\ i[s] \in Nat /\ mem' = mem
  BY <1>1, SearcherTypes, ListStays DEF list
<1>3. \/ UNCHANGED i
      \/ NextWord(s) /\ (pc[s] \in Landed \/ (pc[s] = "word" /\ i[s] <= Len(mem[s])))
  BY DEF Step, load_min, load_max, word, return, binary_search, iterative_search, iterate,
         check, SET_LOW_BIT, SET_LOW_BIT_store, locals, Landed
<1>4. CASE UNCHANGED i
  BY <1>1, <1>2, <1>4
<1>5. CASE NextWord(s) /\ i[s] <= Len(mem[s])
  <2>1. i'[s] = i[s] + 1
    BY <1>1, <1>5, NextWordLowers, ListStays
  <2> QED BY <2>1, <1>2, <1>5
<1> QED BY <1>1, <1>3, <1>4, <1>5 DEF WordInv

LEMMA IndexNext == IInv /\ IndexInv /\ [Next]_vars => IndexInv'
<1> SUFFICES ASSUME IInv, IndexInv, [Next]_vars, NEW u \in Searchers
             PROVE  i'[u] <= Len(mem[u])' + 1
  BY DEF IndexInv
<1>1. ASSUME NEW s \in Searchers, Step(s) PROVE i'[u] <= Len(mem[u])' + 1
  <2>1. CASE u = s
    BY <1>1, <2>1, IndexStep
  <2>2. CASE u # s
    <3>1. i'[u] = i[u] /\ mem' = mem
      BY <1>1, <2>2, Frame, ListStays DEF Same, list
    <3> QED BY <3>1 DEF IndexInv
  <2> QED BY <2>1, <2>2
<1>2. ASSUME UNCHANGED vars PROVE i'[u] <= Len(mem[u])' + 1
  BY <1>2 DEF IndexInv, vars, list, locals
<1> QED BY <1>1, <1>2 DEF Next, AllDone

LEMMA IndexInit == Init => IndexInv
<1> SUFFICES ASSUME Init, NEW s \in Searchers PROVE i[s] <= Len(mem[s]) + 1
  BY DEF IndexInv
<1>1. i[s] = 1 /\ Len(mem[s]) \in Nat
  BY InitIInv, SearcherTypes DEF Init, IInv
<1> QED BY <1>1

LEMMA BoundedIs == IInv /\ IndexInv => Bounded
<1> SUFFICES ASSUME IInv, IndexInv, NEW s \in Searchers
             PROVE  WordsLeft(s) \in Nat /\ Phase(s) \in 0..10 /\ Width(s) \in Nat
  BY DEF Bounded
<1>1. /\ Len(mem[s]) \in Nat /\ i[s] \in Nat /\ level[s] \in {1, 2}
      /\ min[s] \in Nat /\ max[s] \in Nat
      /\ pc[s] \in {"load_min", "load_max", "word", "binary", "iterate",
                    "check", "bit", "store", "done"}
  BY SearcherTypes DEF IInv
<1>2. WordsLeft(s) \in Nat
  BY <1>1 DEF WordsLeft, IndexInv
<1>3. Phase(s) \in 0..10
  BY <1>1, PhaseIs
<1>4. pc[s] \in Looking => min[s] <= max[s]
  BY <1>1 DEF IInv, ThreadInv, RangeInv
<1>5. Width(s) \in Nat
  BY <1>1, <1>4 DEF Width
<1> QED BY <1>2, <1>3, <1>5

\* A step is one of some searcher, whose numbers it lowers, and no other's.
LEMMA NextLowers ==
  ASSUME IInv, IndexInv, Next, NEW u \in Searchers
  PROVE  IF Step(u) THEN Lowered(u) ELSE Unlowered(u)
<1>1. ASSUME Step(u) PROVE Lowered(u)
  BY <1>1, StepLowers
<1>2. ASSUME NEW s \in Searchers, Step(s), s # u PROVE Unlowered(u)
  BY <1>2, Frame, ListStays, OthersLeave
<1>3. ASSUME UNCHANGED vars PROVE Unlowered(u)
  BY <1>3, OthersLeave DEF vars, locals, search, Same
<1> QED BY <1>1, <1>2, <1>3 DEF Next, AllDone

(***************************************************************************)
(* No loop of do_search, binary_search or iterative_search turns forever,  *)
(* whatever the other threads do to the list meanwhile: every step of a    *)
(* search lowers a triple of natural numbers, in lexicographic order, and  *)
(* no step of another thread changes it.  BINARY_THRESHOLD is at least 2:  *)
(* with 1 the half above mid could be the range itself.                    *)
(***************************************************************************)
THEOREM SearchRunsDown ==
    Spec => /\ []Bounded
            /\ [][\A s \in Searchers : IF Step(s) THEN Lowered(s) ELSE Unlowered(s)]_vars
<1>1. Spec => []IndexInv
  BY IndexInit, IndexNext, Invariance, PTL DEF Spec
<1>2. IInv /\ IndexInv /\ [Next]_vars =>
         [\A s \in Searchers : IF Step(s) THEN Lowered(s) ELSE Unlowered(s)]_vars
  BY NextLowers
<1> QED BY <1>1, <1>2, Invariance, BoundedIs, PTL DEF Spec

-----------------------------------------------------------------------------
(* Arrays and the lists in them.                                            *)

OneToOne(f, S, T) ==
    /\ f \in [S -> T]
    /\ \A j, k \in S : f[j] = f[k] => j = k
    /\ \A z \in T : \E k \in S : f[k] = z

LEMMA SameSize ==
  ASSUME NEW S, NEW T, NEW f, OneToOne(f, S, T), IsFiniteSet(S)
  PROVE  Cardinality(T) = Cardinality(S)
<1>1. f \in Bijection(S, T)
  BY Zenon DEF OneToOne, Bijection, Injection, Surjection, IsInjective
<1>2. ExistsBijection(S, T)
  BY <1>1 DEF ExistsBijection
<1> QED BY <1>2, FS_Bijection

\* The array a, from 0 to m-1, has the entries of the sequence s in some order.
Rearranged(a, s, m) ==
    \E p : OneToOne(p, 0..m-1, 1..m) /\ \A k \in 0..m-1 : a[k] = s[p[k]]

LEMMA RearrangedAtFirst ==
  ASSUME NEW m \in Nat, NEW a, NEW s, \A k \in 0..m-1 : s[k+1] = a[k]
  PROVE  Rearranged(a, s, m)
<1> DEFINE p == [k \in 0..m-1 |-> k + 1]
<1>1. p \in [0..m-1 -> 1..m] /\ \A k \in 0..m-1 : p[k] = k + 1
  OBVIOUS
<1>2. ASSUME NEW y \in 1..m PROVE y - 1 \in 0..m-1 /\ p[y-1] = y
  OBVIOUS
<1> HIDE DEF p
<1>3. \A j, k \in 0..m-1 : p[j] = p[k] => j = k
  BY <1>1
<1>4. OneToOne(p, 0..m-1, 1..m)
  BY <1>1, <1>2, <1>3 DEF OneToOne
<1> QED BY <1>1, <1>4 DEF Rearranged

\* b is a with the entries at x and y exchanged.
Exchanged(b, a, D, x, y) ==
    b[x] = a[y] /\ b[y] = a[x] /\ \A k \in D \ {x, y} : b[k] = a[k]

LEMMA SwapAt ==
  ASSUME NEW D, NEW R, NEW a \in [D -> R], NEW x \in D, NEW y \in D
  PROVE  swap(a, x, y) \in [D -> R] /\ Exchanged(swap(a, x, y), a, D, x, y)
BY DEF swap, Exchanged

LEMMA RearrangedBySwap ==
  ASSUME NEW m \in Nat, NEW b, NEW a, NEW s, NEW D, 0..m-1 \subseteq D,
         NEW x \in 0..m-1, NEW y \in 0..m-1,
         Exchanged(b, a, D, x, y), Rearranged(a, s, m)
  PROVE  Rearranged(b, s, m)
<1>0. PICK C : C = 0..m-1
  OBVIOUS
<1>1. PICK p : OneToOne(p, C, 1..m) /\ \A k \in C : a[k] = s[p[k]]
  BY <1>0 DEF Rearranged
<1>2. x \in C /\ y \in C /\ C \subseteq D /\ p \in [C -> 1..m]
  BY <1>0, <1>1 DEF OneToOne
<1>3. PICK q : q = swap(p, x, y)
  OBVIOUS
<1>4. q \in [C -> 1..m] /\ Exchanged(q, p, C, x, y)
  BY <1>2, <1>3, SwapAt
<1>5. OneToOne(q, C, 1..m)
  <2>1. \A j, k \in C : q[j] = q[k] => j = k
    BY <1>1, <1>2, <1>4 DEF OneToOne, Exchanged
  <2>2. ASSUME NEW z \in 1..m PROVE \E k \in C : q[k] = z
    <3>1. PICK k \in C : p[k] = z
      BY <1>1 DEF OneToOne
    <3> QED BY <3>1, <1>2, <1>4 DEF Exchanged
  <2> QED BY <1>4, <2>1, <2>2 DEF OneToOne
<1>6. \A k \in C : b[k] = s[q[k]]
  BY <1>1, <1>2, <1>4 DEF Exchanged
<1> QED BY <1>0, <1>5, <1>6 DEF Rearranged

\* A rearrangement is the same bag.
LEMMA RearrangedBag ==
  ASSUME NEW m \in Nat, NEW a, NEW s, DOMAIN s = 1..m, Rearranged(a, s, m)
  PROVE  ToBag([k \in 1..m |-> a[k-1]]) = ToBag(s)
<1> DEFINE L(x) == {k \in 1..m : a[k-1] = x}
           S(x) == {k \in 1..m : s[k] = x}
<1>1. PICK p : OneToOne(p, 0..m-1, 1..m) /\ \A k \in 0..m-1 : a[k] = s[p[k]]
  BY DEF Rearranged
<1>2. PICK q : q = [k \in 1..m |-> p[k-1]]
  OBVIOUS
<1>3. \A k \in 1..m : k - 1 \in 0..m-1 /\ q[k] = p[k-1]
  BY <1>2
<1>4. OneToOne(q, 1..m, 1..m) /\ \A k \in 1..m : a[k-1] = s[q[k]]
  <2>1. q \in [1..m -> 1..m]
    BY <1>1, <1>2, <1>3 DEF OneToOne
  <2>2. \A k \in 1..m : a[k-1] = s[q[k]]
    BY <1>1, <1>3
  <2>3. ASSUME NEW j \in 1..m, NEW k \in 1..m, q[j] = q[k] PROVE j = k
    <3>1. j - 1 = k - 1
      BY <1>1, <1>3, <2>3 DEF OneToOne
    <3> QED BY <3>1
  <2>4. ASSUME NEW z \in 1..m PROVE \E k \in 1..m : q[k] = z
    <3>1. PICK j \in 0..m-1 : p[j] = z
      BY <1>1 DEF OneToOne
    <3>2. j + 1 \in 1..m /\ (j + 1) - 1 = j
      OBVIOUS
    <3> QED BY <3>1, <3>2, <1>3
  <2> QED BY <2>1, <2>2, <2>3, <2>4 DEF OneToOne
<1>5. PICK l : l = [k \in 1..m |-> a[k-1]]
  OBVIOUS
<1>6. DOMAIN l = 1..m /\ \A k \in 1..m : l[k] = a[k-1]
  BY <1>5
<1>7. Range(l) = Range(s)
  <2>1. ASSUME NEW k \in 1..m PROVE \E z \in 1..m : l[k] = s[z]
    <3>1. q[k] \in 1..m /\ l[k] = s[q[k]]
      BY <1>4, <1>6 DEF OneToOne
    <3> QED BY <3>1
  <2>2. ASSUME NEW z \in 1..m PROVE \E k \in 1..m : l[k] = s[z]
    <3>1. PICK k \in 1..m : q[k] = z
      BY <1>4 DEF OneToOne
    <3> QED BY <3>1, <1>4, <1>6
  <2>3. \A x : x \in Range(l) <=> x \in Range(s)
    BY <1>6, <2>1, <2>2, Zenon DEF Range
  <2> QED BY <2>3
<1>8. ASSUME NEW x PROVE Cardinality(L(x)) = Cardinality(S(x))
  <2>1. PICK f : f = [k \in L(x) |-> q[k]]
    OBVIOUS
  <2>2. OneToOne(f, L(x), S(x))
    <3>1. \A k \in L(x) : k \in 1..m /\ q[k] \in S(x) /\ f[k] = q[k]
      BY <1>4, <2>1 DEF OneToOne
    <3>2. f \in [L(x) -> S(x)]
      BY <2>1, <3>1
    <3>3. ASSUME NEW z \in S(x) PROVE \E k \in L(x) : q[k] = z
      <4>1. PICK k \in 1..m : q[k] = z
        BY <1>4 DEF OneToOne
      <4> QED BY <4>1, <1>4
    <3> HIDE DEF L, S
    <3> QED BY <1>4, <3>1, <3>2, <3>3 DEF OneToOne
  <2>3. IsFiniteSet(L(x))
    <3>1. IsFiniteSet(1..m)
      BY FS_Interval
    <3> QED BY <3>1, FS_Subset
  <2> HIDE DEF L, S
  <2> QED BY <2>2, <2>3, SameSize
<1>9. \A x : {k \in DOMAIN l : l[k] = x} = L(x)
  BY <1>6
<1> HIDE DEF L
<1>10. ToBag(l) = [x \in Range(s) |-> Cardinality(L(x))]
  BY <1>7, <1>9 DEF ToBag
<1>11. ToBag(s) = [x \in Range(s) |-> Cardinality(S(x))]
  BY DEF ToBag
<1> HIDE DEF S
<1> QED BY <1>5, <1>8, <1>10, <1>11

-----------------------------------------------------------------------------
(* The inductive invariant of WorkingList.                                  *)

\* A list with its low bits clear: collected addresses, each once, and zeros.
Clean(a, m, C) ==
    /\ \A k \in 0..m-1 : a[k] \in C \cup {0}
    /\ \A j, k \in 0..m-1 : a[j] = a[k] /\ a[j] # 0 => j = k

\* A sorted list with low bits set; of the zeros only the first entry may be marked.
MarkedList(s, m, C) ==
    /\ \A k \in 1..m : /\ s[k] \in Nat /\ s[k] % 4 \in {0, 1}
                       /\ PTR_MASK(s[k]) \in C \cup {0}
    /\ \A j, k \in 1..m : j < k => \/ PTR_MASK(s[j]) < PTR_MASK(s[k])
                                   \/ PTR_MASK(s[j]) = 0 /\ PTR_MASK(s[k]) = 0
    /\ \A k \in 1..m : s[k] = 1 => k = 1

Sorting == {"quicksort", "partition", "insertion"}

CleanInv ==
    stage \in Sorting \cup {"generated", "sorted", "swept", "shuffle", "shuffled"} =>
        Clean(addrs, n, collected)
FreedInv == stage \in Sorting \cup {"generated", "sorted", "searched"} => freed = <<>>
StorageInv ==
    /\ stage # "collect" => storage = <<>>
    /\ storage # <<>> => Clean([k \in 0..storage.length-1 |-> storage.words[k+3]],
                               storage.length, collected)
OrderInv ==
    stage \in Sorting \cup {"sorted", "shuffle", "shuffled"} =>
        DOMAIN before = 1..n /\ Rearranged(addrs, before, n)
MarkedInv ==
    /\ stage = "searched" => MarkedList(List, n, collected)
    /\ stage = "sweep" => DOMAIN before = 1..n /\ MarkedList(before, n, collected)

\* Both entries are in the range of a call that has not returned.
Pending(cs, p, q) == \E c \in 1..Len(cs) : cs[c].min <= p /\ q <= cs[c].max

(***************************************************************************)
(* The ranges of the calls lie one after the other, and two entries are in *)
(* order unless one of these calls will see to it.                         *)
(***************************************************************************)
Ranged(cs, m) ==
    /\ \A c \in 1..Len(cs) : cs[c].max < m
    /\ \A c, d \in 1..Len(cs) : c < d => cs[c].max < cs[d].min
Ordered(a, cs, m) ==
    \A p, q \in 0..m-1 : p < q => a[p] <= a[q] \/ Pending(cs, p, q)
CallsInv ==
    /\ stage \in Sorting \cup {"sorted"} => Ranged(calls, n) /\ Ordered(addrs, calls, n)
    /\ stage \in {"partition", "insertion"} => calls # <<>>
    /\ stage = "sorted" => calls = <<>>

\* Up to dst the entries are no greater than the pivot, from there on greater.
Parted(a, lo, hi, x, mid, pv) ==
    /\ lo <= mid /\ mid <= x /\ x <= hi /\ a[hi] = pv
    /\ \A k \in lo..mid-1 : a[k] <= pv
    /\ \A k \in mid..x-1 : pv < a[k]
PartInv == stage = "partition" =>
    Parted(addrs, calls[1].min, calls[1].max, idx, dst, pivot_val)

\* Up to idx the entries are sorted, but for the one that is on its way down.
Inserted(a, lo, hi, x, y) ==
    /\ lo <= y /\ y <= x /\ (hi < x => y = x)
    /\ \A p, q \in lo..x : p < q /\ q <= hi /\ q # y => a[p] <= a[q]
InsertInv == stage = "insertion" =>
    Inserted(addrs, calls[1].min, calls[1].max, idx, dst)

\* The entry before[x] has an odd word and an even one before it.
IsOdd(s, x) == s[x] % 2 = 1
Survives(s, x) == IsOdd(s, x) /\ \E y \in 1..x-1 : ~IsOdd(s, y)

\* The marked entries among the first k.
Odds(s, k) == {x \in 1..k : IsOdd(s, x)}

(***************************************************************************)
(* The sweep up to idx, with the list l before it: dst is behind once an   *)
(* entry was unmarked, and only then does a marked one survive.            *)
(***************************************************************************)
KeptUpTo(s, a, x, w) ==
    /\ \A k \in 0..w-1 : \/ a[k] = 0
                         \/ \E y \in 1..x : Survives(s, y) /\ a[k] = PTR_MASK(s[y])
    /\ \A y \in 1..x : Survives(s, y) => \E k \in 0..w-1 : a[k] = PTR_MASK(s[y])
    /\ \A j, k \in 0..w-1 : a[j] = a[k] /\ a[j] # 0 => j = k
FreedUpTo(s, f, x) ==
    /\ \A j \in 1..Len(f) : \E y \in 1..x : ~IsOdd(s, y) /\ f[j] = s[y]
    /\ \A y \in 1..x : ~IsOdd(s, y) => \E j \in 1..Len(f) : f[j] = s[y]
    /\ \A j, k \in 1..Len(f) : f[j] = f[k] /\ f[j] # 0 => j = k
\* write_position is behind once an entry was unmarked, and only then.
Counted(s, x, w) ==
    /\ w <= x /\ w = Cardinality(Odds(s, x))
    /\ w < x <=> \E y \in 1..x : ~IsOdd(s, y)
SweepInv ==
    stage = "sweep" =>
        /\ idx <= n /\ Counted(before, idx, dst)
        /\ \A k \in idx..n-1 : addrs[k] = before[k+1]
        /\ KeptUpTo(before, addrs, idx, dst) /\ FreedUpTo(before, freed, idx)
ShuffleInv == stage = "shuffle" => idx <= n

ReadInv ==
    stage = "collect" /\ storage # <<>> => ToBag(BlockAddrs(storage)) = ToBag(before)

WorkInv ==
    /\ ListTypeOK /\ CleanInv /\ FreedInv /\ StorageInv /\ OrderInv /\ MarkedInv
    /\ CallsInv /\ PartInv /\ InsertInv /\ SweepInv /\ ShuffleInv
    /\ SweepAsModelled /\ ReadInv

-----------------------------------------------------------------------------
(* The order of the entries.                                                *)

LEMMA CallTypes ==
  ASSUME NEW cs \in Seq(Call)
  PROVE  Len(cs) \in Nat /\ \A c \in 1..Len(cs) : cs[c].min \in Nat /\ cs[c].max \in Int
<1>1. ASSUME NEW c \in 1..Len(cs) PROVE cs[c].min \in Nat /\ cs[c].max \in Int
  <2>1. cs[c] \in Call
    OBVIOUS
  <2> QED BY <2>1 DEF Call
<1> QED BY <1>1

LEMMA CleanSwap ==
  ASSUME NEW m \in Nat, NEW b, NEW a, NEW C, NEW D, 0..m-1 \subseteq D,
         NEW x \in 0..m-1, NEW y \in 0..m-1,
         Exchanged(b, a, D, x, y), Clean(a, m, C)
  PROVE  Clean(b, m, C)
<1>1. \A k \in 0..m-1 : k \in D
  OBVIOUS
<1> QED BY <1>1 DEF Exchanged, Clean

\* No entry outside the range of the present call is on the wrong side of one inside.
LEMMA Outside ==
  ASSUME NEW m \in Nat, NEW a, NEW cs \in Seq(Call), cs # <<>>, Ranged(cs, m),
         \A k \in 0..m-1 : a[k] \in Nat, Ordered(a, cs, m),
         NEW k \in cs[1].min..cs[1].max
  PROVE  /\ k \in 0..m-1
         /\ \A p \in 0..cs[1].min-1 : a[p] <= a[k]
         /\ \A q \in cs[1].max+1..m-1 : a[k] <= a[q]
<1>1. /\ 1 \in 1..Len(cs)
      /\ \A c \in 1..Len(cs) : cs[c].min \in Nat /\ cs[c].max \in Int
  BY CallTypes
<1>2. PICK lo \in Nat : lo = cs[1].min
  BY <1>1
<1>3. PICK hi \in Int : hi = cs[1].max
  BY <1>1
<1>4. k \in 0..m-1 /\ lo <= k /\ k <= hi /\ hi < m
  BY <1>1, <1>2, <1>3 DEF Ranged
<1>5. \A c \in 1..Len(cs) : c # 1 => hi < cs[c].min
  BY <1>1, <1>3 DEF Ranged
<1>6. ASSUME NEW p \in 0..lo-1 PROVE ~Pending(cs, p, k)
  BY <1>1, <1>2, <1>3, <1>4, <1>5 DEF Pending
<1>7. ASSUME NEW q \in hi+1..m-1 PROVE ~Pending(cs, k, q)
  BY <1>1, <1>2, <1>3, <1>4, <1>5 DEF Pending
<1>8. \A p \in 0..lo-1 : a[p] <= a[k]
  BY <1>4, <1>6 DEF Ordered
<1>9. \A q \in hi+1..m-1 : a[k] <= a[q]
  BY <1>4, <1>7 DEF Ordered
<1> QED BY <1>2, <1>3, <1>4, <1>8, <1>9

LEMMA OrderedSwap ==
  ASSUME NEW m \in Nat, NEW a, NEW b, NEW cs \in Seq(Call), cs # <<>>, Ranged(cs, m),
         \A k \in 0..m-1 : a[k] \in Nat, Ordered(a, cs, m),
         NEW D, 0..m-1 \subseteq D,
         NEW x \in cs[1].min..cs[1].max, NEW y \in cs[1].min..cs[1].max,
         Exchanged(b, a, D, x, y)
  PROVE  Ordered(b, cs, m)
<1>1. /\ 1 \in 1..Len(cs)
      /\ \A c \in 1..Len(cs) : cs[c].min \in Nat /\ cs[c].max \in Int
  BY CallTypes
<1>2. PICK lo \in Nat : lo = cs[1].min
  BY <1>1
<1>3. PICK hi \in Int : hi = cs[1].max
  BY <1>1
<1>4. x \in 0..m-1 /\ y \in 0..m-1
  BY Outside
<1>5. /\ \A k \in lo..hi : \A p \in 0..lo-1 : a[p] <= a[k]
      /\ \A k \in lo..hi : \A q \in hi+1..m-1 : a[k] <= a[q]
  BY <1>2, <1>3, Outside
<1>6. \A k \in lo..hi : \E z \in lo..hi : b[k] = a[z]
  <2>1. \A k \in lo..hi : k \in 0..m-1
    BY <1>2, <1>3, Outside
  <2> QED BY <1>2, <1>3, <2>1 DEF Exchanged
<1>7. \A k \in 0..m-1 : k \notin lo..hi => b[k] = a[k]
  BY <1>2, <1>3 DEF Exchanged
<1>8. SUFFICES ASSUME NEW p \in 0..m-1, NEW q \in 0..m-1, p < q, ~Pending(cs, p, q)
               PROVE  b[p] <= b[q]
  BY DEF Ordered
<1>9. ~(lo <= p /\ q <= hi)
  BY <1>1, <1>2, <1>3, <1>8 DEF Pending
<1>10. CASE p \notin lo..hi /\ q \notin lo..hi
  BY <1>7, <1>8, <1>10 DEF Ordered
<1>11. CASE p \in lo..hi /\ q > hi
  <2>1. PICK z \in lo..hi : b[p] = a[z]
    BY <1>6, <1>11
  <2> QED BY <2>1, <1>5, <1>7, <1>11
<1>12. CASE p < lo /\ q \in lo..hi
  <2>1. PICK z \in lo..hi : b[q] = a[z]
    BY <1>6, <1>12
  <2> QED BY <2>1, <1>5, <1>7, <1>12
<1> QED BY <1>8, <1>9, <1>10, <1>11, <1>12

LEMMA PartStep ==
  ASSUME NEW lo \in Nat, NEW hi \in Int, NEW x \in Nat, NEW mid \in Nat, NEW pv \in Nat,
         NEW a, NEW b, NEW D, lo..hi \subseteq D,
         Parted(a, lo, hi, x, mid, pv), x < hi, a[x] <= pv, Exchanged(b, a, D, x, mid)
  PROVE  Parted(b, lo, hi, x + 1, mid + 1, pv)
<1>1. /\ lo <= mid /\ mid <= x /\ a[hi] = pv
      /\ \A k \in lo..mid-1 : a[k] <= pv
      /\ \A k \in mid..x-1 : pv < a[k]
  BY DEF Parted
<1>2. b[x] = a[mid] /\ b[mid] = a[x] /\ \A k \in lo..hi : k # x /\ k # mid => b[k] = a[k]
  BY DEF Exchanged
<1>3. b[hi] = pv
  BY <1>1, <1>2
<1>4. \A k \in lo..mid : b[k] <= pv
  BY <1>1, <1>2
<1>5. \A k \in mid+1..x : pv < b[k]
  BY <1>1, <1>2
<1> QED BY <1>1, <1>3, <1>4, <1>5 DEF Parted

LEMMA PartSkip ==
  ASSUME NEW lo \in Nat, NEW hi \in Int, NEW x \in Nat, NEW mid \in Nat, NEW pv \in Nat,
         NEW a, Parted(a, lo, hi, x, mid, pv), x < hi, pv < a[x]
  PROVE  Parted(a, lo, hi, x + 1, mid, pv)
BY DEF Parted

\* The pivot stands where it belongs.
LEMMA PartEnd ==
  ASSUME NEW lo \in Nat, NEW hi \in Int, NEW mid \in Nat, NEW pv \in Nat,
         NEW a, NEW b, NEW D, lo..hi \subseteq D, \A k \in lo..hi : a[k] \in Nat,
         Parted(a, lo, hi, hi, mid, pv), Exchanged(b, a, D, mid, hi)
  PROVE  (\A k \in lo..mid : b[k] <= pv) /\ (\A k \in mid..hi : pv <= b[k])
<1>1. /\ lo <= mid /\ mid <= hi /\ a[hi] = pv
      /\ \A k \in lo..mid-1 : a[k] <= pv
      /\ \A k \in mid..hi-1 : pv < a[k]
  BY DEF Parted
<1>2. b[hi] = a[mid] /\ b[mid] = a[hi] /\ \A k \in lo..hi : k # hi /\ k # mid => b[k] = a[k]
  BY <1>1 DEF Exchanged
<1>3. \A k \in lo..mid : b[k] <= pv
  BY <1>1, <1>2
<1>4. \A k \in mid..hi : pv <= b[k]
  BY <1>1, <1>2
<1> QED BY <1>3, <1>4

\* The calls for the two parts take the place of the present one.
LEMMA SplitCalls ==
  ASSUME NEW m \in Nat, NEW a, NEW cs \in Seq(Call), cs # <<>>, Ranged(cs, m),
         \A k \in 0..m-1 : a[k] \in Nat, Ordered(a, cs, m),
         NEW lo \in Nat, lo = cs[1].min, NEW hi \in Int, hi = cs[1].max,
         NEW mid \in lo..hi, NEW pv \in Nat,
         \A k \in lo..mid : a[k] <= pv, \A k \in mid..hi : pv <= a[k],
         NEW ds, ds = <<[min |-> lo, max |-> mid - 1], [min |-> mid + 1, max |-> hi]>>
                      \o Tail(cs)
  PROVE  ds \in Seq(Call) /\ Ranged(ds, m) /\ Ordered(a, ds, m)
<1>1. /\ 1 \in 1..Len(cs)
      /\ \A c \in 1..Len(cs) : cs[c].min \in Nat /\ cs[c].max \in Int
  BY CallTypes
<1>0. mid + 1 \in Nat /\ mid - 1 \in Int /\ Len(cs) \in Nat
  BY CallTypes
<1>2. PICK r \in Call : r = [min |-> lo, max |-> mid - 1]
  BY DEF Call
<1>3. PICK s \in Call : s = [min |-> mid + 1, max |-> hi]
  BY <1>0 DEF Call
<1>4. /\ r.min = lo /\ r.max = mid - 1 /\ s.min = mid + 1 /\ s.max = hi
  BY <1>2, <1>3
<1>5. /\ ds \in Seq(Call) /\ Len(ds) = Len(cs) + 1 /\ ds[1] = r /\ ds[2] = s
      /\ \A c \in 3..Len(ds) : ds[c] = cs[c-1]
  <2>1. PICK t : t = Tail(cs)
    OBVIOUS
  <2>2. t \in Seq(Call) /\ Len(t) = Len(cs) - 1 /\ \A c \in 1..Len(t) : t[c] = cs[c+1]
     BY <2>1
  <2>3. ds = <<r, s>> \o t
    BY <1>2, <1>3, <2>1
  <2>4. ds \in Seq(Call) /\ Len(ds) = Len(t) + 2 /\ Len(cs) \in Nat
     BY <2>2, <2>3
  <2>5. ds[1] = r /\ ds[2] = s
     BY <2>2, <2>3
  <2>6. \A c \in 3..Len(ds) : ds[c] = t[c-2]
     BY <2>2, <2>3, <2>4
  <2>7. \A c \in 3..Len(ds) : ds[c] = cs[c-1]
    BY <2>2, <2>4, <2>6
  <2> QED BY <2>2, <2>4, <2>5, <2>7
<1>6. hi < m /\ \A c \in 2..Len(cs) : cs[c].max < m /\ hi < cs[c].min
  BY <1>1 DEF Ranged
<1>7. Ranged(ds, m)
  <2>1. \A c \in 1..Len(ds) : ds[c].max < m
    BY <1>1, <1>4, <1>5, <1>6
  <2>2. ASSUME NEW c \in 1..Len(ds), NEW d \in 1..Len(ds), c < d
        PROVE  ds[c].max < ds[d].min
    <3>0. ASSUME d \in 3..Len(ds) PROVE d - 1 \in 2..Len(cs) /\ ds[d] = cs[d-1]
      <4>1. PICK l \in Nat : l = Len(cs) /\ Len(ds) = l + 1
        BY <1>0, <1>5
      <4>2. d - 1 \in 2..l
        BY <3>0, <4>1
      <4> QED BY <3>0, <4>1, <4>2, <1>5
    <3>1. CASE c = 1
      <4>1. CASE d = 2
        BY <3>1, <4>1, <1>4, <1>5
      <4>2. CASE d \in 3..Len(ds)
        <5>1. hi < ds[d].min /\ ds[d].min \in Int
          BY <3>0, <4>2, <1>1, <1>6
        <5> QED BY <5>1, <3>1, <1>4, <1>5
      <4> QED BY <3>1, <4>1, <4>2, <2>2, <1>5
    <3>3. CASE c = 2
      <4>1. d \in 3..Len(ds)
        BY <3>3, <2>2
      <4> QED BY <3>0, <4>1, <3>3, <1>4, <1>5, <1>6
    <3>2. CASE c \in 3..Len(ds)
      <4>1. d \in 3..Len(ds) /\ c - 1 \in 1..Len(cs) /\ d - 1 \in 1..Len(cs) /\ c - 1 < d - 1
        BY <1>1, <1>5, <2>2, <3>2
      <4> QED BY <1>5, <4>1, <3>2 DEF Ranged
    <3> QED BY <1>5, <3>1, <3>2, <3>3
  <2> QED BY <2>1, <2>2 DEF Ranged
<1>8. ASSUME NEW p \in 0..m-1, NEW q \in 0..m-1, p < q, ~Pending(ds, p, q)
      PROVE  a[p] <= a[q]
  <2>0. 1 \in 1..Len(ds) /\ 2 \in 1..Len(ds)
    BY <1>0, <1>1, <1>5
  <2>1. ~(lo <= p /\ q <= mid - 1) /\ ~(mid + 1 <= p /\ q <= hi)
    BY <2>0, <1>4, <1>5, <1>8 DEF Pending
  <2>2. CASE lo <= p /\ q <= hi
    <3>1. p <= mid /\ mid <= q
      BY <2>1, <2>2, <1>8
    <3>2. a[p] <= pv /\ pv <= a[q]
      BY <2>2, <3>1
    <3> QED BY <3>2
  <2>3. CASE ~(lo <= p /\ q <= hi)
    <3>1. ASSUME Pending(cs, p, q) PROVE FALSE
      <4>1. PICK c \in 1..Len(cs) : cs[c].min <= p /\ q <= cs[c].max
        BY <3>1 DEF Pending
      <4>2. c # 1
        BY <4>1, <2>3
      <4>3. c + 1 \in 3..Len(ds) /\ ds[c + 1] = cs[c] /\ c + 1 \in 1..Len(ds)
        BY <1>1, <1>5, <4>2
      <4> QED BY <4>1, <4>3, <1>8 DEF Pending
    <3> QED BY <3>1, <1>8 DEF Ordered
  <2> QED BY <2>2, <2>3
<1> QED BY <1>5, <1>7, <1>8 DEF Ordered

\* The present call returns when its entries are in order.
LEMMA PopCalls ==
  ASSUME NEW m \in Nat, NEW a, NEW cs \in Seq(Call), cs # <<>>, Ranged(cs, m),
         Ordered(a, cs, m),
         \A p, q \in cs[1].min..cs[1].max : p < q => a[p] <= a[q]
  PROVE  Tail(cs) \in Seq(Call) /\ Ranged(Tail(cs), m) /\ Ordered(a, Tail(cs), m)
<1>1. /\ 1 \in 1..Len(cs)
      /\ \A c \in 1..Len(cs) : cs[c].min \in Nat /\ cs[c].max \in Int
  BY CallTypes
<1>2. PICK t : t = Tail(cs)
  OBVIOUS
<1>3. t \in Seq(Call) /\ Len(t) = Len(cs) - 1 /\ \A c \in 1..Len(t) : t[c] = cs[c+1]
  BY <1>2
<1>4. Ranged(t, m)
  <2>1. \A c \in 1..Len(t) : c + 1 \in 1..Len(cs) /\ t[c] = cs[c+1]
    BY <1>1, <1>3
  <2>2. \A c \in 1..Len(t) : t[c].max < m
    BY <2>1 DEF Ranged
  <2>3. ASSUME NEW c \in 1..Len(t), NEW d \in 1..Len(t), c < d
        PROVE  t[c].max < t[d].min
    <3>1. c + 1 < d + 1
      BY <2>3
    <3> QED BY <3>1, <2>1 DEF Ranged
  <2> QED BY <2>2, <2>3 DEF Ranged
<1>5. ASSUME NEW p \in 0..m-1, NEW q \in 0..m-1, p < q, ~Pending(t, p, q)
      PROVE  a[p] <= a[q]
  <2>1. CASE Pending(cs, p, q)
    <3>1. PICK c \in 1..Len(cs) : cs[c].min <= p /\ q <= cs[c].max
      BY <2>1 DEF Pending
    <3>2. CASE c = 1
      BY <3>1, <3>2, <1>1, <1>5
    <3>3. CASE c # 1
      <4>1. c - 1 \in 1..Len(t) /\ t[c - 1] = cs[c]
        BY <1>1, <1>3, <3>3
      <4> QED BY <4>1, <3>1, <1>5 DEF Pending
    <3> QED BY <3>2, <3>3
  <2>2. CASE ~Pending(cs, p, q)
    BY <2>2, <1>5 DEF Ordered
  <2> QED BY <2>1, <2>2
<1> QED BY <1>2, <1>3, <1>4, <1>5 DEF Ordered

\* An entry takes a step down, and stops where it is no less than the one below it.
LEMMA InsertMove ==
  ASSUME NEW lo \in Nat, NEW hi \in Int, NEW x \in Nat, NEW y \in Nat, x <= hi,
         NEW a, NEW b, NEW D, lo..hi \subseteq D, \A k \in lo..hi : a[k] \in Nat,
         Inserted(a, lo, hi, x, y), lo < y, a[y] < a[y-1], Exchanged(b, a, D, y, y-1)
  PROVE  Inserted(b, lo, hi, x, y - 1)
<1>1. y <= x /\ \A p, q \in lo..x : p < q /\ q <= hi /\ q # y => a[p] <= a[q]
  BY DEF Inserted
<1>2. b[y] = a[y-1] /\ b[y-1] = a[y] /\ \A k \in lo..hi : k # y /\ k # y-1 => b[k] = a[k]
  BY DEF Exchanged
<1>3. ASSUME NEW p \in lo..x, NEW q \in lo..x, p < q, q # y - 1 PROVE b[p] <= b[q]
  <2>1. CASE q = y
    BY <1>1, <1>2, <1>3, <2>1
  <2>2. CASE q < y
    BY <1>1, <1>2, <1>3, <2>2
  <2>3. CASE q > y
    <3>1. b[q] = a[q] /\ a[y] <= a[q] /\ a[y-1] <= a[q] /\ a[p] <= a[q]
      BY <1>1, <1>2, <1>3, <2>3
    <3> QED BY <3>1, <1>2
  <2> QED BY <2>1, <2>2, <2>3
<1> QED BY <1>1, <1>3 DEF Inserted

LEMMA InsertNext ==
  ASSUME NEW lo \in Nat, NEW hi \in Int, NEW x \in Nat, NEW y \in Nat, x <= hi,
         NEW a, \A k \in lo..hi : a[k] \in Nat,
         Inserted(a, lo, hi, x, y), lo < y => a[y-1] <= a[y]
  PROVE  Inserted(a, lo, hi, x + 1, x + 1)
<1>1. lo <= y /\ y <= x /\ \A p, q \in lo..x : p < q /\ q <= hi /\ q # y => a[p] <= a[q]
  BY DEF Inserted
<1>2. ASSUME NEW p \in lo..x, NEW q \in lo..x, p < q PROVE a[p] <= a[q]
  <2>1. CASE q # y
    BY <1>1, <1>2, <2>1
  <2>2. CASE q = y /\ p = y - 1
    BY <2>2, <1>2
  <2>3. CASE q = y /\ p < y - 1
    <3>1. a[p] <= a[y-1] /\ a[y-1] <= a[y]
      BY <1>1, <1>2, <2>3
    <3> QED BY <3>1, <2>3, <1>1
  <2> QED BY <2>1, <2>2, <2>3, <1>2
<1> QED BY <1>1, <1>2 DEF Inserted

-----------------------------------------------------------------------------
(* The sweep.                                                               *)

LEMMA LowBits ==
  ASSUME NEW w \in Nat, w % 4 \in {0, 1}
  PROVE  /\ PTR_MASK(w) \in Nat
         /\ w % 2 = 1 => w = PTR_MASK(w) + 1
         /\ w % 2 # 1 => w = PTR_MASK(w)
BY Masked, MaskedEntry

LEMMA CountOdd ==
  ASSUME NEW s, NEW x \in Nat, NEW w \in Nat, Counted(s, x, w)
  PROVE  /\ IsOdd(s, x + 1) => Counted(s, x + 1, w + 1)
         /\ ~IsOdd(s, x + 1) => Counted(s, x + 1, w)
<1>1. IsFiniteSet(Odds(s, x))
  <2>1. IsFiniteSet(1..x)
    BY FS_Interval
  <2> QED BY <2>1, FS_Subset DEF Odds
<1>2. 1..x+1 = 1..x \cup {x + 1} /\ x + 1 \notin 1..x
  OBVIOUS
<1>3. ASSUME IsOdd(s, x + 1) PROVE Counted(s, x + 1, w + 1)
  <2>1. Odds(s, x + 1) = Odds(s, x) \cup {x + 1} /\ x + 1 \notin Odds(s, x)
    BY <1>2, <1>3 DEF Odds
  <2>2. Cardinality(Odds(s, x + 1)) = Cardinality(Odds(s, x)) + 1
    BY <1>1, <2>1, FS_AddElement
  <2>3. (\E y \in 1..x+1 : ~IsOdd(s, y)) <=> \E y \in 1..x : ~IsOdd(s, y)
    BY <1>2, <1>3
  <2> QED BY <2>2, <2>3 DEF Counted
<1>4. ASSUME ~IsOdd(s, x + 1) PROVE Counted(s, x + 1, w)
  <2>1. Odds(s, x + 1) = Odds(s, x)
    BY <1>2, <1>4 DEF Odds
  <2>2. \E y \in 1..x+1 : ~IsOdd(s, y)
    BY <1>2, <1>4
  <2> QED BY <2>1, <2>2 DEF Counted
<1> QED BY <1>3, <1>4

LEMMA KeepOdd ==
  ASSUME NEW C, NEW m \in Nat, NEW s, MarkedList(s, m, C),
         NEW x \in Nat, x < m, NEW w \in Nat, Counted(s, x, w), IsOdd(s, x + 1),
         NEW a, NEW b, KeptUpTo(s, a, x, w),
         b[x] = 0, w < x => b[w] = PTR_MASK(s[x + 1]),
         \A k \in 0..w-1 : b[k] = a[k]
  PROVE  KeptUpTo(s, b, x + 1, w + 1)
<1>1. w <= x /\ (w < x <=> \E y \in 1..x : ~IsOdd(s, y))
  BY DEF Counted
<1>2. Survives(s, x + 1) <=> w < x
  <2>1. 1..(x + 1) - 1 = 1..x
    OBVIOUS
  <2> QED BY <1>1, <2>1 DEF Survives
<1>3. 1..x+1 = 1..x \cup {x + 1} /\ 0..(w + 1) - 1 = 0..w-1 \cup {w} /\ w \notin 0..w-1
  OBVIOUS
<1>4. ASSUME NEW k \in 0..w-1
      PROVE  b[k] = 0 \/ \E y \in 1..x : Survives(s, y) /\ b[k] = PTR_MASK(s[y])
  BY DEF KeptUpTo
<1>5. ASSUME NEW y \in 1..x, Survives(s, y) PROVE \E k \in 0..w-1 : b[k] = PTR_MASK(s[y])
  BY <1>5 DEF KeptUpTo
<1>6. \A j, k \in 0..w-1 : b[j] = b[k] /\ b[j] # 0 => j = k
  BY DEF KeptUpTo
<1>7. b[w] = 0 \/ (Survives(s, x + 1) /\ b[w] = PTR_MASK(s[x + 1]))
  BY <1>1, <1>2
<1>8. Survives(s, x + 1) => b[w] = PTR_MASK(s[x + 1])
  BY <1>1, <1>2
<1>9. ASSUME NEW j \in 0..w-1, b[j] # 0 PROVE b[j] # b[w]
  <2>1. PICK y \in 1..x : b[j] = PTR_MASK(s[y])
    BY <1>4, <1>9
  <2>2. y \in 1..m /\ x + 1 \in 1..m /\ y < x + 1
    OBVIOUS
  <2>3. PTR_MASK(s[y]) < PTR_MASK(s[x + 1]) \/ PTR_MASK(s[y]) = 0
    BY <2>2 DEF MarkedList
  <2>4. PTR_MASK(s[y]) \in Nat /\ PTR_MASK(s[x+1]) \in Nat
    BY <2>2, LowBits DEF MarkedList
  <2> QED BY <2>1, <2>3, <2>4, <1>7, <1>9
<1>10. \A k \in 0..w : b[k] = 0 \/ \E y \in 1..x+1 : Survives(s, y) /\ b[k] = PTR_MASK(s[y])
  BY <1>3, <1>4, <1>7
<1>11. \A y \in 1..x+1 : Survives(s, y) => \E k \in 0..w : b[k] = PTR_MASK(s[y])
  BY <1>3, <1>5, <1>8
<1>12. \A j, k \in 0..w : b[j] = b[k] /\ b[j] # 0 => j = k
  BY <1>3, <1>6, <1>9
<1> QED BY <1>3, <1>10, <1>11, <1>12 DEF KeptUpTo

LEMMA KeepEven ==
  ASSUME NEW s, NEW x \in Nat, NEW w \in Nat, ~IsOdd(s, x + 1),
         NEW a, NEW b, KeptUpTo(s, a, x, w), \A k \in 0..w-1 : b[k] = a[k]
  PROVE  KeptUpTo(s, b, x + 1, w)
<1>1. 1..x+1 = 1..x \cup {x + 1}
  OBVIOUS
<1>2. ~Survives(s, x + 1)
  BY DEF Survives
<1>3. \A k \in 0..w-1 : b[k] = 0 \/ \E y \in 1..x+1 : Survives(s, y) /\ b[k] = PTR_MASK(s[y])
  BY <1>1 DEF KeptUpTo
<1>4. \A y \in 1..x+1 : Survives(s, y) => \E k \in 0..w-1 : b[k] = PTR_MASK(s[y])
  BY <1>1, <1>2 DEF KeptUpTo
<1> QED BY <1>3, <1>4 DEF KeptUpTo

LEMMA FreeOdd ==
  ASSUME NEW s, NEW x \in Nat, NEW f, FreedUpTo(s, f, x), IsOdd(s, x + 1)
  PROVE  FreedUpTo(s, f, x + 1)
<1>1. 1..x+1 = 1..x \cup {x + 1}
  OBVIOUS
<1> QED BY <1>1 DEF FreedUpTo

LEMMA FreeEven ==
  ASSUME NEW C, NEW m \in Nat, NEW s, MarkedList(s, m, C), NEW x \in Nat, x < m,
         NEW f \in Seq(Nat), FreedUpTo(s, f, x), ~IsOdd(s, x + 1)
  PROVE  FreedUpTo(s, Append(f, s[x + 1]), x + 1)
<1>1. 1..x+1 = 1..x \cup {x + 1}
  OBVIOUS
<1>2. PICK len \in Nat : len = Len(f)
  OBVIOUS
<1>3. s[x + 1] \in Nat
  BY DEF MarkedList
<1>4. PICK g : g = Append(f, s[x + 1])
  OBVIOUS
<1>5. Len(g) = len + 1 /\ g[len + 1] = s[x + 1] /\ \A j \in 1..len : g[j] = f[j]
  BY <1>2, <1>3, <1>4
<1>6. 1..len+1 = 1..len \cup {len + 1} /\ len + 1 \notin 1..len
  OBVIOUS
<1>7. \A j \in 1..len : \E y \in 1..x : ~IsOdd(s, y) /\ g[j] = s[y]
  BY <1>2, <1>5 DEF FreedUpTo
<1>8. \A y \in 1..x : ~IsOdd(s, y) => \E j \in 1..len : g[j] = s[y]
  BY <1>2, <1>5 DEF FreedUpTo
<1>9. \A j, k \in 1..len : g[j] = g[k] /\ g[j] # 0 => j = k
  BY <1>2, <1>5 DEF FreedUpTo
<1>10. ASSUME NEW j \in 1..len, g[j] # 0 PROVE g[j] # s[x + 1]
  <2>1. PICK y \in 1..x : ~IsOdd(s, y) /\ g[j] = s[y]
    BY <1>7
  <2>2. y \in 1..m /\ x + 1 \in 1..m /\ y < x + 1
    OBVIOUS
  <2>3. PTR_MASK(s[y]) < PTR_MASK(s[x + 1]) \/ PTR_MASK(s[y]) = 0
    BY <2>2 DEF MarkedList
  <2>4. s[y] \in Nat /\ s[y] % 4 \in {0, 1} /\ s[x+1] \in Nat /\ s[x+1] % 4 \in {0, 1}
    BY <2>2 DEF MarkedList
  <2>5. s[y] = PTR_MASK(s[y]) /\ s[x+1] = PTR_MASK(s[x+1])
    BY <2>1, <2>4, LowBits DEF IsOdd
  <2> QED BY <2>1, <2>3, <2>4, <2>5, <1>10
<1>11. \A j \in 1..len+1 : \E y \in 1..x+1 : ~IsOdd(s, y) /\ g[j] = s[y]
  BY <1>1, <1>5, <1>6, <1>7
<1>12. \A y \in 1..x+1 : ~IsOdd(s, y) => \E j \in 1..len+1 : g[j] = s[y]
  BY <1>1, <1>5, <1>6, <1>8
<1>13. \A j, k \in 1..len+1 : g[j] = g[k] /\ g[j] # 0 => j = k
  BY <1>5, <1>6, <1>9, <1>10
<1> QED BY <1>4, <1>5, <1>11, <1>12, <1>13 DEF FreedUpTo

\* The list s and its entries, as Buffers has them.
Sees(s, m, b) ==
    /\ \A x : x \in b.addrs <=> x # 0 /\ \E k \in 1..m : x = PTR_MASK(s[k])
    /\ \A x : x \in b.marks <=> x # 0 /\ \E k \in 1..m : IsOdd(s, k) /\ x = PTR_MASK(s[k])
    /\ b.nulls = Cardinality({k \in 1..m : PTR_MASK(s[k]) = 0})
    /\ b.nullmark <=> \E k \in 1..m : s[k] = 1

LEMMA AbstractSees ==
  ASSUME NEW m \in Nat, NEW s \in Seq(Nat), Len(s) = m
  PROVE  Sees(s, m, Abstract(s))
<1>1. ToSet(s) = {s[k] : k \in 1..m}
  BY DEF ToSet
<1>2. PICK b : b = Abstract(s)
  OBVIOUS
<1>3. /\ b.addrs = {PTR_MASK(w) : w \in ToSet(s)} \ {0}
      /\ b.marks = {PTR_MASK(w) : w \in {x \in ToSet(s) : x % 2 = 1}} \ {0}
      /\ b.nulls = Cardinality({k \in 1..Len(s) : PTR_MASK(s[k]) = 0})
      /\ b.nullmark = (1 \in ToSet(s))
  BY <1>2 DEF Abstract
<1>4. \A x : x \in b.addrs <=> x # 0 /\ \E k \in 1..m : x = PTR_MASK(s[k])
  BY <1>1, <1>3
<1>5. \A x : x \in b.marks <=> x # 0 /\ \E k \in 1..m : IsOdd(s, k) /\ x = PTR_MASK(s[k])
  BY <1>1, <1>3 DEF IsOdd
<1>6. b.nullmark <=> \E k \in 1..m : s[k] = 1
  BY <1>1, <1>3
<1> QED BY <1>2, <1>3, <1>4, <1>5, <1>6 DEF Sees

\* The addresses of a marked list, by their places.
LEMMA MarkedFacts ==
  ASSUME NEW C, NEW m \in Nat, NEW s, MarkedList(s, m, C)
  PROVE  /\ \A k \in 1..m : /\ PTR_MASK(s[k]) \in Nat /\ s[k] \in Nat
                            /\ IsOdd(s, k) => s[k] = PTR_MASK(s[k]) + 1
                            /\ ~IsOdd(s, k) => s[k] = PTR_MASK(s[k])
         /\ \A j, k \in 1..m : PTR_MASK(s[j]) < PTR_MASK(s[k]) => j < k
         /\ \A j, k \in 1..m : PTR_MASK(s[j]) = PTR_MASK(s[k]) /\ PTR_MASK(s[j]) # 0 => j = k
<1>1. ASSUME NEW k \in 1..m
      PROVE  /\ PTR_MASK(s[k]) \in Nat /\ s[k] \in Nat
             /\ IsOdd(s, k) => s[k] = PTR_MASK(s[k]) + 1
             /\ ~IsOdd(s, k) => s[k] = PTR_MASK(s[k])
  BY LowBits DEF MarkedList, IsOdd
<1>2. ASSUME NEW j \in 1..m, NEW k \in 1..m, j < k
      PROVE  PTR_MASK(s[j]) < PTR_MASK(s[k]) \/ (PTR_MASK(s[j]) = 0 /\ PTR_MASK(s[k]) = 0)
  BY <1>2 DEF MarkedList
<1>3. \A j, k \in 1..m : PTR_MASK(s[j]) < PTR_MASK(s[k]) => j < k
  BY <1>1, <1>2
<1>4. \A j, k \in 1..m : PTR_MASK(s[j]) = PTR_MASK(s[k]) /\ PTR_MASK(s[j]) # 0 => j = k
  BY <1>1, <1>2
<1> QED BY <1>1, <1>3, <1>4

LEMMA UnmarkedIs ==
  ASSUME NEW C, NEW m \in Nat, NEW s, MarkedList(s, m, C), NEW b, Sees(s, m, b),
         NEW y \in 1..m, PTR_MASK(s[y]) # 0
  PROVE  UnmarkedBefore(b, PTR_MASK(s[y])) <=> \E z \in 1..y-1 : ~IsOdd(s, z)
<1> DEFINE M(k) == PTR_MASK(s[k])
<1>1. /\ \A k \in 1..m : /\ M(k) \in Nat /\ s[k] \in Nat
                         /\ IsOdd(s, k) => s[k] = M(k) + 1
                         /\ ~IsOdd(s, k) => s[k] = M(k)
      /\ \A j, k \in 1..m : M(j) < M(k) => j < k
      /\ \A j, k \in 1..m : M(j) = M(k) /\ M(j) # 0 => j = k
  BY MarkedFacts
<1>2. /\ \A k \in 1..m : s[k] = 1 => k = 1
      /\ \A j, k \in 1..m : j < k => M(j) < M(k) \/ (M(j) = 0 /\ M(k) = 0)
  BY DEF MarkedList
<1>3. PICK Z : Z = {k \in 1..m : M(k) = 0}
  OBVIOUS
<1>4. /\ \A x : x \in b.addrs <=> x # 0 /\ \E k \in 1..m : x = M(k)
      /\ \A x : x \in b.marks <=> x # 0 /\ \E k \in 1..m : IsOdd(s, k) /\ x = M(k)
      /\ b.nulls = Cardinality(Z)
      /\ b.nullmark <=> \E k \in 1..m : s[k] = 1
  BY <1>3 DEF Sees
<1>5. IsFiniteSet(Z) /\ Cardinality(Z) \in Nat
  <2>1. IsFiniteSet(1..m)
    BY FS_Interval
  <2>2. IsFiniteSet(Z)
    BY <2>1, <1>3, FS_Subset
  <2> QED BY <2>2, FS_CardinalityType
<1> HIDE DEF M
<1>6. M(y) # 0
  BY DEF M
<1>7. ASSUME NEW z \in Z PROVE z \in 1..y-1
  <2>1. z \in 1..m /\ M(z) = 0
    BY <1>3
  <2>2. M(z) < M(y)
    BY <2>1, <1>1, <1>6
  <2> QED BY <2>1, <2>2, <1>1
<1>8. ASSUME NEW z \in Z, IsOdd(s, z) PROVE z = 1 /\ b.nullmark
  <2>1. z \in 1..m /\ s[z] = 1
    BY <1>1, <1>3, <1>8
  <2> QED BY <2>1, <1>2, <1>4
<1>9. ASSUME UnmarkedBefore(b, M(y)) PROVE \E z \in 1..y-1 : ~IsOdd(s, z)
  <2>1. CASE b.nulls > 1
    <3>1. ASSUME Z \subseteq {1} PROVE FALSE
      <4>1. IsFiniteSet({1}) /\ Cardinality({1}) = 1
        BY FS_Singleton
      <4>2. Cardinality(Z) <= 1
        BY <3>1, <4>1, FS_Subset
      <4> QED BY <4>2, <2>1, <1>4, <1>5
    <3>2. PICK z \in Z : z # 1
      BY <3>1
    <3> QED BY <3>2, <1>7, <1>8
  <2>2. CASE b.nulls = 1 /\ ~b.nullmark
    <3>1. Z # {}
      BY <2>2, <1>4, FS_EmptySet
    <3>2. PICK z \in Z : TRUE
      BY <3>1
    <3> QED BY <3>2, <2>2, <1>7, <1>8
  <2>3. CASE \E q \in b.addrs \ b.marks : q < M(y)
    <3>1. PICK q \in b.addrs \ b.marks : q < M(y)
      BY <2>3
    <3>2. PICK z \in 1..m : q = M(z)
      BY <3>1, <1>4
    <3>3. ~IsOdd(s, z)
      BY <3>1, <3>2, <1>4
    <3>4. z < y
      BY <3>1, <3>2, <1>1
    <3> QED BY <3>3, <3>4
  <2> QED BY <1>9, <2>1, <2>2, <2>3 DEF UnmarkedBefore
<1>10. ASSUME NEW z \in 1..y-1, ~IsOdd(s, z) PROVE UnmarkedBefore(b, M(y))
  <2>0. z \in 1..m /\ z < y
    OBVIOUS
  <2>1. CASE M(z) # 0
    <3>1. M(z) < M(y)
      BY <2>0, <2>1, <1>2
    <3>2. M(z) \in b.addrs \ b.marks
      <4>1. M(z) \in b.addrs
        BY <2>0, <2>1, <1>4
      <4>2. ASSUME M(z) \in b.marks PROVE FALSE
        <5>1. PICK k \in 1..m : IsOdd(s, k) /\ M(z) = M(k)
          BY <4>2, <1>4
        <5>2. k = z
          BY <5>1, <2>0, <2>1, <1>1
        <5> QED BY <5>1, <5>2, <1>10
      <4> QED BY <4>1, <4>2
    <3> QED BY <3>1, <3>2 DEF UnmarkedBefore
  <2>2. CASE M(z) = 0
    <3>1. z \in Z
      BY <2>0, <2>2, <1>3
    <3>2. Cardinality(Z) # 0
      BY <3>1, <1>5, FS_EmptySet
    <3>3. ASSUME Cardinality(Z) = 1, b.nullmark PROVE FALSE
      <4>1. PICK o : Z = {o}
        BY <3>3, <1>5, FS_Singleton
      <4>2. PICK k \in 1..m : s[k] = 1
        BY <3>3, <1>4
      <4>3. M(k) = 0
        BY <4>2 DEF M, PTR_MASK
      <4>4. k = z
        BY <4>1, <4>3, <3>1, <1>3
      <4>5. s[z] = M(z)
        BY <2>0, <1>1, <1>10
      <4> QED BY <4>2, <4>4, <4>5, <2>2
    <3>4. Cardinality(Z) > 1 \/ Cardinality(Z) = 1
      BY <3>2, <1>5
    <3> QED BY <3>3, <3>4, <1>4 DEF UnmarkedBefore
  <2> QED BY <2>1, <2>2
<1> QED BY <1>9, <1>10 DEF M

\* Of the marked entries, the one for zero is counted by nullmark.
LEMMA OddsCounted ==
  ASSUME NEW C, NEW m \in Nat, NEW s, MarkedList(s, m, C), NEW b, Sees(s, m, b)
  PROVE  /\ IsFiniteSet(b.marks) /\ Cardinality(b.marks) \in Nat
         /\ Cardinality(Odds(s, m)) = Cardinality(b.marks) + (IF b.nullmark THEN 1 ELSE 0)
<1> DEFINE M(k) == PTR_MASK(s[k])
<1>1. /\ \A k \in 1..m : /\ M(k) \in Nat /\ s[k] \in Nat
                         /\ IsOdd(s, k) => s[k] = M(k) + 1
      /\ \A j, k \in 1..m : M(j) = M(k) /\ M(j) # 0 => j = k
  BY MarkedFacts
<1>2. PICK P : P = {k \in 1..m : IsOdd(s, k) /\ M(k) # 0}
  OBVIOUS
<1>3. IsFiniteSet(P)
  <2>1. IsFiniteSet(1..m)
    BY FS_Interval
  <2> QED BY <2>1, <1>2, FS_Subset
<1>4. PICK f : f = [k \in P |-> M(k)]
  OBVIOUS
<1>5. OneToOne(f, P, b.marks)
  <2>1. \A k \in P : k \in 1..m /\ IsOdd(s, k) /\ M(k) # 0 /\ f[k] = M(k)
    BY <1>2, <1>4
  <2>2. \A k \in P : M(k) \in b.marks
    BY <2>1 DEF Sees
  <2>3. ASSUME NEW z \in b.marks PROVE \E k \in P : f[k] = z
    <3>1. z # 0 /\ \E k \in 1..m : IsOdd(s, k) /\ z = M(k)
      BY DEF Sees
    <3> QED BY <3>1, <2>1, <1>2
  <2> HIDE DEF M
  <2>4. f \in [P -> b.marks]
    BY <1>4, <2>2
  <2>5. \A j, k \in P : f[j] = f[k] => j = k
    BY <2>1, <1>1
  <2> QED BY <2>3, <2>4, <2>5 DEF OneToOne
<1>6. Cardinality(b.marks) = Cardinality(P)
  BY <1>3, <1>5, SameSize
<1>7. IsFiniteSet(b.marks)
  <2>1. f \in Surjection(P, b.marks)
    BY <1>5, Zenon DEF OneToOne, Surjection
  <2> QED BY <2>1, <1>3, FS_Surjection
<1>8. Cardinality(P) \in Nat
  BY <1>3, FS_CardinalityType
<1>9. CASE b.nullmark
  <2>1. PICK k \in 1..m : s[k] = 1
    BY <1>9 DEF Sees
  <2>2. k = 1
    BY <2>1 DEF MarkedList
  <2>3. M(1) = 0 /\ IsOdd(s, 1)
    BY <2>1, <2>2 DEF PTR_MASK, IsOdd
  <2>4. \A z \in 1..m : IsOdd(s, z) /\ M(z) = 0 => z = 1
    BY <1>1 DEF MarkedList
  <2>5. Odds(s, m) = P \cup {1} /\ 1 \notin P
    <3> HIDE DEF M
    <3> QED BY <2>1, <2>2, <2>3, <2>4, <1>2 DEF Odds
  <2>6. Cardinality(Odds(s, m)) = Cardinality(P) + 1
    BY <2>5, <1>3, FS_AddElement
  <2> QED BY <2>6, <1>6, <1>7, <1>8, <1>9
<1>10. CASE ~b.nullmark
  <2>1. \A z \in 1..m : IsOdd(s, z) => M(z) # 0
    BY <1>1, <1>10 DEF Sees
  <2>2. Odds(s, m) = P
    BY <2>1, <1>2 DEF Odds
  <2> QED BY <2>2, <1>6, <1>7, <1>8, <1>10
<1> QED BY <1>9, <1>10

\* What Buffers says of the sweep of b: frees, list, and the number of its entries.
Modelled(b, f, l, w) ==
    /\ ToSet(f) \ {0} = Unreferenced(b)
    /\ ToSet(l) \ {0} = Remaining(b).addrs
    /\ w = NAddrs(Remaining(b))

LEMMA SweptIs ==
  ASSUME NEW C, NEW m \in Nat, NEW s, MarkedList(s, m, C), NEW b, Sees(s, m, b),
         NEW w \in Nat, Counted(s, m, w), NEW a, KeptUpTo(s, a, m, w),
         NEW f \in Seq(Nat), FreedUpTo(s, f, m),
         NEW l, l = [k \in 1..w |-> a[k-1]]
  PROVE  Modelled(b, f, l, w)
<1> DEFINE M(k) == PTR_MASK(s[k])
<1>1. /\ \A k \in 1..m : /\ M(k) \in Nat /\ s[k] \in Nat
                         /\ IsOdd(s, k) => s[k] = M(k) + 1
                         /\ ~IsOdd(s, k) => s[k] = M(k)
      /\ \A j, k \in 1..m : M(j) = M(k) /\ M(j) # 0 => j = k
  BY MarkedFacts
<1>2. /\ \A x : x \in b.addrs <=> x # 0 /\ \E k \in 1..m : x = M(k)
      /\ \A x : x \in b.marks <=> x # 0 /\ \E k \in 1..m : IsOdd(s, k) /\ x = M(k)
  BY DEF Sees
<1>3. \A y \in 1..m : M(y) # 0 /\ IsOdd(s, y) =>
          (UnmarkedBefore(b, M(y)) <=> Survives(s, y))
  BY UnmarkedIs DEF Survives
<1>4. /\ \A j \in 1..Len(f) : \E y \in 1..m : ~IsOdd(s, y) /\ f[j] = s[y]
      /\ \A y \in 1..m : ~IsOdd(s, y) => \E j \in 1..Len(f) : f[j] = s[y]
  BY DEF FreedUpTo
<1>5. /\ \A k \in 0..w-1 : a[k] = 0 \/ \E y \in 1..m : Survives(s, y) /\ a[k] = M(y)
      /\ \A y \in 1..m : Survives(s, y) => \E k \in 0..w-1 : a[k] = M(y)
  BY DEF KeptUpTo
<1>6. \A x : x \in ToSet(f) <=> \E j \in 1..Len(f) : x = f[j]
  BY DEF ToSet
<1>7. \A x : x \in ToSet(l) <=> \E k \in 0..w-1 : x = a[k]
  <2>1. DOMAIN l = 1..w /\ \A k \in 1..w : k - 1 \in 0..w-1 /\ l[k] = a[k-1]
    OBVIOUS
  <2>2. \A k \in 0..w-1 : k + 1 \in 1..w /\ l[k+1] = a[k]
    OBVIOUS
  <2> QED BY <2>1, <2>2 DEF ToSet
<1> HIDE DEF M
<1>8. ToSet(f) \ {0} = Unreferenced(b)
  <2>1. ASSUME NEW x \in ToSet(f), x # 0 PROVE x \in b.addrs /\ x \notin b.marks
    <3>0. PICK j \in 1..Len(f) : x = f[j]
      BY <2>1, <1>6
    <3>1. PICK y \in 1..m : ~IsOdd(s, y) /\ x = M(y)
      BY <3>0, <1>1, <1>4
    <3>2. x \in b.addrs
      BY <2>1, <3>1, <1>2
    <3>3. ASSUME x \in b.marks PROVE FALSE
      <4>1. PICK k \in 1..m : IsOdd(s, k) /\ x = M(k)
        BY <3>3, <1>2
      <4> QED BY <4>1, <3>1, <2>1, <1>1
    <3> QED BY <3>2, <3>3
  <2>2. ASSUME NEW x, x \in b.addrs, x \notin b.marks PROVE x \in ToSet(f) /\ x # 0
    <3>1. x # 0
      BY <2>2, <1>2
    <3>2. PICK k \in 1..m : x = M(k)
      BY <2>2, <1>2
    <3>3. ~IsOdd(s, k)
      BY <3>1, <3>2, <2>2, <1>2
    <3>4. x = s[k]
      BY <3>2, <3>3, <1>1
    <3> QED BY <3>1, <3>3, <3>4, <1>4, <1>6
  <2> QED BY <2>1, <2>2 DEF Unreferenced
<1>9. ToSet(l) \ {0} = Kept(b)
  <2>1. ASSUME NEW x \in ToSet(l), x # 0 PROVE x \in Kept(b)
    <3>0. PICK k \in 0..w-1 : x = a[k]
      BY <2>1, <1>7
    <3>1. PICK y \in 1..m : Survives(s, y) /\ x = M(y)
      BY <3>0, <2>1, <1>5
    <3>2. IsOdd(s, y)
      BY <3>1 DEF Survives
    <3>3. x \in b.marks
      BY <3>1, <3>2, <2>1, <1>2
    <3>4. UnmarkedBefore(b, x)
      BY <3>1, <3>2, <2>1, <1>3
    <3> QED BY <3>3, <3>4 DEF Kept
  <2>2. ASSUME NEW x \in Kept(b) PROVE x \in ToSet(l) /\ x # 0
    <3>1. x \in b.marks /\ UnmarkedBefore(b, x)
      BY DEF Kept
    <3>2. x # 0
      BY <3>1, <1>2
    <3>3. PICK y \in 1..m : IsOdd(s, y) /\ x = M(y)
      BY <3>1, <1>2
    <3>4. Survives(s, y)
      BY <3>1, <3>2, <3>3, <1>3
    <3> QED BY <3>2, <3>3, <3>4, <1>5, <1>7
  <2> QED BY <2>1, <2>2
<1>10. Remaining(b).addrs = Kept(b)
       /\ Remaining(b).nulls = Cardinality(b.marks \ Kept(b)) + (IF b.nullmark THEN 1 ELSE 0)
  BY DEF Remaining
<1>11. w = NAddrs(Remaining(b))
  <2>1. /\ IsFiniteSet(b.marks) /\ Cardinality(b.marks) \in Nat
        /\ Cardinality(Odds(s, m)) = Cardinality(b.marks) + (IF b.nullmark THEN 1 ELSE 0)
    BY OddsCounted
  <2>2. b.marks \cap Kept(b) = Kept(b)
    BY DEF Kept
  <2>3. IsFiniteSet(Kept(b)) /\ Cardinality(Kept(b)) \in Nat
    BY <2>1, FS_Subset, FS_CardinalityType DEF Kept
  <2>4. Cardinality(b.marks \ Kept(b)) = Cardinality(b.marks) - Cardinality(Kept(b))
    <3>1. PICK S, T : S = b.marks /\ T = Kept(b)
      OBVIOUS
    <3>2. Cardinality(S \ T) = Cardinality(S) - Cardinality(S \cap T)
      BY <2>1, <3>1, FS_Difference
    <3> QED BY <3>1, <3>2, <2>2
  <2>5. w = Cardinality(Odds(s, m))
    BY DEF Counted
  <2> QED BY <2>1, <2>3, <2>4, <2>5, <1>10 DEF NAddrs
<1> QED BY <1>8, <1>9, <1>10, <1>11 DEF Modelled

-----------------------------------------------------------------------------
(* The steps of the sort.                                                   *)

LEMMA Sizes ==
  /\ BufMax \in Nat /\ SORT_THRESHOLD \in Nat /\ MaxRounds \in Nat
  /\ IsFiniteSet(Addresses) /\ Addresses \subseteq Nat
  /\ \A p \in Addresses : p % 4 = 0 /\ p # 0
BY WorkingListAssumption

LEMMA SwapKeeps ==
  ASSUME NEW m \in 0..BufMax, NEW a \in [0..BufMax-1 -> Nat], NEW C, NEW s,
         NEW x \in 0..m-1, NEW y \in 0..m-1, NEW b, b = swap(a, x, y),
         Clean(a, m, C), Rearranged(a, s, m)
  PROVE  /\ b \in [0..BufMax-1 -> Nat] /\ Exchanged(b, a, 0..BufMax-1, x, y)
         /\ Clean(b, m, C) /\ Rearranged(b, s, m)
<1>1. PICK D : D = 0..BufMax-1
  OBVIOUS
<1>2. 0..m-1 \subseteq D /\ x \in D /\ y \in D /\ a \in [D -> Nat] /\ m \in Nat
  BY <1>1, Sizes
<1>3. b \in [D -> Nat] /\ Exchanged(b, a, D, x, y)
  BY <1>2, SwapAt
<1>4. Clean(b, m, C)
  BY <1>2, <1>3, CleanSwap
<1>5. Rearranged(b, s, m)
  BY <1>2, <1>3, RearrangedBySwap
<1> QED BY <1>1, <1>3, <1>4, <1>5

LEMMA ArrayTypes ==
  ASSUME ListTypeOK
  PROVE  /\ n \in Nat /\ n \in 0..BufMax /\ addrs \in [0..BufMax-1 -> Nat]
         /\ 0..n-1 \subseteq 0..BufMax-1 /\ \A k \in 0..n-1 : addrs[k] \in Nat
         /\ calls \in Seq(Call) /\ idx \in Nat /\ dst \in Nat /\ pivot_val \in Nat
BY Sizes DEF ListTypeOK

LEMMA ListIs ==
  ASSUME ListTypeOK
  PROVE  /\ List \in Seq(Nat) /\ Len(List) = n /\ DOMAIN List = 1..n
         /\ \A k \in 1..n : List[k] = addrs[k-1]
         /\ \A k \in 0..n-1 : List[k+1] = addrs[k]
<1>1. n \in Nat /\ \A k \in 1..n : addrs[k-1] \in Nat
  BY Sizes DEF ListTypeOK
<1> QED BY <1>1 DEF List

\* The range of the present call is within the list.
LEMMA PresentCall ==
  ASSUME ListTypeOK, Ranged(calls, n), calls # <<>>
  PROVE  /\ calls[1].min \in Nat /\ calls[1].max \in Int /\ calls[1].max < n
         /\ calls[1].min..calls[1].max \subseteq 0..n-1
         /\ calls[1].min..calls[1].max \subseteq 0..BufMax-1
<1>1. 1 \in 1..Len(calls) /\ calls[1].min \in Nat /\ calls[1].max \in Int
  BY ArrayTypes, CallTypes
<1>2. calls[1].max < n
  BY <1>1 DEF Ranged
<1> QED BY <1>1, <1>2, ArrayTypes

LEMMA StepSort ==
  ASSUME WorkInv, util_sort
  PROVE  WorkInv'
<1> USE DEF WorkInv, util_sort, Sorting
<1>1. ListTypeOK'
  <2>1. [min |-> 0, max |-> n - 1] \in Call
    BY ArrayTypes DEF Call
  <2> QED BY <2>1, ListIs DEF ListTypeOK
<1>2. CleanInv' /\ FreedInv' /\ StorageInv'
  BY DEF CleanInv, FreedInv, StorageInv
<1>3. OrderInv'
  <2>1. Rearranged(addrs, List, n)
    BY ListIs, ArrayTypes, RearrangedAtFirst
  <2> QED BY <2>1, ListIs DEF OrderInv
<1>4. CallsInv'
  <2>1. PICK c : c = [min |-> 0, max |-> n - 1]
    OBVIOUS
  <2>2. c.min = 0 /\ c.max = n - 1 /\ calls' = <<c>>
    BY <2>1
  <2>3. Ranged(<<c>>, n)
    BY <2>2, ArrayTypes DEF Ranged
  <2>4. \A p, q \in 0..n-1 : Pending(<<c>>, p, q)
    BY <2>2, ArrayTypes DEF Pending
  <2>5. Ordered(addrs, <<c>>, n)
    BY <2>4 DEF Ordered
  <2> QED BY <2>2, <2>3, <2>5 DEF CallsInv
<1>5. /\ MarkedInv' /\ PartInv' /\ InsertInv' /\ SweepInv' /\ ShuffleInv'
      /\ SweepAsModelled' /\ ReadInv'
  BY DEF MarkedInv, PartInv, InsertInv, SweepInv, ShuffleInv, SweepAsModelled, ReadInv
<1> QED BY <1>1, <1>2, <1>3, <1>4, <1>5

\* What the steps of the sort share: the entries stay, and their stages are quiet otherwise.
LEMMA SortFrame ==
  ASSUME WorkInv, stage \in Sorting, stage' \in Sorting \cup {"sorted"}, ListTypeOK',
         UNCHANGED <<n, storage, freed, before, collected, round>>,
         Clean(addrs', n, collected), Rearranged(addrs', before, n),
         CallsInv', PartInv', InsertInv'
  PROVE  WorkInv'
<1> USE DEF WorkInv, Sorting
<1>1. CleanInv' /\ FreedInv' /\ StorageInv' /\ OrderInv'
  BY DEF CleanInv, FreedInv, StorageInv, OrderInv
<1>2. MarkedInv' /\ SweepInv' /\ ShuffleInv' /\ SweepAsModelled' /\ ReadInv'
  BY DEF MarkedInv, SweepInv, ShuffleInv, SweepAsModelled, ReadInv
<1> QED BY <1>1, <1>2

LEMMA StepQuicksort ==
  ASSUME WorkInv, quicksort
  PROVE  WorkInv'
<1> DEFINE lo == calls[1].min
           hi == calls[1].max
           pivot == (hi + lo) \div 2
<1>1. /\ stage = "quicksort" /\ calls # <<>> /\ calls' = calls
      /\ UNCHANGED <<n, storage, freed, before, collected, round>>
  BY DEF quicksort
<1>2. /\ ListTypeOK /\ Ranged(calls, n) /\ Ordered(addrs, calls, n)
      /\ Clean(addrs, n, collected) /\ Rearranged(addrs, before, n)
  BY <1>1 DEF WorkInv, CallsInv, CleanInv, OrderInv, Sorting
<1>3. /\ lo \in Nat /\ hi \in Int /\ hi < n
      /\ lo..hi \subseteq 0..n-1 /\ lo..hi \subseteq 0..BufMax-1
  BY <1>1, <1>2, PresentCall
<1>4. CASE /\ hi - lo > SORT_THRESHOLD /\ stage' = "partition"
           /\ pivot_val' = addrs[pivot] /\ addrs' = swap(addrs, pivot, hi)
           /\ idx' = lo /\ dst' = lo
  <2> HIDE DEF lo, hi
  <2>1. lo < hi /\ pivot \in lo..hi /\ hi \in lo..hi
    BY <1>3, <1>4, Sizes
  <2> HIDE DEF pivot
  <2>2. pivot \in 0..n-1 /\ hi \in 0..n-1
    BY <1>3, <2>1
  <2>3. /\ addrs' \in [0..BufMax-1 -> Nat] /\ Exchanged(addrs', addrs, 0..BufMax-1, pivot, hi)
        /\ Clean(addrs', n, collected) /\ Rearranged(addrs', before, n)
    BY <2>2, <1>2, <1>4, ArrayTypes, SwapKeeps
  <2>4. Ordered(addrs', calls, n)
    BY <2>1, <2>3, <1>1, <1>2, ArrayTypes, OrderedSwap DEF lo, hi
  <2>5. addrs'[hi] = addrs[pivot] /\ addrs[pivot] \in Nat
    BY <2>2, <2>3, <1>2, ArrayTypes DEF Exchanged
  <2>6. Parted(addrs', lo, hi, lo, lo, pivot_val')
    BY <2>1, <2>5, <1>3, <1>4 DEF Parted
  <2>7. ListTypeOK'
    BY <2>3, <2>5, <1>1, <1>2, <1>3, <1>4 DEF ListTypeOK
  <2>8. CallsInv' /\ PartInv' /\ InsertInv'
    BY <2>4, <2>6, <1>1, <1>2, <1>4 DEF CallsInv, PartInv, InsertInv, Sorting, lo, hi
  <2> QED BY <2>3, <2>7, <2>8, <1>1, <1>4, SortFrame DEF Sorting
<1>5. CASE /\ hi - lo <= SORT_THRESHOLD /\ stage' = "insertion"
           /\ idx' = lo + 1 /\ dst' = lo + 1 /\ UNCHANGED <<addrs, pivot_val>>
  <2> HIDE DEF lo, hi
  <2>1. Inserted(addrs, lo, hi, lo + 1, lo + 1)
    BY <1>3 DEF Inserted
  <2>2. ListTypeOK'
    BY <1>1, <1>2, <1>3, <1>5 DEF ListTypeOK
  <2>3. CallsInv' /\ PartInv' /\ InsertInv'
    BY <2>1, <1>1, <1>2, <1>5 DEF CallsInv, PartInv, InsertInv, Sorting, lo, hi
  <2> QED BY <2>2, <2>3, <1>1, <1>2, <1>5, SortFrame DEF Sorting
<1> QED BY <1>4, <1>5 DEF quicksort

LEMMA StepPartition ==
  ASSUME WorkInv, partition
  PROVE  WorkInv'
<1> DEFINE lo == calls[1].min
           hi == calls[1].max
<1>1. /\ stage = "partition" /\ idx < hi /\ UNCHANGED <<stage, calls, pivot_val>>
      /\ idx' = idx + 1 /\ UNCHANGED <<n, storage, freed, before, collected, round>>
  BY DEF partition
<1>2. /\ ListTypeOK /\ Ranged(calls, n) /\ Ordered(addrs, calls, n) /\ calls # <<>>
      /\ Clean(addrs, n, collected) /\ Rearranged(addrs, before, n)
      /\ Parted(addrs, lo, hi, idx, dst, pivot_val)
  BY <1>1 DEF WorkInv, CallsInv, CleanInv, OrderInv, PartInv, Sorting
<1>3. /\ lo \in Nat /\ hi \in Int /\ hi < n
      /\ lo..hi \subseteq 0..n-1 /\ lo..hi \subseteq 0..BufMax-1
  BY <1>1, <1>2, PresentCall
<1>4. idx \in lo..hi /\ dst \in lo..hi
  BY <1>1, <1>2, <1>3, ArrayTypes DEF Parted
<1>5. CASE addrs[idx] <= pivot_val /\ addrs' = swap(addrs, idx, dst) /\ dst' = dst + 1
  <2>1. idx \in 0..n-1 /\ dst \in 0..n-1
    BY <1>3, <1>4
  <2>2. /\ addrs' \in [0..BufMax-1 -> Nat] /\ Exchanged(addrs', addrs, 0..BufMax-1, idx, dst)
        /\ Clean(addrs', n, collected) /\ Rearranged(addrs', before, n)
    BY <2>1, <1>2, <1>5, ArrayTypes, SwapKeeps
  <2>3. Ordered(addrs', calls, n)
    BY <2>2, <1>2, <1>4, ArrayTypes, OrderedSwap
  <2> HIDE DEF lo, hi
  <2>4. Parted(addrs', lo, hi, idx + 1, dst + 1, pivot_val)
    BY <2>2, <1>1, <1>2, <1>3, <1>5, ArrayTypes, PartStep
  <2>5. ListTypeOK'
    BY <2>2, <1>1, <1>2, <1>5 DEF ListTypeOK
  <2>6. CallsInv' /\ PartInv' /\ InsertInv'
    BY <2>3, <2>4, <1>1, <1>2, <1>5 DEF CallsInv, PartInv, InsertInv, Sorting, lo, hi
  <2> QED BY <2>2, <2>5, <2>6, <1>1, SortFrame DEF Sorting
<1>6. CASE ~(addrs[idx] <= pivot_val) /\ UNCHANGED <<addrs, dst>>
  <2> HIDE DEF lo, hi
  <2>0. addrs[idx] \in Nat
    BY <1>2, <1>3, <1>4, ArrayTypes
  <2>1. Parted(addrs, lo, hi, idx + 1, dst, pivot_val)
    <3>1. pivot_val < addrs[idx]
      BY <2>0, <1>2, <1>6, ArrayTypes
    <3> QED BY <3>1, <1>1, <1>2, <1>3, <1>6, ArrayTypes, PartSkip
  <2>2. ListTypeOK'
    BY <1>1, <1>2, <1>6 DEF ListTypeOK
  <2>3. CallsInv' /\ PartInv' /\ InsertInv'
    BY <2>1, <1>1, <1>2, <1>6 DEF CallsInv, PartInv, InsertInv, Sorting, lo, hi
  <2> QED BY <2>2, <2>3, <1>1, <1>2, <1>6, SortFrame DEF Sorting
<1> QED BY <1>5, <1>6 DEF partition

LEMMA StepPartitioned ==
  ASSUME WorkInv, partitioned
  PROVE  WorkInv'
<1> DEFINE lo == calls[1].min
           hi == calls[1].max
<1>1. /\ stage = "partition" /\ idx = hi /\ stage' = "quicksort"
      /\ addrs' = swap(addrs, dst, hi) /\ idx' = 0 /\ dst' = 0 /\ pivot_val' = 0
      /\ calls' = <<[min |-> lo, max |-> dst - 1], [min |-> dst + 1, max |-> hi]>>
                  \o Tail(calls)
      /\ UNCHANGED <<n, storage, freed, before, collected, round>>
  BY DEF partitioned, Placed
<1>2. /\ ListTypeOK /\ Ranged(calls, n) /\ Ordered(addrs, calls, n) /\ calls # <<>>
      /\ Clean(addrs, n, collected) /\ Rearranged(addrs, before, n)
      /\ Parted(addrs, lo, hi, hi, dst, pivot_val)
  BY <1>1 DEF WorkInv, CallsInv, CleanInv, OrderInv, PartInv, Sorting
<1>3. /\ lo \in Nat /\ hi \in Int /\ hi < n
      /\ lo..hi \subseteq 0..n-1 /\ lo..hi \subseteq 0..BufMax-1
  BY <1>1, <1>2, PresentCall
<1>4. hi \in lo..hi /\ dst \in lo..hi
  BY <1>2, <1>3, ArrayTypes DEF Parted
<1>5. hi \in 0..n-1 /\ dst \in 0..n-1
  BY <1>3, <1>4
<1>6. /\ addrs' \in [0..BufMax-1 -> Nat] /\ Exchanged(addrs', addrs, 0..BufMax-1, dst, hi)
      /\ Clean(addrs', n, collected) /\ Rearranged(addrs', before, n)
  <2> HIDE DEF lo, hi
  <2> QED BY <1>1, <1>2, <1>5, ArrayTypes, SwapKeeps
<1>7. Ordered(addrs', calls, n)
  BY <1>2, <1>4, <1>6, ArrayTypes, OrderedSwap
<1>8. (\A k \in lo..dst : addrs'[k] <= pivot_val) /\ (\A k \in dst..hi : pivot_val <= addrs'[k])
  <2> HIDE DEF lo, hi
  <2>1. \A k \in lo..hi : addrs[k] \in Nat
    BY <1>2, <1>3, ArrayTypes
  <2> QED BY <2>1, <1>2, <1>3, <1>6, ArrayTypes, PartEnd
<1>9. calls' \in Seq(Call) /\ Ranged(calls', n) /\ Ordered(addrs', calls', n)
  <2>1. \A k \in 0..n-1 : addrs'[k] \in Nat
    BY <1>2, <1>6, ArrayTypes
  <2> HIDE DEF lo, hi
  <2>2. lo = calls[1].min /\ hi = calls[1].max
    BY DEF lo, hi
  <2> QED BY <2>1, <2>2, <1>1, <1>2, <1>3, <1>4, <1>7, <1>8, ArrayTypes, SplitCalls
<1> HIDE DEF lo, hi
<1>10. ListTypeOK'
  BY <1>1, <1>2, <1>6, <1>9 DEF ListTypeOK
<1>11. CallsInv' /\ PartInv' /\ InsertInv'
  BY <1>1, <1>9 DEF CallsInv, PartInv, InsertInv
<1> QED BY <1>1, <1>6, <1>10, <1>11, SortFrame DEF Sorting

LEMMA StepInsertion ==
  ASSUME WorkInv, insertion_sort
  PROVE  WorkInv'
<1> DEFINE lo == calls[1].min
           hi == calls[1].max
<1>1. /\ stage = "insertion" /\ idx <= hi /\ UNCHANGED <<stage, calls, pivot_val>>
      /\ UNCHANGED <<n, storage, freed, before, collected, round>>
  BY DEF insertion_sort
<1>2. /\ ListTypeOK /\ Ranged(calls, n) /\ Ordered(addrs, calls, n) /\ calls # <<>>
      /\ Clean(addrs, n, collected) /\ Rearranged(addrs, before, n)
      /\ Inserted(addrs, lo, hi, idx, dst)
  BY <1>1 DEF WorkInv, CallsInv, CleanInv, OrderInv, InsertInv, Sorting
<1>3. /\ lo \in Nat /\ hi \in Int /\ hi < n
      /\ lo..hi \subseteq 0..n-1 /\ lo..hi \subseteq 0..BufMax-1
  BY <1>1, <1>2, PresentCall
<1>4. dst \in lo..hi /\ \A k \in lo..hi : addrs[k] \in Nat
  BY <1>1, <1>2, <1>3, ArrayTypes DEF Inserted
<1>5. CASE /\ dst > 0 /\ addrs[dst-1] > addrs[dst]
           /\ addrs' = swap(addrs, dst, dst-1) /\ dst' = dst - 1 /\ UNCHANGED idx
  <2>1. lo < dst
    <3>1. ASSUME dst = lo PROVE FALSE
      <4>1. \A p \in 0..lo-1 : addrs[p] <= addrs[dst]
        BY <1>2, <1>4, ArrayTypes, Outside
      <4>2. dst - 1 \in 0..lo-1 /\ dst - 1 \in 0..n-1 /\ dst \in 0..n-1
        <5> HIDE DEF lo, hi
        <5>1. dst \in 0..n-1 /\ dst \in Nat /\ n \in Nat
          BY <1>2, <1>3, <1>4, ArrayTypes
        <5> QED BY <5>1, <3>1, <1>3, <1>5
      <4>3. addrs[dst-1] <= addrs[dst] /\ addrs[dst-1] \in Nat /\ addrs[dst] \in Nat
        BY <4>1, <4>2, <1>2, ArrayTypes
      <4> QED BY <4>3, <1>5
    <3> QED BY <3>1, <1>3, <1>4
  <2>2. dst - 1 \in lo..hi
    BY <2>1, <1>3, <1>4
  <2>3. dst \in 0..n-1 /\ dst - 1 \in 0..n-1
    BY <2>2, <1>3, <1>4
  <2>4. /\ addrs' \in [0..BufMax-1 -> Nat]
        /\ Exchanged(addrs', addrs, 0..BufMax-1, dst, dst - 1)
        /\ Clean(addrs', n, collected) /\ Rearranged(addrs', before, n)
    BY <2>3, <1>2, <1>5, ArrayTypes, SwapKeeps
  <2>5. Ordered(addrs', calls, n)
    BY <2>2, <2>4, <1>2, <1>4, ArrayTypes, OrderedSwap
  <2> HIDE DEF lo, hi
  <2>6. Inserted(addrs', lo, hi, idx, dst - 1)
    <3>1. addrs[dst] < addrs[dst-1]
      BY <2>2, <1>4, <1>5
    <3> QED BY <2>1, <2>4, <3>1, <1>1, <1>2, <1>3, <1>4, ArrayTypes, InsertMove
  <2>7. ListTypeOK'
    BY <2>3, <2>4, <1>1, <1>2, <1>5 DEF ListTypeOK
  <2>8. CallsInv' /\ PartInv' /\ InsertInv'
    BY <2>5, <2>6, <1>1, <1>2, <1>5 DEF CallsInv, PartInv, InsertInv, Sorting, lo, hi
  <2> QED BY <2>4, <2>7, <2>8, <1>1, SortFrame DEF Sorting
<1>6. CASE /\ ~(dst > 0 /\ addrs[dst-1] > addrs[dst])
           /\ idx' = idx + 1 /\ dst' = idx + 1 /\ UNCHANGED addrs
  <2> HIDE DEF lo, hi
  <2>1. ASSUME lo < dst PROVE addrs[dst-1] <= addrs[dst]
    <3>1. dst - 1 \in lo..hi /\ dst > 0
      BY <2>1, <1>3, <1>4
    <3> QED BY <3>1, <1>4, <1>6
  <2>2. Inserted(addrs, lo, hi, idx + 1, idx + 1)
    BY <2>1, <1>1, <1>2, <1>3, <1>4, ArrayTypes, InsertNext
  <2>3. ListTypeOK'
    BY <1>1, <1>2, <1>6 DEF ListTypeOK
  <2>4. CallsInv' /\ PartInv' /\ InsertInv'
    BY <2>2, <1>1, <1>2, <1>6 DEF CallsInv, PartInv, InsertInv, Sorting, lo, hi
  <2> QED BY <2>3, <2>4, <1>1, <1>2, <1>6, SortFrame DEF Sorting
<1> QED BY <1>5, <1>6 DEF insertion_sort

LEMMA StepInserted ==
  ASSUME WorkInv, insertion_sorted
  PROVE  WorkInv'
<1> DEFINE lo == calls[1].min
           hi == calls[1].max
<1>1. /\ stage = "insertion" /\ idx > hi /\ calls' = Tail(calls) /\ idx' = 0 /\ dst' = 0
      /\ stage' = IF Tail(calls) = <<>> THEN "sorted" ELSE "quicksort"
      /\ UNCHANGED <<addrs, pivot_val>>
      /\ UNCHANGED <<n, storage, freed, before, collected, round>>
  BY DEF insertion_sorted
<1>2. /\ ListTypeOK /\ Ranged(calls, n) /\ Ordered(addrs, calls, n) /\ calls # <<>>
      /\ Clean(addrs, n, collected) /\ Rearranged(addrs, before, n)
      /\ Inserted(addrs, lo, hi, idx, dst)
  BY <1>1 DEF WorkInv, CallsInv, CleanInv, OrderInv, InsertInv, Sorting
<1>3. lo \in Nat /\ hi \in Int
  BY <1>1, <1>2, PresentCall
<1>4. \A p, q \in lo..hi : p < q => addrs[p] <= addrs[q]
  <2> HIDE DEF lo, hi
  <2>1. dst = idx /\ idx \in Nat
    BY <1>1, <1>2, ArrayTypes DEF Inserted
  <2>2. \A p, q \in lo..idx : p < q /\ q <= hi /\ q # dst => addrs[p] <= addrs[q]
    BY <1>2 DEF Inserted
  <2> QED BY <2>1, <2>2, <1>1, <1>3
<1>5. calls' \in Seq(Call) /\ Ranged(calls', n) /\ Ordered(addrs, calls', n)
  BY <1>1, <1>2, <1>4, ArrayTypes, PopCalls
<1> HIDE DEF lo, hi
<1>6. ListTypeOK'
  BY <1>1, <1>2, <1>5 DEF ListTypeOK
<1>7. CallsInv' /\ PartInv' /\ InsertInv'
  BY <1>1, <1>5 DEF CallsInv, PartInv, InsertInv
<1> QED BY <1>1, <1>2, <1>6, <1>7, SortFrame DEF Sorting

-----------------------------------------------------------------------------
(* The steps of the sweep.                                                  *)

LEMMA StepSearch ==
  ASSUME WorkInv, do_search
  PROVE  WorkInv'
<1>1. /\ stage = "sorted" /\ stage' = "searched" /\ before' = List
      /\ UNCHANGED <<n, calls, idx, dst, pivot_val, storage, freed, collected, round>>
  BY DEF do_search, loopVars
<1>2. /\ ListTypeOK /\ calls = <<>> /\ Ordered(addrs, calls, n) /\ Clean(addrs, n, collected)
      /\ freed = <<>>
  BY <1>1 DEF WorkInv, CallsInv, CleanInv, FreedInv
<1>3. PICK found \in SUBSET (ToSet(List) \ {0}) : \E zero \in BOOLEAN :
          /\ zero => n > 0 /\ addrs[0] = 0
          /\ addrs' = [k \in 0..BufMax-1 |->
                 IF addrs[k] \in found \/ (zero /\ k = 0) THEN addrs[k] + 1 ELSE addrs[k]]
  BY DEF do_search
<1>4. PICK zero \in BOOLEAN :
          /\ zero => n > 0 /\ addrs[0] = 0
          /\ addrs' = [k \in 0..BufMax-1 |->
                 IF addrs[k] \in found \/ (zero /\ k = 0) THEN addrs[k] + 1 ELSE addrs[k]]
  BY <1>3
<1>5. addrs' \in [0..BufMax-1 -> Nat]
  BY <1>2, <1>4, ArrayTypes
<1>6. \A k \in 0..n-1 :
         addrs'[k] = IF addrs[k] \in found \/ (zero /\ k = 0) THEN addrs[k] + 1 ELSE addrs[k]
  BY <1>2, <1>4, ArrayTypes
<1>7. ASSUME NEW k \in 0..n-1
      PROVE  /\ addrs[k] \in Nat /\ addrs[k] % 4 = 0 /\ addrs[k] \in collected \cup {0}
  <2>1. collected \subseteq Addresses
    BY <1>2 DEF ListTypeOK
  <2>2. addrs[k] \in Nat /\ addrs[k] \in collected \cup {0}
    BY <1>2, ArrayTypes DEF Clean
  <2>3. addrs[k] = 0 => addrs[k] % 4 = 0
    BY SMT
  <2> QED BY <2>1, <2>2, <2>3, Sizes
<1>8. ASSUME NEW k \in 0..n-1
      PROVE  /\ addrs'[k] \in Nat /\ addrs'[k] % 4 \in {0, 1}
             /\ PTR_MASK(addrs'[k]) = addrs[k]
             /\ addrs'[k] = 1 => k = 0
  <2>1. PICK w \in Nat : w = addrs[k]
    BY <1>7
  <2>2. w % 4 = 0
    BY <2>1, <1>7
  <2>3. (w + 1) % 4 = 1 /\ w # 1
    BY <2>2
  <2>4. PTR_MASK(w) = w /\ PTR_MASK(w + 1) = w
    BY <2>2, <2>3 DEF PTR_MASK
  <2>5. w = 0 => w \notin found
    BY <1>3
  <2> QED BY <2>1, <2>2, <2>3, <2>4, <2>5, <1>6
<1>9. ASSUME NEW j \in 0..n-1, NEW k \in 0..n-1, j < k
      PROVE  addrs[j] < addrs[k] \/ (addrs[j] = 0 /\ addrs[k] = 0)
  <2>1. ~Pending(calls, j, k)
    BY <1>2 DEF Pending
  <2>2. addrs[j] <= addrs[k]
    BY <2>1, <1>2, <1>9 DEF Ordered
  <2>3. addrs[j] = addrs[k] => addrs[j] = 0
    BY <1>2, <1>9 DEF Clean
  <2> QED BY <2>2, <2>3, <1>7
<1>10. MarkedList(List', n, collected)
  <2>1. \A k \in 1..n : k - 1 \in 0..n-1 /\ (List')[k] = addrs'[k-1]
    BY <1>1, <1>2, ArrayTypes DEF List
  <2>2. PICK s : s = List'
    OBVIOUS
  <2>3. \A k \in 1..n : /\ s[k] \in Nat /\ s[k] % 4 \in {0, 1}
                        /\ PTR_MASK(s[k]) = addrs[k-1] /\ (s[k] = 1 => k = 1)
    <3> TAKE k \in 1..n
    <3>1. k - 1 = 0 => k = 1
      OBVIOUS
    <3> QED BY <2>1, <2>2, <3>1, <1>8
  <2>4. \A k \in 1..n : PTR_MASK(s[k]) \in collected \cup {0}
    BY <2>1, <2>3, <1>7
  <2>5. ASSUME NEW j \in 1..n, NEW k \in 1..n, j < k
        PROVE  PTR_MASK(s[j]) < PTR_MASK(s[k]) \/ (PTR_MASK(s[j]) = 0 /\ PTR_MASK(s[k]) = 0)
    <3>1. j - 1 < k - 1
      BY <2>5
    <3> QED BY <2>1, <2>3, <3>1, <1>9
  <2> QED BY <2>2, <2>3, <2>4, <2>5 DEF MarkedList
<1>11. ListTypeOK'
  BY <1>1, <1>2, <1>5, ListIs DEF ListTypeOK
<1>12. MarkedInv'
  BY <1>1, <1>10 DEF MarkedInv
<1>13. FreedInv' /\ StorageInv'
  BY <1>1 DEF WorkInv, FreedInv, StorageInv
<1>14. /\ CleanInv' /\ OrderInv' /\ CallsInv' /\ PartInv' /\ InsertInv' /\ SweepInv'
       /\ ShuffleInv' /\ SweepAsModelled' /\ ReadInv'
  BY <1>1 DEF CleanInv, OrderInv, CallsInv, PartInv, InsertInv, SweepInv, ShuffleInv,
              SweepAsModelled, ReadInv, Sorting
<1> QED BY <1>11, <1>12, <1>13, <1>14 DEF WorkInv

LEMMA StepSweepBegins ==
  ASSUME WorkInv, handle_unreferenced
  PROVE  WorkInv'
<1>1. /\ stage = "searched" /\ stage' = "sweep" /\ idx' = 0 /\ dst' = 0 /\ before' = List
      /\ UNCHANGED <<addrs, n, calls, pivot_val, storage, freed, collected, round>>
  BY DEF handle_unreferenced
<1>2. ListTypeOK /\ MarkedList(List, n, collected) /\ freed = <<>>
  BY <1>1 DEF WorkInv, MarkedInv, FreedInv
<1>3. ListTypeOK'
  BY <1>1, <1>2, ListIs DEF ListTypeOK
<1>4. MarkedInv'
  BY <1>1, <1>2, ListIs DEF MarkedInv
<1>5. SweepInv'
  <2>1. Odds(List, 0) = {}
    BY DEF Odds
  <2>2. Counted(List, 0, 0)
    BY <2>1, FS_EmptySet DEF Counted
  <2>3. KeptUpTo(List, addrs, 0, 0)
    BY DEF KeptUpTo
  <2>4. FreedUpTo(List, <<>>, 0)
    BY DEF FreedUpTo
  <2>5. \A k \in 0..n-1 : addrs[k] = List[k+1]
    BY <1>2, ListIs
  <2> QED BY <2>2, <2>3, <2>4, <2>5, <1>1, <1>2, ArrayTypes DEF SweepInv
<1>6. StorageInv'
  BY <1>1 DEF WorkInv, StorageInv
<1>7. /\ CleanInv' /\ FreedInv' /\ OrderInv' /\ CallsInv' /\ PartInv' /\ InsertInv'
      /\ ShuffleInv' /\ SweepAsModelled' /\ ReadInv'
  BY <1>1 DEF CleanInv, FreedInv, OrderInv, CallsInv, PartInv, InsertInv, ShuffleInv,
              SweepAsModelled, ReadInv, Sorting
<1> QED BY <1>3, <1>4, <1>5, <1>6, <1>7 DEF WorkInv

LEMMA StepSweep ==
  ASSUME WorkInv, handle_unreferenced_ptrs
  PROVE  WorkInv'
<1>1. /\ stage = "sweep" /\ idx < n /\ idx' = idx + 1
      /\ UNCHANGED <<stage, n, calls, pivot_val, storage, before, collected, round>>
  BY DEF handle_unreferenced_ptrs
<1>2. /\ ListTypeOK /\ MarkedList(before, n, collected) /\ DOMAIN before = 1..n
      /\ Counted(before, idx, dst) /\ \A k \in idx..n-1 : addrs[k] = before[k+1]
      /\ KeptUpTo(before, addrs, idx, dst) /\ FreedUpTo(before, freed, idx)
  BY <1>1 DEF WorkInv, MarkedInv, SweepInv
<1>3. /\ idx \in Nat /\ dst \in Nat /\ n \in Nat /\ dst <= idx /\ n <= BufMax
      /\ idx \in 0..BufMax-1 /\ dst \in 0..BufMax-1 /\ idx + 1 \in 1..n
      /\ addrs \in [0..BufMax-1 -> Nat] /\ freed \in Seq(Nat)
  BY <1>1, <1>2, Sizes DEF ListTypeOK, Counted
<1>4. addrs[idx] = before[idx + 1]
  BY <1>1, <1>2, <1>3
<1>5. /\ PTR_MASK(before[idx + 1]) \in Nat /\ before[idx + 1] \in Nat
  BY <1>2, <1>3, MarkedFacts
<1>6. ASSUME
           /\ addrs[idx] % 2 = 1
           /\ addrs' = [[addrs EXCEPT ![dst] = PTR_MASK(addrs[idx])] EXCEPT ![idx] = 0]
           /\ dst' = dst + 1 /\ UNCHANGED freed
      PROVE ListTypeOK' /\ SweepInv'
  <2>1. IsOdd(before, idx + 1)
    BY <1>4, <1>6 DEF IsOdd
  <2>2. addrs' \in [0..BufMax-1 -> Nat]
    BY <1>3, <1>4, <1>5, <1>6
  <2>3. /\ addrs'[idx] = 0 /\ (dst < idx => addrs'[dst] = PTR_MASK(before[idx + 1]))
        /\ \A k \in 0..BufMax-1 : k # idx /\ k # dst => addrs'[k] = addrs[k]
    BY <1>3, <1>4, <1>6
  <2>4. \A k \in 0..dst-1 : addrs'[k] = addrs[k]
    BY <2>3, <1>3, Sizes
  <2>5. \A k \in idx+1..n-1 : addrs'[k] = before[k+1]
    <3>1. ASSUME NEW k \in idx+1..n-1
          PROVE  k \in 0..BufMax-1 /\ k \in idx..n-1 /\ k # idx /\ k # dst
      BY <1>3, Sizes
    <3> QED BY <3>1, <2>3, <1>2
  <2>6. KeptUpTo(before, addrs', idx + 1, dst + 1)
    BY <2>1, <2>3, <2>4, <1>1, <1>2, <1>3, KeepOdd
  <2>7. Counted(before, idx + 1, dst + 1)
    BY <2>1, <1>2, <1>3, CountOdd
  <2>8. FreedUpTo(before, freed, idx + 1)
    BY <2>1, <1>2, <1>3, FreeOdd
  <2>9. ListTypeOK'
    BY <2>2, <1>1, <1>2, <1>3, <1>6 DEF ListTypeOK
  <2>10. SweepInv'
    <3>1. dst' = dst + 1 /\ freed' = freed
      BY <1>6
    <3> QED BY <2>5, <2>6, <2>7, <2>8, <3>1, <1>1, <1>3 DEF SweepInv
  <2> QED BY <2>9, <2>10
<1>7. ASSUME
           /\ addrs[idx] % 2 = 0 /\ freed' = Append(freed, addrs[idx])
           /\ addrs' = [addrs EXCEPT ![idx] = 0] /\ UNCHANGED dst
      PROVE ListTypeOK' /\ SweepInv'
  <2>1. ~IsOdd(before, idx + 1)
    BY <1>4, <1>7 DEF IsOdd
  <2>2. addrs' \in [0..BufMax-1 -> Nat] /\ freed' \in Seq(Nat)
    BY <1>3, <1>4, <1>5, <1>7
  <2>3. \A k \in 0..BufMax-1 : k # idx => addrs'[k] = addrs[k]
    BY <1>3, <1>7
  <2>4. \A k \in 0..dst-1 : addrs'[k] = addrs[k]
    BY <2>3, <1>3, Sizes
  <2>5. \A k \in idx+1..n-1 : addrs'[k] = before[k+1]
    <3>1. ASSUME NEW k \in idx+1..n-1
          PROVE  k \in 0..BufMax-1 /\ k \in idx..n-1 /\ k # idx /\ k # dst
      BY <1>3, Sizes
    <3> QED BY <3>1, <2>3, <1>2
  <2>6. KeptUpTo(before, addrs', idx + 1, dst)
    BY <2>1, <2>4, <1>2, <1>3, KeepEven
  <2>7. Counted(before, idx + 1, dst)
    BY <2>1, <1>2, <1>3, CountOdd
  <2>8. FreedUpTo(before, freed', idx + 1)
    BY <2>1, <1>1, <1>2, <1>3, <1>4, <1>7, FreeEven
  <2>9. ListTypeOK'
    BY <2>2, <1>1, <1>2, <1>3, <1>7 DEF ListTypeOK
  <2>10. SweepInv'
    BY <2>5, <2>6, <2>7, <2>8, <1>1, <1>3, <1>7 DEF SweepInv
  <2> QED BY <2>9, <2>10
<1>8. ListTypeOK' /\ SweepInv'
  BY <1>6, <1>7 DEF handle_unreferenced_ptrs
<1>9. StorageInv' /\ MarkedInv'
  BY <1>1, <1>2 DEF WorkInv, StorageInv, MarkedInv
<1>10. /\ CleanInv' /\ FreedInv' /\ OrderInv' /\ CallsInv' /\ PartInv' /\ InsertInv'
       /\ ShuffleInv' /\ SweepAsModelled' /\ ReadInv'
  BY <1>1 DEF CleanInv, FreedInv, OrderInv, CallsInv, PartInv, InsertInv, ShuffleInv,
              SweepAsModelled, ReadInv, Sorting
<1> QED BY <1>8, <1>9, <1>10 DEF WorkInv

LEMMA StepSwept ==
  ASSUME WorkInv, handled_unreferenced
  PROVE  WorkInv'
<1>1. /\ stage = "sweep" /\ idx = n /\ n' = dst /\ stage' = "swept" /\ idx' = 0 /\ dst' = 0
      /\ UNCHANGED <<addrs, calls, pivot_val, storage, freed, before, collected, round>>
  BY DEF handled_unreferenced
<1>2. /\ ListTypeOK /\ MarkedList(before, n, collected) /\ DOMAIN before = 1..n
      /\ Counted(before, n, dst) /\ KeptUpTo(before, addrs, n, dst)
      /\ FreedUpTo(before, freed, n)
  BY <1>1 DEF WorkInv, MarkedInv, SweepInv
<1>3. /\ n \in Nat /\ dst \in Nat /\ dst <= n /\ dst \in 0..BufMax
      /\ before \in Seq(Nat) /\ Len(before) = n /\ freed \in Seq(Nat)
  BY <1>1, <1>2, Sizes DEF ListTypeOK, Counted
<1>4. ListTypeOK'
  BY <1>1, <1>2, <1>3 DEF ListTypeOK
<1>5. Clean(addrs, dst, collected)
  <2>1. ASSUME NEW k \in 0..dst-1 PROVE addrs[k] \in collected \cup {0}
    <3>1. addrs[k] = 0 \/ \E y \in 1..n : addrs[k] = PTR_MASK(before[y])
      BY <1>2 DEF KeptUpTo
    <3> QED BY <3>1, <1>2 DEF MarkedList
  <2> QED BY <2>1, <1>2 DEF KeptUpTo, Clean
<1>6. SweepAsModelled'
  <2>0. PICK b : b = Abstract(before)
    OBVIOUS
  <2>1. Sees(before, n, b)
    BY <2>0, <1>3, AbstractSees
  <2>2. PICK l : l = [k \in 1..dst |-> addrs[k-1]]
    OBVIOUS
  <2>3. List' = l
    BY <2>2, <1>1 DEF List
  <2>4. Modelled(b, freed, l, dst)
    BY <2>1, <2>2, <1>2, <1>3, SweptIs
  <2>5. \A j, k \in 1..Len(freed) : freed[j] = freed[k] /\ freed[j] # 0 => j = k
    BY <1>2 DEF FreedUpTo
  <2> QED BY <2>0, <2>3, <2>4, <2>5, <1>1 DEF SweepAsModelled, Modelled
<1>7. CleanInv'
  BY <1>1, <1>5 DEF CleanInv
<1>8. StorageInv'
  BY <1>1 DEF WorkInv, StorageInv
<1>9. /\ FreedInv' /\ OrderInv' /\ MarkedInv' /\ CallsInv' /\ PartInv' /\ InsertInv'
      /\ SweepInv' /\ ShuffleInv' /\ ReadInv'
  BY <1>1 DEF FreedInv, OrderInv, MarkedInv, CallsInv, PartInv, InsertInv, SweepInv,
              ShuffleInv, ReadInv, Sorting
<1> QED BY <1>4, <1>6, <1>7, <1>8, <1>9 DEF WorkInv

-----------------------------------------------------------------------------
(* The shuffle, the stored block, and the next round.                       *)

LEMMA StepShuffleBegins ==
  ASSUME WorkInv, shuffle_remaining
  PROVE  WorkInv'
<1>1. /\ stage = "swept" /\ stage' = "shuffle" /\ idx' = 0 /\ before' = List
      /\ UNCHANGED <<addrs, n, calls, dst, pivot_val, storage, freed, collected, round>>
  BY DEF shuffle_remaining
<1>2. ListTypeOK /\ Clean(addrs, n, collected)
  BY <1>1 DEF WorkInv, CleanInv
<1>3. ListTypeOK'
  BY <1>1, <1>2, ListIs DEF ListTypeOK
<1>4. OrderInv'
  <2>1. Rearranged(addrs, List, n)
    BY <1>2, ListIs, ArrayTypes, RearrangedAtFirst
  <2> QED BY <2>1, <1>1, <1>2, ListIs DEF OrderInv
<1>5. CleanInv' /\ ShuffleInv'
  BY <1>1, <1>2, ArrayTypes DEF CleanInv, ShuffleInv
<1>6. StorageInv'
  BY <1>1 DEF WorkInv, StorageInv
<1>7. /\ FreedInv' /\ MarkedInv' /\ CallsInv' /\ PartInv' /\ InsertInv' /\ SweepInv'
      /\ SweepAsModelled' /\ ReadInv'
  BY <1>1 DEF FreedInv, MarkedInv, CallsInv, PartInv, InsertInv, SweepInv,
              SweepAsModelled, ReadInv, Sorting
<1> QED BY <1>3, <1>4, <1>5, <1>6, <1>7 DEF WorkInv

\* The index that the multiplication yields is one of the list.
LEMMA ShuffleIndex ==
  ASSUME NEW k \in Nat, NEW m \in Nat, m > 0
  PROVE  shuffle_index(k, m) \in 0..m-1
<1>1. \A z \in Int : z % m \in 0..m-1
  OBVIOUS
<1>2. PICK big \in Int : big = 2147483647
  BY SMT
<1>3. PICK half \in Int : half = 65536 % m
  BY SMT
<1>4. (big - (k - 1)) \in Int
  BY <1>2
<1>5. half * half - k \in Int
  BY <1>3
<1> QED BY <1>1, <1>2, <1>3, <1>4, <1>5, SMT DEF shuffle_index

LEMMA StepShuffle ==
  ASSUME WorkInv, util_randomize
  PROVE  WorkInv'
<1>1. /\ stage = "shuffle" /\ idx < n /\ addrs' = swap(addrs, idx, shuffle_index(idx, n))
      /\ idx' = idx + 1
      /\ UNCHANGED <<stage, n, calls, dst, pivot_val, storage, freed, before, collected,
                     round>>
  BY DEF util_randomize
<1>2. /\ ListTypeOK /\ Clean(addrs, n, collected) /\ DOMAIN before = 1..n
      /\ Rearranged(addrs, before, n)
  BY <1>1 DEF WorkInv, CleanInv, OrderInv
<1>3. idx \in Nat /\ n \in Nat /\ n > 0 /\ idx \in 0..n-1
  BY <1>1, <1>2, ArrayTypes
<1>4. PICK x : x = shuffle_index(idx, n)
  OBVIOUS
<1>5. x \in 0..n-1
  BY <1>3, <1>4, ShuffleIndex
<1>6. /\ addrs' \in [0..BufMax-1 -> Nat]
      /\ Clean(addrs', n, collected) /\ Rearranged(addrs', before, n)
  BY <1>1, <1>2, <1>3, <1>4, <1>5, ArrayTypes, SwapKeeps
<1>7. UNCHANGED <<stage, n, calls, dst, pivot_val, storage, freed, before, collected, round>>
      /\ idx' = idx + 1 /\ stage = "shuffle" /\ idx < n
  BY <1>1
<1>8. ListTypeOK'
  BY <1>2, <1>6, <1>7 DEF ListTypeOK
<1>9. CleanInv' /\ OrderInv' /\ ShuffleInv'
  BY <1>2, <1>3, <1>6, <1>7 DEF CleanInv, OrderInv, ShuffleInv
<1>10. StorageInv'
  BY <1>7 DEF WorkInv, StorageInv
<1>11. /\ FreedInv' /\ MarkedInv' /\ CallsInv' /\ PartInv' /\ InsertInv' /\ SweepInv'
       /\ SweepAsModelled' /\ ReadInv'
  BY <1>7 DEF FreedInv, MarkedInv, CallsInv, PartInv, InsertInv, SweepInv,
              SweepAsModelled, ReadInv, Sorting
<1> QED BY <1>8, <1>9, <1>10, <1>11 DEF WorkInv

LEMMA StepShuffled ==
  ASSUME WorkInv, shuffled_remaining
  PROVE  WorkInv'
<1>1. /\ stage = "shuffle" /\ stage' = "shuffled" /\ idx' = 0
      /\ UNCHANGED <<addrs, n, calls, dst, pivot_val, storage, freed, before, collected,
                     round>>
  BY DEF shuffled_remaining
<1>2. ListTypeOK' /\ CleanInv' /\ OrderInv' /\ StorageInv'
  BY <1>1 DEF WorkInv, ListTypeOK, CleanInv, OrderInv, StorageInv
<1>3. /\ FreedInv' /\ MarkedInv' /\ CallsInv' /\ PartInv' /\ InsertInv' /\ SweepInv'
      /\ ShuffleInv' /\ SweepAsModelled' /\ ReadInv'
  BY <1>1 DEF FreedInv, MarkedInv, CallsInv, PartInv, InsertInv, SweepInv, ShuffleInv,
              SweepAsModelled, ReadInv, Sorting
<1> QED BY <1>2, <1>3 DEF WorkInv

\* Where the entry k of a stored block was in the list.
CameFrom(m, k) == IF m = 1 THEN 0 ELSE IF k + 2 < m THEN k + 2 ELSE k + 2 - m

\* The words of the block are the entries of the list, moved round by two.
LEMMA BlockIs ==
  ASSUME NEW m \in Nat, m > 0, m + 2 <= BufMax, NEW a \in [0..BufMax-1 -> Nat]
  PROVE  /\ to_storage(a, m).length = m
         /\ to_storage(a, m).words \in [1..BufMax -> Nat]
         /\ \A k \in 0..m-1 : /\ CameFrom(m, k) \in 0..m-1
                              /\ to_storage(a, m).words[k+3] = a[CameFrom(m, k)]
<1>1. BufMax \in Nat
  BY Sizes
<1>2. /\ to_storage(a, m).length = m
      /\ to_storage(a, m).words = [k \in 1..BufMax |-> IF k <= 2 THEN 0 ELSE Moved(a, m)[k-1]]
  BY DEF to_storage
<1>3. PICK one : one = [a EXCEPT ![m] = a[0]]
  OBVIOUS
<1>4. PICK b : b = Moved(a, m)
  OBVIOUS
<1>5. b = [one EXCEPT ![m+1] = one[1]]
  BY <1>3, <1>4 DEF Moved
<1>6. 0 \in 0..BufMax-1 /\ 1 \in 0..BufMax-1 /\ m \in 0..BufMax-1 /\ m + 1 \in 0..BufMax-1
  BY <1>1
<1>7. /\ one \in [0..BufMax-1 -> Nat] /\ one[m] = a[0]
      /\ \A k \in 0..BufMax-1 : k # m => one[k] = a[k]
  BY <1>3, <1>6
<1>8. /\ b \in [0..BufMax-1 -> Nat] /\ b[m+1] = one[1]
      /\ \A k \in 0..BufMax-1 : k # m + 1 => b[k] = one[k]
  BY <1>5, <1>6, <1>7
<1>9. to_storage(a, m).words \in [1..BufMax -> Nat]
  <2>1. \A k \in 1..BufMax : k - 1 \in 0..BufMax-1 /\ b[k-1] \in Nat
    BY <1>1, <1>8
  <2> QED BY <2>1, <1>2, <1>4
<1>10. ASSUME NEW k \in 0..m-1
       PROVE  /\ CameFrom(m, k) \in 0..m-1
              /\ to_storage(a, m).words[k+3] = a[CameFrom(m, k)]
  <2>1. to_storage(a, m).words[k+3] = b[k+2]
    <3>1. k + 3 \in 1..BufMax /\ ~(k + 3 <= 2) /\ (k + 3) - 1 = k + 2
      BY <1>1
    <3> QED BY <3>1, <1>2, <1>4
  <2>2. CASE m = 1
    <3>1. k = 0 /\ CameFrom(m, k) = 0 /\ m + 1 = 2
      BY <2>2 DEF CameFrom
    <3> QED BY <2>1, <2>2, <3>1, <1>7, <1>8
  <2>3. CASE m # 1 /\ k + 2 < m
    <3>1. CameFrom(m, k) = k + 2 /\ k + 2 \in 0..BufMax-1
      BY <2>3, <1>1 DEF CameFrom
    <3> QED BY <2>1, <2>3, <3>1, <1>7, <1>8
  <2>4. CASE m # 1 /\ k + 2 = m
    <3>1. CameFrom(m, k) = 0
      BY <2>4 DEF CameFrom
    <3> QED BY <2>1, <2>4, <3>1, <1>6, <1>7, <1>8
  <2>5. CASE m # 1 /\ k + 2 = m + 1
    <3>1. CameFrom(m, k) = 1
      BY <2>5 DEF CameFrom
    <3> QED BY <2>1, <2>5, <3>1, <1>6, <1>7, <1>8
  <2> QED BY <2>2, <2>3, <2>4, <2>5
<1> QED BY <1>2, <1>9, <1>10

LEMMA BlockRearranged ==
  ASSUME NEW m \in Nat, m > 0, NEW a, NEW b, NEW s, NEW C,
         \A k \in 0..m-1 : b[k] = a[CameFrom(m, k)], \A k \in 0..m-1 : s[k+1] = a[k],
         Clean(a, m, C)
  PROVE  Rearranged(b, s, m) /\ Clean(b, m, C)
<1>1. PICK p : p = [k \in 0..m-1 |-> CameFrom(m, k) + 1]
  OBVIOUS
<1>2. \A k \in 0..m-1 : CameFrom(m, k) \in 0..m-1 /\ p[k] = CameFrom(m, k) + 1
  BY <1>1 DEF CameFrom
<1>3. \A j, k \in 0..m-1 : CameFrom(m, j) = CameFrom(m, k) => j = k
  BY DEF CameFrom
<1>4. OneToOne(p, 0..m-1, 1..m)
  <2>1. p \in [0..m-1 -> 1..m]
    BY <1>1, <1>2
  <2>2. \A j, k \in 0..m-1 : p[j] = p[k] => j = k
    BY <1>2, <1>3
  <2>3. ASSUME NEW z \in 1..m PROVE \E k \in 0..m-1 : p[k] = z
    <3>1. CASE m = 1
      <4>1. z = 1 /\ 0 \in 0..m-1 /\ CameFrom(m, 0) = 0
        BY <3>1 DEF CameFrom
      <4> QED BY <4>1, <1>2
    <3>2. CASE m # 1 /\ z >= 3
      <4>1. z - 3 \in 0..m-1 /\ CameFrom(m, z - 3) = z - 1
        BY <3>2 DEF CameFrom
      <4> QED BY <4>1, <1>2
    <3>3. CASE m # 1 /\ z < 3
      <4>1. z + m - 3 \in 0..m-1 /\ CameFrom(m, z + m - 3) = z - 1
        BY <3>3 DEF CameFrom
      <4> QED BY <4>1, <1>2
    <3> QED BY <3>1, <3>2, <3>3
  <2> QED BY <2>1, <2>2, <2>3 DEF OneToOne
<1>5. \A k \in 0..m-1 : b[k] = s[p[k]]
  BY <1>2
<1>6. Clean(b, m, C)
  BY <1>2, <1>3 DEF Clean
<1> QED BY <1>4, <1>5, <1>6 DEF Rearranged

\* The addresses of a block, as a sequence.
LEMMA BlockAddrsIs ==
  ASSUME NEW st, NEW m \in Nat, st.length = m, m + 2 <= BufMax,
         st.words \in [1..BufMax -> Nat]
  PROVE  /\ BlockAddrs(st) = [k \in 1..m |-> st.words[k+2]]
         /\ BlockAddrs(st) \in Seq(Nat) /\ Len(BlockAddrs(st)) = m
<1>1. PICK w \in Seq(Nat) : w = st.words /\ Len(w) = BufMax
  BY Sizes
<1>2. BlockAddrs(st) = SubSeq(w, 3, m + 2)
  BY <1>1 DEF BlockAddrs
<1>3. SubSeq(w, 3, m + 2) = [k \in 1..m |-> w[k+2]]
  BY <1>1, Sizes
<1>4. \A k \in 1..m : w[k+2] \in Nat
  BY <1>1, Sizes
<1> QED BY <1>1, <1>2, <1>3, <1>4

LEMMA StepStore ==
  ASSUME WorkInv, store_remaining_addrs
  PROVE  WorkInv'
<1>1. /\ stage = "shuffled" /\ before' = List /\ addrs' = Cleared /\ n' = 0
      /\ UNCHANGED <<calls, idx, dst, pivot_val, freed, collected, round>>
  BY DEF store_remaining_addrs, loopVars
<1>2. ListTypeOK /\ Clean(addrs, n, collected) /\ storage = <<>>
  BY <1>1 DEF WorkInv, CleanInv, StorageInv
<1>3. addrs' \in [0..BufMax-1 -> Nat]
  BY <1>1 DEF Cleared
<1>4. stage' \in {"collect", "fatal"}
  BY DEF store_remaining_addrs
<1>5. /\ CleanInv' /\ FreedInv' /\ OrderInv' /\ MarkedInv' /\ CallsInv' /\ PartInv'
      /\ InsertInv' /\ SweepInv' /\ ShuffleInv' /\ SweepAsModelled'
  BY <1>4 DEF CleanInv, FreedInv, OrderInv, MarkedInv, CallsInv, PartInv, InsertInv,
              SweepInv, ShuffleInv, SweepAsModelled, Sorting
<1>6. CASE UNCHANGED storage
  <2>1. ListTypeOK'
    BY <1>1, <1>2, <1>3, <1>4, <1>6, ListIs, Sizes DEF ListTypeOK
  <2>2. StorageInv' /\ ReadInv'
    BY <1>2, <1>6 DEF StorageInv, ReadInv
  <2> QED BY <2>1, <2>2, <1>5 DEF WorkInv
<1>7. CASE /\ n > 0 /\ n + 2 <= BufMax /\ stage' = "collect"
           /\ storage' = to_storage(addrs, n)
  <2>1. n \in Nat /\ BufMax \in Nat /\ addrs \in [0..BufMax-1 -> Nat]
    BY <1>2, ArrayTypes, Sizes
  <2>2. PICK st : st = to_storage(addrs, n)
    OBVIOUS
  <2>3. /\ st.length = n /\ st.words \in [1..BufMax -> Nat]
        /\ \A k \in 0..n-1 : st.words[k+3] = addrs[CameFrom(n, k)]
    BY <2>1, <2>2, <1>7, BlockIs
  <2>4. st \in [length : 1..BufMax-2, words : [1..BufMax -> Nat]]
    <3>1. st = [words |-> st.words, length |-> st.length]
      BY <2>2 DEF to_storage
    <3>2. n \in 1..BufMax-2
      BY <2>1, <1>7
    <3> QED BY <2>3, <3>1, <3>2
  <2>5. PICK b : b = [k \in 0..n-1 |-> st.words[k+3]]
    OBVIOUS
  <2>6. \A k \in 0..n-1 : b[k] = addrs[CameFrom(n, k)]
    BY <2>3, <2>5
  <2>7. Rearranged(b, List, n) /\ Clean(b, n, collected)
    BY <2>1, <2>6, <1>2, <1>7, ListIs, BlockRearranged
  <2>8. ToBag([k \in 1..n |-> b[k-1]]) = ToBag(List)
    BY <2>1, <2>7, <1>2, ListIs, RearrangedBag
  <2>9. [k \in 1..n |-> b[k-1]] = [k \in 1..n |-> st.words[k+2]]
    <3>1. ASSUME NEW k \in 1..n PROVE b[k-1] = st.words[k+2]
      <4>1. k - 1 \in 0..n-1 /\ (k - 1) + 3 = k + 2
        BY <2>1
      <4> QED BY <4>1, <2>5
    <3> QED BY <3>1
  <2>10. BlockAddrs(st) = [k \in 1..n |-> st.words[k+2]]
    BY <2>1, <2>3, <1>7, BlockAddrsIs
  <2>11. ReadInv'
    BY <2>2, <2>8, <2>9, <2>10, <1>1, <1>7 DEF ReadInv
  <2>12. StorageInv'
    BY <2>2, <2>3, <2>5, <2>7, <1>1, <1>7 DEF StorageInv
  <2>13. ListTypeOK'
    <3>1. storage' \in [length : 1..BufMax-2, words : [1..BufMax -> Nat]]
      BY <2>2, <2>4, <1>7
    <3>2. before' \in Seq(Nat) /\ n' \in 0..BufMax
      BY <2>1, <1>1, <1>2, ListIs
    <3>3. stage' = "collect"
      BY <1>7
    <3> QED BY <3>1, <3>2, <3>3, <1>1, <1>2, <1>3 DEF ListTypeOK
  <2> QED BY <2>11, <2>12, <2>13, <1>5 DEF WorkInv
<1> QED BY <1>6, <1>7 DEF store_remaining_addrs

\* What the stored block hands to the next round.
LEMMA Leftovers ==
  ASSUME ListTypeOK, StorageInv, NEW l,
         l = IF storage = <<>> THEN <<>> ELSE BlockAddrs(storage)
  PROVE  /\ l \in Seq(Nat) /\ Len(l) \in Nat
         /\ \A k \in 1..Len(l) : l[k] \in collected \cup {0}
         /\ \A j, k \in 1..Len(l) : l[j] = l[k] /\ l[j] # 0 => j = k
<1>1. CASE storage = <<>>
  BY <1>1
<1>2. CASE storage # <<>>
  <2>1. storage \in [length : 1..BufMax-2, words : [1..BufMax -> Nat]]
    BY <1>2 DEF ListTypeOK
  <2>2. PICK m \in Nat : m = storage.length /\ m + 2 <= BufMax
    BY <2>1, Sizes
  <2>3. storage.words \in [1..BufMax -> Nat]
    BY <2>1
  <2>4. l = [k \in 1..m |-> storage.words[k+2]] /\ l \in Seq(Nat) /\ Len(l) = m
    BY <2>2, <2>3, <1>2, BlockAddrsIs
  <2>5. PICK b : b = [k \in 0..m-1 |-> storage.words[k+3]]
    OBVIOUS
  <2>6. Clean(b, m, collected)
    BY <2>2, <2>5, <1>2 DEF StorageInv
  <2>7. ASSUME NEW k \in 1..m PROVE k - 1 \in 0..m-1 /\ l[k] = b[k-1]
    <3>1. k - 1 \in 0..m-1 /\ (k - 1) + 3 = k + 2
      OBVIOUS
    <3> QED BY <3>1, <2>4, <2>5
  <2>8. \A k \in 1..m : l[k] \in collected \cup {0}
    BY <2>6, <2>7 DEF Clean
  <2>9. ASSUME NEW j \in 1..m, NEW k \in 1..m, l[j] = l[k], l[j] # 0 PROVE j = k
    <3>1. j - 1 = k - 1
      BY <2>6, <2>7, <2>9 DEF Clean
    <3> QED BY <3>1
  <2> QED BY <2>4, <2>8, <2>9
<1> QED BY <1>1, <1>2

LEMMA FreshIs ==
  ASSUME collected \subseteq Addresses,
         NEW fresh \in UNION {SetToSeqs(S) : S \in SUBSET (Addresses \ collected)}
  PROVE  /\ fresh \in Seq(Nat) /\ Len(fresh) \in Nat
         /\ \A k \in 1..Len(fresh) : fresh[k] \in Addresses \ collected
         /\ \A j, k \in 1..Len(fresh) : fresh[j] = fresh[k] => j = k
<1>1. PICK S \in SUBSET (Addresses \ collected) : fresh \in SetToSeqs(S)
  OBVIOUS
<1>2. IsFiniteSet(S)
  <2>1. S \subseteq Addresses
    OBVIOUS
  <2> QED BY <2>1, Sizes, FS_Subset
<1>3. PICK c \in Nat : c = Cardinality(S)
  BY <1>2, FS_CardinalityType
<1>4. fresh \in [1..c -> S] /\ \A j, k \in 1..c : j # k => fresh[j] # fresh[k]
  BY <1>1, <1>3 DEF SetToSeqs
<1>5. S \subseteq Nat
  BY Sizes
<1>6. fresh \in Seq(Nat) /\ Len(fresh) = c
  <2>1. fresh \in [1..c -> Nat]
    BY <1>4, <1>5
  <2> QED BY <2>1
<1> QED BY <1>4, <1>6

LEMMA StepGenerate ==
  ASSUME WorkInv, generate_working_pointers_list
  PROVE  WorkInv'
<1>1. /\ stage = "collect" /\ round < MaxRounds
      /\ storage' = <<>> /\ freed' = <<>> /\ round' = round + 1 /\ stage' = "generated"
      /\ UNCHANGED <<calls, idx, dst, pivot_val>>
  BY DEF generate_working_pointers_list, loopVars
<1>2. ListTypeOK /\ StorageInv /\ collected \subseteq Addresses
  BY DEF WorkInv, ListTypeOK
<1>3. PICK l : l = IF storage = <<>> THEN <<>> ELSE BlockAddrs(storage)
  OBVIOUS
<1>4. PICK fresh \in UNION {SetToSeqs(S) : S \in SUBSET (Addresses \ collected)} :
          /\ Len(l \o fresh) <= BufMax /\ n' = Len(l \o fresh)
          /\ addrs' = [k \in 0..BufMax-1 |->
                          IF k < Len(l \o fresh) THEN (l \o fresh)[k+1] ELSE 0]
          /\ collected' = collected \cup ToSet(fresh)
          /\ before' = l \o fresh
  BY <1>3 DEF generate_working_pointers_list
<1>5. /\ l \in Seq(Nat) /\ Len(l) \in Nat
      /\ \A k \in 1..Len(l) : l[k] \in collected \cup {0}
      /\ \A j, k \in 1..Len(l) : l[j] = l[k] /\ l[j] # 0 => j = k
  BY <1>2, <1>3, Leftovers
<1>6. /\ fresh \in Seq(Nat) /\ Len(fresh) \in Nat
      /\ \A k \in 1..Len(fresh) : fresh[k] \in Addresses \ collected
      /\ \A j, k \in 1..Len(fresh) : fresh[j] = fresh[k] => j = k
  BY <1>2, FreshIs
<1>7. PICK all : all = l \o fresh
  OBVIOUS
<1>8. /\ all \in Seq(Nat) /\ Len(all) = Len(l) + Len(fresh)
      /\ \A k \in 1..Len(l) : all[k] = l[k]
      /\ \A k \in Len(l)+1..Len(all) : all[k] = fresh[k - Len(l)]
  BY <1>5, <1>6, <1>7
<1>9. PICK x \in Nat, y \in Nat : x = Len(l) /\ y = Len(fresh)
  BY <1>5, <1>6
<1>10. \A p \in Addresses : p # 0
  BY Sizes
<1>11. \A k \in 1..y : fresh[k] \in ToSet(fresh)
  BY <1>6, <1>9 DEF ToSet
<1>12. ToSet(fresh) \subseteq Addresses
  BY <1>6 DEF ToSet
<1>13. ASSUME NEW k \in 1..x+y
       PROVE  \/ k \in 1..x /\ all[k] = l[k] /\ all[k] \in collected \cup {0}
              \/ k - x \in 1..y /\ all[k] = fresh[k - x] /\ all[k] \in Addresses \ collected
  <2>1. CASE k <= x
    BY <2>1, <1>5, <1>8, <1>9
  <2>2. CASE k > x
    <3>1. k - x \in 1..y /\ k \in Len(l)+1..Len(all)
      BY <2>2, <1>8, <1>9
    <3> QED BY <3>1, <1>6, <1>8, <1>9
  <2> QED BY <2>1, <2>2
<1>14. \A k \in 1..x+y : all[k] \in collected' \cup {0}
  BY <1>4, <1>11, <1>13
<1>15. ASSUME NEW j \in 1..x+y, NEW k \in 1..x+y, all[j] = all[k], all[j] # 0
       PROVE  j = k
  <2>1. CASE j \in 1..x /\ all[j] = l[j] /\ all[j] \in collected \cup {0}
    <3>1. all[k] \notin Addresses \ collected
      BY <2>1, <1>10, <1>15
    <3>2. k \in 1..x /\ all[k] = l[k]
      BY <3>1, <1>13
    <3> QED BY <2>1, <3>2, <1>5, <1>9, <1>15
  <2>2. CASE j - x \in 1..y /\ all[j] = fresh[j - x] /\ all[j] \in Addresses \ collected
    <3>1. all[k] \notin collected \cup {0}
      BY <2>2, <1>10, <1>15
    <3>2. k - x \in 1..y /\ all[k] = fresh[k - x]
      BY <3>1, <1>13
    <3>3. j - x = k - x
      BY <2>2, <3>2, <1>6, <1>9, <1>15
    <3> QED BY <3>3
  <2> QED BY <2>1, <2>2, <1>13
<1>16. n' = x + y /\ x + y <= BufMax /\ BufMax \in Nat
  BY <1>4, <1>7, <1>8, <1>9, Sizes
<1>17. /\ addrs' \in [0..BufMax-1 -> Nat]
       /\ \A k \in 0..x+y-1 : addrs'[k] = all[k+1]
  <2>1. addrs' = [k \in 0..BufMax-1 |-> IF k < x + y THEN all[k+1] ELSE 0]
    BY <1>4, <1>7, <1>8, <1>9
  <2>2. \A k \in 0..BufMax-1 : k < x + y => all[k+1] \in Nat
    BY <1>8, <1>9
  <2> QED BY <2>1, <2>2, <1>16
<1>18. Clean(addrs', n', collected')
  <2>1. \A k \in 0..x+y-1 : k + 1 \in 1..x+y
    OBVIOUS
  <2>2. \A k \in 0..x+y-1 : addrs'[k] \in collected' \cup {0}
    BY <2>1, <1>14, <1>17
  <2>3. ASSUME NEW j \in 0..x+y-1, NEW k \in 0..x+y-1, addrs'[j] = addrs'[k], addrs'[j] # 0
        PROVE  j = k
    <3>1. j + 1 = k + 1
      BY <2>1, <2>3, <1>15, <1>17
    <3> QED BY <3>1
  <2> QED BY <2>2, <2>3, <1>16 DEF Clean
<1>19. ListTypeOK'
  <2>1. collected' \subseteq Addresses /\ before' \in Seq(Nat)
    BY <1>2, <1>4, <1>7, <1>8, <1>12
  <2>2. round' \in 0..MaxRounds /\ n' \in 0..BufMax
    BY <1>1, <1>2, <1>16, Sizes DEF ListTypeOK
  <2> QED BY <2>1, <2>2, <1>1, <1>2, <1>17 DEF ListTypeOK
<1>20. CleanInv' /\ FreedInv' /\ StorageInv'
  BY <1>1, <1>18 DEF CleanInv, FreedInv, StorageInv
<1>21. /\ OrderInv' /\ MarkedInv' /\ CallsInv' /\ PartInv' /\ InsertInv' /\ SweepInv'
       /\ ShuffleInv' /\ SweepAsModelled' /\ ReadInv'
  BY <1>1 DEF OrderInv, MarkedInv, CallsInv, PartInv, InsertInv, SweepInv, ShuffleInv,
              SweepAsModelled, ReadInv, Sorting
<1> QED BY <1>19, <1>20, <1>21 DEF WorkInv

-----------------------------------------------------------------------------
(* The theorems about WorkingList.                                          *)

LEMMA InitWorkInv == ListInit => WorkInv
<1> SUFFICES ASSUME ListInit PROVE WorkInv
  OBVIOUS
<1> USE DEF ListInit
<1>1. ListTypeOK
  BY Sizes DEF ListTypeOK, Cleared
<1>2. /\ CleanInv /\ FreedInv /\ StorageInv /\ OrderInv /\ MarkedInv /\ CallsInv
      /\ PartInv /\ InsertInv /\ SweepInv /\ ShuffleInv /\ SweepAsModelled /\ ReadInv
  BY DEF CleanInv, FreedInv, StorageInv, OrderInv, MarkedInv, CallsInv, PartInv,
         InsertInv, SweepInv, ShuffleInv, SweepAsModelled, ReadInv, Sorting
<1> QED BY <1>1, <1>2 DEF WorkInv

LEMMA StutterWorkInv ==
  ASSUME WorkInv, UNCHANGED listVars
  PROVE  WorkInv'
<1> USE DEF listVars, loopVars
<1>1. List' = List
  BY DEF List
<1>2. ListTypeOK'
  BY DEF WorkInv, ListTypeOK
<1>3. CleanInv' /\ FreedInv' /\ StorageInv' /\ OrderInv' /\ ShuffleInv' /\ ReadInv'
  BY DEF WorkInv, CleanInv, FreedInv, StorageInv, OrderInv, ShuffleInv, ReadInv
<1>4. MarkedInv' /\ SweepAsModelled'
  BY <1>1 DEF WorkInv, MarkedInv, SweepAsModelled
<1>5. CallsInv' /\ PartInv' /\ InsertInv' /\ SweepInv'
  BY DEF WorkInv, CallsInv, PartInv, InsertInv, SweepInv
<1> QED BY <1>2, <1>3, <1>4, <1>5 DEF WorkInv

LEMMA NextWorkInv == WorkInv /\ [ListNext]_listVars => WorkInv'
<1> SUFFICES ASSUME WorkInv, [ListNext]_listVars PROVE WorkInv'
  OBVIOUS
<1>1. CASE generate_working_pointers_list
  BY <1>1, StepGenerate
<1>2. CASE util_sort
  BY <1>2, StepSort
<1>3. CASE quicksort
  BY <1>3, StepQuicksort
<1>4. CASE partition
  BY <1>4, StepPartition
<1>5. CASE partitioned
  BY <1>5, StepPartitioned
<1>6. CASE insertion_sort
  BY <1>6, StepInsertion
<1>7. CASE insertion_sorted
  BY <1>7, StepInserted
<1>8. CASE do_search
  BY <1>8, StepSearch
<1>9. CASE handle_unreferenced
  BY <1>9, StepSweepBegins
<1>10. CASE handle_unreferenced_ptrs
  BY <1>10, StepSweep
<1>11. CASE handled_unreferenced
  BY <1>11, StepSwept
<1>12. CASE shuffle_remaining
  BY <1>12, StepShuffleBegins
<1>13. CASE util_randomize
  BY <1>13, StepShuffle
<1>14. CASE shuffled_remaining
  BY <1>14, StepShuffled
<1>15. CASE store_remaining_addrs
  BY <1>15, StepStore
<1>16. CASE Stop \/ UNCHANGED listVars
  BY <1>16, StutterWorkInv DEF Stop
<1> QED BY <1>1, <1>2, <1>3, <1>4, <1>5, <1>6, <1>7, <1>8, <1>9, <1>10, <1>11, <1>12,
           <1>13, <1>14, <1>15, <1>16 DEF ListNext

(***************************************************************************)
(* A round works on a list of collected addresses, each in it once, in     *)
(* every step of its loops: what quicksort has still to put in order lies  *)
(* in the ranges of its pending calls, the sweep has kept or freed every   *)
(* entry it has passed, and the shuffle only exchanges.                    *)
(***************************************************************************)
THEOREM WorkingListInvariant == ListSpec => []WorkInv
BY InitWorkInv, NextWorkInv, PTL DEF ListSpec

LEMMA SortedIs == WorkInv => SortSorts
<1> SUFFICES ASSUME WorkInv, stage = "sorted"
             PROVE  /\ \A k \in 1..n-1 : \/ addrs[k-1] < addrs[k]
                                         \/ addrs[k-1] = 0 /\ addrs[k] = 0
                    /\ ToBag(List) = ToBag(before)
  BY DEF SortSorts
<1>1. /\ ListTypeOK /\ calls = <<>> /\ Ordered(addrs, calls, n) /\ Clean(addrs, n, collected)
      /\ DOMAIN before = 1..n /\ Rearranged(addrs, before, n)
  BY DEF WorkInv, CallsInv, CleanInv, OrderInv, Sorting
<1>2. ASSUME NEW k \in 1..n-1
      PROVE  addrs[k-1] < addrs[k] \/ (addrs[k-1] = 0 /\ addrs[k] = 0)
  <2>1. k - 1 \in 0..n-1 /\ k \in 0..n-1 /\ k - 1 < k /\ k - 1 # k
    BY <1>1, ArrayTypes
  <2>2. PICK j \in 0..n-1 : j = k - 1
    BY <2>1
  <2>3. ~Pending(calls, j, k)
    BY <1>1 DEF Pending
  <2>4. addrs[j] <= addrs[k]
    BY <2>1, <2>2, <2>3, <1>1 DEF Ordered
  <2>5. addrs[j] = addrs[k] => addrs[j] = 0
    BY <2>1, <2>2, <1>1 DEF Clean
  <2>6. addrs[j] \in Nat /\ addrs[k] \in Nat
    BY <2>1, <1>1, ArrayTypes
  <2> QED BY <2>2, <2>4, <2>5, <2>6
<1>3. ToBag(List) = ToBag(before)
  BY <1>1, ArrayTypes, RearrangedBag DEF List
<1> QED BY <1>2, <1>3

LEMMA SearchableIs == WorkInv => (stage = "sorted" /\ n > 0 => Searchable(List))
<1> SUFFICES ASSUME WorkInv, stage = "sorted", n > 0 PROVE Searchable(List)
  OBVIOUS
<1>1. /\ ListTypeOK /\ calls = <<>> /\ Ordered(addrs, calls, n) /\ Clean(addrs, n, collected)
  BY DEF WorkInv, CallsInv, CleanInv, Sorting
<1>2. /\ n \in Nat /\ collected \subseteq Addresses
      /\ \A k \in 0..n-1 : addrs[k] \in Nat
  BY <1>1, ArrayTypes DEF ListTypeOK
<1>3. PICK l : l = List
  OBVIOUS
<1>4. Len(l) = n /\ l # <<>> /\ \A k \in 1..n : k - 1 \in 0..n-1 /\ l[k] = addrs[k-1]
  BY <1>2, <1>3 DEF List
<1>5. ASSUME NEW k \in 1..n PROVE l[k] % 4 = 0
  <2>1. l[k] \in collected \cup {0}
    BY <1>1, <1>4 DEF Clean
  <2>2. l[k] \in Addresses \/ l[k] = 0
    BY <2>1, <1>2
  <2>3. 0 % 4 = 0
    OBVIOUS
  <2>4. ASSUME l[k] = 0 PROVE l[k] % 4 = 0
    BY <2>3, <2>4
  <2>5. ASSUME l[k] \in Addresses PROVE l[k] % 4 = 0
    BY <2>5, WorkingListAssumption, Zenon
  <2> QED BY <2>2, <2>4, <2>5
<1>6. ASSUME NEW j \in 1..n, NEW k \in 1..n, j < k
      PROVE  l[j] < l[k] \/ l[j] = 0
  <2>1. PICK p \in 0..n-1 : p = j - 1
    BY <1>2
  <2>2. PICK q \in 0..n-1 : q = k - 1
    BY <1>2
  <2>3. p < q /\ p # q
    BY <2>1, <2>2, <1>2, <1>6
  <2>4. ~Pending(calls, p, q)
    BY <1>1 DEF Pending
  <2>5. addrs[p] <= addrs[q]
    BY <2>3, <2>4, <1>1 DEF Ordered
  <2>6. addrs[p] = addrs[q] => addrs[p] = 0
    BY <2>3, <1>1 DEF Clean
  <2> QED BY <2>1, <2>2, <2>5, <2>6, <1>2, <1>4
<1> QED BY <1>3, <1>4, <1>5, <1>6 DEF Searchable

(***************************************************************************)
(* threadscan_util_sort sorts, and loses and repeats nothing: for any      *)
(* SORT_THRESHOLD and any length, although pivots leave empty ranges and   *)
(* insertion_sort's inner loop is bounded by 0 and not by min.             *)
(***************************************************************************)
THEOREM SortIsCorrect == ListSpec => []SortSorts
BY WorkingListInvariant, SortedIs, PTL

(***************************************************************************)
(* The list that do_search is given is one that Search assumes: the sort   *)
(* leaves every address once and zeros only in front, so that the theorems *)
(* about Search hold of every list a round can produce.                    *)
(***************************************************************************)
THEOREM SortedIsSearchable ==
    ListSpec => [](stage = "sorted" /\ n > 0 => Searchable(List))
BY WorkingListInvariant, SearchableIs, PTL

(***************************************************************************)
(* handle_unreferenced_ptrs, which compacts the array while it reads it,   *)
(* frees and keeps what the protocol model (Buffers) says: no address is   *)
(* freed twice or both freed and kept, and each is one or the other.       *)
(***************************************************************************)
THEOREM SweepIsAsModelled == ListSpec => []SweepAsModelled
<1>1. WorkInv => SweepAsModelled
  BY DEF WorkInv
<1> QED BY <1>1, WorkingListInvariant, PTL

LEMMA ReadBackIs == WorkInv => StoredIsReadBack
<1> SUFFICES ASSUME WorkInv PROVE StoredIsReadBack
  OBVIOUS
<1>1. ASSUME stage = "shuffled" PROVE ToBag(List) = ToBag(before)
  <2>1. ListTypeOK /\ DOMAIN before = 1..n /\ Rearranged(addrs, before, n)
    BY <1>1 DEF WorkInv, OrderInv
  <2> QED BY <2>1, ArrayTypes, RearrangedBag DEF List
<1>2. ReadInv
  BY DEF WorkInv
<1> QED BY <1>1, <1>2 DEF StoredIsReadBack, ReadInv

(***************************************************************************)
(* threadscan_util_randomize exchanges entries only, and what              *)
(* store_remaining_addrs puts into a block is what the next round's        *)
(* generate_working_pointers_list reads out of it, for any number of       *)
(* addresses that remain, one included.                                    *)
(***************************************************************************)
THEOREM StoredIsRead == ListSpec => []StoredIsReadBack
BY WorkingListInvariant, ReadBackIs, PTL

-----------------------------------------------------------------------------
(* Every round ends: what its steps lower.                                  *)

RoundsLeft == MaxRounds - round

\* The stages of a round, from the last up.
StageRank ==
    CASE stage \in {"collect", "fatal"} -> 0
      [] stage = "shuffled" -> 1
      [] stage = "shuffle" -> 2
      [] stage = "swept" -> 3
      [] stage = "sweep" -> 4
      [] stage = "searched" -> 5
      [] stage = "sorted" -> 6
      [] stage \in Sorting -> 7
      [] stage = "generated" -> 8

\* The entries in the ranges of some calls.
Covered(cs) == UNION {cs[c].min..cs[c].max : c \in 1..Len(cs)}

\* A partition adds a call, but its pivot is in the range of none.
Unsorted == IF stage \in Sorting THEN 2 * Cardinality(Covered(calls)) + Len(calls) ELSE 0

\* The turns that the present loop has still to take.
Turns ==
    CASE stage = "quicksort" -> n + 1
      [] stage = "partition" -> calls[1].max - idx
      [] stage = "insertion" -> IF idx > calls[1].max THEN 0 ELSE calls[1].max + 1 - idx
      [] stage \in {"sweep", "shuffle"} -> n - idx
      [] OTHER -> 0

\* The way down that the inner loop of insertion_sort has before it.
Down == IF stage = "insertion" THEN dst ELSE 0

\* These numbers, taken as the digits of one, are less after the step.
ListLowered ==
    \/ RoundsLeft' < RoundsLeft
    \/ /\ RoundsLeft' = RoundsLeft
       /\ \/ StageRank' < StageRank
          \/ /\ StageRank' = StageRank
             /\ \/ Unsorted' < Unsorted
                \/ Unsorted' = Unsorted /\ Turns' < Turns
                \/ Unsorted' = Unsorted /\ Turns' = Turns /\ Down' < Down

ListBounded ==
    RoundsLeft \in Nat /\ StageRank \in 0..8 /\ Unsorted \in Nat /\ Turns \in Nat /\ Down \in Nat

LEMMA CoveredIs ==
  ASSUME NEW cs \in Seq(Call), NEW x
  PROVE  x \in Covered(cs) <=>
            \E c \in 1..Len(cs) : x \in Int /\ cs[c].min <= x /\ x <= cs[c].max
<1>1. \A c \in 1..Len(cs) : cs[c].min \in Nat /\ cs[c].max \in Int
  BY CallTypes
<1>2. x \in Covered(cs) <=> \E c \in 1..Len(cs) : x \in cs[c].min..cs[c].max
  BY Zenon DEF Covered
<1>3. \A c \in 1..Len(cs) :
         x \in cs[c].min..cs[c].max <=> x \in Int /\ cs[c].min <= x /\ x <= cs[c].max
  BY <1>1
<1> QED BY <1>2, <1>3

LEMMA CoveredFinite ==
  ASSUME NEW m \in Nat, NEW cs \in Seq(Call), Ranged(cs, m)
  PROVE  IsFiniteSet(Covered(cs)) /\ Cardinality(Covered(cs)) \in Nat
<1>1. ASSUME NEW x \in Covered(cs) PROVE x \in 0..m-1
  <2>1. PICK c \in 1..Len(cs) : x \in Int /\ cs[c].min <= x /\ x <= cs[c].max
    BY CoveredIs
  <2>2. cs[c].min \in Nat /\ cs[c].max \in Int /\ cs[c].max < m
    BY CallTypes DEF Ranged
  <2> QED BY <2>1, <2>2
<1>2. IsFiniteSet(0..m-1)
  BY FS_Interval
<1>3. IsFiniteSet(Covered(cs))
  BY <1>1, <1>2, FS_Subset
<1> QED BY <1>3, FS_CardinalityType

\* The calls ds are cs with the first one divided at mid.
Divided(ds, cs, mid) ==
    ds = <<[min |-> cs[1].min, max |-> mid - 1], [min |-> mid + 1, max |-> cs[1].max]>>
         \o Tail(cs)

\* They leave out an entry.
Fewer(ds, cs) ==
    /\ Cardinality(Covered(ds)) < Cardinality(Covered(cs)) /\ Len(ds) = Len(cs) + 1
    /\ Cardinality(Covered(ds)) \in Nat

LEMMA SplitLowers ==
  ASSUME NEW m \in Nat, NEW cs \in Seq(Call), cs # <<>>, Ranged(cs, m),
         NEW mid \in cs[1].min..cs[1].max, NEW ds \in Seq(Call), Divided(ds, cs, mid)
  PROVE  Fewer(ds, cs)
<1> PICK lo : lo = cs[1].min
  OBVIOUS
<1> PICK hi : hi = cs[1].max
  OBVIOUS
<1>0. /\ 1 \in 1..Len(cs) /\ Len(cs) \in Nat
      /\ \A c \in 1..Len(cs) : cs[c].min \in Nat /\ cs[c].max \in Int
  BY CallTypes
<1>18. lo \in Nat /\ hi \in Int /\ mid \in lo..hi
  BY <1>0
<1>1. PICK r : r = [min |-> lo, max |-> mid - 1]
  OBVIOUS
<1>2. PICK s : s = [min |-> mid + 1, max |-> hi]
  OBVIOUS
<1>3. r.min = lo /\ r.max = mid - 1 /\ s.min = mid + 1 /\ s.max = hi
  BY <1>1, <1>2
<1>4. PICK t : t = Tail(cs)
  OBVIOUS
<1>5. t \in Seq(Call) /\ Len(t) = Len(cs) - 1 /\ \A c \in 1..Len(t) : t[c] = cs[c+1]
  BY <1>4
<1>6. ds = <<r, s>> \o t
  BY <1>1, <1>2, <1>4 DEF Divided
<1>7. r \in Call /\ s \in Call
  BY <1>18, <1>1, <1>2 DEF Call
<1>8. /\ Len(ds) = Len(cs) + 1 /\ ds[1] = r /\ ds[2] = s
      /\ \A c \in 3..Len(ds) : ds[c] = t[c-2]
  BY <1>0, <1>5, <1>6, <1>7
<1>9. ASSUME NEW c \in 3..Len(ds) PROVE c - 1 \in 2..Len(cs) /\ ds[c] = cs[c-1]
  <2>1. PICK l \in Nat : l = Len(cs) /\ Len(ds) = l + 1 /\ Len(t) = l - 1
    BY <1>0, <1>5, <1>8
  <2>2. c - 1 \in 2..l /\ c - 2 \in 1..l-1 /\ (c - 2) + 1 = c - 1
    BY <2>1
  <2>3. t[c-2] = cs[c-1]
    BY <1>5, <2>1, <2>2
  <2> QED BY <1>8, <2>1, <2>2, <2>3
<1>10. ASSUME NEW x \in Covered(ds) PROVE x \in Covered(cs) \ {mid}
  <2>1. PICK c \in 1..Len(ds) : x \in Int /\ ds[c].min <= x /\ x <= ds[c].max
    BY CoveredIs
  <2>2. CASE c \in {1, 2}
    <3>1. lo <= x /\ x <= hi /\ x # mid
      BY <2>1, <2>2, <1>18, <1>3, <1>8
    <3> QED BY <3>1, <2>1, <1>0, CoveredIs
  <2>3. CASE c \notin {1, 2}
    <3>1. PICK d \in 2..Len(cs) : ds[c] = cs[d]
      BY <2>3, <1>9
    <3>2. hi < cs[d].min /\ cs[d].min \in Nat
      BY <3>1, <1>0 DEF Ranged
    <3>3. hi < x
      <4>1. cs[d].min <= x
        BY <2>1, <3>1
      <4> QED BY <4>1, <2>1, <3>2, <1>18
    <3>4. x # mid
      BY <3>3, <1>18
    <3> QED BY <2>1, <3>1, <3>4, <1>0, CoveredIs
  <2> QED BY <2>2, <2>3
<1>11. mid \in Covered(cs)
  BY <1>0, <1>18, CoveredIs
<1>12. IsFiniteSet(Covered(cs)) /\ Cardinality(Covered(cs)) \in Nat
  BY CoveredFinite
<1>13. PICK C : C = Covered(cs) \ {mid}
  OBVIOUS
<1>14. IsFiniteSet(C) /\ Cardinality(C) = Cardinality(Covered(cs)) - 1
  BY <1>11, <1>12, <1>13, FS_RemoveElement
<1>15. Covered(ds) \subseteq C
  BY <1>10, <1>13
<1>16. Cardinality(Covered(ds)) <= Cardinality(C) /\ IsFiniteSet(Covered(ds))
  BY <1>14, <1>15, FS_Subset
<1>17. Cardinality(Covered(ds)) \in Nat
  BY <1>16, FS_CardinalityType
<1> QED BY <1>8, <1>12, <1>14, <1>16, <1>17 DEF Fewer

\* A call that returns takes its range with it.
LEMMA PopLowers ==
  ASSUME NEW m \in Nat, NEW cs \in Seq(Call), cs # <<>>, Ranged(cs, m)
  PROVE  /\ Cardinality(Covered(Tail(cs))) <= Cardinality(Covered(cs))
         /\ Cardinality(Covered(Tail(cs))) \in Nat /\ Len(Tail(cs)) = Len(cs) - 1
<1>0. Len(cs) \in Nat
  OBVIOUS
<1>1. PICK t : t = Tail(cs)
  OBVIOUS
<1>2. t \in Seq(Call) /\ Len(t) = Len(cs) - 1 /\ \A c \in 1..Len(t) : t[c] = cs[c+1]
  BY <1>1
<1>3. ASSUME NEW x \in Covered(t) PROVE x \in Covered(cs)
  <2>1. PICK c \in 1..Len(t) : x \in Int /\ t[c].min <= x /\ x <= t[c].max
    BY <1>2, CoveredIs
  <2>2. c + 1 \in 1..Len(cs) /\ t[c] = cs[c+1]
    BY <1>0, <1>2
  <2> QED BY <2>1, <2>2, CoveredIs
<1>4. IsFiniteSet(Covered(cs))
  BY CoveredFinite
<1>5. IsFiniteSet(Covered(t)) /\ Cardinality(Covered(t)) <= Cardinality(Covered(cs))
  BY <1>3, <1>4, FS_Subset
<1>6. Cardinality(Covered(t)) \in Nat
  BY <1>5, FS_CardinalityType
<1> QED BY <1>1, <1>2, <1>5, <1>6

LEMMA ListBoundedIs == WorkInv => ListBounded
<1> SUFFICES ASSUME WorkInv PROVE ListBounded
  OBVIOUS
<1>0. ListTypeOK
  BY DEF WorkInv
<1>1. RoundsLeft \in Nat
  BY <1>0, Sizes DEF ListTypeOK, RoundsLeft
<1>2. StageRank \in 0..8
  BY <1>0 DEF ListTypeOK, StageRank, Sorting
<1>3. Unsorted \in Nat
  <2>1. ASSUME stage \in Sorting PROVE Cardinality(Covered(calls)) \in Nat /\ Len(calls) \in Nat
    BY <2>1, <1>0, CoveredFinite, ArrayTypes DEF WorkInv, CallsInv
  <2> QED BY <2>1 DEF Unsorted
<1>4. Turns \in Nat
  <2>1. n \in Nat /\ idx \in Nat
    BY <1>0, ArrayTypes
  <2>2. ASSUME stage = "partition" PROVE Turns \in Nat
    <3>1. calls[1].max \in Int /\ idx <= calls[1].max
      BY <2>2, <1>0, PresentCall, ArrayTypes DEF WorkInv, CallsInv, PartInv, Parted, Sorting
    <3> QED BY <2>1, <2>2, <3>1 DEF Turns
  <2>3. ASSUME stage = "insertion" PROVE Turns \in Nat
    <3>1. calls[1].max \in Int
      BY <2>3, <1>0, PresentCall DEF WorkInv, CallsInv, Sorting
    <3> QED BY <2>1, <2>3, <3>1 DEF Turns
  <2>4. ASSUME stage \in {"sweep", "shuffle"} PROVE idx <= n
    BY <2>4 DEF WorkInv, SweepInv, ShuffleInv
  <2> QED BY <2>1, <2>2, <2>3, <2>4 DEF Turns
<1>5. Down \in Nat
  BY <1>0, ArrayTypes DEF Down
<1> QED BY <1>1, <1>2, <1>3, <1>4, <1>5 DEF ListBounded

\* The steps from one stage of a round to the next.
LEMMA StageLowers ==
  ASSUME ListTypeOK, util_sort \/ do_search \/ handle_unreferenced \/ handled_unreferenced
         \/ shuffle_remaining \/ shuffled_remaining \/ store_remaining_addrs
  PROVE  ListLowered
<1>1. round' = round
  BY DEF util_sort, do_search, handle_unreferenced, handled_unreferenced, shuffle_remaining,
         shuffled_remaining, store_remaining_addrs
<1>2. StageRank' < StageRank
  BY DEF util_sort, do_search, handle_unreferenced, handled_unreferenced, shuffle_remaining,
         shuffled_remaining, store_remaining_addrs, StageRank, Sorting
<1> QED BY <1>1, <1>2 DEF ListLowered, RoundsLeft

\* The turns of a loop.
LEMMA TurnLowers ==
  ASSUME WorkInv, partition \/ insertion_sort \/ handle_unreferenced_ptrs \/ util_randomize
  PROVE  ListLowered
<1>0. ListTypeOK /\ n \in Nat /\ idx \in Nat /\ dst \in Nat
  BY ArrayTypes DEF WorkInv
<1>1. UNCHANGED <<stage, round, calls, n>>
  BY DEF partition, insertion_sort, handle_unreferenced_ptrs, util_randomize
<1>2. RoundsLeft' = RoundsLeft /\ StageRank' = StageRank /\ Unsorted' = Unsorted
  BY <1>1 DEF RoundsLeft, StageRank, Unsorted, Covered
<1>3. CASE partition
  <2>1. stage = "partition" /\ idx' = idx + 1 /\ calls[1].max \in Int
    BY <1>0, <1>3, PresentCall DEF partition, WorkInv, CallsInv, Sorting
  <2>2. Turns' < Turns
    BY <1>0, <1>1, <2>1 DEF Turns
  <2> QED BY <1>2, <2>2 DEF ListLowered
<1>4. CASE insertion_sort
  <2>1. stage = "insertion" /\ idx <= calls[1].max /\ calls[1].max \in Int
    BY <1>0, <1>4, PresentCall DEF insertion_sort, WorkInv, CallsInv, Sorting
  <2>2. CASE idx' = idx + 1
    <3>1. Turns' < Turns
      BY <1>0, <1>1, <2>1, <2>2 DEF Turns
    <3> QED BY <1>2, <3>1 DEF ListLowered
  <2>3. CASE idx' = idx /\ dst' = dst - 1
    <3>1. Turns' = Turns /\ Down' < Down
      BY <1>0, <1>1, <2>1, <2>3 DEF Turns, Down
    <3> QED BY <1>2, <3>1 DEF ListLowered
  <2> QED BY <1>4, <2>2, <2>3 DEF insertion_sort
<1>5. CASE handle_unreferenced_ptrs \/ util_randomize
  <2>1. stage \in {"sweep", "shuffle"} /\ idx' = idx + 1
    BY <1>5 DEF handle_unreferenced_ptrs, util_randomize
  <2>2. Turns' < Turns
    BY <1>0, <1>1, <2>1 DEF Turns
  <2> QED BY <1>2, <2>2 DEF ListLowered
<1> QED BY <1>3, <1>4, <1>5

\* The steps of quicksort between its loops.
LEMMA CallLowers ==
  ASSUME WorkInv, quicksort \/ partitioned \/ insertion_sorted
  PROVE  ListLowered
<1> DEFINE lo == calls[1].min
           hi == calls[1].max
<1>0. /\ ListTypeOK /\ n \in Nat /\ idx \in Nat /\ dst \in Nat /\ calls \in Seq(Call)
      /\ stage \in Sorting /\ Ranged(calls, n) /\ calls # <<>> /\ round' = round
  BY ArrayTypes DEF WorkInv, CallsInv, quicksort, partitioned, insertion_sorted, Sorting
<1>1. /\ Cardinality(Covered(calls)) \in Nat /\ Len(calls) \in Nat
      /\ lo \in Nat /\ hi \in Int /\ hi < n
  BY <1>0, CoveredFinite, PresentCall
<1>2. RoundsLeft' = RoundsLeft
  BY <1>0 DEF RoundsLeft
<1>3. CASE quicksort
  <2>1. /\ stage = "quicksort" /\ stage' \in {"partition", "insertion"} /\ UNCHANGED <<n, calls>>
        /\ stage' = "partition" => idx' = lo
        /\ stage' = "insertion" => idx' = lo + 1
    BY <1>3 DEF quicksort
  <2>2. StageRank' = StageRank /\ Unsorted' = Unsorted
    BY <2>1 DEF StageRank, Unsorted, Sorting, Covered
  <2>3. Turns = n + 1 /\ calls'[1].max = hi
    BY <2>1 DEF Turns
  <2>4. Turns' < Turns
    <3> HIDE DEF lo, hi
    <3>1. ASSUME stage' = "partition" PROVE Turns' = hi - lo
      BY <3>1, <2>1, <2>3 DEF Turns
    <3>2. ASSUME stage' = "insertion" PROVE Turns' = 0 \/ Turns' = hi - lo
      BY <3>2, <1>1, <2>1, <2>3 DEF Turns
    <3> QED BY <3>1, <3>2, <2>1, <2>3, <1>0, <1>1
  <2> QED BY <1>2, <2>2, <2>4 DEF ListLowered
<1>4. CASE partitioned
  <2>1. /\ stage' = "quicksort"
        /\ calls' = <<[min |-> lo, max |-> dst - 1], [min |-> dst + 1, max |-> hi]>>
                    \o Tail(calls)
    BY <1>4 DEF partitioned
  <2>2. dst \in lo..hi /\ calls' \in Seq(Call)
    <3>1. lo <= dst /\ dst <= hi
      BY <1>0, <1>1, <1>4 DEF partitioned, WorkInv, PartInv, Parted
    <3>2. WorkInv'
      BY <1>4, StepPartitioned
    <3> QED BY <3>1, <3>2, <1>0, <1>1 DEF WorkInv, ListTypeOK
  <2>3. /\ Cardinality(Covered(calls')) < Cardinality(Covered(calls))
        /\ Cardinality(Covered(calls')) \in Nat /\ Len(calls') = Len(calls) + 1
    <3>1. Divided(calls', calls, dst) /\ dst \in calls[1].min..calls[1].max
      BY <2>1, <2>2 DEF Divided
    <3>2. Fewer(calls', calls)
      BY <1>0, <2>2, <3>1, SplitLowers
    <3> QED BY <3>2 DEF Fewer
  <2>4. StageRank' = StageRank
    BY <1>0, <2>1 DEF StageRank, Sorting
  <2>5. Unsorted' < Unsorted
    <3>1. Unsorted' = 2 * Cardinality(Covered(calls')) + Len(calls')
      BY <2>1 DEF Unsorted, Sorting
    <3>2. Unsorted = 2 * Cardinality(Covered(calls)) + Len(calls)
      BY <1>0 DEF Unsorted
    <3> QED BY <1>1, <2>3, <3>1, <3>2
  <2> QED BY <1>2, <2>4, <2>5 DEF ListLowered
<1>5. CASE insertion_sorted
  <2>1. /\ calls' = Tail(calls) /\ stage' \in {"quicksort", "sorted"}
    BY <1>5 DEF insertion_sorted
  <2>2. /\ Cardinality(Covered(calls')) <= Cardinality(Covered(calls))
        /\ Cardinality(Covered(calls')) \in Nat /\ Len(calls') = Len(calls) - 1
    BY <1>0, <2>1, PopLowers
  <2>3. CASE stage' = "sorted"
    <3>1. StageRank' < StageRank
      BY <1>0, <2>3 DEF StageRank, Sorting
    <3> QED BY <1>2, <3>1 DEF ListLowered
  <2>4. CASE stage' = "quicksort"
    <3>1. StageRank' = StageRank /\ Unsorted' < Unsorted
      BY <1>0, <1>1, <2>2, <2>4 DEF StageRank, Unsorted, Sorting
    <3> QED BY <1>2, <3>1 DEF ListLowered
  <2> QED BY <2>1, <2>3, <2>4
<1> QED BY <1>3, <1>4, <1>5

LEMMA NextListLowers == WorkInv /\ [ListNext]_listVars => [ListLowered]_listVars
<1> SUFFICES ASSUME WorkInv, ListNext PROVE ListLowered \/ UNCHANGED listVars
  OBVIOUS
<1>1. CASE generate_working_pointers_list
  <2>1. round' = round + 1 /\ round \in Nat
    BY <1>1 DEF generate_working_pointers_list, WorkInv, ListTypeOK
  <2>2. RoundsLeft' < RoundsLeft
    BY <2>1, Sizes DEF RoundsLeft
  <2> QED BY <2>2 DEF ListLowered
<1> QED BY <1>1, StageLowers, TurnLowers, CallLowers DEF ListNext, Stop, WorkInv

(***************************************************************************)
(* Every loop of a round ends, and the recursion of quicksort with them:   *)
(* each step that changes anything lowers a tuple of natural numbers, in   *)
(* lexicographic order.  A partition takes its pivot out of every range    *)
(* that is still to be sorted, so that the calls cannot go on forever      *)
(* however unevenly the pivots divide the list, zeros repeated included.   *)
(***************************************************************************)
THEOREM RoundRunsDown == ListSpec => []ListBounded /\ [][ListLowered]_listVars
BY WorkingListInvariant, ListBoundedIs, NextListLowers, PTL DEF ListSpec

=============================================================================
