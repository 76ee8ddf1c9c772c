---------------------------- MODULE QueueProofs -----------------------------
(***************************************************************************)
(* Proofs about Queue, for every capacity, every number of pushes and all  *)
(* lengths of the caller's buffer: the assertion of push and is_full, the  *)
(* bound on what pop_bulk copies, the stability of what it copies, and     *)
(* that the interleaved accesses implement the FIFO of module Fifo.        *)
(***************************************************************************)
EXTENDS Queue, SequenceTheorems, TLAPS

-----------------------------------------------------------------------------
(* The slots of a circular buffer: facts about INDEXIFY.                    *)

\* Quotient and remainder of an absolute index.
LEMMA Indexified ==
  ASSUME NEW i \in Int
  PROVE  /\ INDEXIFY(i) \in 0..Capacity-1
         /\ i \div Capacity \in Int
         /\ i = Capacity * (i \div Capacity) + INDEXIFY(i)
BY CapacityAssumption DEF INDEXIFY

LEMMA InBuffer ==
  ASSUME NEW i \in Int
  PROVE  INDEXIFY(i) \in 0..Capacity-1
BY Indexified

\* The remainder is determined by its equation.
LEMMA RemainderUnique ==
  ASSUME NEW p \in Int, NEW q \in Int,
         NEW r \in 0..Capacity-1, NEW s \in 0..Capacity-1,
         Capacity * p + r = Capacity * q + s
  PROVE  r = s
<1> Capacity \in Nat \ {0}
  BY CapacityAssumption
<1>1. ASSUME NEW x \in Int, NEW y \in Int, x < y
      PROVE  Capacity * y >= Capacity * x + Capacity
  <2>1. Capacity * y = Capacity * x + Capacity * (y - x)
    OBVIOUS
  <2>2. y - x >= 1
    BY <1>1
  <2>3. Capacity * (y - x) >= Capacity
    BY <2>2
  <2> QED BY <2>1, <2>3
<1>2. ~(p < q)
  BY <1>1
<1>3. ~(q < p)
  BY <1>1
<1> QED BY <1>2, <1>3

\* So the slot of an index can be read off any such equation.
LEMMA SlotIs ==
  ASSUME NEW i \in Int, NEW d \in Int, NEW r \in Int, 0 <= r, r < Capacity,
         i = Capacity * d + r
  PROVE  INDEXIFY(i) = r
<1> DEFINE p == i \div Capacity
<1> Capacity \in Nat \ {0, 1}
  BY CapacityAssumption
<1>1. INDEXIFY(i) \in 0..Capacity-1 /\ p \in Int /\ i = Capacity * p + INDEXIFY(i)
  BY Indexified
<1>2. r \in 0..Capacity-1
  OBVIOUS
<1>3. Capacity * p + INDEXIFY(i) = Capacity * d + r
  BY <1>1
<1> DEFINE s == INDEXIFY(i)
<1>4. s \in 0..Capacity-1 /\ Capacity * p + s = Capacity * d + r
  BY <1>1, <1>3
<1> HIDE DEF p, s
<1>5. s = r
  BY <1>1, <1>2, <1>4, RemainderUnique
<1> QED BY <1>5 DEF s

(***************************************************************************)
(* The slots of j, at or after i but less than a capacity after it: where  *)
(* counting on from the slot of i leads, around the end of the buffer.     *)
(***************************************************************************)
LEMMA CountOn ==
  ASSUME NEW i \in Int, NEW j \in Int, i <= j, j <= i + Capacity
  PROVE  INDEXIFY(j) = IF INDEXIFY(i) + (j - i) < Capacity
                       THEN INDEXIFY(i) + (j - i)
                       ELSE INDEXIFY(i) + (j - i) - Capacity
<1> DEFINE d == i \div Capacity
           m == Capacity * d
           r == INDEXIFY(i)
<1>c. Capacity \in Nat \ {0, 1}
  BY CapacityAssumption
<1>1. r \in 0..Capacity-1 /\ d \in Int /\ i = m + r
  BY Indexified
<1>2. m \in Int
  BY <1>c, <1>1
<1>3. Capacity * (d + 1) = m + Capacity
  BY <1>c, <1>1
<1>4. CASE r + (j - i) < Capacity
  <2> DEFINE s == r + (j - i)
  <2>1. s \in Int /\ 0 <= s /\ s < Capacity /\ j = m + s
    <3> HIDE DEF m, r
    <3> QED BY <1>1, <1>2, <1>4, <1>c
  <2> HIDE DEF s, d
  <2>2. INDEXIFY(j) = s
    BY <2>1, <1>1, SlotIs
  <2> QED BY <2>2, <1>4 DEF s
<1>5. CASE ~(r + (j - i) < Capacity)
  <2> DEFINE s == r + (j - i) - Capacity
             f == d + 1
  <2>1. s \in Int /\ 0 <= s /\ s < Capacity /\ j = m + Capacity + s
    <3> HIDE DEF m, r
    <3> QED BY <1>1, <1>2, <1>5, <1>c
  <2>2. f \in Int /\ j = Capacity * f + s
    BY <2>1, <1>1, <1>3
  <2> HIDE DEF s, f
  <2>3. INDEXIFY(j) = s
    BY <2>1, <2>2, SlotIs
  <2> QED BY <2>3, <1>5 DEF s
<1> QED BY <1>4, <1>5

\* The next index is in the next slot, or in the first.
LEMMA NextSlot ==
  ASSUME NEW i \in Int
  PROVE  INDEXIFY(i + 1) = IF INDEXIFY(i) + 1 = Capacity THEN 0 ELSE INDEXIFY(i) + 1
<1> DEFINE j == i + 1
<1>1. j \in Int /\ i <= j /\ j <= i + Capacity /\ j - i = 1
  BY CapacityAssumption
<1> HIDE DEF j
<1>2. INDEXIFY(j) = IF INDEXIFY(i) + (j - i) < Capacity
                    THEN INDEXIFY(i) + (j - i) ELSE INDEXIFY(i) + (j - i) - Capacity
  BY <1>1, CountOn
<1>3. INDEXIFY(i) \in 0..Capacity-1
  BY Indexified
<1> QED BY <1>1, <1>2, <1>3, CapacityAssumption DEF j

\* An index and the one a capacity later share a slot.
LEMMA SameSlot ==
  ASSUME NEW i \in Int
  PROVE  INDEXIFY(i + Capacity) = INDEXIFY(i)
<1> DEFINE j == i + Capacity
<1>1. j \in Int /\ i <= j /\ j <= i + Capacity /\ j - i = Capacity
  BY CapacityAssumption
<1> HIDE DEF j
<1>2. INDEXIFY(j) = IF INDEXIFY(i) + (j - i) < Capacity
                    THEN INDEXIFY(i) + (j - i) ELSE INDEXIFY(i) + (j - i) - Capacity
  BY <1>1, CountOn
<1> QED BY <1>1, <1>2, Indexified, CapacityAssumption DEF j

(***************************************************************************)
(* How far apart two indexes are, less than a capacity apart, shows in     *)
(* their slots: the test by which pop_bulk finds out whether to wrap.      *)
(***************************************************************************)
LEMMA Distance ==
  ASSUME NEW i \in Int, NEW j \in Int, i <= j, j < i + Capacity
  PROVE  j - i = IF INDEXIFY(j) < INDEXIFY(i)
                 THEN Capacity - INDEXIFY(i) + INDEXIFY(j)
                 ELSE INDEXIFY(j) - INDEXIFY(i)
<1>1. Capacity \in Nat \ {0, 1} /\ j <= i + Capacity
  BY CapacityAssumption
<1>2. INDEXIFY(j) = IF INDEXIFY(i) + (j - i) < Capacity
                    THEN INDEXIFY(i) + (j - i) ELSE INDEXIFY(i) + (j - i) - Capacity
  BY <1>1, CountOn
<1>3. INDEXIFY(i) \in 0..Capacity-1 /\ INDEXIFY(j) \in 0..Capacity-1
  BY Indexified
<1> QED BY <1>1, <1>2, <1>3

\* Two indexes less than a capacity apart are in different slots.
LEMMA DifferentSlots ==
  ASSUME NEW i \in Int, NEW j \in Int, i < j, j < i + Capacity
  PROVE  INDEXIFY(i) # INDEXIFY(j)
BY Distance, Indexified, CapacityAssumption

-----------------------------------------------------------------------------
(* The inductive invariant.                                                 *)

\* The oldest index that the writer does not own, and the next to be copied.
Base == idx_tail - Capacity
Pos == Base + Len(values)

(***************************************************************************)
(* The slot that a push uses is not the last one: is_full said so, and     *)
(* since then the reader can only have moved idx_tail on.                  *)
(***************************************************************************)
WriterInv ==
    /\ idx_head < idx_tail /\ Base <= idx_head
    /\ wpc # "check" => idx_head + 1 < idx_tail
    /\ wpc = "stored" => idx_head < MaxPushes

(***************************************************************************)
(* pop_bulk has copied up to Pos and has the slots up to cached_head to    *)
(* copy: in one run, or in two around the end of the buffer.               *)
(***************************************************************************)
ReaderInv ==
    IF rpc = "idle" THEN values = <<>>
    ELSE /\ cached_head \in Base..idx_head /\ cached_head - Base <= len
         /\ Pos <= cached_head /\ start = INDEXIFY(Pos)
         /\ cached_head - Pos =
               IF rpc = "wrap" THEN Capacity - start + INDEXIFY(cached_head)
               ELSE INDEXIFY(cached_head) - start

\* The value with absolute index i is i + 1, in the buffer and out of it.
ContentInv ==
    /\ \A i \in Base..idx_head-1 : e[INDEXIFY(i)] = i + 1
    /\ wpc = "stored" => e[INDEXIFY(idx_head)] = idx_head + 1
    /\ \A k \in 1..Len(values) : values[k] = Base + k
    /\ Len(got) = Base /\ \A k \in 1..Len(got) : got[k] = k

IInv == TypeOK /\ WriterInv /\ ReaderInv /\ ContentInv

LEMMA ConstantTypes ==
  /\ Capacity \in Nat \ {0, 1} /\ Lens \subseteq Nat /\ MaxPushes \in Nat
BY CapacityAssumption

LEMMA InitIInv == Init => IInv
<1> SUFFICES ASSUME Init PROVE IInv
  OBVIOUS
<1> USE ConstantTypes DEF Init
<1>1. TypeOK
  BY DEF TypeOK
<1>2. WriterInv /\ ReaderInv /\ ContentInv
  BY DEF WriterInv, ReaderInv, ContentInv, Base, Pos
<1> QED BY <1>1, <1>2 DEF IInv

\* A step of the writer that does not store.
LEMMA PushBumpIInv == IInv /\ push_bump => IInv'
<1> SUFFICES ASSUME IInv, push_bump PROVE IInv'
  OBVIOUS
<1> USE ConstantTypes DEF IInv, push_bump, reader, Base, Pos
<1>1. TypeOK'
  BY DEF TypeOK, WriterInv
<1>2. WriterInv'
  BY DEF TypeOK, WriterInv
<1>3. ReaderInv'
  BY DEF TypeOK, WriterInv, ReaderInv
<1>4. ContentInv'
  BY DEF TypeOK, WriterInv, ContentInv
<1> QED BY <1>1, <1>2, <1>3, <1>4

LEMMA CheckFullIInv == IInv /\ check_full => IInv'
<1> SUFFICES ASSUME IInv, check_full PROVE IInv'
  OBVIOUS
<1> USE ConstantTypes DEF IInv, check_full, is_full, shared, reader, Base, Pos
<1>1. TypeOK'
  BY DEF TypeOK
<1>2. WriterInv'
  BY DEF TypeOK, WriterInv
<1>3. ReaderInv'
  BY DEF TypeOK, ReaderInv
<1>4. ContentInv'
  BY DEF TypeOK, ContentInv
<1> QED BY <1>1, <1>2, <1>3, <1>4

\* The store leaves every slot alone whose index is in the queue.
LEMMA StoreLeaves ==
  ASSUME IInv, push_store, NEW i \in Base..idx_head-1
  PROVE  e'[INDEXIFY(i)] = e[INDEXIFY(i)]
<1>1. idx_head \in Int /\ i \in Int /\ i < idx_head /\ idx_head < i + Capacity
  BY ConstantTypes DEF IInv, TypeOK, WriterInv, Base, push_store
<1>2. INDEXIFY(i) # INDEXIFY(idx_head)
  BY <1>1, DifferentSlots
<1>3. INDEXIFY(i) \in 0..Capacity-1
  BY <1>1, Indexified
<1> QED BY <1>2, <1>3 DEF IInv, TypeOK, push_store

LEMMA PushStoreIInv == IInv /\ push_store => IInv'
<1> SUFFICES ASSUME IInv, push_store PROVE IInv'
  OBVIOUS
<1> USE ConstantTypes DEF IInv, reader
<1>1. TypeOK'
  <2>1. INDEXIFY(idx_head) \in 0..Capacity-1 /\ idx_head + 1 \in 0..MaxPushes
    <3>1. idx_head \in Int
      BY DEF TypeOK
    <3>2. INDEXIFY(idx_head) \in 0..Capacity-1
      BY <3>1, InBuffer
    <3> QED BY <3>2 DEF TypeOK, push_store
  <2> QED BY <2>1 DEF TypeOK, push_store
<1>2. WriterInv'
  BY DEF TypeOK, WriterInv, push_store, Base
<1>3. ReaderInv'
  BY DEF TypeOK, ReaderInv, push_store, Base, Pos
<1>4. ContentInv'
  <2>1. \A i \in Base..idx_head-1 : e'[INDEXIFY(i)] = i + 1
    BY StoreLeaves DEF ContentInv
  <2>2. e'[INDEXIFY(idx_head)] = idx_head + 1
    BY Indexified DEF TypeOK, push_store
  <2> QED BY <2>1, <2>2 DEF ContentInv, push_store, Base
<1> QED BY <1>1, <1>2, <1>3, <1>4

LEMMA PopBulkIInv ==
  ASSUME IInv, NEW n \in Lens, pop_bulk(n)
  PROVE  IInv'
<1> USE ConstantTypes DEF IInv
<1> DEFINE h == FakedHead(n)
           a == INDEXIFY(idx_tail)
<1>1. /\ n \in Nat /\ h \in Nat /\ h \in Base..idx_head /\ h - Base <= n
      /\ Base \in Nat /\ h < Base + Capacity /\ h <= MaxPushes
  BY DEF TypeOK, WriterInv, FakedHead, Size, Base, pop_bulk
<1>2. a = INDEXIFY(Base) /\ a \in 0..Capacity-1 /\ INDEXIFY(h) \in 0..Capacity-1
  <2>1. Base \in Int /\ Base + Capacity = idx_tail /\ idx_tail \in Int
    BY DEF TypeOK, Base
  <2>2. INDEXIFY(Base + Capacity) = INDEXIFY(Base)
    BY <2>1, SameSlot
  <2>3. a \in 0..Capacity-1 /\ INDEXIFY(h) \in 0..Capacity-1
    <3> HIDE DEF h
    <3> QED BY <2>1, <1>1, InBuffer
  <2> QED BY <2>1, <2>2, <2>3
<1>3. h - Base = IF INDEXIFY(h) < a THEN Capacity - a + INDEXIFY(h)
                 ELSE INDEXIFY(h) - a
  <2> HIDE DEF h
  <2> QED BY <1>1, <1>2, Distance
<1>4. /\ len' = n /\ cached_head' = h /\ start' = a /\ values' = <<>>
      /\ rpc' = IF INDEXIFY(h) < a THEN "wrap" ELSE "drain"
      /\ UNCHANGED <<e, idx_head, idx_tail, wpc, got>>
  BY DEF pop_bulk, shared
<1> HIDE DEF h, a
<1>5. Base' = Base /\ Pos' = Base /\ Len(values') = 0
  BY <1>1, <1>4 DEF Base, Pos
<1>6. TypeOK'
  BY <1>1, <1>2, <1>4 DEF TypeOK
<1>7. WriterInv'
  BY <1>4, <1>5 DEF WriterInv
<1>8. ReaderInv'
  BY <1>1, <1>2, <1>3, <1>4, <1>5 DEF ReaderInv
<1>9. ContentInv'
  BY <1>4, <1>5 DEF ContentInv
<1> QED BY <1>6, <1>7, <1>8, <1>9

\* What both loops of pop_bulk do: one more word is copied, the right one.
LEMMA OneMoreWord ==
  ASSUME IInv, rpc # "idle", Pos < cached_head, values' = Append(values, e[start]),
         UNCHANGED <<e, idx_head, idx_tail, wpc, got>>
  PROVE  /\ values' \in Seq(1..MaxPushes)
         /\ Base' = Base /\ Base \in Nat /\ Pos \in Nat /\ Pos' = Pos + 1
         /\ ContentInv'
<1> USE ConstantTypes DEF IInv
<1>1. Base \in Nat /\ Len(values) \in Nat /\ Pos \in Nat
  BY DEF TypeOK, Base, Pos
<1>2. Pos \in Base..idx_head-1 /\ start = INDEXIFY(Pos) /\ Pos < MaxPushes
  BY <1>1 DEF TypeOK, ReaderInv, Pos
<1>3. e[start] = Pos + 1
  BY <1>2 DEF ContentInv
<1>4. values' \in Seq(1..MaxPushes) /\ Len(values') = Len(values) + 1
  BY <1>1, <1>2, <1>3 DEF TypeOK
<1>5. Base' = Base /\ Pos' = Pos + 1
  BY <1>1, <1>4 DEF Base, Pos
<1>6. \A k \in 1..Len(values') : values'[k] = Base + k
  <2> TAKE k \in 1..Len(values')
  <2>1. CASE k = Len(values) + 1
    BY <2>1, <1>1, <1>3 DEF TypeOK, Pos
  <2>2. CASE k # Len(values) + 1
    <3>1. k \in 1..Len(values)
      BY <2>2, <1>1, <1>4
    <3> QED BY <3>1, <1>1 DEF TypeOK, ContentInv
  <2> QED BY <2>1, <2>2
<1>7. ContentInv'
  BY <1>5, <1>6 DEF ContentInv
<1> QED BY <1>1, <1>4, <1>5, <1>7

LEMMA PopBulkWrapIInv == IInv /\ pop_bulk_wrap => IInv'
<1> SUFFICES ASSUME IInv, pop_bulk_wrap PROVE IInv'
  OBVIOUS
<1> USE ConstantTypes DEF IInv
<1>1. /\ rpc = "wrap" /\ cached_head \in Nat /\ start \in 0..Capacity-1
      /\ values' = Append(values, e[start])
      /\ UNCHANGED <<e, idx_head, idx_tail, wpc, got, len, cached_head>>
  BY DEF pop_bulk_wrap, shared, TypeOK
<1>2. INDEXIFY(cached_head) \in 0..Capacity-1
  <2>1. cached_head \in Int
    BY <1>1
  <2> QED BY <2>1, InBuffer
<1>3. Pos < cached_head
  BY <1>1, <1>2 DEF ReaderInv, TypeOK, Pos, Base
<1>4. /\ values' \in Seq(1..MaxPushes) /\ ContentInv'
      /\ Base' = Base /\ Base \in Nat /\ Pos \in Nat /\ Pos' = Pos + 1
  BY <1>1, <1>3, OneMoreWord
<1>5. start' = INDEXIFY(Pos + 1) /\ start' \in 0..Capacity-1
  <2>1. start = INDEXIFY(Pos)
    BY <1>1 DEF ReaderInv
  <2>2. INDEXIFY(Pos + 1) = IF start + 1 = Capacity THEN 0 ELSE start + 1
    <3>1. Pos \in Int
      BY <1>4
    <3>2. INDEXIFY(Pos + 1) =
             IF INDEXIFY(Pos) + 1 = Capacity THEN 0 ELSE INDEXIFY(Pos) + 1
      BY ONLY <3>1, NextSlot
    <3> QED BY <2>1, <3>2
  <2> QED BY <1>1, <1>2, <2>2 DEF pop_bulk_wrap
<1>6. TypeOK'
  BY <1>1, <1>4, <1>5 DEF TypeOK, pop_bulk_wrap
<1>7. WriterInv'
  BY <1>1, <1>4 DEF WriterInv
<1>8. ReaderInv'
  <2>1. /\ cached_head \in Base..idx_head /\ cached_head - Base <= len
        /\ cached_head - Pos = Capacity - start + INDEXIFY(cached_head)
    BY <1>1 DEF ReaderInv
  <2>2. rpc' # "idle" /\ start' = INDEXIFY(Pos') /\ Pos' <= cached_head'
    BY <1>1, <1>3, <1>4, <1>5 DEF pop_bulk_wrap
  <2>3. cached_head' - Pos' = IF rpc' = "wrap"
                              THEN Capacity - start' + INDEXIFY(cached_head')
                              ELSE INDEXIFY(cached_head') - start'
    BY <1>1, <1>2, <1>4, <2>1 DEF pop_bulk_wrap
  <2> QED BY <1>1, <1>4, <2>1, <2>2, <2>3 DEF ReaderInv
<1> QED BY <1>4, <1>6, <1>7, <1>8

LEMMA PopBulkDrainIInv == IInv /\ pop_bulk_drain => IInv'
<1> SUFFICES ASSUME IInv, pop_bulk_drain PROVE IInv'
  OBVIOUS
<1> USE ConstantTypes DEF IInv
<1>1. /\ rpc = "drain" /\ cached_head \in Nat /\ start \in 0..Capacity-1
      /\ values' = Append(values, e[start]) /\ start < INDEXIFY(cached_head)
      /\ UNCHANGED <<e, idx_head, idx_tail, wpc, got, rpc, len, cached_head>>
  BY DEF pop_bulk_drain, shared, TypeOK
<1>2. INDEXIFY(cached_head) \in 0..Capacity-1
  <2>1. cached_head \in Int
    BY <1>1
  <2> QED BY <2>1, InBuffer
<1>3. Pos < cached_head
  BY <1>1, <1>2 DEF ReaderInv, TypeOK, Pos, Base
<1>4. /\ values' \in Seq(1..MaxPushes) /\ ContentInv'
      /\ Base' = Base /\ Base \in Nat /\ Pos \in Nat /\ Pos' = Pos + 1
  BY <1>1, <1>3, OneMoreWord
<1>5. start' = INDEXIFY(Pos + 1) /\ start' \in 0..Capacity-1
  <2>1. start = INDEXIFY(Pos)
    BY <1>1 DEF ReaderInv
  <2>2. INDEXIFY(Pos + 1) = IF start + 1 = Capacity THEN 0 ELSE start + 1
    <3>1. Pos \in Int
      BY <1>4
    <3>2. INDEXIFY(Pos + 1) =
             IF INDEXIFY(Pos) + 1 = Capacity THEN 0 ELSE INDEXIFY(Pos) + 1
      BY ONLY <3>1, NextSlot
    <3> QED BY <2>1, <3>2
  <2> QED BY <1>1, <1>2, <2>2 DEF pop_bulk_drain
<1>6. TypeOK'
  BY <1>1, <1>4, <1>5 DEF TypeOK, pop_bulk_drain
<1>7. WriterInv'
  BY <1>1, <1>4 DEF WriterInv
<1>8. ReaderInv'
  <2>1. /\ cached_head \in Base..idx_head /\ cached_head - Base <= len
        /\ cached_head - Pos = INDEXIFY(cached_head) - start
    BY <1>1 DEF ReaderInv
  <2>2. rpc' # "idle" /\ start' = INDEXIFY(Pos') /\ Pos' <= cached_head'
    BY <1>1, <1>3, <1>4, <1>5 DEF pop_bulk_drain
  <2>3. cached_head' - Pos' = IF rpc' = "wrap"
                              THEN Capacity - start' + INDEXIFY(cached_head')
                              ELSE INDEXIFY(cached_head') - start'
    BY <1>1, <1>2, <1>4, <2>1 DEF pop_bulk_drain
  <2> QED BY <1>1, <1>4, <2>1, <2>2, <2>3 DEF ReaderInv
<1> QED BY <1>4, <1>6, <1>7, <1>8

LEMMA PopBulkReturnIInv == IInv /\ pop_bulk_return => IInv'
<1> SUFFICES ASSUME IInv, pop_bulk_return PROVE IInv'
  OBVIOUS
<1> USE ConstantTypes DEF IInv
<1>1. /\ rpc = "drain" /\ cached_head \in Nat /\ start = INDEXIFY(cached_head)
      /\ idx_tail' = cached_head + Capacity /\ got' = got \o values
      /\ rpc' = "idle" /\ values' = <<>> /\ start' = 0 /\ len' = 0
      /\ cached_head' = 0 /\ UNCHANGED <<e, idx_head, wpc>>
  BY DEF pop_bulk_return, NewTail, TypeOK
<1>2. INDEXIFY(cached_head) \in 0..Capacity-1
  <2>1. cached_head \in Int
    BY <1>1
  <2> QED BY <2>1, InBuffer
<1>3. /\ Pos = cached_head /\ cached_head \in Base..idx_head
      /\ Base \in Nat /\ Len(values) \in Nat
  <2>1. Base \in Nat /\ Len(values) \in Nat /\ Pos \in Nat
    BY DEF TypeOK, Pos, Base
  <2>2. cached_head - Pos = INDEXIFY(cached_head) - start /\ cached_head \in Base..idx_head
    BY <1>1 DEF ReaderInv
  <2> QED BY <1>1, <1>2, <2>1, <2>2
<1>4. Base' = cached_head
  BY <1>1 DEF Base
<1>5. /\ got' \in Seq(1..MaxPushes) /\ Len(got') = cached_head
      /\ \A k \in 1..Len(got') : got'[k] = k
  <2>1. got \in Seq(1..MaxPushes) /\ values \in Seq(1..MaxPushes)
    BY DEF TypeOK
  <2>2. /\ got' \in Seq(1..MaxPushes) /\ Len(got') = Len(got) + Len(values)
        /\ \A k \in 1..Len(got) + Len(values) :
              got'[k] = IF k <= Len(got) THEN got[k] ELSE values[k - Len(got)]
    BY <1>1, <2>1, ConcatProperties
  <2>3. Len(got') = cached_head
    BY <1>3, <2>2 DEF ContentInv, Pos
  <2>4. \A k \in 1..Len(got') : got'[k] = k
    <3> SUFFICES ASSUME NEW k \in 1..Len(got) + Len(values)
                 PROVE  got'[k] = k
      BY <2>2
    <3>1. Len(got) = Base /\ k \in Nat
      BY <1>3 DEF ContentInv
    <3>2. CASE k <= Len(got)
      BY <3>1, <3>2, <2>2 DEF ContentInv
    <3>3. CASE ~(k <= Len(got))
      <4>1. k - Len(got) \in 1..Len(values)
        BY <1>3, <3>1, <3>3
      <4>2. values[k - Len(got)] = Base + (k - Len(got))
        BY <4>1 DEF ContentInv
      <4> QED BY <1>3, <3>1, <3>3, <4>2, <2>2
    <3> QED BY <3>2, <3>3
  <2> QED BY <2>2, <2>3, <2>4
<1>6. TypeOK'
  BY <1>1, <1>3, <1>5 DEF TypeOK
<1>7. WriterInv'
  BY <1>1, <1>3, <1>4 DEF WriterInv, TypeOK, Base
<1>8. ReaderInv'
  BY <1>1 DEF ReaderInv
<1>9. ContentInv'
  BY <1>1, <1>3, <1>4, <1>5 DEF ContentInv, TypeOK
<1> QED BY <1>6, <1>7, <1>8, <1>9

LEMMA NextIInv == IInv /\ [Next]_vars => IInv'
<1> SUFFICES ASSUME IInv, [Next]_vars PROVE IInv'
  OBVIOUS
<1>1. CASE UNCHANGED vars
  BY <1>1 DEF IInv, TypeOK, WriterInv, ReaderInv, ContentInv, Base, Pos,
              vars, shared, reader
<1>2. CASE Drained
  BY <1>1, <1>2 DEF Drained
<1>3. CASE push_store \/ push_bump \/ check_full
  BY <1>3, PushStoreIInv, PushBumpIInv, CheckFullIInv
<1>4. CASE \E n \in Lens : pop_bulk(n)
  BY <1>4, PopBulkIInv
<1>5. CASE pop_bulk_wrap \/ pop_bulk_drain \/ pop_bulk_return
  BY <1>5, PopBulkWrapIInv, PopBulkDrainIInv, PopBulkReturnIInv
<1> QED BY <1>1, <1>2, <1>3, <1>4, <1>5 DEF Next

\* In every reachable state, for every capacity.
LEMMA Invariance == Spec => []IInv
BY InitIInv, NextIInv, PTL DEF Spec

-----------------------------------------------------------------------------
(* The properties of Queue.                                                 *)

\* The variables stay in their types; what is copied out was pushed.
THEOREM TypeCorrect == Spec => []TypeOK
BY Invariance, PTL DEF IInv

(***************************************************************************)
(* assert(q->idx_head < q->idx_tail) holds in push and in is_full at every *)
(* point of a concurrent pop_bulk, whose cached head is never ahead.       *)
(***************************************************************************)
THEOREM HeadStaysBelowTail == Spec => []HeadBelowTail
<1>1. IInv => HeadBelowTail
  BY DEF IInv, WriterInv, ReaderInv, HeadBelowTail, Base
<1> QED BY <1>1, Invariance, PTL

(***************************************************************************)
(* pop_bulk never writes beyond the caller's buffer, and the number of     *)
(* slots it gives back is the number of words it copied.                   *)
(***************************************************************************)
THEOREM PopBulkFitsBuffer == Spec => []FitsBuffer
<1>1. IInv => FitsBuffer
  <2> SUFFICES ASSUME IInv, rpc # "idle"
               PROVE  /\ cached_head - Base <= len
                      /\ Len(values) <= cached_head - Base
                      /\ rpc = "drain" /\ start = INDEXIFY(cached_head) =>
                            Len(values) = cached_head - Base
    BY DEF FitsBuffer, Base
  <2>1. /\ Base \in Int /\ Len(values) \in Nat /\ cached_head \in Int
        /\ start \in Int /\ Pos = Base + Len(values)
    BY ConstantTypes DEF IInv, TypeOK, Base, Pos
  <2>2. /\ cached_head - Base <= len /\ Pos <= cached_head
        /\ rpc = "drain" => cached_head - Pos = INDEXIFY(cached_head) - start
    BY DEF IInv, ReaderInv
  <2> QED BY <2>1, <2>2
<1> QED BY <1>1, Invariance, PTL

(***************************************************************************)
(* While pop_bulk runs, no store of the writer reaches a slot that it is   *)
(* going to copy or has copied: neither takes a lock.                      *)
(***************************************************************************)
THEOREM CopiesAreStable == Spec => CopiesStable
<1> DEFINE A == rpc # "idle" /\ e' # e =>
                  \A i \in idx_tail - Capacity .. cached_head - 1 :
                     e'[INDEXIFY(i)] = e[INDEXIFY(i)]
<1>1. IInv /\ [Next]_vars => [A]_vars
  <2> SUFFICES ASSUME IInv, Next, rpc # "idle", e' # e,
                      NEW i \in idx_tail - Capacity .. cached_head - 1
               PROVE  e'[INDEXIFY(i)] = e[INDEXIFY(i)]
    OBVIOUS
  <2>1. push_store
    BY DEF Next, push_bump, check_full, pop_bulk, pop_bulk_wrap, pop_bulk_drain,
           pop_bulk_return, Drained, shared, reader, vars
  <2>2. i \in Base..idx_head-1
    BY ConstantTypes DEF IInv, TypeOK, ReaderInv, Base
  <2> QED BY <2>1, <2>2, StoreLeaves
<1> QED BY <1>1, Invariance, PTL DEF Spec, CopiesStable

-----------------------------------------------------------------------------
(* The sequences of the FIFO are segments of the sequence of pushed values. *)

Numbers(a, b) == [i \in 1..b-a |-> a + i]

LEMMA NumbersAre ==
  ASSUME NEW a \in Int, NEW b \in Int, a <= b
  PROVE  /\ Numbers(a, b) \in Seq(Int) /\ Len(Numbers(a, b)) = b - a
         /\ \A i \in 1..b-a : Numbers(a, b)[i] = a + i
<1>1. b - a \in Nat
  OBVIOUS
<1>2. Numbers(a, b) \in [1..b-a -> Int]
  BY DEF Numbers
<1>3. Numbers(a, b) \in Seq(Int)
  BY <1>1, <1>2
<1> QED BY <1>1, <1>3 DEF Numbers

LEMMA IsNumbers ==
  ASSUME NEW a \in Int, NEW b \in Int, a <= b, NEW s \in Seq(Int), Len(s) = b - a,
         \A i \in 1..b-a : s[i] = a + i
  PROVE  s = Numbers(a, b)
<1>1. /\ Numbers(a, b) \in Seq(Int) /\ Len(Numbers(a, b)) = Len(s)
      /\ \A i \in 1..Len(s) : Numbers(a, b)[i] = s[i]
  BY NumbersAre
<1> HIDE DEF Numbers
<1> QED BY <1>1, SeqEqual

\* Segments that adjoin are one segment.
LEMMA NumbersConcat ==
  ASSUME NEW a \in Int, NEW b \in Int, NEW c \in Int, a <= b, b <= c
  PROVE  Numbers(a, b) \o Numbers(b, c) = Numbers(a, c)
<1> DEFINE s == Numbers(a, b)
           t == Numbers(b, c)
<1>1. s \in Seq(Int) /\ Len(s) = b - a /\ \A i \in 1..b-a : s[i] = a + i
  BY NumbersAre
<1>2. t \in Seq(Int) /\ Len(t) = c - b /\ \A i \in 1..c-b : t[i] = b + i
  BY NumbersAre
<1> HIDE DEF s, t
<1>3. /\ s \o t \in Seq(Int) /\ Len(s \o t) = c - a
      /\ \A i \in 1..c-a : (s \o t)[i] = IF i <= b - a THEN s[i] ELSE t[i - (b - a)]
  <2>1. /\ s \o t \in Seq(Int) /\ Len(s \o t) = Len(s) + Len(t)
        /\ \A i \in 1..Len(s) + Len(t) :
              (s \o t)[i] = IF i <= Len(s) THEN s[i] ELSE t[i - Len(s)]
    BY <1>1, <1>2, ConcatProperties
  <2>2. Len(s) = b - a /\ Len(s) + Len(t) = c - a
    BY <1>1, <1>2
  <2> QED BY <2>1, <2>2
<1>4. ASSUME NEW i \in 1..c-a PROVE (s \o t)[i] = a + i
  <2>1. CASE i <= b - a
    BY <2>1, <1>1, <1>3
  <2>2. CASE ~(i <= b - a)
    <3>1. i - (b - a) \in 1..c-b
      BY <2>2
    <3>2. t[i - (b - a)] = b + (i - (b - a))
      BY <3>1, <1>2
    <3> QED BY <2>2, <3>2, <1>3
  <2> QED BY <2>1, <2>2
<1>5. a <= c
  OBVIOUS
<1>6. s \o t = Numbers(a, c)
  BY <1>3, <1>4, <1>5, IsNumbers
<1> QED BY <1>6 DEF s, t

LEMMA NumbersAppend ==
  ASSUME NEW a \in Int, NEW b \in Int, a <= b
  PROVE  Append(Numbers(a, b), b + 1) = Numbers(a, b + 1)
<1> DEFINE s == Numbers(a, b)
           t == Append(s, b + 1)
           c == b + 1
<1>1. s \in Seq(Int) /\ Len(s) = b - a /\ \A i \in 1..b-a : s[i] = a + i
  BY NumbersAre
<1> HIDE DEF s
<1>2. /\ t \in Seq(Int) /\ Len(t) = c - a /\ c \in Int /\ a <= c
      /\ \A i \in 1..b-a : t[i] = s[i]
      /\ t[b - a + 1] = b + 1
  <2>1. /\ t \in Seq(Int) /\ Len(t) = Len(s) + 1
        /\ \A i \in 1..Len(s) : t[i] = s[i]
        /\ t[Len(s) + 1] = b + 1
    <3>1. s \in Seq(Int) /\ b + 1 \in Int
      BY <1>1
    <3> QED BY <3>1, AppendProperties
  <2>2. Len(s) = b - a /\ Len(s) + 1 = c - a /\ c \in Int /\ a <= c
    BY <1>1
  <2> HIDE DEF t, c
  <2> QED BY <2>1, <2>2
<1>3. \A i \in 1..c-a : t[i] = a + i
  BY <1>1, <1>2
<1> HIDE DEF t, c
<1>4. t = Numbers(a, c)
  BY <1>2, <1>3, IsNumbers
<1> QED BY <1>4 DEF s, t, c

\* A part of a segment is a segment.
LEMMA NumbersSubSeq ==
  ASSUME NEW a \in Int, NEW b \in Int, a <= b, NEW m \in 0..b-a, NEW n \in m..b-a
  PROVE  SubSeq(Numbers(a, b), m + 1, n) = Numbers(a + m, a + n)
<1> DEFINE s == Numbers(a, b)
           t == SubSeq(s, m + 1, n)
           c == a + m
           d == a + n
<1>1. s \in Seq(Int) /\ Len(s) = b - a /\ \A i \in 1..b-a : s[i] = a + i
  BY NumbersAre
<1> HIDE DEF s
<1>2. \A i \in m+1..n : s[i] \in Int /\ i \in 1..b-a
  BY <1>1
<1>3. /\ t \in Seq(Int) /\ Len(t) = IF m + 1 <= n THEN n - (m + 1) + 1 ELSE 0
      /\ \A i \in 1..n-(m+1)+1 : t[i] = s[(m + 1) + i - 1]
  <2>1. m + 1 \in Int /\ n \in Int /\ \A i \in m+1..n : s[i] \in Int
    BY <1>2
  <2> HIDE DEF s
  <2> QED BY <2>1, SubSeqProperties
<1>4. Len(t) = d - c /\ c \in Int /\ d \in Int /\ c <= d /\ d - c = n - m
  BY <1>3
<1>5. \A i \in 1..n-m : t[i] = c + i
  <2> TAKE i \in 1..n-m
  <2>1. (m + 1) + i - 1 \in 1..b-a /\ i \in 1..n-(m+1)+1 /\ (m + 1) + i - 1 = m + i
    OBVIOUS
  <2>2. t[i] = s[m + i]
    BY <2>1, <1>3
  <2>3. s[m + i] = a + (m + i)
    BY <2>1, <1>1
  <2> QED BY <2>2, <2>3
<1>6. \A i \in 1..d-c : t[i] = c + i
  BY <1>4, <1>5
<1> HIDE DEF t, c, d
<1>7. t = Numbers(c, d)
  BY <1>3, <1>4, <1>6, IsNumbers
<1> QED BY <1>7 DEF s, t, c, d

-----------------------------------------------------------------------------
(* The interleaved accesses implement the FIFO.                             *)

\* The slots hold consecutive values as long as they are in the queue.
LEMMA SlotsAreNumbers ==
  ASSUME IInv, NEW from \in Int, NEW to \in Int,
         Base <= from, from <= to, to <= idx_head
  PROVE  Slots(from, to) = Numbers(from, to)
<1> USE ConstantTypes
<1>1. ASSUME NEW i \in 1..to-from
      PROVE  e[INDEXIFY(from + i - 1)] = from + i
  <2> DEFINE j == from + i - 1
  <2>1. j \in Base..idx_head-1 /\ j + 1 = from + i
    BY DEF IInv, TypeOK, Base
  <2> HIDE DEF j
  <2>2. e[INDEXIFY(j)] = j + 1
    BY <2>1 DEF IInv, ContentInv
  <2> QED BY <2>1, <2>2 DEF j
<1> QED BY <1>1 DEF Slots, Numbers

(***************************************************************************)
(* What the FIFO holds are the pushed values from From on, and what has    *)
(* been taken out of it are all the values before.                         *)
(***************************************************************************)
Abstracted ==
    /\ From \in Nat /\ idx_head \in Nat /\ Base <= From /\ From <= idx_head
    /\ AbsQueue = Numbers(From, idx_head) /\ AbsOut = Numbers(0, From)

LEMMA AbstractState == IInv => Abstracted
<1> SUFFICES ASSUME IInv PROVE Abstracted
  OBVIOUS
<1> USE ConstantTypes
<1>1. /\ Base \in Nat /\ From \in Nat /\ idx_head \in Nat
      /\ Base <= From /\ From <= idx_head
  BY DEF IInv, TypeOK, WriterInv, ReaderInv, Base, From
<1>2. AbsQueue = Numbers(From, idx_head)
  BY <1>1, SlotsAreNumbers DEF AbsQueue
<1>3. got = Numbers(0, Base)
  <2>1. got \in Seq(Int) /\ Len(got) = Base - 0 /\ \A i \in 1..Base-0 : got[i] = 0 + i
    BY <1>1 DEF IInv, TypeOK, ContentInv
  <2> QED BY <2>1, <1>1, IsNumbers
<1>4. AbsOut = Numbers(0, From)
  <2>1. CASE rpc = "idle"
    BY <2>1, <1>3 DEF AbsOut, From, Base
  <2>2. CASE rpc # "idle"
    <3>1. /\ Pos \in Nat /\ Base <= Pos /\ Pos <= From /\ From = cached_head
          /\ Pos - Base = Len(values)
      BY <2>2, <1>1 DEF IInv, TypeOK, ReaderInv, Pos, From
    <3>2. values = Numbers(Base, Pos)
      <4>1. /\ values \in Seq(Int) /\ Len(values) = Pos - Base
            /\ \A i \in 1..Pos-Base : values[i] = Base + i
        BY <3>1, <1>1 DEF IInv, TypeOK, ContentInv
      <4> QED BY <4>1, <3>1, <1>1, IsNumbers
    <3>3. Slots(Pos, cached_head) = Numbers(Pos, From)
      BY <3>1, <1>1, SlotsAreNumbers
    <3>4. AbsOut = got \o values \o Slots(Pos, cached_head)
      BY <2>2 DEF AbsOut, Pos, Base
    <3> 0 \in Int /\ Base \in Int /\ Pos \in Int /\ From \in Int
        /\ 0 <= Base /\ 0 <= Pos
      BY <1>1, <3>1
    <3>5. Numbers(0, Base) \o Numbers(Base, Pos) = Numbers(0, Pos)
      BY <3>1, NumbersConcat
    <3>6. Numbers(0, Pos) \o Numbers(Pos, From) = Numbers(0, From)
      BY <3>1, NumbersConcat
    <3> QED BY <1>3, <3>2, <3>3, <3>4, <3>5, <3>6
  <2> QED BY <2>1, <2>2
<1> QED BY <1>1, <1>2, <1>4 DEF Abstracted

LEMMA AbstractStateNext == IInv' => Abstracted'
BY AbstractState, PTL

LEMMA FifoInit == Init => F!Init
<1> SUFFICES ASSUME Init PROVE AbsQueue = <<>> /\ AbsOut = <<>>
  BY DEF F!Init
<1>1. From = 0 /\ idx_head = 0 /\ AbsOut = <<>>
  BY ConstantTypes DEF Init, From, AbsOut
<1> QED BY <1>1 DEF AbsQueue, Slots

\* The FIFO stutters when neither From nor idx_head moves.
LEMMA FifoStutters ==
  ASSUME IInv, IInv', From' = From, idx_head' = idx_head
  PROVE  UNCHANGED <<AbsQueue, AbsOut>>
<1>1. AbsQueue = Numbers(From, idx_head) /\ AbsOut = Numbers(0, From)
  BY AbstractState DEF Abstracted
<1>2. AbsQueue' = Numbers(From', idx_head') /\ AbsOut' = Numbers(0, From')
  BY AbstractStateNext DEF Abstracted
<1> QED BY <1>1, <1>2

\* The increment of idx_head is the push of the FIFO, which has room.
LEMMA FifoPush ==
  ASSUME IInv, IInv', push_bump
  PROVE  F!Push
<1> USE ConstantTypes
<1>1. /\ From \in Nat /\ idx_head \in Nat /\ Base <= From /\ From <= idx_head
      /\ AbsQueue = Numbers(From, idx_head) /\ AbsOut = Numbers(0, From)
  BY AbstractState DEF Abstracted
<1>2. AbsQueue' = Numbers(From', idx_head') /\ AbsOut' = Numbers(0, From')
  BY AbstractStateNext DEF Abstracted
<1>3. From' = From /\ idx_head' = idx_head + 1
  BY DEF push_bump, reader, From
<1>4. Len(AbsQueue) = idx_head - From /\ Len(AbsOut) = From
  <2>1. 0 \in Int /\ From \in Int /\ idx_head \in Int /\ 0 <= From /\ From <= idx_head
    BY <1>1
  <2>2. Len(Numbers(From, idx_head)) = idx_head - From /\ Len(Numbers(0, From)) = From - 0
    BY <2>1, NumbersAre
  <2> QED BY <1>1, <2>1, <2>2
<1>5. Len(AbsQueue) < Capacity - 1
  BY <1>1, <1>4 DEF IInv, TypeOK, WriterInv, Base, push_bump
<1>6. AbsQueue' = Append(AbsQueue, idx_head + 1)
  <2>1. Append(Numbers(From, idx_head), idx_head + 1) = Numbers(From, idx_head + 1)
    <3>1. From \in Int /\ idx_head \in Int /\ From <= idx_head
      BY <1>1
    <3> QED BY ONLY <3>1, NumbersAppend
  <2> QED BY <1>1, <1>2, <1>3, <2>1
<1>7. Len(AbsOut) + Len(AbsQueue) + 1 = idx_head + 1
  BY <1>1, <1>4
<1> QED BY <1>1, <1>2, <1>3, <1>5, <1>6, <1>7 DEF F!Push

\* The read of idx_head is the pop of the FIFO, of what the buffer has room for.
LEMMA FifoPop ==
  ASSUME IInv, IInv', NEW n \in Lens, pop_bulk(n)
  PROVE  F!Pop(n)
<1> USE ConstantTypes
<1> DEFINE m == IF Len(AbsQueue) > n THEN n ELSE Len(AbsQueue)
           h == FakedHead(n)
<1>1. /\ From \in Nat /\ idx_head \in Nat /\ From = Base /\ From <= idx_head
      /\ AbsQueue = Numbers(From, idx_head) /\ AbsOut = Numbers(0, From)
  BY AbstractState DEF Abstracted, pop_bulk, From, Base
<1>2. AbsQueue' = Numbers(From', idx_head') /\ AbsOut' = Numbers(0, From')
  BY AbstractStateNext DEF Abstracted
<1>3. Len(AbsQueue) = idx_head - From
  <2>1. From \in Int /\ idx_head \in Int /\ From <= idx_head
    BY <1>1
  <2>2. Len(Numbers(From, idx_head)) = idx_head - From
    BY <2>1, NumbersAre
  <2> QED BY <1>1, <2>2
<1>4. From' = h /\ idx_head' = idx_head
  BY DEF pop_bulk, From, shared
<1>5. h = From + m /\ m \in 0..idx_head-From /\ n \in Nat
  <2>1. n \in Nat /\ Size = idx_head - From /\ Size \in Nat
    BY <1>1 DEF Size, Base, IInv, TypeOK
  <2>2. m = IF Size > n THEN n ELSE Size
    BY <2>1, <1>3
  <2>3. h = IF Size > n THEN idx_head - (Size - n) ELSE idx_head
    BY DEF FakedHead
  <2> HIDE DEF m, h
  <2> QED BY <1>1, <2>1, <2>2, <2>3
<1> HIDE DEF m, h
<1>6. SubSeq(AbsQueue, 1, m) = Numbers(From, h)
  <2>1. SubSeq(Numbers(From, idx_head), 0 + 1, m) = Numbers(From + 0, From + m)
    <3>1. From \in Int /\ idx_head \in Int /\ 0 \in 0..idx_head-From
          /\ m \in 0..idx_head-From
      BY <1>1, <1>5
    <3> QED BY <3>1, <1>1, NumbersSubSeq
  <2>2. 0 + 1 = 1 /\ From + 0 = From
    BY <1>1
  <2> QED BY <2>1, <2>2, <1>1, <1>5
<1>7. SubSeq(AbsQueue, m + 1, Len(AbsQueue)) = Numbers(h, idx_head)
  <2>1. SubSeq(Numbers(From, idx_head), m + 1, idx_head - From)
           = Numbers(From + m, From + (idx_head - From))
    <3>1. From \in Int /\ idx_head \in Int /\ m \in 0..idx_head-From
          /\ idx_head - From \in m..idx_head-From
      BY <1>1, <1>5
    <3> QED BY <3>1, <1>1, NumbersSubSeq
  <2>2. From + (idx_head - From) = idx_head
    BY <1>1
  <2> QED BY <2>1, <2>2, <1>1, <1>3, <1>5
<1>8. Numbers(0, From) \o Numbers(From, h) = Numbers(0, h)
  <2>1. 0 <= From /\ From <= h /\ From \in Int /\ h \in Int
    BY <1>1, <1>5
  <2> QED BY <2>1, NumbersConcat
<1>9. AbsOut' = AbsOut \o SubSeq(AbsQueue, 1, m)
  BY <1>1, <1>2, <1>4, <1>6, <1>8
<1>10. AbsQueue' = SubSeq(AbsQueue, m + 1, Len(AbsQueue))
  BY <1>2, <1>4, <1>7
<1> QED BY <1>9, <1>10 DEF F!Pop, m

(***************************************************************************)
(* queue.h: "thread-safe, linearizable data structures, assuming           *)
(* single-reader, single-writer usage".  Every value is delivered once and *)
(* in order for every capacity and every buffer length, whatever the       *)
(* interleaving of the two.                                                *)
(***************************************************************************)
THEOREM QueueIsFifo == Spec => IsFifo
<1>1. IInv /\ IInv' /\ [Next]_vars => [F!Next]_<<AbsQueue, AbsOut>>
  <2> SUFFICES ASSUME IInv, IInv', [Next]_vars
               PROVE  F!Next \/ UNCHANGED <<AbsQueue, AbsOut>>
    OBVIOUS
  <2>1. CASE push_bump
    BY <2>1, FifoPush DEF F!Next
  <2>2. CASE \E n \in Lens : pop_bulk(n)
    BY <2>2, FifoPop DEF F!Next
  <2>3. CASE push_store \/ check_full \/ Drained \/ UNCHANGED vars
    <3>1. From' = From /\ idx_head' = idx_head
      BY <2>3 DEF push_store, check_full, Drained, vars, shared, reader, From
    <3> QED BY <3>1, FifoStutters
  <2>4. CASE pop_bulk_wrap \/ pop_bulk_drain
    <3>1. From' = From /\ idx_head' = idx_head
      BY <2>4 DEF pop_bulk_wrap, pop_bulk_drain, shared, From
    <3> QED BY <3>1, FifoStutters
  <2>5. CASE pop_bulk_return
    <3>1. From' = From /\ idx_head' = idx_head
      BY <2>5, ConstantTypes DEF pop_bulk_return, NewTail, From, IInv, TypeOK
    <3> QED BY <3>1, FifoStutters
  <2> QED BY <2>1, <2>2, <2>3, <2>4, <2>5 DEF Next
<1> QED BY <1>1, FifoInit, Invariance, PTL DEF Spec, IsFifo, F!Spec

=============================================================================
