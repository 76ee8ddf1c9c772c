-------------------------------- MODULE Queue --------------------------------
(***************************************************************************)
(* The per-thread queue of collected pointers (queue.c): a circular buffer *)
(* with one writer, the owner in threadscan_collect, and one reader at a   *)
(* time, the reclaimer in generate_working_pointers_list.  Neither locks.  *)
(* One step is one access to the shared struct or to a slot.               *)
(*                                                                         *)
(* ThreadScan uses the queue as the set it stands for; this module shows   *)
(* that the interleaved accesses of push and pop_bulk add up to the FIFO.  *)
(***************************************************************************)
EXTENDS Integers, Sequences

CONSTANTS
    Capacity,     \* g_threadscan_ptrs_per_thread
    Lens,         \* the "len" arguments of pop_bulk
    MaxPushes     \* bound: values pushed

\* "capacity _must_ be a power of 2"; env_init sees to it.
ASSUME CapacityAssumption ==
    /\ Capacity \in Nat \ {0, 1}
    /\ \E k \in 1..Capacity : Capacity = 2^k
    /\ Lens \subseteq Nat /\ MaxPushes \in Nat

VARIABLES
    e,                     \* the slots
    idx_head, idx_tail,    \* absolute indexes
    wpc,                   \* the writer: "ready", "stored", "check"
    rpc,                   \* the reader: "idle", "wrap", "drain"
    len,                   \* the argument of pop_bulk
    cached_head,           \* idx_head in pop_bulk, "faked" when len is short
    start,                 \* the next slot that pop_bulk copies
    values,                \* what this call has copied
    got                    \* what earlier calls returned

shared == <<e, idx_head, idx_tail>>
reader == <<rpc, len, cached_head, start, values, got>>
vars == <<shared, wpc, reader>>

\* For a power of two the mask of INDEXIFY is the remainder.
INDEXIFY(abs_idx) == abs_idx % Capacity

Init ==
    /\ e = [i \in 0..Capacity-1 |-> 0]
    /\ idx_head = 0 /\ idx_tail = Capacity
    /\ wpc = "ready"
    /\ rpc = "idle" /\ len = 0 /\ cached_head = 0 /\ start = 0
    /\ values = <<>> /\ got = <<>>

-----------------------------------------------------------------------------
(* The writer.  threadscan_collect pushes when the last is_full said no.    *)

\* The n-th value pushed is n.
push_store ==
    /\ wpc = "ready" /\ idx_head < MaxPushes
    /\ e' = [e EXCEPT ![INDEXIFY(idx_head)] = idx_head + 1]
    /\ wpc' = "stored"
    /\ UNCHANGED <<idx_head, idx_tail, reader>>

push_bump ==
    /\ wpc = "stored"
    /\ idx_head' = idx_head + 1
    /\ wpc' = "check"
    /\ UNCHANGED <<e, idx_tail, reader>>

\* Mutant: the last free slot is used too.
is_full_late == idx_head >= idx_tail

\* Mutant: the writer does not wait.
is_full_never == FALSE

is_full == idx_head + 1 >= idx_tail

\* while (threadscan_queue_is_full(...))
check_full ==
    /\ wpc = "check" /\ ~is_full
    /\ wpc' = "ready"
    /\ UNCHANGED <<shared, reader>>

-----------------------------------------------------------------------------
(* The reader, under the lock of the thread list: one pop_bulk at a time.   *)

\* Elements in the queue as pop_bulk sees them.
Size == idx_head - (idx_tail - Capacity)

\* Mutant: a short buffer is not provided for.
FakedHead_long(n) == idx_head

\* "Fake" the head index so it looks like fewer elements have been pushed.
FakedHead(n) == IF Size > n THEN idx_head - (Size - n) ELSE idx_head

(***************************************************************************)
(* Cache idx_head, cut it to what fits, and find out whether the values    *)
(* wrap around the end of the buffer.                                      *)
(***************************************************************************)
pop_bulk(n) ==
    /\ rpc = "idle" /\ Size > 0
    /\ LET head == FakedHead(n) IN
          /\ len' = n /\ cached_head' = head
          /\ start' = INDEXIFY(idx_tail)
          /\ rpc' = IF INDEXIFY(head) < INDEXIFY(idx_tail) THEN "wrap" ELSE "drain"
    /\ values' = <<>>
    /\ UNCHANGED <<shared, wpc, got>>

\* The first memcpy, to the end of the buffer, word by word.
pop_bulk_wrap ==
    /\ rpc = "wrap" /\ start < Capacity
    /\ values' = Append(values, e[start])
    /\ start' = IF start + 1 = Capacity THEN 0 ELSE start + 1
    /\ rpc' = IF start + 1 = Capacity THEN "drain" ELSE "wrap"
    /\ UNCHANGED <<shared, wpc, len, cached_head, got>>

\* The second memcpy, up to the cached head.
pop_bulk_drain ==
    /\ rpc = "drain" /\ start < INDEXIFY(cached_head)
    /\ values' = Append(values, e[start])
    /\ start' = start + 1
    /\ UNCHANGED <<shared, wpc, rpc, len, cached_head, got>>

\* Mutant: idx_head is read again.
NewTail_reread == idx_head + Capacity

NewTail == cached_head + Capacity

\* The slots are given back to the writer, and the values to the caller.
pop_bulk_return ==
    /\ rpc = "drain" /\ start = INDEXIFY(cached_head)
    /\ idx_tail' = NewTail
    /\ got' = got \o values
    /\ rpc' = "idle" /\ values' = <<>> /\ start' = 0
    /\ len' = 0 /\ cached_head' = 0
    /\ UNCHANGED <<e, idx_head, wpc>>

\* Everything has been pushed and taken out.
Drained == wpc = "ready" /\ idx_head = MaxPushes /\ UNCHANGED vars

Next ==
    \/ push_store \/ push_bump \/ check_full
    \/ \E n \in Lens : pop_bulk(n)
    \/ pop_bulk_wrap \/ pop_bulk_drain \/ pop_bulk_return
    \/ Drained

Spec == Init /\ [][Next]_vars

-----------------------------------------------------------------------------
(* Properties.                                                              *)

TypeOK ==
    /\ e \in [0..Capacity-1 -> 0..MaxPushes]
    /\ idx_head \in 0..MaxPushes /\ idx_tail \in Capacity..MaxPushes+Capacity
    /\ wpc \in {"ready", "stored", "check"} /\ rpc \in {"idle", "wrap", "drain"}
    /\ len \in Nat /\ cached_head \in 0..MaxPushes /\ start \in 0..Capacity-1
    /\ values \in Seq(1..MaxPushes) /\ got \in Seq(1..MaxPushes)

(***************************************************************************)
(* assert(q->idx_head < q->idx_tail) in push and in is_full, whatever the  *)
(* reader has done in the meantime, and the reader's cached head is not    *)
(* ahead of the writer.                                                    *)
(***************************************************************************)
HeadBelowTail ==
    /\ idx_head < idx_tail
    /\ idx_tail - Capacity <= idx_head
    /\ rpc # "idle" => cached_head \in idx_tail - Capacity .. idx_head

(***************************************************************************)
(* "Prevent overflowing the output buffer": pop_bulk copies no more than   *)
(* len values, wherever it has to wrap around and however the writer moves *)
(* idx_head meanwhile, and it gives back as many slots as it copies.       *)
(***************************************************************************)
FitsBuffer ==
    rpc # "idle" =>
        /\ cached_head - (idx_tail - Capacity) <= len
        /\ Len(values) <= cached_head - (idx_tail - Capacity)
        /\ rpc = "drain" /\ start = INDEXIFY(cached_head) =>
              Len(values) = cached_head - (idx_tail - Capacity)

(***************************************************************************)
(* The writer never stores into a slot that pop_bulk has yet to copy, and  *)
(* the words copied are the ones between the old tail and the cached head. *)
(***************************************************************************)
CopiesStable ==
    [][rpc # "idle" /\ e' # e =>
         \A i \in idx_tail - Capacity .. cached_head - 1 :
            e'[INDEXIFY(i)] = e[INDEXIFY(i)]]_vars

\* The values at the absolute indexes from "from" to before "to".
Slots(from, to) == [i \in 1..to-from |-> e[INDEXIFY(from + i - 1)]]

\* The indexes from here on are in the FIFO; pop_bulk has claimed the others.
From == IF rpc = "idle" THEN idx_tail - Capacity ELSE cached_head

AbsQueue == Slots(From, idx_head)
AbsOut ==
    IF rpc = "idle" THEN got
    ELSE got \o values \o Slots(idx_tail - Capacity + Len(values), cached_head)

(***************************************************************************)
(* "thread-safe, linearizable data structures, assuming single-reader,     *)
(* single-writer usage" (queue.h): push takes effect when idx_head is      *)
(* incremented, pop_bulk when it caches idx_head.                          *)
(***************************************************************************)
F == INSTANCE Fifo WITH Room <- Capacity - 1, q <- AbsQueue, out <- AbsOut
IsFifo == F!Spec

=============================================================================
