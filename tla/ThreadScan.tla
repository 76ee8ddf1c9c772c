----------------------------- MODULE ThreadScan -----------------------------
(***************************************************************************)
(* The reclamation protocol of ThreadScan: threads hand retired nodes to   *)
(* threadscan_collect, a thread whose queue is full becomes the reclaimer, *)
(* gathers everybody's nodes, signals the other threads, each thread marks *)
(* the nodes it finds on its own stack, and what nobody marked is freed.   *)
(* (threadscan.c, thread.c, and the list walks of proc.c.)                 *)
(*                                                                         *)
(* One step is one access to state that another thread, or the thread's    *)
(* own signal handler, can see.  A critical section of thread_list.lock    *)
(* that contains no loop over the list is one step that finds the lock     *)
(* free.  The stack of a thread is the set of tracked addresses found in   *)
(* it: refs[t] are the words of its frames and saved registers, blk[t] the *)
(* words of the block it gave to threadscan_register_local_block.          *)
(*                                                                         *)
(* A build without assertions is modelled (the Makefile passes -DNDEBUG).  *)
(***************************************************************************)
EXTENDS Buffers

CONSTANTS
    Threads,       \* every thread the process ever has
    Main,          \* the thread of main_replacement
    Ptrs,          \* addresses malloc can return: positive, ordered
    NoThread,      \* the list lock is free
    NULL,          \* no argument
    Cap,           \* g_threadscan_ptrs_per_thread
    BufMax,        \* g_tsdata.max_ptrs * 2, the length of buf_addrs
    LocalThreads,  \* threads that register a local block
    PassArgs,      \* whether pthread_create may be given a node as argument
    MaxAllocs,     \* bound: nodes the application inserts
    MaxBlocks,     \* bound: local blocks a thread registers
    MaxStamp       \* bound: value of global_timestamp

ASSUME ThreadsAssumption ==
    /\ IsFiniteSet(Threads) /\ Main \in Threads /\ NoThread \notin Threads
    /\ LocalThreads \subseteq Threads
ASSUME PtrsAssumption ==
    IsFiniteSet(Ptrs) /\ Ptrs \subseteq Nat \ {0} /\ NULL \notin Ptrs
ASSUME BoundsAssumption ==
    /\ Cap \in Nat \ {0, 1} /\ BufMax \in Nat \ {0}
    /\ MaxAllocs \in Nat /\ MaxBlocks \in Nat /\ MaxStamp \in Nat
    /\ PassArgs \in BOOLEAN

VARIABLES
    \* The application: what a node is, and who can reach it.
    heap,                  \* "free", "linked" (reachable), or "retired"
    refs, blk,             \* addresses on a stack; in a local block
    nalloc,                \* nodes inserted so far
    \* Per-thread metadata (thread_data_t) and control.
    pc,                    \* where the thread's own code is
    hpc,                   \* where its signal handler is, "idle" if not running
    self, is_active,       \* td->self is set; td->is_active
    low, high,             \* td->local_block: whose bounds, 0 if not set
    ptr_list,              \* td->ptr_list, as the set of queued addresses
    arg,                   \* the argument of a call to threadscan_collect
    \* The thread list and its lock.
    thread_list, list_lock,
    todo,                  \* the rest of the list the lock's holder walks
    \* The cleanup lock.
    global_timestamp, local_timestamp, times_without_update,
    old_timestamp,         \* local to try_acquire, NoStamp outside it
    \* Signals.
    pending, self_stacks_searched,
    sig_count,             \* local to do_reclaim, 0 outside it
    \* Addresses under reclamation.
    work,                  \* the working list in the mapping of each reclaimer
    buf_addrs,             \* whose mapping g_tsdata.buf_addrs points to
    storage,               \* g_tsdata.storage, all blocks together
    victims, left,         \* after release: still to free; to be stored
    status                 \* "ok", "segv" or "fatal" (threadscan_fatal)

appVars == <<heap, refs, blk, nalloc>>
tdVars  == <<self, is_active, low, high>>
listVars == <<thread_list, list_lock, todo>>
stampVars == <<global_timestamp, local_timestamp, times_without_update,
               old_timestamp>>
sigVars == <<pending, self_stacks_searched, sig_count>>
addrVars == <<work, buf_addrs, storage, victims, left>>
vars == <<appVars, pc, hpc, tdVars, ptr_list, arg, listVars, stampVars,
          sigVars, addrVars, status>>

-----------------------------------------------------------------------------
(* Types.                                                                   *)

Stamp == [n : Nat, active : BOOLEAN]
NoStamp == [n |-> 0, active |-> FALSE]

\* Stored blocks and the working list (Buffers).
Block == [addrs : SUBSET Ptrs, nulls : Nat]
Buffer == [addrs : SUBSET Ptrs, marks : SUBSET Ptrs,
           nulls : Nat, nullmark : BOOLEAN]

\* Where a thread can be in its own code.
AppPC == {"unborn", "base", "user", "reg_low", "exit", "staged", "gone"}
CollectPC == {"push", "check", "try", "cas"}
\* Between the successful CAS of try_acquire and threadscan_thread_cleanup_release.
HoldPC == {"wait_lock", "wait", "leftovers", "pop_lock", "pop", "kill_lock",
           "kill", "scan", "scan_block", "await", "release"}
SweepPC == {"sweep", "free"}
PC == AppPC \cup CollectPC \cup HoldPC \cup SweepPC

\* Where its signal handler is.
HandlerPC == {"idle", "raise", "stamp", "search", "search_block", "count",
              "lower"}

TypeOK ==
    /\ heap \in [Ptrs -> {"free", "linked", "retired"}]
    /\ refs \in [Threads -> SUBSET Ptrs] /\ blk \in [Threads -> SUBSET Ptrs]
    /\ nalloc \in Nat
    /\ pc \in [Threads -> PC] /\ hpc \in [Threads -> HandlerPC]
    /\ self \in [Threads -> BOOLEAN] /\ is_active \in [Threads -> BOOLEAN]
    /\ low \in [Threads -> Nat] /\ high \in [Threads -> Nat]
    /\ ptr_list \in [Threads -> SUBSET Ptrs]
    /\ arg \in [Threads -> Ptrs \cup {NULL}]
    /\ thread_list \in SUBSET Threads /\ todo \in SUBSET Threads
    /\ list_lock \in Threads \cup {NoThread}
    /\ global_timestamp \in Stamp /\ local_timestamp \in [Threads -> Stamp]
    /\ times_without_update \in [Threads -> 0..2]
    /\ old_timestamp \in [Threads -> Stamp]
    /\ pending \in [Threads -> BOOLEAN]
    /\ self_stacks_searched \in Nat /\ sig_count \in Nat
    /\ work \in [Threads -> Buffer] /\ storage \in Block
    /\ buf_addrs \in Threads \cup {NoThread}
    /\ victims \in [Threads -> SUBSET Ptrs] /\ left \in [Threads -> Block]
    /\ status \in {"ok", "segv", "fatal"}

-----------------------------------------------------------------------------
(***************************************************************************)
(* main_replacement has put the metadata of Main on the list and is about  *)
(* to run threadscan_thread_base; self_stacks_searched and                 *)
(* global_timestamp have their static initial value 1.                     *)
(***************************************************************************)
Init ==
    /\ heap = [p \in Ptrs |-> "free"]
    /\ refs = [t \in Threads |-> {}] /\ blk = [t \in Threads |-> {}]
    /\ nalloc = 0
    /\ pc = [t \in Threads |-> IF t = Main THEN "base" ELSE "unborn"]
    /\ hpc = [t \in Threads |-> "idle"]
    /\ self = [t \in Threads |-> FALSE] /\ is_active = [t \in Threads |-> FALSE]
    /\ low = [t \in Threads |-> 0] /\ high = [t \in Threads |-> 0]
    /\ ptr_list = [t \in Threads |-> {}] /\ arg = [t \in Threads |-> NULL]
    /\ thread_list = {Main} /\ list_lock = NoThread /\ todo = {}
    /\ global_timestamp = [n |-> 1, active |-> FALSE]
    /\ local_timestamp = [t \in Threads |-> NoStamp]
    /\ times_without_update = [t \in Threads |-> 0]
    /\ old_timestamp = [t \in Threads |-> NoStamp]
    /\ pending = [t \in Threads |-> FALSE]
    /\ self_stacks_searched = 1 /\ sig_count = 0
    /\ work = [t \in Threads |-> EmptyBuffer] /\ buf_addrs = NoThread
    /\ storage = NoBlock
    /\ victims = [t \in Threads |-> {}] /\ left = [t \in Threads |-> NoBlock]
    /\ status = "ok"

\* The thread executes its own code: it is not inside its signal handler.
Runs(t, at) == status = "ok" /\ hpc[t] = "idle" /\ pc[t] = at
Goto(t, at) == pc' = [pc EXCEPT ![t] = at]

-----------------------------------------------------------------------------
(* The application.  It follows the README's two conditions: a node that is *)
(* collected is no longer reachable except from stacks and registered       *)
(* blocks, and it is collected once.  (External: modelled from the contract *)
(* of threadscan_collect.)                                                  *)

\* A node is allocated, linked into the shared structure, and still held.
app_insert(t, p) ==
    /\ Runs(t, "user") /\ heap[p] = "free" /\ nalloc < MaxAllocs
    /\ heap' = [heap EXCEPT ![p] = "linked"]
    /\ refs' = [refs EXCEPT ![t] = @ \cup {p}]
    /\ nalloc' = nalloc + 1
    /\ UNCHANGED <<blk, pc, hpc, tdVars, ptr_list, arg, listVars, stampVars,
                   sigVars, addrVars, status>>

\* A traversal loads a pointer to a node that is still linked.
app_read(t, p) ==
    /\ Runs(t, "user") /\ heap[p] = "linked" /\ p \notin refs[t]
    /\ refs' = [refs EXCEPT ![t] = @ \cup {p}]
    /\ UNCHANGED <<heap, blk, nalloc, pc, hpc, tdVars, ptr_list, arg, listVars,
                   stampVars, sigVars, addrVars, status>>

\* A pointer held on the stack, or in the local block, is overwritten.
app_drop(t, p) ==
    /\ Runs(t, "user") /\ p \in refs[t] \cup blk[t]
    /\ refs' = [refs EXCEPT ![t] = @ \ {p}]
    /\ blk' = [blk EXCEPT ![t] = @ \ {p}]
    /\ UNCHANGED <<heap, nalloc, pc, hpc, tdVars, ptr_list, arg, listVars,
                   stampVars, sigVars, addrVars, status>>

\* A pointer moves from the stack to the registered block.
app_spill(t, p) ==
    /\ Runs(t, "user") /\ low[t] > 0 /\ p \in refs[t]
    /\ refs' = [refs EXCEPT ![t] = @ \ {p}]
    /\ blk' = [blk EXCEPT ![t] = @ \cup {p}]
    /\ UNCHANGED <<heap, nalloc, pc, hpc, tdVars, ptr_list, arg, listVars,
                   stampVars, sigVars, addrVars, status>>

\* The thread unlinks a node it holds and calls threadscan_collect on it; the
\* caller's frame may keep the pointer, and after the push nothing else does.
\* A call with NULL returns at once and changes nothing.
threadscan_collect(t, p) ==
    /\ Runs(t, "user") /\ heap[p] = "linked" /\ p \in refs[t]
    /\ heap' = [heap EXCEPT ![p] = "retired"]
    /\ arg' = [arg EXCEPT ![t] = p]
    /\ \E kept \in {refs[t], refs[t] \ {p}} : refs' = [refs EXCEPT ![t] = kept]
    /\ Goto(t, "push")
    /\ UNCHANGED <<blk, nalloc, hpc, tdVars, ptr_list, listVars,
                   stampVars, sigVars, addrVars, status>>

-----------------------------------------------------------------------------
(* Threads come and go (wrappers.c, thread.c).                              *)

(***************************************************************************)
(* pthread_create puts the metadata on the list before the thread exists.  *)
(* The argument of the new thread may be a node its creator holds.         *)
(***************************************************************************)
pthread_create(c, t) ==
    /\ Runs(c, "user") /\ pc[t] = "unborn" /\ list_lock = NoThread
    /\ thread_list' = thread_list \cup {t}
    /\ Goto(t, "base")
    /\ \E given \in {{}} \cup {{p} : p \in IF PassArgs THEN refs[c] ELSE {}} :
          refs' = [refs EXCEPT ![t] = given]
    /\ UNCHANGED <<heap, blk, nalloc, hpc, tdVars, ptr_list, arg, list_lock,
                   todo, stampVars, sigVars, addrVars, status>>

(***************************************************************************)
(* threadscan_thread_base stores td->self and td->is_active; nothing       *)
(* orders the two stores, so another thread may see either first.          *)
(***************************************************************************)
thread_base_self(t) ==
    /\ Runs(t, "base") /\ ~self[t]
    /\ self' = [self EXCEPT ![t] = TRUE]
    /\ Goto(t, IF is_active[t] THEN "user" ELSE "base")
    /\ UNCHANGED <<appVars, hpc, is_active, low, high, ptr_list, arg, listVars,
                   stampVars, sigVars, addrVars, status>>

thread_base_active(t) ==
    /\ Runs(t, "base") /\ ~is_active[t]
    /\ is_active' = [is_active EXCEPT ![t] = TRUE]
    /\ Goto(t, IF self[t] THEN "user" ELSE "base")
    /\ UNCHANGED <<appVars, hpc, self, low, high, ptr_list, arg, listVars,
                   stampVars, sigVars, addrVars, status>>

\* Mutant: "low" is stored first.
register_local_block_low_first(t) ==
    /\ Runs(t, "user") /\ t \in LocalThreads /\ low[t] < MaxBlocks /\ blk[t] = {}
    /\ low' = [low EXCEPT ![t] = @ + 1]
    /\ Goto(t, "reg_low")
    /\ UNCHANGED <<appVars, hpc, self, is_active, high, ptr_list, arg, listVars,
                   stampVars, sigVars, addrVars, status>>

(***************************************************************************)
(* threadscan_register_local_block stores "high", then "low": the bounds   *)
(* of the thread's next block, which it may also do when it has registered *)
(* one before.  The application keeps its pointers on the stack during the *)
(* call (blk[t] is empty): neither block is searched for sure then.        *)
(***************************************************************************)
register_local_block_high(t) ==
    /\ Runs(t, "user") /\ t \in LocalThreads /\ high[t] < MaxBlocks /\ blk[t] = {}
    /\ high' = [high EXCEPT ![t] = @ + 1]
    /\ Goto(t, "reg_low")
    /\ UNCHANGED <<appVars, hpc, self, is_active, low, ptr_list, arg, listVars,
                   stampVars, sigVars, addrVars, status>>

register_local_block_low(t) ==
    /\ Runs(t, "reg_low")
    /\ low' = [low EXCEPT ![t] = high[t]]
    /\ Goto(t, "user")
    /\ UNCHANGED <<appVars, hpc, self, is_active, high, ptr_list, arg, listVars,
                   stampVars, sigVars, addrVars, status>>

\* pthread_exit: the frames are dead; threadscan_thread_cleanup starts.
thread_cleanup_inactive(t) ==
    /\ Runs(t, "user")
    /\ refs' = [refs EXCEPT ![t] = {}] /\ blk' = [blk EXCEPT ![t] = {}]
    /\ is_active' = [is_active EXCEPT ![t] = FALSE]
    /\ Goto(t, "exit")
    /\ UNCHANGED <<heap, nalloc, hpc, self, low, high, ptr_list, arg, listVars,
                   stampVars, sigVars, addrVars, status>>

\* threadscan_proc_remove_thread_data; td->ptr_list is abandoned with td.
proc_remove_thread_data(t) ==
    /\ Runs(t, "exit") /\ list_lock = NoThread
    /\ thread_list' = thread_list \ {t}
    /\ Goto(t, "staged")
    /\ UNCHANGED <<appVars, hpc, tdVars, ptr_list, arg, list_lock, todo,
                   stampVars, sigVars, addrVars, status>>

(***************************************************************************)
(* orig_pthread_exit ends the thread.  The kernel delivers a signal that   *)
(* was sent while the thread was alive before the thread is gone.          *)
(***************************************************************************)
orig_pthread_exit(t) ==
    /\ Runs(t, "staged") /\ ~pending[t]
    /\ Goto(t, "gone")
    /\ UNCHANGED <<appVars, hpc, tdVars, ptr_list, arg, listVars, stampVars,
                   sigVars, addrVars, status>>

-----------------------------------------------------------------------------
(* threadscan_collect and the cleanup lock.                                 *)

\* threadscan_queue_push: the queue is not full here.
queue_push(t) ==
    /\ Runs(t, "push")
    /\ ptr_list' = [ptr_list EXCEPT ![t] = @ \cup {arg[t]}]
    /\ arg' = [arg EXCEPT ![t] = NULL]
    /\ Goto(t, "check")
    /\ UNCHANGED <<appVars, hpc, tdVars, listVars, stampVars, sigVars, addrVars,
                   status>>

\* Mutant: idx_head >= idx_tail.
IsFull_late(q) == Cardinality(q) >= Cap

\* idx_head + 1 >= idx_tail, where idx_tail - idx_head = capacity - size.
IsFull(q) == Cardinality(q) + 1 >= Cap

\* while (threadscan_queue_is_full(...))
queue_is_full(t) ==
    /\ Runs(t, "check")
    /\ Goto(t, IF IsFull(ptr_list[t]) THEN "try" ELSE "user")
    /\ UNCHANGED <<appVars, hpc, tdVars, ptr_list, arg, listVars, stampVars,
                   sigVars, addrVars, status>>

\* threadscan_thread_cleanup_try_acquire, up to the test of the active flag.
try_acquire_read(t) ==
    /\ Runs(t, "try")
    /\ \/ /\ global_timestamp.active
          /\ Goto(t, "check")
          /\ UNCHANGED old_timestamp
       \/ /\ ~global_timestamp.active
          /\ old_timestamp' = [old_timestamp EXCEPT ![t] = global_timestamp]
          /\ Goto(t, "cas")
    /\ UNCHANGED <<appVars, hpc, tdVars, ptr_list, arg, listVars,
                   global_timestamp, local_timestamp, times_without_update,
                   sigVars, addrVars, status>>

\* Mutant: a plain store instead of the CAS.
try_acquire_store(t) ==
    /\ Runs(t, "cas")
    /\ global_timestamp.n < MaxStamp
    /\ global_timestamp' = [n |-> old_timestamp[t].n + 1, active |-> TRUE]
    /\ Goto(t, "wait_lock")
    /\ UNCHANGED <<appVars, hpc, tdVars, ptr_list, arg, listVars,
                   local_timestamp, times_without_update, old_timestamp,
                   sigVars, addrVars, status>>

\* BCAS(&global_timestamp, old_timestamp, SET_ACTIVE(old_timestamp + 1)).
try_acquire_cas(t) ==
    /\ Runs(t, "cas")
    /\ \/ /\ global_timestamp = old_timestamp[t]
          /\ global_timestamp.n < MaxStamp
          /\ global_timestamp' = [n |-> global_timestamp.n + 1, active |-> TRUE]
          /\ Goto(t, "wait_lock")
          /\ UNCHANGED old_timestamp
       \/ /\ global_timestamp # old_timestamp[t]
          /\ Goto(t, "check")
          /\ old_timestamp' = [old_timestamp EXCEPT ![t] = NoStamp]
          /\ UNCHANGED global_timestamp
    /\ UNCHANGED <<appVars, hpc, tdVars, ptr_list, arg, listVars,
                   local_timestamp, times_without_update, sigVars, addrVars,
                   status>>

\* pthread_mutex_lock, then td = head; td = NULL, then pthread_mutex_unlock.
FOREACH_IN_THREAD_LIST(t) ==
    /\ list_lock = NoThread /\ list_lock' = t /\ todo' = thread_list
    /\ UNCHANGED thread_list
ENDFOREACH_IN_THREAD_LIST ==
    /\ todo = {} /\ list_lock' = NoThread
    /\ UNCHANGED <<thread_list, todo>>
\* The walk takes td; the list is in the order of creation, which is any order.
Visit(td) ==
    /\ td \in todo /\ todo' = todo \ {td}
    /\ UNCHANGED <<thread_list, list_lock>>

\* threadscan_proc_wait_for_timestamp.
wait_for_timestamp_lock(t) ==
    /\ Runs(t, "wait_lock") /\ FOREACH_IN_THREAD_LIST(t) /\ Goto(t, "wait")
    /\ UNCHANGED <<appVars, hpc, tdVars, ptr_list, arg, stampVars, sigVars,
                   addrVars, status>>

\* Mutant: the walk does not wait.
wait_for_timestamp_skip(t, td) ==
    /\ Runs(t, "wait") /\ Visit(td)
    /\ UNCHANGED <<appVars, pc, hpc, tdVars, ptr_list, arg, stampVars, sigVars,
                   addrVars, status>>

\* The walk leaves td once td does not help with an earlier round.
wait_for_timestamp(t, td) ==
    /\ Runs(t, "wait") /\ Visit(td)
    /\ ~ /\ local_timestamp[td].active
         /\ local_timestamp[td].n # old_timestamp[t].n + 1
    /\ UNCHANGED <<appVars, pc, hpc, tdVars, ptr_list, arg, stampVars, sigVars,
                   addrVars, status>>

wait_for_timestamp_unlock(t) ==
    /\ Runs(t, "wait") /\ ENDFOREACH_IN_THREAD_LIST /\ Goto(t, "leftovers")
    /\ old_timestamp' = [old_timestamp EXCEPT ![t] = NoStamp]
    /\ UNCHANGED <<appVars, hpc, tdVars, ptr_list, arg, global_timestamp,
                   local_timestamp, times_without_update, sigVars, addrVars,
                   status>>

-----------------------------------------------------------------------------
(* threadscan_reclaim: building the working list.                           *)

(***************************************************************************)
(* assign_working_space on a fresh mapping, then the exchange that takes   *)
(* all stored blocks; add_to_buf_addrs gives up when they do not fit.      *)
(***************************************************************************)
generate_leftovers(t) ==
    /\ Runs(t, "leftovers")
    /\ buf_addrs' = t
    /\ storage' = NoBlock
    /\ IF NAddrs(storage) > BufMax
       THEN status' = "fatal" /\ UNCHANGED <<work, pc>>
       ELSE /\ work' = [work EXCEPT ![t] =
                           [EmptyBuffer EXCEPT !.addrs = storage.addrs,
                                               !.nulls = storage.nulls]]
            /\ Goto(t, "pop_lock")
            /\ UNCHANGED status
    /\ UNCHANGED <<appVars, hpc, tdVars, ptr_list, arg, listVars, stampVars,
                   sigVars, victims, left>>

generate_lock(t) ==
    /\ Runs(t, "pop_lock") /\ FOREACH_IN_THREAD_LIST(t) /\ Goto(t, "pop")
    /\ UNCHANGED <<appVars, hpc, tdVars, ptr_list, arg, stampVars, sigVars,
                   addrVars, status>>

\* Mutant: idx_tail is not advanced.
queue_pop_bulk_keep(t, td) ==
    /\ Runs(t, "pop") /\ Visit(td)
    /\ Cardinality(ptr_list[td]) <= BufMax - NAddrs(work[buf_addrs])
    /\ work' = [work EXCEPT ![buf_addrs] = AddTo(@, ptr_list[td])]
    /\ UNCHANGED <<appVars, pc, hpc, tdVars, ptr_list, arg, stampVars, sigVars,
                   buf_addrs, storage, victims, left, status>>

\* threadscan_queue_pop_bulk of td's queue, as much as the buffer takes.
queue_pop_bulk(t, td) ==
    /\ Runs(t, "pop") /\ Visit(td)
    /\ \E popped \in SUBSET ptr_list[td] :
          /\ LET len == BufMax - NAddrs(work[buf_addrs])
             IN IF Cardinality(ptr_list[td]) > len
                THEN Cardinality(popped) = len
                ELSE popped = ptr_list[td]
          /\ work' = [work EXCEPT ![buf_addrs] = AddTo(@, popped)]
          /\ ptr_list' = [ptr_list EXCEPT ![td] = @ \ popped]
    /\ UNCHANGED <<appVars, pc, hpc, tdVars, arg, stampVars, sigVars, buf_addrs,
                   storage, victims, left, status>>

\* The list is complete; threadscan_util_sort and generate_scan_map follow.
generate_unlock(t) ==
    /\ Runs(t, "pop") /\ ENDFOREACH_IN_THREAD_LIST /\ Goto(t, "kill_lock")
    /\ UNCHANGED <<appVars, hpc, tdVars, ptr_list, arg, stampVars, sigVars,
                   addrVars, status>>

-----------------------------------------------------------------------------
(* do_reclaim: signalling, and the reclaimer's own search.                  *)

\* Mutant: the count of the previous round is kept.
signal_all_lock_stale(t) ==
    /\ Runs(t, "kill_lock") /\ FOREACH_IN_THREAD_LIST(t) /\ Goto(t, "kill")
    /\ sig_count' = 0
    /\ UNCHANGED <<appVars, hpc, tdVars, ptr_list, arg, stampVars, pending,
                   self_stacks_searched, addrVars, status>>

\* self_stacks_searched = 0; threadscan_proc_signal_all_except takes the lock.
signal_all_lock(t) ==
    /\ Runs(t, "kill_lock") /\ FOREACH_IN_THREAD_LIST(t) /\ Goto(t, "kill")
    /\ self_stacks_searched' = 0 /\ sig_count' = 0
    /\ UNCHANGED <<appVars, hpc, tdVars, ptr_list, arg, stampVars, pending,
                   addrVars, status>>

\* Mutant: td->is_active is not tested.
signal_all_except_inactive(t, td) ==
    /\ Runs(t, "kill") /\ Visit(td)
    /\ pending' = [pending EXCEPT ![td] = td # t]
    /\ sig_count' = IF td # t THEN sig_count + 1 ELSE sig_count
    /\ UNCHANGED <<appVars, pc, hpc, tdVars, ptr_list, arg, stampVars,
                   self_stacks_searched, addrVars, status>>

(***************************************************************************)
(* One turn of the loop: an active thread other than the reclaimer gets    *)
(* the signal and is counted.  pthread_kill on a td->self that is still    *)
(* zero dereferences it or returns ESRCH, which is not counted.            *)
(***************************************************************************)
signal_all_except(t, td) ==
    /\ Runs(t, "kill") /\ Visit(td)
    /\ \/ /\ td = t \/ ~is_active[td]
          /\ UNCHANGED <<pending, sig_count, status>>
       \/ /\ td # t /\ is_active[td] /\ self[td]
          /\ pending' = [pending EXCEPT ![td] = TRUE]
          /\ sig_count' = sig_count + 1
          /\ UNCHANGED status
       \/ /\ td # t /\ is_active[td] /\ ~self[td]
          /\ status' \in {"ok", "segv"}
          /\ UNCHANGED <<pending, sig_count>>
    /\ UNCHANGED <<appVars, pc, hpc, tdVars, ptr_list, arg, stampVars,
                   self_stacks_searched, addrVars>>

signal_all_unlock(t) ==
    /\ Runs(t, "kill") /\ ENDFOREACH_IN_THREAD_LIST /\ Goto(t, "scan")
    /\ UNCHANGED <<appVars, hpc, tdVars, ptr_list, arg, stampVars, sigVars,
                   addrVars, status>>

(***************************************************************************)
(* search_range over words that hold the addresses found: each is looked   *)
(* up in the list and its low bit set.  A word that is zero can mark entry *)
(* 0 when that entry is zero.  With an empty list do_search loads          *)
(* buf_addrs[-1], outside the mapping: a fault, or, when another mapping   *)
(* is there, a value that is not of the list.  It may even set that word's *)
(* low bit; the "segv" outcome stands for all the harm this can do.  Marks *)
(* are idempotent and read after all searches are counted, so one search   *)
(* is one step.                                                            *)
(***************************************************************************)
search_range(found) ==
    LET buf == work[buf_addrs] IN
    \/ /\ NAddrs(buf) = 0
       /\ status' \in {"ok", "segv"}
       /\ UNCHANGED work
    \/ /\ NAddrs(buf) > 0
       /\ \E zero \in {buf.nullmark, buf.nulls > 0} :
             work' = [work EXCEPT ![buf_addrs] = Mark(@, found, zero)]
       /\ UNCHANGED status

\* Mutant: the local block is not searched.
search_no_block(t) == UNCHANGED <<work, status>>

(***************************************************************************)
(* if (local_block->low > 0) search_range(local_block).  The "low" of one  *)
(* block beside the "high" of another delimits whatever lies between them: *)
(* any words at all, or pages that are not mapped, and if "high" is the    *)
(* smaller their difference wraps around and the search runs into a fault. *)
(***************************************************************************)
search_local_block(t) ==
    \/ low[t] = 0 /\ UNCHANGED <<work, status>>
    \/ low[t] > 0 /\ low[t] = high[t] /\ search_range(blk[t])
    \/ /\ low[t] > 0 /\ low[t] # high[t]
       /\ \/ \E found \in SUBSET Ptrs : search_range(found)
          \/ status' = "segv" /\ UNCHANGED work

do_reclaim_search(t) ==
    /\ Runs(t, "scan") /\ search_range(refs[t]) /\ Goto(t, "scan_block")
    /\ UNCHANGED <<appVars, hpc, tdVars, ptr_list, arg, listVars, stampVars,
                   sigVars, buf_addrs, storage, victims, left>>

do_reclaim_block(t) ==
    /\ Runs(t, "scan_block") /\ search_local_block(t) /\ Goto(t, "await")
    /\ UNCHANGED <<appVars, hpc, tdVars, ptr_list, arg, listVars, stampVars,
                   sigVars, buf_addrs, storage, victims, left>>

\* Mutant: the reclaimer does not wait for the other searches.
do_reclaim_no_await(t) ==
    /\ Runs(t, "await")
    /\ Goto(t, "release") /\ sig_count' = 0
    /\ UNCHANGED <<appVars, hpc, tdVars, ptr_list, arg, listVars, stampVars,
                   pending, self_stacks_searched, addrVars, status>>

\* while (self_stacks_searched < sig_count)
do_reclaim_await(t) ==
    /\ Runs(t, "await") /\ self_stacks_searched >= sig_count
    /\ Goto(t, "release") /\ sig_count' = 0
    /\ UNCHANGED <<appVars, hpc, tdVars, ptr_list, arg, listVars, stampVars,
                   pending, self_stacks_searched, addrVars, status>>

\* Mutant: the active flag stays set.
cleanup_release_keep(t) ==
    /\ Runs(t, "release") /\ Goto(t, "sweep")
    /\ UNCHANGED <<appVars, hpc, tdVars, ptr_list, arg, listVars, stampVars,
                   sigVars, addrVars, status>>

\* threadscan_thread_cleanup_release: clear the active flag.
cleanup_release(t) ==
    /\ Runs(t, "release")
    /\ global_timestamp' = [global_timestamp EXCEPT !.active = FALSE]
    /\ Goto(t, "sweep")
    /\ UNCHANGED <<appVars, hpc, tdVars, ptr_list, arg, listVars,
                   local_timestamp, times_without_update, old_timestamp,
                   sigVars, addrVars, status>>

\* handle_unreferenced_ptrs on the reclaimer's own mapping.
handle_unreferenced_ptrs(t) ==
    /\ Runs(t, "sweep")
    /\ victims' = [victims EXCEPT ![t] = Unreferenced(work[t])]
    /\ left' = [left EXCEPT ![t] = Remaining(work[t])]
    /\ work' = [work EXCEPT ![t] = EmptyBuffer]
    /\ Goto(t, "free")
    /\ UNCHANGED <<appVars, hpc, tdVars, ptr_list, arg, listVars, stampVars,
                   sigVars, buf_addrs, storage, status>>

\* free(addrs[i]), in increasing order.
free_unreferenced(t) ==
    /\ Runs(t, "free")
    /\ \E p \in victims[t] :
          /\ \A q \in victims[t] : p <= q
          /\ heap' = [heap EXCEPT ![p] = "free"]
          /\ victims' = [victims EXCEPT ![t] = @ \ {p}]
    /\ UNCHANGED <<refs, blk, nalloc, pc, hpc, tdVars, ptr_list, arg, listVars,
                   stampVars, sigVars, work, buf_addrs, storage, left, status>>

(***************************************************************************)
(* store_remaining_addrs: nothing is left, or it does not fit with the two *)
(* header words, or the CAS loop pushes the block.                         *)
(***************************************************************************)
store_remaining_addrs(t) ==
    /\ Runs(t, "free") /\ victims[t] = {}
    /\ IF NAddrs(left[t]) > 0 /\ NAddrs(left[t]) + 2 > BufMax
       THEN status' = "fatal" /\ UNCHANGED <<pc, storage, left>>
       ELSE /\ storage' = [addrs |-> storage.addrs \cup left[t].addrs,
                           nulls |-> storage.nulls + left[t].nulls]
            /\ left' = [left EXCEPT ![t] = NoBlock]
            /\ Goto(t, "check")
            /\ UNCHANGED status
    /\ UNCHANGED <<appVars, hpc, tdVars, ptr_list, arg, listVars, stampVars,
                   sigVars, work, buf_addrs, victims>>

-----------------------------------------------------------------------------
(* signal_handler, on the stack of the thread it interrupts.                *)

Handles(t, at) == status = "ok" /\ hpc[t] = at
HGoto(t, at) == hpc' = [hpc EXCEPT ![t] = at]

\* The kernel interrupts the thread; SIGTHREADSCAN is blocked until it returns.
signal_delivered(t) ==
    /\ Handles(t, "idle") /\ pending[t]
    /\ pending' = [pending EXCEPT ![t] = FALSE]
    /\ HGoto(t, "raise")
    /\ UNCHANGED <<appVars, pc, tdVars, ptr_list, arg, listVars, stampVars,
                   self_stacks_searched, sig_count, addrVars, status>>

\* threadscan_thread_cleanup_raise_flag, before and after its fence.
raise_flag(t) ==
    /\ Handles(t, "raise")
    /\ local_timestamp' = [local_timestamp EXCEPT ![t].active = TRUE]
    /\ HGoto(t, "stamp")
    /\ UNCHANGED <<appVars, pc, tdVars, ptr_list, arg, listVars,
                   global_timestamp, times_without_update, old_timestamp,
                   sigVars, addrVars, status>>

raise_flag_stamp(t) ==
    /\ Handles(t, "stamp")
    /\ local_timestamp' = [local_timestamp EXCEPT ![t] =
                              [n |-> global_timestamp.n, active |-> TRUE]]
    /\ times_without_update' = [times_without_update EXCEPT ![t] =
          IF global_timestamp.n # local_timestamp[t].n THEN 0
          ELSE IF ~global_timestamp.active /\ @ < 2 THEN @ + 1 ELSE @]
    /\ HGoto(t, "search")
    /\ UNCHANGED <<appVars, pc, tdVars, ptr_list, arg, listVars,
                   global_timestamp, old_timestamp, sigVars, addrVars, status>>

\* search_self_stack: the stack, the local block, the count.
search_self_stack(t) ==
    /\ Handles(t, "search") /\ search_range(refs[t]) /\ HGoto(t, "search_block")
    /\ UNCHANGED <<appVars, pc, tdVars, ptr_list, arg, listVars, stampVars,
                   sigVars, buf_addrs, storage, victims, left>>

search_self_block(t) ==
    /\ Handles(t, "search_block") /\ search_local_block(t) /\ HGoto(t, "count")
    /\ UNCHANGED <<appVars, pc, tdVars, ptr_list, arg, listVars, stampVars,
                   sigVars, buf_addrs, storage, victims, left>>

search_self_count(t) ==
    /\ Handles(t, "count")
    /\ self_stacks_searched' = self_stacks_searched + 1
    /\ HGoto(t, "lower")
    /\ UNCHANGED <<appVars, pc, tdVars, ptr_list, arg, listVars, stampVars,
                   pending, sig_count, addrVars, status>>

\* threadscan_thread_cleanup_lower_flag, and the handler returns.
lower_flag(t) ==
    /\ Handles(t, "lower")
    /\ local_timestamp' = [local_timestamp EXCEPT ![t].active = FALSE]
    /\ HGoto(t, "idle")
    /\ UNCHANGED <<appVars, pc, tdVars, ptr_list, arg, listVars,
                   global_timestamp, times_without_update, old_timestamp,
                   sigVars, addrVars, status>>

-----------------------------------------------------------------------------
Application(t) ==
    \/ \E p \in Ptrs : \/ app_insert(t, p) \/ app_read(t, p) \/ app_drop(t, p)
                       \/ app_spill(t, p) \/ threadscan_collect(t, p)
    \/ \E c \in Threads : pthread_create(t, c)
    \/ register_local_block_high(t)
    \/ thread_cleanup_inactive(t)

Lifecycle(t) ==
    \/ thread_base_self(t) \/ thread_base_active(t)
    \/ register_local_block_low(t)
    \/ proc_remove_thread_data(t) \/ orig_pthread_exit(t)

Collect(t) ==
    \/ queue_push(t) \/ queue_is_full(t)
    \/ try_acquire_read(t) \/ try_acquire_cas(t)

Walk(t) ==
    \/ wait_for_timestamp_lock(t) \/ wait_for_timestamp_unlock(t)
    \/ generate_lock(t) \/ generate_unlock(t)
    \/ signal_all_lock(t) \/ signal_all_unlock(t)
    \/ \E td \in Threads : \/ wait_for_timestamp(t, td)
                          \/ queue_pop_bulk(t, td)
                          \/ signal_all_except(t, td)

Reclaim(t) ==
    \/ generate_leftovers(t)
    \/ do_reclaim_search(t) \/ do_reclaim_block(t) \/ do_reclaim_await(t)
    \/ cleanup_release(t) \/ handle_unreferenced_ptrs(t)
    \/ free_unreferenced(t) \/ store_remaining_addrs(t)

Handler(t) ==
    \/ signal_delivered(t) \/ raise_flag(t) \/ raise_flag_stamp(t)
    \/ search_self_stack(t) \/ search_self_block(t) \/ search_self_count(t)
    \/ lower_flag(t)

\* What the thread's own code does once the application has called the library.
Library(t) == Lifecycle(t) \/ Collect(t) \/ Walk(t) \/ Reclaim(t)

\* The process has died, every thread has exited, or the bound is reached.
Halted ==
    /\ \/ status # "ok"
       \/ \A t \in Threads : pc[t] \in {"unborn", "gone"}
       \/ global_timestamp.n = MaxStamp
    /\ UNCHANGED vars

Next == (\E t \in Threads : Application(t) \/ Library(t) \/ Handler(t)) \/ Halted

Spec == Init /\ [][Next]_vars

(***************************************************************************)
(* The scheduler runs every thread, so a call into the library goes on,    *)
(* and the kernel delivers a signal even to a thread that keeps running;   *)
(* the application itself may stop calling the library at any point.       *)
(***************************************************************************)
FairSpec ==
    Spec /\ \A t \in Threads : WF_vars(Library(t)) /\ WF_vars(Handler(t))

-----------------------------------------------------------------------------
(* Properties.                                                              *)

\* Threads that were signalled and have not been counted yet.
BeforeCount == {"raise", "stamp", "search", "search_block", "count"}
Unsearched == {t \in Threads : pending[t] \/ hpc[t] \in BeforeCount}

\* The reclaimer is between its first pthread_kill and the end of its wait.
ScanPC == {"kill", "scan", "scan_block", "await"}

(***************************************************************************)
(* A node on some thread's stack, or in its registered block, has not been *)
(* freed: what threadscan_collect promises (include/threadscan.h).         *)
(***************************************************************************)
NoUseAfterFree ==
    \A t \in Threads : \A p \in refs[t] \cup blk[t] : heap[p] # "free"

\* Where a collected address can be while thread t has it.
Place == {"arg", "queue", "work", "victims", "left"}
Held(k, t) == CASE k = "arg"     -> {arg[t]} \ {NULL}
                [] k = "queue"   -> ptr_list[t]
                [] k = "work"    -> work[t].addrs
                [] k = "victims" -> victims[t]
                [] k = "left"    -> left[t].addrs

(***************************************************************************)
(* A collected address is in one place only, among the argument of a call, *)
(* the queues, the reclaimers' lists and the storage, and it is not freed  *)
(* while it is there.  So free is never called twice for one node, however *)
(* pushes, pop_bulk by another thread and overlapping sweeps interleave.   *)
(***************************************************************************)
TrackedOnce ==
    /\ \A t, u \in Threads : \A k, l \in Place :
          <<k, t>> # <<l, u>> => Held(k, t) \cap Held(l, u) = {}
    /\ \A t \in Threads : \A k \in Place : Held(k, t) \cap storage.addrs = {}
    /\ \A t \in Threads : \A k \in Place : \A p \in Held(k, t) \cup storage.addrs :
          heap[p] = "retired"

(***************************************************************************)
(* The cleanup lock admits one reclaimer: two threads are never both       *)
(* between a successful try_acquire and cleanup_release, and the active    *)
(* bit of global_timestamp says whether one is.                            *)
(***************************************************************************)
OneReclaimer ==
    /\ \A t, u \in Threads : pc[t] \in HoldPC /\ pc[u] \in HoldPC => t = u
    /\ global_timestamp.active <=> \E t \in Threads : pc[t] \in HoldPC

(***************************************************************************)
(* A handler searches only inside a round, with that round's list: the     *)
(* reclaimer that signalled it is still waiting, buf_addrs is its mapping, *)
(* and the helper has published the current timestamp (proc.c: helpers     *)
(* "know about the current timestamp").                                    *)
(***************************************************************************)
HandlerInRound ==
    \A t \in Threads : hpc[t] \in {"search", "search_block", "count"} =>
        /\ \E r \in Threads : pc[r] \in ScanPC /\ buf_addrs = r /\ r # t
        /\ global_timestamp.active
        /\ local_timestamp[t] = global_timestamp

(***************************************************************************)
(* Every signal is answered once: the count the reclaimer waits for is the *)
(* count of finished searches plus the threads still to search, and no     *)
(* search is outstanding outside the wait.                                 *)
(***************************************************************************)
SignalsAccounted ==
    /\ \A r \in Threads : pc[r] \in ScanPC =>
          sig_count = self_stacks_searched + Cardinality(Unsearched)
    /\ (\A r \in Threads : pc[r] \notin ScanPC) => Unsearched = {}

(***************************************************************************)
(* After wait_for_timestamp no listed thread is still inside the handler   *)
(* of an earlier round.                                                    *)
(***************************************************************************)
HelpersDone ==
    \A r \in Threads : pc[r] \in {"leftovers", "pop_lock", "pop", "kill_lock"} =>
        \A td \in thread_list : hpc[td] = "idle"

(***************************************************************************)
(* A thread is signalled only while it exists: a pending signal keeps it   *)
(* from being gone, and a thread on the list has not left.                 *)
(***************************************************************************)
SignalledAreAlive ==
    /\ \A t \in Threads : pending[t] \/ hpc[t] # "idle" =>
          pc[t] \notin {"unborn", "base", "gone"}
    /\ \A t \in thread_list : pc[t] \notin {"unborn", "staged", "gone"}

(***************************************************************************)
(* assert(q->idx_head < q->idx_tail) in threadscan_queue_push: leaving     *)
(* threadscan_collect only with a queue that is not full keeps room for    *)
(* the next push, whoever emptied it.                                      *)
(***************************************************************************)
QueueHasRoom == \A t \in Threads : Cardinality(ptr_list[t]) < Cap

(***************************************************************************)
(* threadscan_register_local_block: a search that sees "low" set has both  *)
(* bounds of one block, even when it interrupts the registration of the    *)
(* thread's first block ("no chance of funky reads").  Only the handler    *)
(* that interrupts a later registration finds the bounds of two blocks,    *)
(* the old "low" and the new "high".                                       *)
(***************************************************************************)
NoFunkyReads ==
    \A t \in Threads :
        (hpc[t] = "search_block" \/ pc[t] = "scan_block") /\ low[t] > 0 =>
            \/ high[t] = low[t]
            \/ pc[t] = "reg_low" /\ high[t] = low[t] + 1

(***************************************************************************)
(* assign_working_space never replaces the list while a thread that was    *)
(* signalled may still be reading or marking it; the next round's list may *)
(* be at the address of the last one, when one thread reclaims twice.      *)
(***************************************************************************)
BufferStable ==
    [][(\E t \in Threads : generate_leftovers(t)) \/ buf_addrs' # buf_addrs
          => Unsearched = {}]_vars

(***************************************************************************)
(* "They should be stored for the next round, and will be searched again   *)
(* until there are no outstanding references to them" (threadscan.c): a    *)
(* collected node that is not freed yet is still known to the library.     *)
(***************************************************************************)
NothingLost ==
    \A p \in Ptrs : heap[p] = "retired" =>
        \/ p \in storage.addrs
        \/ \E t \in Threads : \E k \in Place : p \in Held(k, t)

(***************************************************************************)
(* "While this thread's local queue of pointers is full, try to cleanup"   *)
(* (threadscan.c): so the list a reclaimer searches has an entry, and      *)
(* do_search may read its first and its last.                              *)
(***************************************************************************)
SearchesSomething ==
    \A t \in Threads : pc[t] = "scan" => NAddrs(work[t]) > 0

\* A call of threadscan_collect returns.
CollectReturns ==
    \A t \in Threads : pc[t] = "push" ~> pc[t] = "user" \/ status # "ok"

\* A round ends: the cleanup lock is released.
RoundEnds == global_timestamp.active ~> ~global_timestamp.active \/ status # "ok"

=============================================================================
