-------------------------- MODULE ThreadScanProofs --------------------------
(***************************************************************************)
(* Proofs about ThreadScan, for any set of threads, any set of addresses   *)
(* and any capacity.                                                       *)
(***************************************************************************)
EXTENDS ThreadScanInv, FiniteSetTheorems, TLAPS

-----------------------------------------------------------------------------
(* Type correctness.                                                        *)

\* The static initialisers and main_replacement give every variable a value of its type.
LEMMA TypeInit == Init => TypeOK
  BY ThreadsAssumption
  DEF Init, TypeOK, Stamp, NoStamp, Block, NoBlock, Buffer, EmptyBuffer, PC,
      AppPC, CollectPC, HoldPC, SweepPC, HandlerPC

\* The steps of the application.
LEMMA TypeApplication ==
  ASSUME TypeOK, NEW t \in Threads, Application(t)
  PROVE  TypeOK'
<1> USE DEF TypeOK, PC, AppPC, CollectPC, HoldPC, SweepPC, HandlerPC, Runs, Goto
<1>1. ASSUME NEW p \in Ptrs, app_insert(t, p) PROVE TypeOK'
  BY <1>1 DEF app_insert, tdVars, listVars, stampVars, sigVars, addrVars
<1>2. ASSUME NEW p \in Ptrs, app_read(t, p) PROVE TypeOK'
  BY <1>2 DEF app_read, tdVars, listVars, stampVars, sigVars, addrVars
<1>3. ASSUME NEW p \in Ptrs, app_drop(t, p) PROVE TypeOK'
  BY <1>3 DEF app_drop, tdVars, listVars, stampVars, sigVars, addrVars
<1>4. ASSUME NEW p \in Ptrs, app_spill(t, p) PROVE TypeOK'
  BY <1>4 DEF app_spill, tdVars, listVars, stampVars, sigVars, addrVars
<1>5. ASSUME NEW p \in Ptrs, threadscan_collect(t, p) PROVE TypeOK'
  BY <1>5 DEF threadscan_collect, tdVars, listVars, stampVars, sigVars, addrVars
<1>6. ASSUME NEW c \in Threads, pthread_create(t, c) PROVE TypeOK'
  BY <1>6 DEF pthread_create, tdVars, stampVars, sigVars, addrVars
<1>7. CASE register_local_block_high(t)
  BY <1>7 DEF register_local_block_high, appVars, listVars, stampVars, sigVars,
              addrVars
<1>8. CASE thread_cleanup_inactive(t)
  BY <1>8 DEF thread_cleanup_inactive, listVars, stampVars, sigVars, addrVars
<1> QED BY <1>1, <1>2, <1>3, <1>4, <1>5, <1>6, <1>7, <1>8 DEF Application

\* Threads come and go.
LEMMA TypeLifecycle ==
  ASSUME TypeOK, NEW t \in Threads, Lifecycle(t)
  PROVE  TypeOK'
<1> USE DEF TypeOK, PC, AppPC, CollectPC, HoldPC, SweepPC, HandlerPC, Runs, Goto
<1>1. CASE thread_base_self(t)
  BY <1>1 DEF thread_base_self, appVars, listVars, stampVars, sigVars, addrVars
<1>2. CASE thread_base_active(t)
  BY <1>2 DEF thread_base_active, appVars, listVars, stampVars, sigVars, addrVars
<1>3. CASE register_local_block_low(t)
  BY <1>3 DEF register_local_block_low, appVars, listVars, stampVars, sigVars,
              addrVars
<1>4. CASE proc_remove_thread_data(t)
  BY <1>4 DEF proc_remove_thread_data, appVars, tdVars, stampVars, sigVars,
              addrVars
<1>5. CASE orig_pthread_exit(t)
  BY <1>5 DEF orig_pthread_exit, appVars, tdVars, listVars, stampVars, sigVars,
              addrVars
<1> QED BY <1>1, <1>2, <1>3, <1>4, <1>5 DEF Lifecycle

\* threadscan_collect and the cleanup lock.
LEMMA TypeCollect ==
  ASSUME TypeOK, NEW t \in Threads, Collect(t), arg[t] # NULL \/ pc[t] # "push"
  PROVE  TypeOK'
<1> USE DEF TypeOK, PC, AppPC, CollectPC, HoldPC, SweepPC, HandlerPC, Runs, Goto
<1>1. CASE queue_push(t)
  BY <1>1 DEF queue_push, appVars, tdVars, listVars, stampVars, sigVars, addrVars
<1>2. CASE queue_is_full(t)
  BY <1>2 DEF queue_is_full, appVars, tdVars, listVars, stampVars, sigVars,
              addrVars
<1>3. CASE try_acquire_read(t)
  BY <1>3 DEF try_acquire_read, appVars, tdVars, listVars, sigVars, addrVars
<1>4. CASE try_acquire_cas(t)
  <2>1. CASE global_timestamp = old_timestamp[t]
    <3>1. global_timestamp' = [n |-> global_timestamp.n + 1, active |-> TRUE]
      BY <1>4, <2>1 DEF try_acquire_cas
    <3>2. global_timestamp' \in Stamp
      BY <3>1 DEF Stamp
    <3> QED BY <1>4, <2>1, <3>2 DEF try_acquire_cas, appVars, tdVars, listVars,
                                   sigVars, addrVars
  <2>2. CASE global_timestamp # old_timestamp[t]
    <3>1. NoStamp \in Stamp BY DEF Stamp, NoStamp
    <3> QED BY <1>4, <2>2, <3>1 DEF try_acquire_cas, appVars, tdVars, listVars,
                                   sigVars, addrVars
  <2> QED BY <2>1, <2>2
<1> QED BY <1>1, <1>2, <1>3, <1>4 DEF Collect

\* The walks over the thread list.
LEMMA TypeWalk ==
  ASSUME TypeOK, NEW t \in Threads, Walk(t)
  PROVE  TypeOK'
<1> USE DEF TypeOK, PC, AppPC, CollectPC, HoldPC, SweepPC, HandlerPC, Runs, Goto,
            FOREACH_IN_THREAD_LIST, ENDFOREACH_IN_THREAD_LIST, Visit
<1>1. CASE wait_for_timestamp_lock(t)
  BY <1>1 DEF wait_for_timestamp_lock, appVars, tdVars, stampVars, sigVars,
              addrVars
<1>2. CASE wait_for_timestamp_unlock(t)
  BY <1>2, ThreadsAssumption DEF wait_for_timestamp_unlock, appVars, tdVars,
              sigVars, addrVars, Stamp, NoStamp
<1>3. CASE generate_lock(t)
  BY <1>3 DEF generate_lock, appVars, tdVars, stampVars, sigVars, addrVars
<1>4. CASE generate_unlock(t)
  BY <1>4 DEF generate_unlock, appVars, tdVars, stampVars, sigVars, addrVars
<1>5. CASE signal_all_lock(t)
  BY <1>5 DEF signal_all_lock, appVars, tdVars, stampVars, sigVars, addrVars
<1>6. CASE signal_all_unlock(t)
  BY <1>6 DEF signal_all_unlock, appVars, tdVars, stampVars, sigVars, addrVars
<1>7. ASSUME NEW td \in Threads, wait_for_timestamp(t, td) PROVE TypeOK'
  BY <1>7 DEF wait_for_timestamp, appVars, tdVars, stampVars, sigVars, addrVars
<1>8. ASSUME NEW td \in Threads, queue_pop_bulk(t, td) PROVE TypeOK'
  <2>1. PICK popped \in SUBSET ptr_list[td] :
          /\ work' = [work EXCEPT ![buf_addrs] = AddTo(@, popped)]
          /\ ptr_list' = [ptr_list EXCEPT ![td] = @ \ popped]
    BY <1>8 DEF queue_pop_bulk
  <2>2. popped \in SUBSET Ptrs
    OBVIOUS
  <2>3. ASSUME NEW u \in Threads PROVE AddTo(work[u], popped) \in Buffer
    <3>1. work[u] \in Buffer OBVIOUS
    <3> QED BY <2>2, <3>1 DEF Buffer, AddTo
  <2>4. work' \in [Threads -> Buffer]
    BY <2>1, <2>3
  <2> QED BY <1>8, <2>1, <2>4 DEF queue_pop_bulk, appVars, tdVars, stampVars,
                                  sigVars
<1>9. ASSUME NEW td \in Threads, signal_all_except(t, td) PROVE TypeOK'
  <2>1. pending' \in [Threads -> BOOLEAN]
    BY <1>9, Zenon DEF signal_all_except
  <2>2. sig_count' \in Nat
    BY <1>9 DEF signal_all_except
  <2>3. status' \in {"ok", "segv", "fatal"}
    BY <1>9 DEF signal_all_except
  <2> QED BY <1>9, <2>1, <2>2, <2>3 DEF signal_all_except, appVars, tdVars, stampVars,
                            addrVars
<1> QED
  BY <1>1, <1>2, <1>3, <1>4, <1>5, <1>6, <1>7, <1>8, <1>9 DEF Walk

\* search_range marks entries of the list, whoever's it is.
LEMMA TypeSearch ==
  ASSUME TypeOK, NEW found \in SUBSET Ptrs, search_range(found)
  PROVE  work' \in [Threads -> Buffer] /\ status' \in {"ok", "segv", "fatal"}
<1> DEFINE buf == work[buf_addrs]
<1>1. CASE UNCHANGED work
  BY <1>1 DEF search_range, TypeOK
<1>2. CASE work' # work
  <2>1. PICK zero \in {buf.nullmark, buf.nulls > 0} :
          work' = [work EXCEPT ![buf_addrs] = Mark(@, found, zero)]
    BY <1>2 DEF search_range
  <2>2. buf_addrs \in Threads
    BY <1>2, <2>1 DEF TypeOK
  <2>3. buf \in Buffer
    BY <2>2 DEF TypeOK
  <2>4. zero \in BOOLEAN
    <3>1. buf.nullmark \in BOOLEAN BY <2>3 DEF Buffer
    <3>2. (buf.nulls > 0) \in BOOLEAN OBVIOUS
    <3> QED BY <3>1, <3>2, Zenon
  <2>5. Mark(buf, found, zero) \in Buffer
    BY <2>3, <2>4 DEF Buffer, Mark
  <2> QED BY <2>1, <2>2, <2>5 DEF TypeOK, search_range
<1> QED BY <1>1, <1>2

\* The search of a local block finds some addresses, or leaves the lists alone.
LEMMA BlockSearches ==
  ASSUME TypeOK, NEW t \in Threads, search_local_block(t)
  PROVE  \E found \in SUBSET Ptrs :
            /\ search_range(found) \/ (work' = work /\ status' \in {status, "segv"})
            /\ low[t] > 0 /\ low[t] = high[t] => search_range(found) /\ found = blk[t]
<1>0. blk[t] \in SUBSET Ptrs BY DEF TypeOK
<1>1. CASE low[t] > 0 /\ low[t] = high[t]
  <2>1. search_range(blk[t]) BY <1>1 DEF search_local_block
  <2> QED BY <1>0, <2>1
<1>2. CASE low[t] > 0 /\ low[t] # high[t]
  <2>1. CASE \E found \in SUBSET Ptrs : search_range(found)
    BY <1>2, <2>1
  <2>2. CASE status' = "segv" /\ work' = work
    BY <1>0, <1>2, <2>2
  <2> QED BY <1>2, <2>1, <2>2 DEF search_local_block
<1>3. CASE ~(low[t] > 0)
  <2>1. work' = work /\ status' = status BY <1>3 DEF search_local_block
  <2> QED BY <1>0, <1>3, <2>1
<1> QED BY <1>1, <1>2, <1>3

\* So it keeps the lists well typed, registered or not.
LEMMA TypeBlock ==
  ASSUME TypeOK, NEW t \in Threads, search_local_block(t)
  PROVE  work' \in [Threads -> Buffer] /\ status' \in {"ok", "segv", "fatal"}
  BY BlockSearches, TypeSearch DEF TypeOK

\* The signal handler.
LEMMA TypeHandler ==
  ASSUME TypeOK, NEW t \in Threads, Handler(t)
  PROVE  TypeOK'
<1> USE DEF TypeOK, HandlerPC, Handles, HGoto
<1>1. CASE signal_delivered(t)
  BY <1>1 DEF signal_delivered, appVars, tdVars, listVars, stampVars, addrVars
<1>2. CASE raise_flag(t)
  <2>1. [local_timestamp[t] EXCEPT !.active = TRUE] \in Stamp
    BY DEF Stamp
  <2>2. local_timestamp' \in [Threads -> Stamp]
    BY <1>2, <2>1 DEF raise_flag
  <2> QED BY <1>2, <2>2 DEF raise_flag, appVars, tdVars, listVars, sigVars,
                            addrVars
<1>3. CASE raise_flag_stamp(t)
  <2>1. [n |-> global_timestamp.n, active |-> TRUE] \in Stamp
    BY DEF Stamp
  <2>2. local_timestamp' \in [Threads -> Stamp]
    BY <1>3, <2>1 DEF raise_flag_stamp
  <2>3. times_without_update' \in [Threads -> 0 .. 2]
    BY <1>3 DEF raise_flag_stamp
  <2> QED BY <1>3, <2>2, <2>3 DEF raise_flag_stamp, appVars, tdVars, listVars,
                                  sigVars, addrVars
<1>4. CASE search_self_stack(t)
  <2>1. work' \in [Threads -> Buffer] /\ status' \in {"ok", "segv", "fatal"}
    BY <1>4, TypeSearch DEF search_self_stack
  <2> QED BY <1>4, <2>1 DEF search_self_stack, appVars, tdVars, listVars,
                            stampVars, sigVars
<1>5. CASE search_self_block(t)
  <2>1. work' \in [Threads -> Buffer] /\ status' \in {"ok", "segv", "fatal"}
    BY <1>5, TypeBlock DEF search_self_block
  <2> QED BY <1>5, <2>1 DEF search_self_block, appVars, tdVars, listVars,
                            stampVars, sigVars
<1>6. CASE search_self_count(t)
  BY <1>6 DEF search_self_count, appVars, tdVars, listVars, stampVars, addrVars
<1>7. CASE lower_flag(t)
  <2>1. [local_timestamp[t] EXCEPT !.active = FALSE] \in Stamp
    BY DEF Stamp
  <2>2. local_timestamp' \in [Threads -> Stamp]
    BY <1>7, <2>1 DEF lower_flag
  <2> QED BY <1>7, <2>2 DEF lower_flag, appVars, tdVars, listVars, sigVars,
                            addrVars
<1> QED BY <1>1, <1>2, <1>3, <1>4, <1>5, <1>6, <1>7 DEF Handler

\* The reclaimer.
LEMMA TypeReclaim ==
  ASSUME TypeOK, NEW t \in Threads, Reclaim(t)
  PROVE  TypeOK'
<1> USE DEF TypeOK, PC, AppPC, CollectPC, HoldPC, SweepPC, HandlerPC, Runs, Goto
<1>1. CASE generate_leftovers(t)
  <2>1. NoBlock \in Block BY DEF Block, NoBlock
  <2>2. [EmptyBuffer EXCEPT !.addrs = storage.addrs, !.nulls = storage.nulls]
          \in Buffer
    BY DEF Block, Buffer, EmptyBuffer
  <2>3. work' \in [Threads -> Buffer]
    BY <1>1, <2>2 DEF generate_leftovers
  <2>4. pc' \in [Threads -> PC] /\ status' \in {"ok", "segv", "fatal"}
    BY <1>1 DEF generate_leftovers
  <2> QED BY <1>1, <2>1, <2>3, <2>4 DEF generate_leftovers, appVars, tdVars,
                                        listVars, stampVars, sigVars
<1>2. CASE do_reclaim_search(t)
  <2>1. work' \in [Threads -> Buffer] /\ status' \in {"ok", "segv", "fatal"}
    BY <1>2, TypeSearch DEF do_reclaim_search
  <2> QED BY <1>2, <2>1 DEF do_reclaim_search, appVars, tdVars, listVars,
                            stampVars, sigVars
<1>3. CASE do_reclaim_block(t)
  <2>1. work' \in [Threads -> Buffer] /\ status' \in {"ok", "segv", "fatal"}
    BY <1>3, TypeBlock DEF do_reclaim_block
  <2> QED BY <1>3, <2>1 DEF do_reclaim_block, appVars, tdVars, listVars,
                            stampVars, sigVars
<1>4. CASE do_reclaim_await(t)
  BY <1>4 DEF do_reclaim_await, appVars, tdVars, listVars, stampVars, addrVars
<1>5. CASE cleanup_release(t)
  <2>1. [global_timestamp EXCEPT !.active = FALSE] \in Stamp
    BY DEF Stamp
  <2> QED BY <1>5, <2>1 DEF cleanup_release, appVars, tdVars, listVars, sigVars,
                            addrVars
<1>6. CASE handle_unreferenced_ptrs(t)
  <2>1. work[t] \in Buffer
    OBVIOUS
  <2>2. Kept(work[t]) \subseteq Ptrs
    BY <2>1 DEF Kept, Buffer
  <2>3. Cardinality(work[t].marks \ Kept(work[t])) \in Nat
    <3>1. IsFiniteSet(work[t].marks \ Kept(work[t]))
      BY <2>1, PtrsAssumption, FS_Subset DEF Buffer
    <3> QED BY <3>1, FS_CardinalityType
  <2>4. left'[t] \in Block /\ left' \in [Threads -> Block]
    BY <1>6, <2>2, <2>3 DEF handle_unreferenced_ptrs, Remaining, Unreferenced, Block
  <2>5. victims' \in [Threads -> SUBSET Ptrs]
    BY <1>6, <2>1 DEF handle_unreferenced_ptrs, Remaining, Unreferenced, Buffer
  <2>6. EmptyBuffer \in Buffer BY DEF EmptyBuffer, Buffer
  <2> QED BY <1>6, <2>4, <2>5, <2>6 DEF handle_unreferenced_ptrs, appVars,
                                tdVars, listVars, stampVars, sigVars
<1>7. CASE free_unreferenced(t)
  BY <1>7 DEF free_unreferenced, tdVars, listVars, stampVars, sigVars
<1>8. CASE store_remaining_addrs(t)
  <2>1. NoBlock \in Block BY DEF Block, NoBlock
  <2>2. [addrs |-> storage.addrs \cup left[t].addrs,
         nulls |-> storage.nulls + left[t].nulls] \in Block
    BY DEF Block
  <2>3. storage' \in Block /\ left' \in [Threads -> Block]
    BY <1>8, <2>1, <2>2 DEF store_remaining_addrs
  <2>4. pc' \in [Threads -> PC] /\ status' \in {"ok", "segv", "fatal"}
    BY <1>8 DEF store_remaining_addrs
  <2> QED BY <1>8, <2>3, <2>4 DEF store_remaining_addrs, appVars, tdVars,
                                  listVars, stampVars, sigVars
<1> QED BY <1>1, <1>2, <1>3, <1>4, <1>5, <1>6, <1>7, <1>8 DEF Reclaim

-----------------------------------------------------------------------------
(* The thread list, the life of a thread, and the cleanup lock.           *)

\* Every step keeps the thread list and its lock in agreement with the threads:
\* only pthread_create adds, only the exit path removes, only the walks hold the lock.
LEMMA ListStep ==
  ASSUME TypeOK, ListInv, [Next]_vars
  PROVE  ListInv'
<1> USE DEF ListInv, Runs, Goto, Handles, HGoto
<1>0. pc \in [Threads -> PC] /\ NoThread \notin Threads
  BY ThreadsAssumption DEF TypeOK
<1>1. ASSUME NEW t \in Threads, Application(t) PROVE ListInv'
  BY <1>1, <1>0 DEF Application, app_insert, app_read, app_drop, app_spill,
            threadscan_collect, pthread_create, register_local_block_high,
            thread_cleanup_inactive, listVars
<1>2. ASSUME NEW t \in Threads, Lifecycle(t) PROVE ListInv'
  BY <1>2, <1>0 DEF Lifecycle, thread_base_self, thread_base_active,
            register_local_block_low, proc_remove_thread_data,
            orig_pthread_exit, listVars
<1>3. ASSUME NEW t \in Threads, Collect(t) PROVE ListInv'
  BY <1>3, <1>0 DEF Collect, queue_push, queue_is_full, try_acquire_read,
            try_acquire_cas, listVars
<1>4. ASSUME NEW t \in Threads, Walk(t) PROVE ListInv'
  BY <1>4, <1>0 DEF Walk, wait_for_timestamp_lock, wait_for_timestamp_unlock,
            generate_lock, generate_unlock, signal_all_lock,
            signal_all_unlock, wait_for_timestamp, queue_pop_bulk,
            signal_all_except, FOREACH_IN_THREAD_LIST,
            ENDFOREACH_IN_THREAD_LIST, Visit
<1>5. ASSUME NEW t \in Threads, Reclaim(t) PROVE ListInv'
  BY <1>5, <1>0 DEF Reclaim, generate_leftovers, do_reclaim_search,
            do_reclaim_block, do_reclaim_await, cleanup_release,
            handle_unreferenced_ptrs, free_unreferenced,
            store_remaining_addrs, listVars
<1>6. ASSUME NEW t \in Threads, Handler(t) PROVE ListInv'
  BY <1>6, <1>0 DEF Handler, signal_delivered, raise_flag, raise_flag_stamp,
            search_self_stack, search_self_block, search_self_count,
            lower_flag, listVars
<1>7. CASE UNCHANGED vars
  BY <1>7 DEF vars, listVars
<1> QED BY <1>1, <1>2, <1>3, <1>4, <1>5, <1>6, <1>7 DEF Next, Library, Halted

\* Every step keeps td->self, td->is_active and the block bounds in agreement with
\* where the thread is: thread_base sets them, thread_cleanup clears is_active.
LEMMA LifeStep ==
  ASSUME TypeOK, LifeInv, [Next]_vars
  PROVE  LifeInv'
<1> USE DEF LifeInv, Frameless, Runs, Goto, Handles, HGoto
<1>0. /\ pc \in [Threads -> PC] /\ arg \in [Threads -> Ptrs \cup {NULL}]
      /\ is_active \in [Threads -> BOOLEAN] /\ self \in [Threads -> BOOLEAN]
      /\ low \in [Threads -> Nat] /\ high \in [Threads -> Nat]
      /\ blk \in [Threads -> SUBSET Ptrs] /\ NULL \notin Ptrs
  BY PtrsAssumption DEF TypeOK
<1>1. ASSUME NEW t \in Threads, Application(t) PROVE LifeInv'
  BY <1>1, <1>0 DEF Application, app_insert, app_read, app_drop, app_spill,
            threadscan_collect, pthread_create, register_local_block_high,
            thread_cleanup_inactive, appVars, tdVars
<1>2. ASSUME NEW t \in Threads, Lifecycle(t) PROVE LifeInv'
  BY <1>2, <1>0 DEF Lifecycle, thread_base_self, thread_base_active,
            register_local_block_low, proc_remove_thread_data,
            orig_pthread_exit, appVars, tdVars
<1>3. ASSUME NEW t \in Threads, Collect(t) PROVE LifeInv'
  BY <1>3, <1>0 DEF Collect, queue_push, queue_is_full, try_acquire_read,
            try_acquire_cas, appVars, tdVars
<1>4. ASSUME NEW t \in Threads, Walk(t) PROVE LifeInv'
  BY <1>4, <1>0 DEF Walk, wait_for_timestamp_lock, wait_for_timestamp_unlock,
            generate_lock, generate_unlock, signal_all_lock,
            signal_all_unlock, wait_for_timestamp, queue_pop_bulk,
            signal_all_except, FOREACH_IN_THREAD_LIST,
            ENDFOREACH_IN_THREAD_LIST, Visit, appVars, tdVars
<1>5. ASSUME NEW t \in Threads, Reclaim(t) PROVE LifeInv'
  BY <1>5, <1>0 DEF Reclaim, generate_leftovers, do_reclaim_search,
            do_reclaim_block, do_reclaim_await, cleanup_release,
            handle_unreferenced_ptrs, free_unreferenced,
            store_remaining_addrs, appVars, tdVars
<1>6. ASSUME NEW t \in Threads, Handler(t) PROVE LifeInv'
  BY <1>6, <1>0 DEF Handler, signal_delivered, raise_flag, raise_flag_stamp,
            search_self_stack, search_self_block, search_self_count,
            lower_flag, appVars, tdVars
<1>7. CASE UNCHANGED vars
  BY <1>7 DEF vars, appVars, tdVars
<1> QED BY <1>1, <1>2, <1>3, <1>4, <1>5, <1>6, <1>7 DEF Next, Library, Halted

\* Every step keeps the cleanup lock: the CAS on global_timestamp admits one
\* reclaimer, and only that reclaimer clears the active flag.
LEMMA LockStep ==
  ASSUME TypeOK, LockInv, [Next]_vars
  PROVE  LockInv'
<1> USE DEF LockInv, OneReclaimer, Runs, Goto, Handles, HGoto, HoldPC, Stamp
<1>0. /\ pc \in [Threads -> PC] /\ old_timestamp \in [Threads -> Stamp]
      /\ global_timestamp \in Stamp
  BY DEF TypeOK
<1>1. ASSUME NEW t \in Threads, Application(t) PROVE LockInv'
  BY <1>1, <1>0 DEF Application, app_insert, app_read, app_drop, app_spill,
            threadscan_collect, pthread_create, register_local_block_high,
            thread_cleanup_inactive, stampVars
<1>2. ASSUME NEW t \in Threads, Lifecycle(t) PROVE LockInv'
  BY <1>2, <1>0 DEF Lifecycle, thread_base_self, thread_base_active,
            register_local_block_low, proc_remove_thread_data,
            orig_pthread_exit, stampVars
<1>3. ASSUME NEW t \in Threads, Collect(t) PROVE LockInv'
  BY <1>3, <1>0 DEF Collect, queue_push, queue_is_full, try_acquire_read,
            try_acquire_cas, stampVars
<1>4. ASSUME NEW t \in Threads, Walk(t) PROVE LockInv'
  BY <1>4, <1>0 DEF Walk, wait_for_timestamp_lock, wait_for_timestamp_unlock,
            generate_lock, generate_unlock, signal_all_lock,
            signal_all_unlock, wait_for_timestamp, queue_pop_bulk,
            signal_all_except, FOREACH_IN_THREAD_LIST,
            ENDFOREACH_IN_THREAD_LIST, Visit, stampVars
<1>5. ASSUME NEW t \in Threads, Reclaim(t) PROVE LockInv'
  BY <1>5, <1>0 DEF Reclaim, generate_leftovers, do_reclaim_search,
            do_reclaim_block, do_reclaim_await, cleanup_release,
            handle_unreferenced_ptrs, free_unreferenced,
            store_remaining_addrs, stampVars
<1>6. ASSUME NEW t \in Threads, Handler(t) PROVE LockInv'
  BY <1>6, <1>0 DEF Handler, signal_delivered, raise_flag, raise_flag_stamp,
            search_self_stack, search_self_block, search_self_count,
            lower_flag, stampVars
<1>7. CASE UNCHANGED vars
  BY <1>7 DEF vars, stampVars
<1> QED BY <1>1, <1>2, <1>3, <1>4, <1>5, <1>6, <1>7 DEF Next, Library, Halted

-----------------------------------------------------------------------------
(* Signals.                                                               *)

\* The threads with an outstanding signal can be counted.
LEMMA FiniteUnsearched ==
  ASSUME TypeOK PROVE IsFiniteSet(Unsearched) /\ Cardinality(Unsearched) \in Nat
<1>1. Unsearched \subseteq Threads BY DEF Unsearched
<1>2. IsFiniteSet(Unsearched) BY <1>1, ThreadsAssumption, FS_Subset
<1> QED BY <1>2, FS_CardinalityType

\* When the wait of do_reclaim ends, every signalled thread has been searched.
LEMMA AllSearched ==
  ASSUME TypeOK, CountInv, NEW t \in Threads, do_reclaim_await(t)
  PROVE  Unsearched = {}
<1>1. /\ self_stacks_searched >= sig_count
      /\ sig_count = self_stacks_searched + Cardinality(Unsearched)
  BY DEF do_reclaim_await, Runs, CountInv, ScanPC
<1>2. Cardinality(Unsearched) = 0
  BY <1>1, FiniteUnsearched DEF TypeOK
<1> QED BY <1>2, FiniteUnsearched, FS_EmptySet

\* Every step keeps the signals inside the round that sent them: do_reclaim waits
\* for all of them before the round ends, so pthread_kill never meets an old one.
LEMMA SignalStep ==
  ASSUME TypeOK, LifeInv, LockInv, CountInv, SignalInv, [Next]_vars
  PROVE  SignalInv'
<1> USE DEF SignalInv, Unsearched, BeforeCount, ScanPC, HoldPC, LockInv,
            OneReclaimer, Runs, Goto, Handles, HGoto
<1>0. /\ pc \in [Threads -> PC] /\ hpc \in [Threads -> HandlerPC]
      /\ pending \in [Threads -> BOOLEAN] /\ old_timestamp \in [Threads -> Stamp]
  BY DEF TypeOK
<1>1. ASSUME NEW t \in Threads, Application(t) PROVE SignalInv'
  BY <1>1, <1>0 DEF Application, app_insert, app_read, app_drop, app_spill,
            threadscan_collect, pthread_create, register_local_block_high,
            thread_cleanup_inactive, listVars, sigVars, addrVars
<1>2. ASSUME NEW t \in Threads, Lifecycle(t) PROVE SignalInv'
  BY <1>2, <1>0 DEF Lifecycle, thread_base_self, thread_base_active,
            register_local_block_low, proc_remove_thread_data,
            orig_pthread_exit, listVars, sigVars, addrVars
<1>3. ASSUME NEW t \in Threads, Collect(t) PROVE SignalInv'
  BY <1>3, <1>0 DEF Collect, queue_push, queue_is_full, try_acquire_read,
            try_acquire_cas, listVars, sigVars, addrVars
<1>4. ASSUME NEW t \in Threads, Walk(t) PROVE SignalInv'
  <2>1. ASSUME NEW td \in Threads, signal_all_except(t, td) PROVE SignalInv'
    <3>1. CASE td # t /\ is_active[td] /\ self[td]
      <4>1. pc[td] \notin {"unborn", "base", "gone"} \cup HoldPC
        BY <2>1, <3>1, <1>0 DEF signal_all_except, LifeInv, Frameless
      <4> QED BY <2>1, <3>1, <4>1, <1>0 DEF signal_all_except, Visit, addrVars
    <3>2. CASE ~(td # t /\ is_active[td] /\ self[td])
      BY <2>1, <3>2, <1>0 DEF signal_all_except, Visit, addrVars
    <3> QED BY <3>1, <3>2
  <2>2. CASE \/ wait_for_timestamp_lock(t) \/ wait_for_timestamp_unlock(t)
             \/ generate_lock(t) \/ generate_unlock(t) \/ signal_all_lock(t)
             \/ signal_all_unlock(t)
             \/ \E td \in Threads : wait_for_timestamp(t, td)
             \/ \E td \in Threads : queue_pop_bulk(t, td)
    BY <2>2, <1>0 DEF wait_for_timestamp_lock, wait_for_timestamp_unlock,
              generate_lock, generate_unlock, signal_all_lock,
              signal_all_unlock, wait_for_timestamp, queue_pop_bulk,
              FOREACH_IN_THREAD_LIST, ENDFOREACH_IN_THREAD_LIST, Visit,
              sigVars, addrVars
  <2> QED BY <1>4, <2>1, <2>2 DEF Walk
<1>5. ASSUME NEW t \in Threads, Reclaim(t) PROVE SignalInv'
  <2>1. CASE do_reclaim_await(t)
    <3>1. \A u \in Threads : ~pending[u] /\ hpc[u] \notin BeforeCount
      BY <2>1, AllSearched
    <3> QED BY <2>1, <1>0, <3>1 DEF do_reclaim_await, listVars, addrVars
  <2>2. CASE \/ generate_leftovers(t) \/ do_reclaim_search(t)
             \/ do_reclaim_block(t) \/ cleanup_release(t)
             \/ handle_unreferenced_ptrs(t) \/ free_unreferenced(t)
             \/ store_remaining_addrs(t)
    BY <2>2, <1>0 DEF generate_leftovers, do_reclaim_search, do_reclaim_block,
              cleanup_release, handle_unreferenced_ptrs, free_unreferenced,
              store_remaining_addrs, listVars, sigVars, addrVars
  <2> QED BY <1>5, <2>1, <2>2 DEF Reclaim
<1>6. ASSUME NEW t \in Threads, Handler(t) PROVE SignalInv'
  BY <1>6, <1>0 DEF Handler, signal_delivered, raise_flag, raise_flag_stamp,
            search_self_stack, search_self_block, search_self_count,
            lower_flag, listVars, sigVars, addrVars
<1>7. CASE UNCHANGED vars
  BY <1>7 DEF vars, listVars, sigVars, addrVars
<1> QED BY <1>1, <1>2, <1>3, <1>4, <1>5, <1>6, <1>7 DEF Next, Library, Halted

-----------------------------------------------------------------------------
(* The reclaimer's count.                                                 *)

\* A step that neither signals nor counts, and does not start a scan.
LEMMA CountKept ==
  ASSUME CountInv, UNCHANGED <<pending, hpc, self_stacks_searched, sig_count>>,
         \A r \in Threads : pc'[r] \in ScanPC => pc[r] \in ScanPC
  PROVE  CountInv'
<1>1. Unsearched' = Unsearched BY DEF Unsearched
<1> QED BY <1>1 DEF CountInv

\* Every step keeps the count of do_reclaim: a pthread_kill adds to sig_count what
\* the handler later adds to self_stacks_searched.
LEMMA CountStep ==
  ASSUME TypeOK, LockInv, SignalInv, CountInv, [Next]_vars
  PROVE  CountInv'
<1> USE DEF ScanPC, Runs, Goto, Handles, HGoto
<1>0. /\ pc \in [Threads -> PC] /\ hpc \in [Threads -> HandlerPC]
      /\ pending \in [Threads -> BOOLEAN]
      /\ self_stacks_searched \in Nat /\ sig_count \in Nat
  BY DEF TypeOK
<1>1. ASSUME NEW t \in Threads, Application(t) PROVE CountInv'
  BY <1>1, <1>0, CountKept DEF Application, app_insert, app_read, app_drop,
            app_spill, threadscan_collect, pthread_create,
            register_local_block_high, thread_cleanup_inactive, sigVars
<1>2. ASSUME NEW t \in Threads, Lifecycle(t) PROVE CountInv'
  BY <1>2, <1>0, CountKept DEF Lifecycle, thread_base_self,
            thread_base_active, register_local_block_low,
            proc_remove_thread_data, orig_pthread_exit, sigVars
<1>3. ASSUME NEW t \in Threads, Collect(t) PROVE CountInv'
  BY <1>3, <1>0, CountKept DEF Collect, queue_push, queue_is_full,
            try_acquire_read, try_acquire_cas, sigVars
<1>4. ASSUME NEW t \in Threads, Walk(t) PROVE CountInv'
  <2>1. CASE signal_all_lock(t)
    <3>1. Unsearched = {}
      BY <2>1 DEF signal_all_lock, SignalInv, LockInv, OneReclaimer, HoldPC, ScanPC
    <3>2. Unsearched' = Unsearched
      BY <2>1 DEF signal_all_lock, Unsearched
    <3> QED BY <2>1, <3>1, <3>2, FS_EmptySet DEF signal_all_lock, CountInv
  <2>2. ASSUME NEW td \in Threads, signal_all_except(t, td) PROVE CountInv'
    <3>1. CASE td # t /\ is_active[td] /\ self[td]
      <4>1. Unsearched' = Unsearched \cup {td}
        BY <2>2, <3>1, <1>0 DEF signal_all_except, Unsearched
      <4>2. td \notin Unsearched
        BY <2>2 DEF signal_all_except, Visit, SignalInv
      <4>3. Cardinality(Unsearched') = Cardinality(Unsearched) + 1
        BY <4>1, <4>2, FiniteUnsearched, FS_AddElement
      <4> QED
        BY <2>2, <3>1, <4>3, <1>0, FiniteUnsearched DEF signal_all_except, CountInv
    <3>2. CASE ~(td # t /\ is_active[td] /\ self[td])
      BY <2>2, <3>2, <1>0, CountKept DEF signal_all_except
    <3> QED BY <3>1, <3>2
  <2>3. CASE \/ wait_for_timestamp_lock(t) \/ wait_for_timestamp_unlock(t)
             \/ generate_lock(t) \/ generate_unlock(t) \/ signal_all_unlock(t)
             \/ \E td \in Threads : wait_for_timestamp(t, td)
             \/ \E td \in Threads : queue_pop_bulk(t, td)
    BY <2>3, <1>0, CountKept DEF wait_for_timestamp_lock,
              wait_for_timestamp_unlock, generate_lock, generate_unlock,
              signal_all_unlock, wait_for_timestamp, queue_pop_bulk,
              FOREACH_IN_THREAD_LIST, ENDFOREACH_IN_THREAD_LIST, Visit,
              sigVars
  <2> QED BY <1>4, <2>1, <2>2, <2>3 DEF Walk
<1>5. ASSUME NEW t \in Threads, Reclaim(t) PROVE CountInv'
  <2>1. CASE do_reclaim_await(t)
    BY <2>1, <1>0 DEF do_reclaim_await, CountInv, LockInv, OneReclaimer, HoldPC
  <2>2. CASE \/ generate_leftovers(t) \/ do_reclaim_search(t)
             \/ do_reclaim_block(t) \/ cleanup_release(t)
             \/ handle_unreferenced_ptrs(t) \/ free_unreferenced(t)
             \/ store_remaining_addrs(t)
    BY <2>2, <1>0, CountKept DEF generate_leftovers, do_reclaim_search,
              do_reclaim_block, cleanup_release, handle_unreferenced_ptrs,
              free_unreferenced, store_remaining_addrs, sigVars
  <2> QED BY <1>5, <2>1, <2>2 DEF Reclaim
<1>6. ASSUME NEW t \in Threads, Handler(t) PROVE CountInv'
  <2>1. CASE signal_delivered(t)
    <3>1. Unsearched' = Unsearched
      BY <2>1, <1>0 DEF signal_delivered, Unsearched, BeforeCount
    <3> QED BY <2>1, <3>1 DEF signal_delivered, CountInv
  <2>2. CASE raise_flag(t)
    <3>1. Unsearched' = Unsearched
      BY <2>2, <1>0 DEF raise_flag, sigVars, Unsearched, BeforeCount
    <3> QED BY <2>2, <3>1 DEF raise_flag, sigVars, CountInv
  <2>3. CASE raise_flag_stamp(t)
    <3>1. Unsearched' = Unsearched
      BY <2>3, <1>0 DEF raise_flag_stamp, sigVars, Unsearched, BeforeCount
    <3> QED BY <2>3, <3>1 DEF raise_flag_stamp, sigVars, CountInv
  <2>4. CASE search_self_stack(t)
    <3>1. Unsearched' = Unsearched
      BY <2>4, <1>0 DEF search_self_stack, sigVars, Unsearched, BeforeCount
    <3> QED BY <2>4, <3>1 DEF search_self_stack, sigVars, CountInv
  <2>5. CASE search_self_block(t)
    <3>1. Unsearched' = Unsearched
      BY <2>5, <1>0 DEF search_self_block, sigVars, Unsearched, BeforeCount
    <3> QED BY <2>5, <3>1 DEF search_self_block, sigVars, CountInv
  <2>6. CASE search_self_count(t)
    <3>1. Unsearched' = Unsearched \ {t} /\ t \in Unsearched
      BY <2>6, <1>0 DEF search_self_count, Unsearched, BeforeCount, SignalInv
    <3>2. Cardinality(Unsearched') = Cardinality(Unsearched) - 1
      BY <3>1, FiniteUnsearched, FS_RemoveElement
    <3> QED BY <2>6, <3>2, <1>0, FiniteUnsearched DEF search_self_count, CountInv
  <2>7. CASE lower_flag(t)
    <3>1. Unsearched' = Unsearched
      BY <2>7, <1>0 DEF lower_flag, sigVars, Unsearched, BeforeCount
    <3> QED BY <2>7, <3>1 DEF lower_flag, sigVars, CountInv
  <2> QED BY <1>6, <2>1, <2>2, <2>3, <2>4, <2>5, <2>6, <2>7 DEF Handler
<1>7. CASE UNCHANGED vars
  BY <1>7, CountKept DEF vars, sigVars
<1> QED BY <1>1, <1>2, <1>3, <1>4, <1>5, <1>6, <1>7 DEF Next, Library, Halted

-----------------------------------------------------------------------------
(* Timestamps and helpers.                                                *)

\* Every step keeps the local timestamps behind the global one: raise_flag copies
\* it, and try_acquire moves it past every copy.
LEMMA StampStep ==
  ASSUME TypeOK, LockInv, SignalInv, StampInv, [Next]_vars
  PROVE  StampInv'
<1> USE DEF StampInv, SignalInv, Unsearched, BeforeCount, QuietPC, ScanPC,
            HoldPC, LockInv, OneReclaimer, Stamp, Runs, Goto, Handles, HGoto
<1>0. /\ pc \in [Threads -> PC] /\ hpc \in [Threads -> HandlerPC]
      /\ local_timestamp \in [Threads -> Stamp] /\ global_timestamp \in Stamp
  BY DEF TypeOK
<1>1. ASSUME NEW t \in Threads, Application(t) PROVE StampInv'
  BY <1>1, <1>0 DEF Application, app_insert, app_read, app_drop, app_spill,
            threadscan_collect, pthread_create, register_local_block_high,
            thread_cleanup_inactive, stampVars
<1>2. ASSUME NEW t \in Threads, Lifecycle(t) PROVE StampInv'
  BY <1>2, <1>0 DEF Lifecycle, thread_base_self, thread_base_active,
            register_local_block_low, proc_remove_thread_data,
            orig_pthread_exit, stampVars
<1>3. ASSUME NEW t \in Threads, Collect(t) PROVE StampInv'
  BY <1>3, <1>0 DEF Collect, queue_push, queue_is_full, try_acquire_read,
            try_acquire_cas, stampVars
<1>4. ASSUME NEW t \in Threads, Walk(t) PROVE StampInv'
  BY <1>4, <1>0 DEF Walk, wait_for_timestamp_lock, wait_for_timestamp_unlock,
            generate_lock, generate_unlock, signal_all_lock,
            signal_all_unlock, wait_for_timestamp, queue_pop_bulk,
            signal_all_except, FOREACH_IN_THREAD_LIST,
            ENDFOREACH_IN_THREAD_LIST, Visit, stampVars
<1>5. ASSUME NEW t \in Threads, Reclaim(t) PROVE StampInv'
  BY <1>5, <1>0 DEF Reclaim, generate_leftovers, do_reclaim_search,
            do_reclaim_block, do_reclaim_await, cleanup_release,
            handle_unreferenced_ptrs, free_unreferenced,
            store_remaining_addrs, stampVars
<1>6. ASSUME NEW t \in Threads, Handler(t) PROVE StampInv'
  BY <1>6, <1>0 DEF Handler, signal_delivered, raise_flag, raise_flag_stamp,
            search_self_stack, search_self_block, search_self_count,
            lower_flag, stampVars
<1>7. CASE UNCHANGED vars
  BY <1>7 DEF vars, stampVars
<1> QED BY <1>1, <1>2, <1>3, <1>4, <1>5, <1>6, <1>7 DEF Next, Library, Halted

\* Every step keeps what wait_for_timestamp has established of the threads its
\* walk has left: none is in a handler until the next pthread_kill.
LEMMA HelperStep ==
  ASSUME TypeOK, LockInv, ListInv, SignalInv, StampInv, HelperInv, [Next]_vars
  PROVE  HelperInv'
<1> USE DEF HelperInv, Runs, Goto, Handles, HGoto
<1>0. /\ pc \in [Threads -> PC] /\ hpc \in [Threads -> HandlerPC]
      /\ thread_list \subseteq Threads /\ todo \subseteq Threads
  BY DEF TypeOK
<1>1. ASSUME NEW t \in Threads, Application(t) PROVE HelperInv'
  <2>1. ASSUME NEW c \in Threads, pthread_create(t, c) PROVE HelperInv'
    <3>1. hpc[c] = "idle"
      BY <2>1 DEF pthread_create, SignalInv
    <3>2. \A r \in Threads : pc[r] # "wait"
      BY <2>1, ThreadsAssumption DEF pthread_create, ListInv
    <3> QED BY <2>1, <3>1, <3>2, <1>0 DEF pthread_create, stampVars, sigVars
  <2>2. CASE \/ \E p \in Ptrs : app_insert(t, p)
             \/ \E p \in Ptrs : app_read(t, p)
             \/ \E p \in Ptrs : app_drop(t, p)
             \/ \E p \in Ptrs : app_spill(t, p)
             \/ \E p \in Ptrs : threadscan_collect(t, p)
             \/ register_local_block_high(t) \/ thread_cleanup_inactive(t)
    BY <2>2, <1>0 DEF app_insert, app_read, app_drop, app_spill,
              threadscan_collect, register_local_block_high,
              thread_cleanup_inactive, listVars, stampVars, sigVars
  <2> QED BY <1>1, <2>1, <2>2 DEF Application
<1>2. ASSUME NEW t \in Threads, Lifecycle(t) PROVE HelperInv'
  BY <1>2, <1>0 DEF Lifecycle, thread_base_self, thread_base_active,
            register_local_block_low, proc_remove_thread_data,
            orig_pthread_exit, listVars, stampVars, sigVars
<1>3. ASSUME NEW t \in Threads, Collect(t) PROVE HelperInv'
  BY <1>3, <1>0 DEF Collect, queue_push, queue_is_full, try_acquire_read,
            try_acquire_cas, listVars, stampVars, sigVars
<1>4. ASSUME NEW t \in Threads, Walk(t) PROVE HelperInv'
  <2>1. ASSUME NEW td \in Threads, wait_for_timestamp(t, td) PROVE HelperInv'
    <3>1. td \notin Unsearched
      BY <2>1 DEF wait_for_timestamp, SignalInv, ScanPC, LockInv, OneReclaimer, HoldPC
    <3>2. hpc[td] \in {"idle", "lower"}
      BY <3>1, <1>0 DEF Unsearched, BeforeCount, HandlerPC
    <3>3. local_timestamp[td].n < global_timestamp.n
      BY <2>1 DEF wait_for_timestamp, StampInv, QuietPC
    <3>4. global_timestamp.n = old_timestamp[t].n + 1
      BY <2>1 DEF wait_for_timestamp, LockInv
    <3>5. global_timestamp.n \in Nat /\ local_timestamp[td].n \in Nat
      BY DEF TypeOK, Stamp
    <3>6. hpc[td] = "idle"
      BY <2>1, <3>2, <3>3, <3>4, <3>5 DEF wait_for_timestamp, StampInv
    <3> QED BY <2>1, <3>6, <1>0 DEF wait_for_timestamp, Visit
  <2>2. ASSUME NEW td \in Threads, signal_all_except(t, td) PROVE HelperInv'
    <3>1. \A r \in Threads : pc[r] \in HoldPC => r = t
      BY <2>2 DEF signal_all_except, LockInv, OneReclaimer, HoldPC
    <3> QED BY <2>2, <3>1 DEF signal_all_except, HoldPC
  <2>3. CASE \/ wait_for_timestamp_lock(t) \/ wait_for_timestamp_unlock(t)
             \/ generate_lock(t) \/ generate_unlock(t) \/ signal_all_lock(t)
             \/ signal_all_unlock(t)
             \/ \E td \in Threads : queue_pop_bulk(t, td)
    BY <2>3, <1>0 DEF wait_for_timestamp_lock, wait_for_timestamp_unlock,
              generate_lock, generate_unlock, signal_all_lock,
              signal_all_unlock, queue_pop_bulk, FOREACH_IN_THREAD_LIST,
              ENDFOREACH_IN_THREAD_LIST, Visit, stampVars, sigVars
  <2> QED BY <1>4, <2>1, <2>2, <2>3 DEF Walk
<1>5. ASSUME NEW t \in Threads, Reclaim(t) PROVE HelperInv'
  BY <1>5, <1>0 DEF Reclaim, generate_leftovers, do_reclaim_search,
            do_reclaim_block, do_reclaim_await, cleanup_release,
            handle_unreferenced_ptrs, free_unreferenced,
            store_remaining_addrs, listVars, stampVars, sigVars
<1>6. ASSUME NEW t \in Threads, Handler(t) PROVE HelperInv'
  <2>1. CASE signal_delivered(t)
    <3>1. PICK r \in Threads : pc[r] \in ScanPC
      BY <2>1 DEF signal_delivered, SignalInv, Unsearched
    <3>2. \A s \in Threads : pc[s] \in HoldPC => s = r
      BY <3>1 DEF LockInv, OneReclaimer, HoldPC, ScanPC
    <3> QED BY <2>1, <3>1, <3>2, <1>0 DEF signal_delivered, HoldPC, ScanPC
  <2>2. CASE \/ raise_flag(t) \/ raise_flag_stamp(t) \/ search_self_stack(t)
             \/ search_self_block(t) \/ search_self_count(t) \/ lower_flag(t)
    BY <2>2, <1>0 DEF raise_flag, raise_flag_stamp, search_self_stack,
              search_self_block, search_self_count, lower_flag, listVars,
              stampVars, sigVars
  <2> QED BY <1>6, <2>1, <2>2 DEF Handler
<1>7. CASE UNCHANGED vars
  BY <1>7 DEF vars, listVars, stampVars, sigVars
<1> QED BY <1>1, <1>2, <1>3, <1>4, <1>5, <1>6, <1>7 DEF Next, Library, Halted

-----------------------------------------------------------------------------
(* Tracked addresses.                                                     *)

\* Tracked addresses are addresses.
LEMMA TrackedPtrs ==
  ASSUME TypeOK
  PROVE  /\ storage.addrs \subseteq Ptrs
         /\ \A k \in Place, t \in Threads : Held(k, t) \subseteq Ptrs
<1>1. storage.addrs \subseteq Ptrs BY DEF TypeOK, Block
<1>2. ASSUME NEW k \in Place, NEW t \in Threads PROVE Held(k, t) \subseteq Ptrs
  <2>1. work[t] \in Buffer /\ left[t] \in Block BY DEF TypeOK
  <2> QED BY <2>1 DEF TypeOK, Held, Place, Block, Buffer
<1> QED BY <1>1, <1>2

\* A step that moves no address.
LEMMA TrackKept ==
  ASSUME TrackInv, UNCHANGED <<heap, arg, ptr_list, work, victims, left, storage>>
  PROVE  TrackInv'
<1>1. \A k \in Place, t \in Threads : Held(k, t)' = Held(k, t) BY DEF Held, Place
<1> QED BY <1>1 DEF TrackInv, TrackedOnce

\* A search changes nothing of the lists but marks of entries.
LEMMA SearchMarks ==
  ASSUME TypeOK, NEW found \in SUBSET Ptrs, search_range(found), NEW u \in Threads
  PROVE  /\ work'[u].addrs = work[u].addrs
         /\ work[u].marks \subseteq work'[u].marks
         /\ work'[u].marks \subseteq work[u].marks \cup work[u].addrs
         /\ u # buf_addrs => work'[u] = work[u]
         /\ u = buf_addrs => found \cap work[u].addrs \subseteq work'[u].marks
<1> DEFINE buf == work[buf_addrs]
<1>0. work[u] \in Buffer BY DEF TypeOK
<1>1. CASE NAddrs(buf) > 0
  <2>1. PICK zero \in {buf.nullmark, buf.nulls > 0} :
          work' = [work EXCEPT ![buf_addrs] = Mark(@, found, zero)]
    BY <1>1 DEF search_range
  <2>2. CASE u = buf_addrs
    BY <1>0, <2>1, <2>2 DEF Mark, Buffer, TypeOK
  <2>3. CASE u # buf_addrs
    BY <2>1, <2>3 DEF TypeOK
  <2> QED BY <2>2, <2>3
<1>2. CASE NAddrs(buf) = 0
  <2>1. work' = work BY <1>2 DEF search_range
  <2>2. ASSUME u = buf_addrs PROVE work[u].addrs = {}
    <3>1. IsFiniteSet(work[u].addrs)
      BY <1>0, PtrsAssumption, FS_Subset DEF Buffer
    <3>2. Cardinality(work[u].addrs) \in Nat
      BY <3>1, FS_CardinalityType
    <3>3. Cardinality(work[u].addrs) = 0
      BY <1>0, <1>2, <2>2, <3>2 DEF NAddrs, Buffer
    <3> QED BY <3>1, <3>3, FS_EmptySet
  <2> QED BY <2>1, <2>2
<1> QED BY <1>1, <1>2 DEF search_range

\* A search moves no address, and marks only entries of the list.
LEMMA TrackSearch ==
  ASSUME TypeOK, TrackInv, NEW found \in SUBSET Ptrs,
         search_range(found) \/ work' = work,
         UNCHANGED <<heap, arg, ptr_list, victims, left, storage>>
  PROVE  TrackInv'
<1>1. \A u \in Threads : /\ work'[u].addrs = work[u].addrs
                         /\ work'[u].marks \subseteq work[u].marks \cup work[u].addrs
  BY SearchMarks
<1>2. \A k \in Place, t \in Threads : Held(k, t)' = Held(k, t)
  BY <1>1 DEF Held, Place
<1>3. \A u \in Threads : work'[u].marks \subseteq work'[u].addrs
  BY <1>1 DEF TrackInv
<1> QED BY <1>2, <1>3 DEF TrackInv, TrackedOnce

\* Every step keeps each collected address in one place: push, pop_bulk, the sweep
\* and the two ends of storage each move it.
LEMMA TrackStep ==
  ASSUME TypeOK, LifeInv, TrackInv, [Next]_vars
  PROVE  TrackInv'
<1> USE DEF Runs, Goto, Handles, HGoto
<1>1. ASSUME NEW t \in Threads, Application(t) PROVE TrackInv'
  <2>1. ASSUME NEW p \in Ptrs, app_insert(t, p) PROVE TrackInv'
    <3>1. \A k \in Place, u \in Threads : Held(k, u)' = Held(k, u)
      BY <2>1 DEF app_insert, Held, Place, addrVars
    <3>2. storage' = storage /\ work' = work
      BY <2>1 DEF app_insert, addrVars
    <3>3. \A q \in Ptrs : heap[q] = "retired" => heap'[q] = "retired"
      BY <2>1 DEF app_insert, TypeOK
    <3> QED BY <3>1, <3>2, <3>3, TrackedPtrs DEF TrackInv, TrackedOnce
  <2>2. ASSUME NEW p \in Ptrs, threadscan_collect(t, p) PROVE TrackInv'
    <3>1. \A k \in Place, u \in Threads :
            Held(k, u)' = IF k = "arg" /\ u = t THEN {p} ELSE Held(k, u)
      <4>1. arg'[t] = p /\ p # NULL /\ \A u \in Threads \ {t} : arg'[u] = arg[u]
        BY <2>2, PtrsAssumption DEF threadscan_collect, TypeOK
      <4>2. UNCHANGED <<ptr_list, work, victims, left>>
        BY <2>2 DEF threadscan_collect, addrVars
      <4> QED BY <4>1, <4>2 DEF Held, Place
    <3>2. storage' = storage /\ work' = work
      BY <2>2 DEF threadscan_collect, addrVars
    <3>3. /\ heap'[p] = "retired" /\ heap[p] # "retired"
          /\ \A q \in Ptrs : heap[q] = "retired" => heap'[q] = "retired"
      BY <2>2 DEF threadscan_collect, TypeOK
    <3>4. /\ p \notin storage.addrs
          /\ \A k \in Place, u \in Threads : p \notin Held(k, u)
      BY <3>3 DEF TrackInv, TrackedOnce, Place
    <3> QED BY <3>1, <3>2, <3>3, <3>4, TrackedPtrs DEF TrackInv, TrackedOnce
  <2>3. CASE \/ \E p \in Ptrs : app_read(t, p)
             \/ \E p \in Ptrs : app_drop(t, p)
             \/ \E p \in Ptrs : app_spill(t, p)
             \/ \E c \in Threads : pthread_create(t, c)
             \/ register_local_block_high(t) \/ thread_cleanup_inactive(t)
    BY <2>3, TrackKept DEF app_read, app_drop, app_spill, pthread_create,
              register_local_block_high, thread_cleanup_inactive, appVars,
              addrVars
  <2> QED BY <1>1, <2>1, <2>2, <2>3 DEF Application
<1>2. ASSUME NEW t \in Threads, Lifecycle(t) PROVE TrackInv'
  BY <1>2, TrackKept DEF Lifecycle, thread_base_self, thread_base_active,
            register_local_block_low, proc_remove_thread_data,
            orig_pthread_exit, appVars, addrVars
<1>3. ASSUME NEW t \in Threads, Collect(t) PROVE TrackInv'
  <2>1. CASE queue_push(t)
    <3>1. \A k \in Place, u \in Threads :
            Held(k, u)' = CASE k = "arg" /\ u = t -> {}
                            [] k = "queue" /\ u = t -> Held(k, u) \cup {arg[t]}
                            [] OTHER -> Held(k, u)
      BY <2>1 DEF queue_push, Held, Place, addrVars, TypeOK
    <3>2. Held("arg", t) = {arg[t]}
      BY <2>1 DEF Held, queue_push, LifeInv
    <3>3. UNCHANGED <<heap, storage, work>>
      BY <2>1 DEF queue_push, appVars, addrVars
    <3> QED BY <3>1, <3>2, <3>3 DEF TrackInv, TrackedOnce, Place
  <2>2. CASE \/ queue_is_full(t) \/ try_acquire_read(t) \/ try_acquire_cas(t)
    BY <2>2, TrackKept DEF queue_is_full, try_acquire_read, try_acquire_cas,
              appVars, addrVars
  <2> QED BY <1>3, <2>1, <2>2 DEF Collect
<1>4. ASSUME NEW t \in Threads, Walk(t) PROVE TrackInv'
  <2>1. ASSUME NEW td \in Threads, queue_pop_bulk(t, td) PROVE TrackInv'
    <3>1. PICK popped \in SUBSET ptr_list[td] :
            /\ work' = [work EXCEPT ![buf_addrs] = AddTo(@, popped)]
            /\ ptr_list' = [ptr_list EXCEPT ![td] = @ \ popped]
      BY <2>1 DEF queue_pop_bulk
    <3>2. UNCHANGED <<heap, arg, victims, left, storage>>
      BY <2>1 DEF queue_pop_bulk, appVars
    <3>3. \A u \in Threads :
            \/ work'[u] = work[u]
            \/ /\ u = buf_addrs /\ work'[u].addrs = work[u].addrs \cup popped
               /\ work'[u].marks = work[u].marks
      BY <3>1 DEF TypeOK, AddTo, Buffer
    <3>4. \A k \in Place, u \in Threads :
            \/ /\ Held(k, u)' = Held(k, u) /\ <<k, u>> # <<"queue", td>>
            \/ k = "queue" /\ u = td /\ Held(k, u)' = Held(k, u) \ popped
            \/ k = "work" /\ u = buf_addrs /\ Held(k, u)' = Held(k, u) \cup popped
      BY <3>1, <3>2, <3>3 DEF Held, Place, TypeOK
    <3>5. popped \subseteq Held("queue", td)
      BY DEF Held
    <3> QED BY <3>2, <3>3, <3>4, <3>5 DEF TrackInv, TrackedOnce, Place
  <2>2. CASE \/ wait_for_timestamp_lock(t) \/ wait_for_timestamp_unlock(t)
             \/ generate_lock(t) \/ generate_unlock(t) \/ signal_all_lock(t)
             \/ signal_all_unlock(t)
             \/ \E td \in Threads : wait_for_timestamp(t, td)
             \/ \E td \in Threads : signal_all_except(t, td)
    BY <2>2, TrackKept DEF wait_for_timestamp_lock, wait_for_timestamp_unlock,
              generate_lock, generate_unlock, signal_all_lock,
              signal_all_unlock, wait_for_timestamp, signal_all_except,
              FOREACH_IN_THREAD_LIST, ENDFOREACH_IN_THREAD_LIST, Visit,
              appVars, addrVars
  <2> QED BY <1>4, <2>1, <2>2 DEF Walk
<1>5. ASSUME NEW t \in Threads, Reclaim(t) PROVE TrackInv'
  <2>1. CASE generate_leftovers(t)
    <3>1. UNCHANGED <<heap, arg, ptr_list, victims, left>> /\ storage'.addrs = {}
      BY <2>1 DEF generate_leftovers, appVars, NoBlock
    <3>2. \/ work' = work
          \/ work' = [work EXCEPT ![t] = [EmptyBuffer EXCEPT
                         !.addrs = storage.addrs, !.nulls = storage.nulls]]
      BY <2>1 DEF generate_leftovers
    <3>3. \A u \in Threads : \/ work'[u] = work[u]
                             \/ /\ u = t /\ work'[u].addrs = storage.addrs
                                /\ work'[u].marks = {}
      <4> DEFINE new == [EmptyBuffer EXCEPT !.addrs = storage.addrs,
                                           !.nulls = storage.nulls]
      <4>1. new.addrs = storage.addrs /\ new.marks = {}
        BY DEF EmptyBuffer
      <4> HIDE DEF new
      <4> QED BY <3>2, <4>1 DEF TypeOK, new
    <3>4. \A k \in Place, u \in Threads :
            \/ Held(k, u)' = Held(k, u)
            \/ k = "work" /\ u = t /\ Held(k, u)' = storage.addrs
      BY <3>1, <3>3 DEF Held, Place
    <3> QED BY <3>1, <3>3, <3>4 DEF TrackInv, TrackedOnce, Place
  <2>2. CASE do_reclaim_search(t)
    <3>1. UNCHANGED <<heap, arg, ptr_list, victims, left, storage>>
      BY <2>2 DEF do_reclaim_search, appVars
    <3> QED BY <2>2, <3>1, TrackSearch DEF do_reclaim_search, TypeOK
  <2>3. CASE do_reclaim_block(t)
    <3>1. UNCHANGED <<heap, arg, ptr_list, victims, left, storage>>
      BY <2>3 DEF do_reclaim_block, appVars
    <3>2. search_local_block(t) BY <2>3 DEF do_reclaim_block
    <3> QED BY <3>1, <3>2, BlockSearches, TrackSearch
  <2>4. CASE handle_unreferenced_ptrs(t)
    <3>1. UNCHANGED <<heap, arg, ptr_list, storage>>
      BY <2>4 DEF handle_unreferenced_ptrs, appVars
    <3>2. Kept(work[t]) \subseteq work[t].marks
      BY DEF Kept
    <3>3. \A u \in Threads : work'[u] = IF u = t THEN EmptyBuffer ELSE work[u]
      BY <2>4 DEF handle_unreferenced_ptrs, Remaining, Unreferenced, TypeOK
    <3>4. \A k \in Place, u \in Threads :
            Held(k, u)' = CASE k = "work" /\ u = t -> {}
                            [] k = "victims" /\ u = t -> Unmarked(t)
                            [] k = "left" /\ u = t -> Kept(work[t])
                            [] OTHER -> Held(k, u)
      BY <2>4, <3>1, <3>3 DEF handle_unreferenced_ptrs, Remaining, Unreferenced, Held, Place, TypeOK,
                           EmptyBuffer, Unmarked
    <3>5. /\ Held("work", t) = work[t].addrs
          /\ Unmarked(t) \subseteq work[t].addrs /\ Kept(work[t]) \subseteq work[t].addrs
          /\ Unmarked(t) \cap Kept(work[t]) = {}
      BY <3>2 DEF Held, Unmarked, TrackInv
    <3>6. \A u \in Threads : work'[u].marks \subseteq work'[u].addrs
      BY <3>3 DEF TrackInv, EmptyBuffer
    <3> QED BY <3>1, <3>4, <3>5, <3>6 DEF TrackInv, TrackedOnce, Place
  <2>5. CASE free_unreferenced(t)
    <3>1. PICK p \in victims[t] :
            /\ heap' = [heap EXCEPT ![p] = "free"]
            /\ victims' = [victims EXCEPT ![t] = @ \ {p}]
      BY <2>5 DEF free_unreferenced
    <3>2. UNCHANGED <<arg, ptr_list, storage, work, left>>
      BY <2>5 DEF free_unreferenced
    <3>3. \A k \in Place, u \in Threads :
            Held(k, u)' = IF k = "victims" /\ u = t THEN Held(k, u) \ {p}
                                                    ELSE Held(k, u)
      BY <3>1, <3>2 DEF Held, Place, TypeOK
    <3>4. p \in Held("victims", t)
      BY DEF Held
    <3>5. \A k \in Place, u \in Threads : p \notin Held(k, u)'
      BY <3>3, <3>4 DEF TrackInv, TrackedOnce, Place
    <3>6. \A q \in Ptrs \ {p} : heap'[q] = heap[q]
      BY <3>1 DEF TypeOK
    <3> QED BY <3>2, <3>3, <3>4, <3>5, <3>6, TrackedPtrs
            DEF TrackInv, TrackedOnce, Place
  <2>6. CASE store_remaining_addrs(t)
    <3>1. UNCHANGED <<heap, arg, ptr_list, work, victims>>
      BY <2>6 DEF store_remaining_addrs, appVars
    <3>2. CASE storage' = storage /\ left' = left
      BY <3>1, <3>2, TrackKept
    <3>3. CASE /\ storage' = [addrs |-> storage.addrs \cup left[t].addrs,
                             nulls |-> storage.nulls + left[t].nulls]
               /\ left' = [left EXCEPT ![t] = NoBlock]
      <4>1. \A k \in Place, u \in Threads :
              Held(k, u)' = IF k = "left" /\ u = t THEN {} ELSE Held(k, u)
        BY <3>1, <3>3 DEF Held, Place, TypeOK, NoBlock
      <4>2. storage'.addrs = storage.addrs \cup Held("left", t)
        BY <3>3 DEF Held
      <4> QED BY <3>1, <4>1, <4>2 DEF TrackInv, TrackedOnce, Place
    <3> QED BY <2>6, <3>2, <3>3 DEF store_remaining_addrs
  <2>7. CASE \/ do_reclaim_await(t) \/ cleanup_release(t)
    BY <2>7, TrackKept DEF do_reclaim_await, cleanup_release, appVars,
              addrVars
  <2> QED BY <1>5, <2>1, <2>2, <2>3, <2>4, <2>5, <2>6, <2>7 DEF Reclaim
<1>6. ASSUME NEW t \in Threads, Handler(t) PROVE TrackInv'
  <2>1. CASE search_self_stack(t)
    <3>1. UNCHANGED <<heap, arg, ptr_list, victims, left, storage>>
      BY <2>1 DEF search_self_stack, appVars
    <3> QED BY <2>1, <3>1, TrackSearch DEF search_self_stack, TypeOK
  <2>2. CASE search_self_block(t)
    <3>1. UNCHANGED <<heap, arg, ptr_list, victims, left, storage>>
      BY <2>2 DEF search_self_block, appVars
    <3>2. search_local_block(t) BY <2>2 DEF search_self_block
    <3> QED BY <3>1, <3>2, BlockSearches, TrackSearch
  <2>3. CASE \/ signal_delivered(t) \/ raise_flag(t) \/ raise_flag_stamp(t)
             \/ search_self_count(t) \/ lower_flag(t)
    BY <2>3, TrackKept DEF signal_delivered, raise_flag, raise_flag_stamp,
              search_self_count, lower_flag, appVars, addrVars
  <2> QED BY <1>6, <2>1, <2>2, <2>3 DEF Handler
<1>7. CASE UNCHANGED vars
  BY <1>7, TrackKept DEF vars, appVars, addrVars
<1> QED BY <1>1, <1>2, <1>3, <1>4, <1>5, <1>6, <1>7 DEF Next, Library, Halted

-----------------------------------------------------------------------------
(* What the scan guarantees.                                              *)

\* Every step keeps the threads that have not started, or are exiting, without a
\* node on the stack, when no node is passed to pthread_create.
LEMMA FrameStep ==
  ASSUME ~PassArgs, TypeOK, FrameInv, [Next]_vars
  PROVE  FrameInv'
<1> USE DEF FrameInv, Frameless, Runs, Goto, Handles, HGoto
<1>0. /\ pc \in [Threads -> PC] /\ refs \in [Threads -> SUBSET Ptrs]
      /\ blk \in [Threads -> SUBSET Ptrs]
  BY DEF TypeOK
<1>1. ASSUME NEW t \in Threads, Application(t) PROVE FrameInv'
  BY <1>1, <1>0 DEF Application, app_insert, app_read, app_drop, app_spill,
            threadscan_collect, pthread_create, register_local_block_high,
            thread_cleanup_inactive, appVars
<1>2. ASSUME NEW t \in Threads, Lifecycle(t) PROVE FrameInv'
  BY <1>2, <1>0 DEF Lifecycle, thread_base_self, thread_base_active,
            register_local_block_low, proc_remove_thread_data,
            orig_pthread_exit, appVars
<1>3. ASSUME NEW t \in Threads, Collect(t) PROVE FrameInv'
  BY <1>3, <1>0 DEF Collect, queue_push, queue_is_full, try_acquire_read,
            try_acquire_cas, appVars
<1>4. ASSUME NEW t \in Threads, Walk(t) PROVE FrameInv'
  BY <1>4, <1>0 DEF Walk, wait_for_timestamp_lock, wait_for_timestamp_unlock,
            generate_lock, generate_unlock, signal_all_lock,
            signal_all_unlock, wait_for_timestamp, queue_pop_bulk,
            signal_all_except, FOREACH_IN_THREAD_LIST,
            ENDFOREACH_IN_THREAD_LIST, Visit, appVars
<1>5. ASSUME NEW t \in Threads, Reclaim(t) PROVE FrameInv'
  BY <1>5, <1>0 DEF Reclaim, generate_leftovers, do_reclaim_search,
            do_reclaim_block, do_reclaim_await, cleanup_release,
            handle_unreferenced_ptrs, free_unreferenced,
            store_remaining_addrs, appVars
<1>6. ASSUME NEW t \in Threads, Handler(t) PROVE FrameInv'
  BY <1>6, <1>0 DEF Handler, signal_delivered, raise_flag, raise_flag_stamp,
            search_self_stack, search_self_block, search_self_count,
            lower_flag, appVars
<1>7. CASE UNCHANGED vars
  BY <1>7 DEF vars, appVars
<1> QED BY <1>1, <1>2, <1>3, <1>4, <1>5, <1>6, <1>7 DEF Next, Library, Halted

\* A search of the local block of t marks what the block holds.
LEMMA BlockMarks ==
  ASSUME TypeOK, LifeInv, NEW t \in Threads, search_local_block(t),
         NEW r \in Threads
  PROVE  /\ Unmarked(r)' \subseteq Unmarked(r)
         /\ r = buf_addrs => blk[t] \cap Unmarked(r)' = {}
<1>1. PICK found \in SUBSET Ptrs :
        /\ search_range(found) \/ work' = work
        /\ low[t] > 0 /\ low[t] = high[t] => search_range(found) /\ found = blk[t]
  BY BlockSearches
<1>2. CASE low[t] > 0 /\ low[t] = high[t]
  BY <1>1, <1>2, SearchMarks DEF Unmarked, TypeOK
<1>3. CASE ~(low[t] > 0 /\ low[t] = high[t])
  <2>1. blk[t] = {} BY <1>3 DEF LifeInv
  <2>2. Unmarked(r)' \subseteq Unmarked(r) BY <1>1, SearchMarks DEF Unmarked
  <2> QED BY <2>1, <2>2
<1> QED BY <1>2, <1>3

\* A step outside the scan: no thread comes to hold a retired address.
LEMMA ScanFrame ==
  ASSUME TypeOK, TrackInv, ScanInv, UNCHANGED <<pending, hpc, victims>>,
         \A u \in Threads : \A p \in Ptrs : heap[p] = "retired" =>
            /\ p \in refs'[u] => p \in refs[u]
            /\ p \in blk'[u] => p \in refs[u] \cup blk[u],
         \A r \in Threads : pc'[r] \in MarkedPC => pc'[r] = pc[r] /\ work'[r] = work[r],
         (\E r \in Threads : pc'[r] = "kill") => todo' = todo
  PROVE  ScanInv'
<1> SUFFICES ASSUME NEW r \in Threads, NEW u \in Threads
    PROVE  /\ pc'[r] \in MarkedPC =>
                /\ refs'[u] \cap Unmarked(r)' # {} => WillSearch(r, u)'
                /\ blk'[u] \cap Unmarked(r)' # {} => WillSearchBlock(r, u)'
           /\ victims'[r] \cap (refs'[u] \cup blk'[u]) = {}
  BY DEF ScanInv
<1>1. \A p \in work[r].addrs \cup victims[r] : p \in Ptrs /\ heap[p] = "retired"
  <2>1. \A p \in Held("work", r) \cup Held("victims", r) : p \in Ptrs /\ heap[p] = "retired"
    BY TrackedPtrs DEF TrackInv, TrackedOnce, Place
  <2> QED BY <2>1 DEF Held
<1>2. ASSUME pc'[r] \in MarkedPC
      PROVE  /\ Unmarked(r)' = Unmarked(r)
             /\ WillSearch(r, u) => WillSearch(r, u)'
             /\ WillSearchBlock(r, u) => WillSearchBlock(r, u)'
  BY <1>2 DEF Unmarked, WillSearch, WillSearchBlock
<1>3. \A p \in Unmarked(r) : p \in Ptrs /\ heap[p] = "retired"
  BY <1>1 DEF Unmarked
<1>4. ASSUME pc'[r] \in MarkedPC, refs'[u] \cap Unmarked(r)' # {}
      PROVE  WillSearch(r, u)'
  BY <1>2, <1>3, <1>4 DEF ScanInv
<1>5. ASSUME pc'[r] \in MarkedPC, blk'[u] \cap Unmarked(r)' # {}
      PROVE  WillSearchBlock(r, u)'
  <2>1. refs[u] \cap Unmarked(r) # {} \/ blk[u] \cap Unmarked(r) # {}
    BY <1>2, <1>3, <1>5
  <2>2. WillSearch(r, u) \/ WillSearchBlock(r, u)
    BY <2>1, <1>5 DEF ScanInv
  <2> QED BY <2>2, <1>2, <1>5 DEF WillSearchBlock
<1>6. victims'[r] \cap (refs'[u] \cup blk'[u]) = {}
  BY <1>1 DEF ScanInv
<1> QED BY <1>4, <1>5, <1>6

\* Every step keeps the marks: an address somebody holds is marked, or its holder
\* is still to be searched; so nothing that is swept is held.
LEMMA ScanStep ==
  ASSUME TypeOK, ListInv, LifeInv, LockInv, SignalInv, CountInv, TrackInv,
         FrameInv, ScanInv, ~PassArgs, [Next]_vars
  PROVE  ScanInv'
<1> USE DEF MarkedPC, ScanPC, HoldPC, Runs, Goto, Handles, HGoto
<1>0. /\ pc \in [Threads -> PC] /\ hpc \in [Threads -> HandlerPC]
      /\ refs \in [Threads -> SUBSET Ptrs] /\ blk \in [Threads -> SUBSET Ptrs]
      /\ pending \in [Threads -> BOOLEAN] /\ work \in [Threads -> Buffer]
  BY DEF TypeOK
<1>8. \A t, u \in Threads : pc[t] \in HoldPC /\ pc[u] \in HoldPC => t = u
  BY DEF LockInv, OneReclaimer
<1>1. ASSUME NEW t \in Threads, Application(t) PROVE ScanInv'
  BY <1>1, <1>0, <1>8, ScanFrame DEF Application, app_insert, app_read,
            app_drop, app_spill, threadscan_collect, pthread_create,
            register_local_block_high, thread_cleanup_inactive, appVars,
            listVars, sigVars, addrVars
<1>2. ASSUME NEW t \in Threads, Lifecycle(t) PROVE ScanInv'
  BY <1>2, <1>0, <1>8, ScanFrame DEF Lifecycle, thread_base_self,
            thread_base_active, register_local_block_low,
            proc_remove_thread_data, orig_pthread_exit, appVars, listVars,
            sigVars, addrVars
<1>3. ASSUME NEW t \in Threads, Collect(t) PROVE ScanInv'
  BY <1>3, <1>0, <1>8, ScanFrame DEF Collect, queue_push, queue_is_full,
            try_acquire_read, try_acquire_cas, appVars, listVars, sigVars,
            addrVars
<1>4. ASSUME NEW t \in Threads, Walk(t) PROVE ScanInv'
  <2>1. CASE signal_all_lock(t)
    <3>1. \A u \in Threads : u \in todo' \/ (refs[u] = {} /\ blk[u] = {})
      BY <2>1 DEF signal_all_lock, FOREACH_IN_THREAD_LIST, ListInv, FrameInv, Frameless
    <3>2. UNCHANGED <<refs, blk, work, victims, pending, hpc>>
      BY <2>1 DEF signal_all_lock, appVars, addrVars
    <3>3. \A r \in Threads : r # t => pc'[r] = pc[r] /\ pc[r] # "kill"
      BY <2>1, <1>0, <1>8 DEF signal_all_lock
    <3>4. pc'[t] = "kill"
      BY <2>1, <1>0 DEF signal_all_lock
    <3> QED BY <3>1, <3>2, <3>3, <3>4 DEF ScanInv, Unmarked, WillSearch, WillSearchBlock
  <2>2. CASE signal_all_unlock(t)
    <3>1. UNCHANGED <<refs, blk, work, victims, pending, hpc, todo>> /\ todo = {}
      BY <2>2 DEF signal_all_unlock, ENDFOREACH_IN_THREAD_LIST, appVars, addrVars,
               sigVars
    <3>2. pc[t] = "kill" /\ \A r \in Threads : pc'[r] = IF r = t THEN "scan" ELSE pc[r]
      BY <2>2, <1>0 DEF signal_all_unlock
    <3> QED BY <3>1, <3>2
            DEF ScanInv, Unmarked, WillSearch, WillSearchBlock, MarkedPC, ScanPC
  <2>3. ASSUME NEW td \in Threads, queue_pop_bulk(t, td) PROVE ScanInv'
    <3>1. \A r \in Threads : r # t => work'[r] = work[r]
      <4>1. buf_addrs = t BY <2>3 DEF queue_pop_bulk, SignalInv
      <4> QED BY <2>3, <4>1, <1>0 DEF queue_pop_bulk
    <3> QED BY <2>3, <3>1, <1>0, <1>8, ScanFrame
            DEF queue_pop_bulk, Visit, appVars, sigVars
  <2>4. ASSUME NEW td \in Threads, signal_all_except(t, td) PROVE ScanInv'
    <3>1. UNCHANGED <<refs, blk, work, victims, pc, hpc>> /\ pc[t] = "kill"
      BY <2>4 DEF signal_all_except, appVars, addrVars
    <3>2. \A u \in Threads : pending[u] => pending'[u]
      BY <2>4, <1>0 DEF signal_all_except
    <3>3. \A u \in todo : u \in todo' \/ u = t \/ pending'[u]
                          \/ (refs[u] = {} /\ blk[u] = {})
      <4>1. CASE td # t /\ is_active[td] /\ self[td]
        BY <2>4, <1>0, <4>1 DEF signal_all_except, Visit
      <4>2. CASE td = t
        BY <2>4, <4>2 DEF signal_all_except, Visit
      <4>3. CASE ~is_active[td] \/ ~self[td]
        <5>1. pc[td] \in Frameless BY <4>3 DEF LifeInv
        <5>2. refs[td] = {} /\ blk[td] = {} BY <5>1 DEF FrameInv
        <5> QED BY <2>4, <5>2 DEF signal_all_except, Visit
      <4> QED BY <4>1, <4>2, <4>3
    <3>4. \A r \in Threads : pc[r] = "kill" => r = t
      BY <3>1, <1>8
    <3> QED BY <3>1, <3>2, <3>3, <3>4
            DEF ScanInv, Unmarked, WillSearch, WillSearchBlock, MarkedPC, ScanPC
  <2>5. CASE \/ wait_for_timestamp_lock(t) \/ wait_for_timestamp_unlock(t)
             \/ generate_lock(t) \/ generate_unlock(t)
             \/ \E td \in Threads : wait_for_timestamp(t, td)
    BY <2>5, <1>0, <1>8, ScanFrame DEF wait_for_timestamp_lock,
              wait_for_timestamp_unlock, generate_lock, generate_unlock,
              wait_for_timestamp, FOREACH_IN_THREAD_LIST,
              ENDFOREACH_IN_THREAD_LIST, Visit, appVars, sigVars, addrVars
  <2> QED BY <1>4, <2>1, <2>2, <2>3, <2>4, <2>5 DEF Walk
<1>5. ASSUME NEW t \in Threads, Reclaim(t) PROVE ScanInv'
  <2>1. CASE do_reclaim_search(t)
    <3>1. UNCHANGED <<refs, blk, victims, pending, hpc, todo>>
      BY <2>1 DEF do_reclaim_search, appVars, sigVars, listVars
    <3>2. pc[t] = "scan" /\ \A r \in Threads :
            pc'[r] = IF r = t THEN "scan_block" ELSE pc[r]
      BY <2>1, <1>0 DEF do_reclaim_search
    <3>3. buf_addrs = t
      BY <3>2 DEF SignalInv, ScanPC
    <3>4. \A r \in Threads : /\ Unmarked(r)' \subseteq Unmarked(r)
                             /\ r = t => refs[t] \cap Unmarked(r)' = {}
      BY <2>1, <3>3, SearchMarks DEF do_reclaim_search, Unmarked, TypeOK
    <3> QED BY <3>1, <3>2, <3>4
            DEF ScanInv, WillSearch, WillSearchBlock, MarkedPC, ScanPC
  <2>2. CASE do_reclaim_block(t)
    <3>1. UNCHANGED <<refs, blk, victims, pending, hpc, todo>>
      BY <2>2 DEF do_reclaim_block, appVars, sigVars, listVars
    <3>2. pc[t] = "scan_block" /\ \A r \in Threads :
            pc'[r] = IF r = t THEN "await" ELSE pc[r]
      BY <2>2, <1>0 DEF do_reclaim_block
    <3>3. buf_addrs = t
      BY <3>2 DEF SignalInv, ScanPC
    <3>4. \A r \in Threads : /\ Unmarked(r)' \subseteq Unmarked(r)
                             /\ r = t => blk[t] \cap Unmarked(r)' = {}
      BY <2>2, <3>3, BlockMarks DEF do_reclaim_block
    <3> QED BY <3>1, <3>2, <3>4
            DEF ScanInv, WillSearch, WillSearchBlock, MarkedPC, ScanPC
  <2>3. CASE do_reclaim_await(t)
    <3>1. UNCHANGED <<refs, blk, work, victims, pending, hpc, todo>>
      BY <2>3 DEF do_reclaim_await, appVars, addrVars, listVars
    <3>2. pc[t] = "await" /\ \A r \in Threads :
            pc'[r] = IF r = t THEN "release" ELSE pc[r]
      BY <2>3, <1>0 DEF do_reclaim_await
    <3>3. \A u \in Threads : ~pending[u] /\ hpc[u] \notin BeforeCount
      BY <2>3, AllSearched DEF Unsearched
    <3> QED BY <3>1, <3>2, <3>3 DEF ScanInv, Unmarked, WillSearch, WillSearchBlock,
                                    MarkedPC, ScanPC, BeforeCount
  <2>4. CASE cleanup_release(t)
    <3>1. UNCHANGED <<refs, blk, work, victims, pending, hpc, todo>>
      BY <2>4 DEF cleanup_release, appVars, addrVars, listVars, sigVars
    <3>2. pc[t] = "release" /\ \A r \in Threads :
            pc'[r] = IF r = t THEN "sweep" ELSE pc[r]
      BY <2>4, <1>0 DEF cleanup_release
    <3> QED BY <3>1, <3>2 DEF ScanInv, Unmarked, WillSearch, WillSearchBlock,
                              MarkedPC, ScanPC
  <2>5. CASE handle_unreferenced_ptrs(t)
    <3>1. UNCHANGED <<refs, blk, pending, hpc, todo>>
      BY <2>5 DEF handle_unreferenced_ptrs, appVars, sigVars, listVars
    <3>2. pc[t] = "sweep" /\ \A r \in Threads :
            pc'[r] = IF r = t THEN "free" ELSE pc[r]
      BY <2>5, <1>0 DEF handle_unreferenced_ptrs
    <3>3. \A r \in Threads :
            /\ r # t => work'[r] = work[r]
            /\ victims'[r] = IF r = t THEN Unmarked(t) ELSE victims[r]
      BY <2>5 DEF handle_unreferenced_ptrs, Remaining, Unreferenced, TypeOK, Unmarked
    <3>4. \A u \in Threads : (refs[u] \cup blk[u]) \cap Unmarked(t) = {}
      BY <3>2 DEF ScanInv, MarkedPC, ScanPC, WillSearch, WillSearchBlock
    <3> QED BY <3>1, <3>2, <3>3, <3>4 DEF ScanInv, Unmarked, WillSearch,
                                          WillSearchBlock, MarkedPC, ScanPC
  <2>6. CASE free_unreferenced(t)
    <3>1. UNCHANGED <<refs, blk, work, pending, hpc, todo, pc>>
      BY <2>6 DEF free_unreferenced, sigVars, listVars
    <3>2. \A r \in Threads : victims'[r] \subseteq victims[r]
      BY <2>6 DEF free_unreferenced, TypeOK
    <3> QED BY <3>1, <3>2 DEF ScanInv, Unmarked, WillSearch, WillSearchBlock
  <2>7. CASE \/ generate_leftovers(t) \/ store_remaining_addrs(t)
    BY <2>7, <1>0, <1>8, ScanFrame DEF generate_leftovers,
              store_remaining_addrs, appVars, listVars, sigVars
  <2> QED BY <1>5, <2>1, <2>2, <2>3, <2>4, <2>5, <2>6, <2>7 DEF Reclaim
<1>6. ASSUME NEW t \in Threads, Handler(t) PROVE ScanInv'
  <2>1. CASE signal_delivered(t)
    <3>1. UNCHANGED <<refs, blk, work, victims, todo, pc>>
      BY <2>1 DEF signal_delivered, appVars, listVars, addrVars
    <3> QED BY <2>1, <3>1, <1>0
            DEF signal_delivered, ScanInv, Unmarked, WillSearch,
                WillSearchBlock
  <2>2. CASE raise_flag(t)
    <3>1. UNCHANGED <<refs, blk, work, victims, todo, pc>>
      BY <2>2 DEF raise_flag, appVars, listVars, sigVars, addrVars
    <3> QED BY <2>2, <3>1, <1>0
            DEF raise_flag, ScanInv, Unmarked, WillSearch, WillSearchBlock,
                sigVars
  <2>3. CASE raise_flag_stamp(t)
    <3>1. UNCHANGED <<refs, blk, work, victims, todo, pc>>
      BY <2>3 DEF raise_flag_stamp, appVars, listVars, sigVars, addrVars
    <3> QED BY <2>3, <3>1, <1>0
            DEF raise_flag_stamp, ScanInv, Unmarked, WillSearch,
                WillSearchBlock, sigVars
  <2>4. CASE search_self_stack(t)
    <3>1. UNCHANGED <<refs, blk, victims, pending, todo, pc>>
      BY <2>4 DEF search_self_stack, appVars, sigVars, listVars
    <3>2. hpc[t] = "search" /\ hpc' = [hpc EXCEPT ![t] = "search_block"]
      BY <2>4 DEF search_self_stack
    <3>3. PICK s \in Threads : pc[s] \in ScanPC /\ buf_addrs = s
      BY <3>2 DEF SignalInv, Unsearched, BeforeCount
    <3>4. \A r \in Threads : /\ Unmarked(r)' \subseteq Unmarked(r)
                             /\ r = s => refs[t] \cap Unmarked(r)' = {}
      BY <2>4, <3>3, SearchMarks DEF search_self_stack, Unmarked, TypeOK
    <3>5. \A r \in Threads : pc[r] \in ScanPC => r = s
      BY <3>3 DEF SignalInv
    <3> QED BY <3>1, <3>2, <3>4, <3>5, <1>0
            DEF ScanInv, WillSearch, WillSearchBlock, MarkedPC, ScanPC
  <2>5. CASE search_self_block(t)
    <3>1. UNCHANGED <<refs, blk, victims, pending, todo, pc>>
      BY <2>5 DEF search_self_block, appVars, sigVars, listVars
    <3>2. hpc[t] = "search_block" /\ hpc' = [hpc EXCEPT ![t] = "count"]
      BY <2>5 DEF search_self_block
    <3>3. PICK s \in Threads : pc[s] \in ScanPC /\ buf_addrs = s
      BY <3>2 DEF SignalInv, Unsearched, BeforeCount
    <3>4. \A r \in Threads : /\ Unmarked(r)' \subseteq Unmarked(r)
                             /\ r = s => blk[t] \cap Unmarked(r)' = {}
      BY <2>5, <3>3, BlockMarks DEF search_self_block
    <3>5. \A r \in Threads : pc[r] \in ScanPC => r = s
      BY <3>3 DEF SignalInv
    <3> QED BY <3>1, <3>2, <3>4, <3>5, <1>0
            DEF ScanInv, WillSearch, WillSearchBlock, MarkedPC, ScanPC
  <2>6. CASE search_self_count(t)
    <3>1. UNCHANGED <<refs, blk, work, victims, todo, pc>>
      BY <2>6 DEF search_self_count, appVars, listVars, addrVars
    <3> QED BY <2>6, <3>1, <1>0
            DEF search_self_count, ScanInv, Unmarked, WillSearch,
                WillSearchBlock
  <2>7. CASE lower_flag(t)
    <3>1. UNCHANGED <<refs, blk, work, victims, todo, pc>>
      BY <2>7 DEF lower_flag, appVars, listVars, sigVars, addrVars
    <3> QED BY <2>7, <3>1, <1>0
            DEF lower_flag, ScanInv, Unmarked, WillSearch, WillSearchBlock,
                sigVars
  <2> QED BY <1>6, <2>1, <2>2, <2>3, <2>4, <2>5, <2>6, <2>7 DEF Handler
<1>7. CASE UNCHANGED vars
  BY <1>7, <1>8, ScanFrame DEF vars, appVars, listVars, sigVars, addrVars
<1> QED BY <1>1, <1>2, <1>3, <1>4, <1>5, <1>6, <1>7 DEF Next, Library, Halted

-----------------------------------------------------------------------------
(* Queues, and the main property.                                         *)

\* The length of a queue is a natural number.
LEMMA FiniteQueue ==
  ASSUME TypeOK, NEW t \in Threads
  PROVE  IsFiniteSet(ptr_list[t]) /\ Cardinality(ptr_list[t]) \in Nat
<1>1. ptr_list[t] \subseteq Ptrs BY DEF TypeOK
<1>2. IsFiniteSet(ptr_list[t]) BY <1>1, PtrsAssumption, FS_Subset
<1> QED BY <1>2, FS_CardinalityType

\* A step that pushes nothing, and does not leave threadscan_collect.
LEMMA QueueKept ==
  ASSUME TypeOK, QueueInv, \A t \in Threads : ptr_list'[t] \subseteq ptr_list[t],
         \A t \in Threads : pc'[t] \in {"unborn", "base", "user", "reg_low", "push"}
            => pc[t] \in {"unborn", "base", "user", "reg_low", "push"}
  PROVE  QueueInv'
<1> SUFFICES ASSUME NEW t \in Threads
             PROVE  /\ Cardinality(ptr_list'[t]) < Cap
                    /\ pc'[t] \in {"unborn", "base", "user", "reg_low", "push"} =>
                          ~IsFull(ptr_list'[t])
  BY DEF QueueInv, IsFull
<1>1. /\ Cardinality(ptr_list'[t]) \in Nat
      /\ Cardinality(ptr_list'[t]) <= Cardinality(ptr_list[t])
  BY FiniteQueue, FS_Subset, FS_CardinalityType
<1> QED BY <1>1, FiniteQueue, BoundsAssumption DEF QueueInv, IsFull

\* Every step keeps room in the queues: the loop of threadscan_collect is left
\* only when the queue is not full, and only its owner pushes.
LEMMA QueueStep ==
  ASSUME TypeOK, QueueInv, [Next]_vars
  PROVE  QueueInv'
<1> USE DEF Runs, Goto, Handles, HGoto
<1>0. pc \in [Threads -> PC] /\ ptr_list \in [Threads -> SUBSET Ptrs]
  BY DEF TypeOK
<1>1. ASSUME NEW t \in Threads, Application(t) PROVE QueueInv'
  BY <1>1, <1>0, QueueKept DEF Application, app_insert, app_read, app_drop,
            app_spill, threadscan_collect, pthread_create,
            register_local_block_high, thread_cleanup_inactive
<1>2. ASSUME NEW t \in Threads, Lifecycle(t) PROVE QueueInv'
  BY <1>2, <1>0, QueueKept DEF Lifecycle, thread_base_self,
            thread_base_active, register_local_block_low,
            proc_remove_thread_data, orig_pthread_exit
<1>3. ASSUME NEW t \in Threads, Collect(t) PROVE QueueInv'
  <2>1. CASE queue_push(t)
    <3>1. ptr_list'[t] = ptr_list[t] \cup {arg[t]}
      BY <2>1, <1>0 DEF queue_push
    <3>2. /\ IsFiniteSet(ptr_list[t]) /\ Cardinality(ptr_list[t]) \in Nat
      BY FiniteQueue
    <3>3. \/ Cardinality(ptr_list'[t]) = Cardinality(ptr_list[t])
          \/ Cardinality(ptr_list'[t]) = Cardinality(ptr_list[t]) + 1
      BY <3>1, <3>2, FS_AddElement
    <3>4. Cardinality(ptr_list[t]) + 1 < Cap
      BY <2>1, <3>2, BoundsAssumption DEF queue_push, QueueInv, IsFull
    <3>5. Cardinality(ptr_list'[t]) < Cap
      BY <3>2, <3>3, <3>4, BoundsAssumption
    <3>6. /\ pc'[t] = "check"
          /\ \A u \in Threads \ {t} : ptr_list'[u] = ptr_list[u] /\ pc'[u] = pc[u]
      BY <2>1, <1>0 DEF queue_push
    <3> QED BY <3>5, <3>6 DEF QueueInv
  <2>2. CASE queue_is_full(t)
    BY <2>2, <1>0 DEF queue_is_full, QueueInv
  <2>3. CASE \/ try_acquire_read(t) \/ try_acquire_cas(t)
    BY <2>3, <1>0, QueueKept DEF try_acquire_read, try_acquire_cas
  <2> QED BY <1>3, <2>1, <2>2, <2>3 DEF Collect
<1>4. ASSUME NEW t \in Threads, Walk(t) PROVE QueueInv'
  <2>1. ASSUME NEW td \in Threads, queue_pop_bulk(t, td) PROVE QueueInv'
    <3>1. PICK popped \in SUBSET ptr_list[td] :
            ptr_list' = [ptr_list EXCEPT ![td] = @ \ popped]
      BY <2>1 DEF queue_pop_bulk
    <3>2. \A u \in Threads : ptr_list'[u] \subseteq ptr_list[u]
      BY <3>1, <1>0
    <3> QED BY <2>1, <3>2, QueueKept DEF queue_pop_bulk
  <2>2. CASE \/ wait_for_timestamp_lock(t) \/ wait_for_timestamp_unlock(t)
             \/ generate_lock(t) \/ generate_unlock(t) \/ signal_all_lock(t)
             \/ signal_all_unlock(t)
             \/ \E td \in Threads : wait_for_timestamp(t, td)
             \/ \E td \in Threads : signal_all_except(t, td)
    BY <2>2, <1>0, QueueKept DEF wait_for_timestamp_lock,
              wait_for_timestamp_unlock, generate_lock, generate_unlock,
              signal_all_lock, signal_all_unlock, wait_for_timestamp,
              signal_all_except, FOREACH_IN_THREAD_LIST,
              ENDFOREACH_IN_THREAD_LIST, Visit
  <2> QED BY <1>4, <2>1, <2>2 DEF Walk
<1>5. ASSUME NEW t \in Threads, Reclaim(t) PROVE QueueInv'
  BY <1>5, <1>0, QueueKept DEF Reclaim, generate_leftovers, do_reclaim_search,
            do_reclaim_block, do_reclaim_await, cleanup_release,
            handle_unreferenced_ptrs, free_unreferenced, store_remaining_addrs
<1>6. ASSUME NEW t \in Threads, Handler(t) PROVE QueueInv'
  BY <1>6, <1>0, QueueKept DEF Handler, signal_delivered, raise_flag,
            raise_flag_stamp, search_self_stack, search_self_block,
            search_self_count, lower_flag
<1>7. CASE UNCHANGED vars
  BY <1>7, QueueKept DEF vars
<1> QED BY <1>1, <1>2, <1>3, <1>4, <1>5, <1>6, <1>7 DEF Next, Library, Halted

\* Every step keeps the held nodes allocated: the only free is that of an address
\* nobody holds.
LEMMA NoUseAfterFreeStep ==
  ASSUME ~PassArgs, TypeOK, ScanInv, NoUseAfterFree, [Next]_vars
  PROVE  NoUseAfterFree'
<1> USE DEF NoUseAfterFree, Runs, Goto, Handles, HGoto
<1>0. /\ heap \in [Ptrs -> {"free", "linked", "retired"}]
      /\ refs \in [Threads -> SUBSET Ptrs] /\ blk \in [Threads -> SUBSET Ptrs]
  BY DEF TypeOK
<1>1. ASSUME NEW t \in Threads, Application(t) PROVE NoUseAfterFree'
  BY <1>1, <1>0 DEF Application, app_insert, app_read, app_drop, app_spill,
            threadscan_collect, pthread_create, register_local_block_high,
            thread_cleanup_inactive, appVars
<1>2. ASSUME NEW t \in Threads, Lifecycle(t) PROVE NoUseAfterFree'
  BY <1>2, <1>0 DEF Lifecycle, thread_base_self, thread_base_active,
            register_local_block_low, proc_remove_thread_data,
            orig_pthread_exit, appVars
<1>3. ASSUME NEW t \in Threads, Collect(t) PROVE NoUseAfterFree'
  BY <1>3, <1>0 DEF Collect, queue_push, queue_is_full, try_acquire_read,
            try_acquire_cas, appVars
<1>4. ASSUME NEW t \in Threads, Walk(t) PROVE NoUseAfterFree'
  BY <1>4, <1>0 DEF Walk, wait_for_timestamp_lock, wait_for_timestamp_unlock,
            generate_lock, generate_unlock, signal_all_lock,
            signal_all_unlock, wait_for_timestamp, queue_pop_bulk,
            signal_all_except, FOREACH_IN_THREAD_LIST,
            ENDFOREACH_IN_THREAD_LIST, Visit, appVars
<1>5. ASSUME NEW t \in Threads, Reclaim(t) PROVE NoUseAfterFree'
  <2>1. CASE free_unreferenced(t)
    <3>1. PICK p \in victims[t] : heap' = [heap EXCEPT ![p] = "free"]
      BY <2>1 DEF free_unreferenced
    <3>2. \A u \in Threads : p \notin refs[u] \cup blk[u]
      BY DEF ScanInv
    <3> QED BY <2>1, <3>1, <3>2, <1>0 DEF free_unreferenced
  <2>2. CASE \/ generate_leftovers(t) \/ do_reclaim_search(t)
             \/ do_reclaim_block(t) \/ do_reclaim_await(t)
             \/ cleanup_release(t) \/ handle_unreferenced_ptrs(t)
             \/ store_remaining_addrs(t)
    BY <2>2, <1>0 DEF generate_leftovers, do_reclaim_search, do_reclaim_block,
              do_reclaim_await, cleanup_release, handle_unreferenced_ptrs,
              store_remaining_addrs, appVars
  <2> QED BY <1>5, <2>1, <2>2 DEF Reclaim
<1>6. ASSUME NEW t \in Threads, Handler(t) PROVE NoUseAfterFree'
  BY <1>6, <1>0 DEF Handler, signal_delivered, raise_flag, raise_flag_stamp,
            search_self_stack, search_self_block, search_self_count,
            lower_flag, appVars
<1>7. CASE UNCHANGED vars
  BY <1>7 DEF vars, appVars
<1> QED BY <1>1, <1>2, <1>3, <1>4, <1>5, <1>6, <1>7 DEF Next, Library, Halted


-----------------------------------------------------------------------------
(* The theorems.                                                            *)

\* A stuttering step.
LEMMA TypeStutter ==
  ASSUME TypeOK, UNCHANGED vars
  PROVE  TypeOK'
  BY DEF TypeOK, vars, appVars, tdVars, listVars, stampVars, sigVars, addrVars

\* Only assign_working_space changes buf_addrs.
LEMMA BufferFrame ==
  ASSUME [Next]_vars
  PROVE  buf_addrs' = buf_addrs \/ \E t \in Threads : generate_leftovers(t)
<1>1. ASSUME NEW t \in Threads, Application(t) PROVE buf_addrs' = buf_addrs
  BY <1>1 DEF Application, app_insert, app_read, app_drop, app_spill,
            threadscan_collect, pthread_create, register_local_block_high,
            thread_cleanup_inactive, addrVars
<1>2. ASSUME NEW t \in Threads, Lifecycle(t) PROVE buf_addrs' = buf_addrs
  BY <1>2 DEF Lifecycle, thread_base_self, thread_base_active,
            register_local_block_low, proc_remove_thread_data,
            orig_pthread_exit, addrVars
<1>3. ASSUME NEW t \in Threads, Collect(t) PROVE buf_addrs' = buf_addrs
  BY <1>3 DEF Collect, queue_push, queue_is_full, try_acquire_read,
            try_acquire_cas, addrVars
<1>4. ASSUME NEW t \in Threads, Walk(t) PROVE buf_addrs' = buf_addrs
  BY <1>4 DEF Walk, wait_for_timestamp_lock, wait_for_timestamp_unlock,
            generate_lock, generate_unlock, signal_all_lock,
            signal_all_unlock, wait_for_timestamp, queue_pop_bulk,
            signal_all_except, addrVars
<1>5. ASSUME NEW t \in Threads, Reclaim(t) PROVE buf_addrs' = buf_addrs \/ generate_leftovers(t)
  BY <1>5 DEF Reclaim, do_reclaim_search, do_reclaim_block, do_reclaim_await,
            cleanup_release, handle_unreferenced_ptrs, free_unreferenced,
            store_remaining_addrs, addrVars
<1>6. ASSUME NEW t \in Threads, Handler(t) PROVE buf_addrs' = buf_addrs
  BY <1>6 DEF Handler, signal_delivered, raise_flag, raise_flag_stamp,
            search_self_stack, search_self_block, search_self_count,
            lower_flag, addrVars
<1> QED BY <1>1, <1>2, <1>3, <1>4, <1>5, <1>6 DEF Next, Library, Halted, vars, addrVars

\* Every step keeps the types.
LEMMA TypeStep ==
  ASSUME TypeOK, LifeInv, [Next]_vars
  PROVE  TypeOK'
<1>1. CASE Next
  BY <1>1, TypeApplication, TypeLifecycle, TypeCollect, TypeWalk, TypeReclaim,
     TypeHandler, TypeStutter DEF Next, Library, Halted, LifeInv
<1>2. CASE UNCHANGED vars
  BY <1>2, TypeStutter
<1> QED BY <1>1, <1>2

\* The invariant holds when main_replacement calls threadscan_thread_base.
LEMMA InitCore == Init => CoreInv
<1> SUFFICES ASSUME Init PROVE CoreInv OBVIOUS
<1>1. TypeOK BY TypeInit
<1>2. Unsearched = {} BY DEF Init, Unsearched, BeforeCount
<1>3. ListInv
  BY ThreadsAssumption DEF Init, ListInv
<1>4. LifeInv
  BY DEF Init, LifeInv, Frameless
<1>5. LockInv
  BY DEF Init, LockInv, OneReclaimer, HoldPC
<1>6. SignalInv /\ CountInv
  BY <1>2 DEF Init, SignalInv, CountInv, ScanPC, HoldPC
<1>7. StampInv /\ HelperInv
  BY DEF Init, StampInv, HelperInv, NoStamp, QuietPC
<1>8. TrackInv
  BY DEF Init, TrackInv, TrackedOnce, Held, Place, EmptyBuffer, NoBlock
<1>9. QueueInv
  BY FS_EmptySet, BoundsAssumption DEF Init, QueueInv, IsFull
<1> QED BY <1>1, <1>3, <1>4, <1>5, <1>6, <1>7, <1>8, <1>9 DEF CoreInv

\* Every step keeps the invariant.
LEMMA CoreStep ==
  ASSUME CoreInv, [Next]_vars
  PROVE  CoreInv'
  BY TypeStep, ListStep, LifeStep, LockStep, SignalStep, CountStep, StampStep,
     HelperStep, TrackStep, QueueStep DEF CoreInv

(***************************************************************************)
(* CoreInv holds in every state of every execution, whatever the           *)
(* application passes to the threads it creates.                           *)
(***************************************************************************)
THEOREM CoreInvariant == Spec => []CoreInv
<1>1. CoreInv /\ [Next]_vars => CoreInv' BY CoreStep
<1> QED BY <1>1, InitCore, PTL DEF Spec

(***************************************************************************)
(* Type correctness: in particular NULL is never queued and                *)
(* times_without_update stays within 0..2.                                 *)
(***************************************************************************)
THEOREM TypeCorrect == Spec => []TypeOK
<1>1. CoreInv => TypeOK BY DEF CoreInv
<1> QED BY <1>1, CoreInvariant, PTL

\* The CAS of try_acquire and the store of cleanup_release exclude a second reclaimer.
THEOREM MutualExclusion == Spec => []OneReclaimer
<1>1. CoreInv => OneReclaimer BY DEF CoreInv, LockInv
<1> QED BY <1>1, CoreInvariant, PTL

\* No address is in two places, so none is freed twice.
THEOREM NoDoubleFree == Spec => []TrackedOnce
<1>1. CoreInv => TrackedOnce BY DEF CoreInv, TrackInv
<1> QED BY <1>1, CoreInvariant, PTL

\* The reclaimer waits for exactly the searches it asked for.
THEOREM SignalCount == Spec => []SignalsAccounted
<1>1. CoreInv => SignalsAccounted
  BY DEF CoreInv, SignalInv, CountInv, SignalsAccounted
<1> QED BY <1>1, CoreInvariant, PTL

\* A handler searches with the list and the timestamp of the round that signalled it.
THEOREM SearchInRound == Spec => []HandlerInRound
<1>1. ASSUME CoreInv PROVE HandlerInRound
  <2> SUFFICES ASSUME NEW t \in Threads,
                      hpc[t] \in {"search", "search_block", "count"}
               PROVE  /\ \E r \in Threads : pc[r] \in ScanPC /\ buf_addrs = r /\ r # t
                      /\ global_timestamp.active
                      /\ local_timestamp[t] = global_timestamp
    BY DEF HandlerInRound
  <2>1. t \in Unsearched BY DEF Unsearched, BeforeCount
  <2>2. PICK r \in Threads : pc[r] \in ScanPC
    BY <1>1, <2>1 DEF CoreInv, SignalInv
  <2>3. buf_addrs = r /\ r # t
    BY <1>1, <2>2 DEF CoreInv, SignalInv, ScanPC, HoldPC
  <2>4. global_timestamp.active
    BY <1>1, <2>2 DEF CoreInv, LockInv, OneReclaimer, ScanPC, HoldPC
  <2>5. local_timestamp[t].active /\ local_timestamp[t].n = global_timestamp.n
    BY <1>1 DEF CoreInv, StampInv
  <2>6. local_timestamp[t] \in Stamp /\ global_timestamp \in Stamp
    BY <1>1 DEF CoreInv, TypeOK
  <2>7. local_timestamp[t] = global_timestamp
    BY <2>4, <2>5, <2>6 DEF Stamp
  <2> QED BY <2>2, <2>3, <2>4, <2>7
<1> QED BY <1>1, CoreInvariant, PTL

\* wait_for_timestamp returns when no listed thread is in a handler.
THEOREM HelpersFinish == Spec => []HelpersDone
<1>1. CoreInv => HelpersDone BY DEF CoreInv, HelperInv, HelpersDone
<1> QED BY <1>1, CoreInvariant, PTL

\* Nobody signals a thread that does not exist, and a signalled thread stays.
THEOREM SignalsReachLiveThreads == Spec => []SignalledAreAlive
<1>1. CoreInv => SignalledAreAlive
  BY DEF CoreInv, SignalInv, ListInv, SignalledAreAlive, TypeOK
<1> QED BY <1>1, CoreInvariant, PTL

\* threadscan_queue_push never overruns the queue.
THEOREM PushHasRoom == Spec => []QueueHasRoom
<1>1. CoreInv => QueueHasRoom BY DEF CoreInv, QueueInv, QueueHasRoom
<1> QED BY <1>1, CoreInvariant, PTL

(***************************************************************************)
(* A search that sees "low" set has both bounds of one block, unless it    *)
(* interrupts the registration of a second or later block.                 *)
(***************************************************************************)
THEOREM BlockBoundsSet == Spec => []NoFunkyReads
<1>1. CoreInv => NoFunkyReads BY DEF CoreInv, LifeInv, NoFunkyReads
<1> QED BY <1>1, CoreInvariant, PTL

\* The working list is replaced only when no search of it is outstanding.
THEOREM ListNotReplaced == Spec => BufferStable
<1>1. ASSUME CoreInv, [Next]_vars PROVE
    [(\E t \in Threads : generate_leftovers(t)) \/ buf_addrs' # buf_addrs
        => Unsearched = {}]_vars
  <2>1. ASSUME NEW t \in Threads, generate_leftovers(t) PROVE Unsearched = {}
    <3>1. pc[t] = "leftovers" BY <2>1 DEF generate_leftovers, Runs
    <3>2. \A r \in Threads : pc[r] \notin ScanPC
      BY <1>1, <3>1 DEF CoreInv, LockInv, OneReclaimer, HoldPC, ScanPC
    <3> QED BY <1>1, <3>2 DEF CoreInv, SignalInv
  <2>2. buf_addrs' = buf_addrs \/ \E t \in Threads : generate_leftovers(t)
    BY <1>1, BufferFrame
  <2> QED BY <2>1, <2>2
<1> QED BY <1>1, CoreInvariant, PTL DEF Spec, BufferStable

(***************************************************************************)
(* The main result.  When no node is passed to a thread that is being      *)
(* created, IInv is inductive, so no node on a stack or in a registered    *)
(* block is ever free.                                                     *)
(***************************************************************************)
THEOREM Invariance == ~PassArgs => (Spec => []IInv)
<1> SUFFICES ASSUME ~PassArgs PROVE Spec => []IInv OBVIOUS
<1>1. Init => IInv
  <2> SUFFICES ASSUME Init PROVE IInv OBVIOUS
  <2>1. FrameInv /\ NoUseAfterFree BY DEF Init, FrameInv, NoUseAfterFree
  <2>2. ScanInv BY DEF Init, ScanInv, MarkedPC, ScanPC
  <2> QED BY <2>1, <2>2, InitCore DEF IInv
<1>2. IInv /\ [Next]_vars => IInv'
  BY CoreStep, FrameStep, ScanStep, NoUseAfterFreeStep DEF IInv, CoreInv
<1> QED BY <1>1, <1>2, PTL DEF Spec

\* threadscan_collect frees a node only when no stack and no block holds it.
THEOREM Safety == ~PassArgs => (Spec => []NoUseAfterFree)
<1>1. IInv => NoUseAfterFree BY DEF IInv
<1> QED BY <1>1, Invariance, PTL

=============================================================================
