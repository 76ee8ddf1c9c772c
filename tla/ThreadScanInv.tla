---------------------------- MODULE ThreadScanInv ----------------------------
(***************************************************************************)
(* The inductive invariant of ThreadScan: what makes the safety properties *)
(* hold at every step.  TLC checks it on the small instances and           *)
(* ThreadScanProofs proves it for every instance.                          *)
(***************************************************************************)
EXTENDS ThreadScan

\* A thread whose frames hold no application data: not started, or exiting.
Frameless == {"unborn", "base", "exit", "staged", "gone"}

(***************************************************************************)
(* The thread list holds the threads between pthread_create and            *)
(* proc_remove_thread_data; its lock is held exactly during the walks.     *)
(***************************************************************************)
ListInv ==
    /\ \A t \in Threads : t \in thread_list <=> pc[t] \notin {"unborn", "staged", "gone"}
    /\ \A t \in Threads : list_lock = t <=> pc[t] \in {"wait", "pop", "kill"}

(***************************************************************************)
(* What the metadata of a thread says of it: the threads that may have     *)
(* frames are active and can be signalled.                                 *)
(***************************************************************************)
LifeInv ==
    \A t \in Threads :
        /\ is_active[t] => pc[t] \notin Frameless \ {"base"}
        /\ pc[t] \notin Frameless => is_active[t] /\ self[t]
        /\ pc[t] = "base" => ~(is_active[t] /\ self[t])
        /\ pc[t] = "push" <=> arg[t] # NULL
        /\ pc[t] = "reg_low" => high[t] = low[t] + 1 /\ blk[t] = {}
        /\ pc[t] # "reg_low" => high[t] = low[t]
        /\ blk[t] # {} => low[t] > 0

\* A thread without frames holds no node (unless it was passed one).
FrameInv ==
    \A t \in Threads : pc[t] \in Frameless => refs[t] = {} /\ blk[t] = {}

\* The cleanup lock, and that a CAS only succeeds on an inactive timestamp.
LockInv ==
    /\ OneReclaimer
    /\ \A t \in Threads : pc[t] = "cas" => ~old_timestamp[t].active
    /\ \A t \in Threads : pc[t] \in {"wait_lock", "wait"} =>
          global_timestamp.n = old_timestamp[t].n + 1

(***************************************************************************)
(* Signals belong to the round of the one reclaimer: they are outstanding  *)
(* only while it is between its first pthread_kill and the end of its      *)
(* wait, it is not signalled itself, a thread gets one signal, and one     *)
(* still to be visited by the walk has none yet.                           *)
(***************************************************************************)
SignalInv ==
    /\ \A t \in Threads : pending[t] \/ hpc[t] # "idle" =>
          pc[t] \notin {"unborn", "base", "gone"} \cup HoldPC
    /\ \A t \in Threads : pending[t] => hpc[t] \notin BeforeCount
    /\ Unsearched # {} => \E r \in Threads : pc[r] \in ScanPC
    /\ \A r \in Threads : pc[r] = "kill" => todo \cap Unsearched = {}
    /\ \A r \in Threads : pc[r] \in {"pop_lock", "pop", "kill_lock", "release"}
                                    \cup ScanPC => buf_addrs = r

\* The reclaimer's count: finished searches plus outstanding ones.
CountInv ==
    \A r \in Threads : pc[r] \in ScanPC =>
        sig_count = self_stacks_searched + Cardinality(Unsearched)

(***************************************************************************)
(* Local timestamps lag behind the global one until the helper has read    *)
(* it, so a raised flag with an old value is a helper of an earlier round. *)
(***************************************************************************)
QuietPC == {"wait_lock", "wait", "leftovers", "pop_lock", "pop", "kill_lock"}
StampInv ==
    \A t \in Threads :
        /\ local_timestamp[t].n <= global_timestamp.n
        /\ (\E r \in Threads : pc[r] \in QuietPC) =>
              local_timestamp[t].n < global_timestamp.n
        /\ hpc[t] \notin {"idle", "raise"} => local_timestamp[t].active
        /\ hpc[t] \in {"search", "search_block", "count"} =>
              local_timestamp[t].n = global_timestamp.n

\* After the walk of wait_for_timestamp has passed td, td is in no handler.
HelperInv ==
    \A r \in Threads :
        /\ pc[r] = "wait" => \A td \in thread_list \ todo : hpc[td] = "idle"
        /\ pc[r] \in {"leftovers", "pop_lock", "pop", "kill_lock"} =>
              \A td \in thread_list : hpc[td] = "idle"

\* Addresses are tracked once, and only entries of a list are marked.
TrackInv ==
    /\ TrackedOnce
    /\ \A t \in Threads : work[t].marks \subseteq work[t].addrs

\* A thread that may call threadscan_collect has room for the push.
QueueInv ==
    \A t \in Threads :
        /\ Cardinality(ptr_list[t]) < Cap
        /\ pc[t] \in {"unborn", "base", "user", "reg_low", "push"} =>
              ~IsFull(ptr_list[t])

(***************************************************************************)
(* A thread that holds an unmarked address of the list of reclaimer r has  *)
(* not been searched yet, but will be before r sweeps.                     *)
(***************************************************************************)
Unmarked(r) == work[r].addrs \ work[r].marks
WillSearch(r, u) ==
    \/ pc[r] = "kill" /\ u \in todo
    \/ pc[r] \in {"kill", "scan"} /\ u = r
    \/ pc[r] \in ScanPC /\ (pending[u] \/ hpc[u] \in {"raise", "stamp", "search"})
WillSearchBlock(r, u) ==
    \/ WillSearch(r, u)
    \/ pc[r] = "scan_block" /\ u = r
    \/ pc[r] \in ScanPC /\ hpc[u] = "search_block"
\* From the first signal until the reclaimer acts on the marks.
MarkedPC == ScanPC \cup {"release", "sweep"}
ScanInv ==
    \A r, u \in Threads :
        /\ pc[r] \in MarkedPC =>
              /\ refs[u] \cap Unmarked(r) # {} => WillSearch(r, u)
              /\ blk[u] \cap Unmarked(r) # {} => WillSearchBlock(r, u)
        /\ victims[r] \cap (refs[u] \cup blk[u]) = {}

\* Invariants that hold of any application.
CoreInv ==
    /\ TypeOK /\ ListInv /\ LifeInv /\ LockInv /\ SignalInv /\ CountInv
    /\ StampInv /\ HelperInv /\ TrackInv /\ QueueInv

(***************************************************************************)
(* The whole invariant, of an application that passes no node to a thread  *)
(* it creates.                                                             *)
(***************************************************************************)
IInv == CoreInv /\ FrameInv /\ ScanInv /\ NoUseAfterFree

=============================================================================
