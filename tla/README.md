# ThreadScan in TLA+

A specification of ThreadScan, the memory reclamation library in `src/`: TLA+
modules for its parts, TLC configurations that check them on small instances,
and TLAPS proofs that hold for every instance of them.

## The system

An application unlinks a node from a shared structure and calls
`threadscan_collect` on it. The node may be freed once no thread has a pointer
to it on its stack, in its registers, or in a block it registered. Every thread
queues the nodes it collects. A thread whose queue is full takes the cleanup
lock, gathers the queues of all threads and what earlier rounds left over,
sorts the addresses, and signals every other thread; each thread, in its signal
handler, searches its own stack and sets the low bit of the addresses it finds.
When all have answered, the reclaimer releases the lock, frees the addresses
nobody marked and stores the others for the next round.

### Inventory

| Component | State | Operations | Interacts with |
|---|---|---|---|
| Reclamation protocol (`threadscan.c`, `thread.c`, `proc.c`) | `global_timestamp` with its active bit, each thread's `local_timestamp`, `self_stacks_searched`, `g_tsdata` (`buf_addrs`, `n_addrs`, `storage`), `is_active`, `self`, `local_block` | `threadscan_collect`, `cleanup_try_acquire`, `wait_for_timestamp`, `threadscan_reclaim`, `signal_all_except`, `signal_handler`, `register_local_block` | everything below, the kernel's signals, the application's stacks |
| Pointer queue (`queue.c`) | ring of slots, `idx_head`, `idx_tail` | `push`, `is_full` by the owner, `pop_bulk` by the reclaimer, no lock | protocol |
| Search (`threadscan.c`) | the working list and its scan map, shared by all searching threads without a lock | `do_search`, `binary_search`, `iterative_search`, `SET_LOW_BIT` | reclaimer and handlers |
| Working list (`threadscan.c`, `util.c`) | the array in the reclaimer's mapping; the stored block that overlays it | `util_sort`, `handle_unreferenced_ptrs`, `util_randomize`, `store_remaining_addrs` | protocol, `free` |
| Stored blocks (`threadscan.c`) | a stack linked through `addr_storage_t.next`, in mappings of their own | CAS push, exchange with NULL, copy and unmap | successive reclaimers, which may overlap; allocator |
| Thread registry (`wrappers.c`, `util.c`, `thread.c`) | `g_thread_count`, the thread list and its mutex, the staged list and its mutex, `ref_count`, mappings | `pthread_create`, `pthread_exit`, `pthread_join` wrappers, list walks | protocol (walks), allocator |
| Internal allocator (`alloc.c`) | sorted circular list of mappings, pool of nodes, mutex | `alloc_mmap`, `alloc_munmap` | everything that maps memory |
| Environment and sizes (`env.c`, constructor in `threadscan.c`) | `g_threadscan_ptrs_per_thread`, `max_ptrs`, buffer sizes | start-up only | queue, buffers |
| Start of the main thread (`wrappers.c`, `proc.c`, `thread.c`) | the `orig_` functions, the reader's place in `/proc/self/maps`, the bounds of the main stack | constructors, `main_replacement`, `stack_from_addr`, `thread_base` | kernel, loader; leaves the first state of registry and protocol |
| Diagnostics (`util.c`) | none | messages | |

### What is hard, and what makes each part correct

* **Rounds overlap.** The lock is released before the sweep, so the frees of one
  round run beside the pushes, pops and searches of the next; a helper may still
  be inside its handler when the next reclaimer starts. An address must be in
  one place only (`TrackedOnce`), a handler must search with the list of the
  reclaimer that signalled it (`HandlerInRound`, `BufferStable`), and old helpers
  must be gone before a new list is built (`HelpersDone`).
* **One counter for all rounds.** The reclaimer waits on `self_stacks_searched`,
  which it resets by a plain store: `SignalsAccounted`.
* **A node is freed only if nobody holds it**: `NoUseAfterFree`, the promise of
  `threadscan.h`. It takes all of the above, and threads that start, exit and
  register blocks at the wrong moment.
* **No locks on the data path.** The queue has a writer and a reader without a
  lock (`IsFifo`); searches mark words that other searches are comparing
  (`NothingMissed`, `OnlyFound`).
* **In-place array tricks** (`SweepAsModelled`, `StoredIsReadBack`, `SortSorts`)
  and a two-level search over a partly full page (`InMapping`).
* **Two lists over one link field**, and metadata unmapped by another thread
  (`ListIsExact`, `ListedAreMapped`, `JoinFindsStaged`, `StackOutlivesThread`).
* **A lock-free stack over reused memory.** The word that a CAS compares is the
  address of a block that may have been taken, unmapped and mapped again
  (`IsAddrSet`, `BlocksInOnePlace`).
* **Two lists of nodes that live in the memory they describe** (`RingSorted`,
  `NodesInOnePlace`), and a mapping that must be given back whole, once, while the
  kernel may hand the same pages to another thread (`MappedIsTracked`).
* **Arithmetic in ints** from a number the user chooses (`CapacityUsable`,
  `BuffersFit`), and a parser of the kernel's text on whose answer the main thread's
  search depends (`MainIsReady`).
* **Waiting**: searches of a circular list while holding a mutex
  (`LockIsReleased`); the reclaimer spins for helpers, and walks hold a mutex that
  exiting threads need (`RoundEnds`, `CollectReturns`).

`PROJECT.json` lists these hazards with their lines.

## Modules

    Buffers          what a list of addresses says (constant operators)
      ThreadScan         the protocol
        ThreadScanInv      its inductive invariant
          MCThreadScan       instances for TLC
          ThreadScanProofs   theorems and proofs
      Search             concurrent searches of the list
        MCSearch           instances for TLC
      WorkingList        the list as an array, through successive rounds
        ListProofs         theorems and proofs about Search and WorkingList
    Fifo             abstract queue
      Queue            queue.c, implements Fifo
        QueueProofs      theorems and proofs
    Links            lists linked through a field of their nodes
      LinksProofs      what linking in and unlinking do to a list or a ring
      ThreadRegistry   threads' metadata from create to join
        MCThreadRegistry symmetry for TLC
        RegistryProofs   theorems and proofs (with LinksProofs)
      Alloc            alloc.c
        AllocProofs      theorems and proofs (with LinksProofs)
    AddrSet          abstract storage of the addresses left over
      AddrStorage      the linked stack of stored blocks (Links), implements AddrSet
        MCAddrStorage    symmetry for TLC
        StorageProofs    theorems and proofs (with LinksProofs)
    Startup          from loading to the user's main
      MCStartup        inputs for TLC
      StartupProofs    theorems and proofs (with LinksProofs)

The modules are layers of one abstraction. `ThreadScan` takes a queue as a set,
a search as one step and the sweep as an operator of `Buffers`. `Queue` justifies
the first (its accesses implement a FIFO), `Search` the second (interleaved
searches mark exactly the addresses found), `WorkingList` the third (the array
code computes what the operators of `Buffers` say). `WorkingList` also justifies what
`Search` assumes of its lists (`Searchable`). `ThreadRegistry` justifies
that the thread list is a set whose walks meet every registered thread, as long as
`mmap` returns no page that a failed creation left on the list.
`AddrStorage` justifies that `storage` is one set from which a reclaimer takes
everything in one step and to which it adds its block in one step. `Alloc` justifies
what `AddrStorage` and `ThreadRegistry` take `alloc_mmap` and `alloc_munmap` for:
memory that nobody else has, given back as it was given. `Startup` ends where
`ThreadRegistry` and `ThreadScan` begin, and shows of the real numbers what `Queue`
(a power of two), `ThreadScan` (a capacity of at least 2) and `Search` (a scan map
behind the list) assume.

### ThreadScan

A step is one access to state that another thread, or the thread's own handler,
can see. A thread has two program counters: `pc` for its code and `hpc` for its
signal handler; its own code runs only while `hpc` is idle. The stack is
`refs[t]`, the set of tracked addresses in its frames and registers, `blk[t]` the
same for the registered block. The application (external) follows the README's two
conditions: it collects a node after unlinking it and only once. It may keep the
collected pointer on the stack, drop it later, or move it to its block. It may
register another block later on; while it does, its pointers are on the stack.

| Source | Actions |
|---|---|
| `threadscan_collect` | `threadscan_collect`, `queue_push`, `queue_is_full` |
| `cleanup_try_acquire` | `try_acquire_read`, `try_acquire_cas`, `wait_for_timestamp*` |
| `threadscan_reclaim` | `generate_*`, `queue_pop_bulk`, then `do_reclaim`'s, `cleanup_release`, `handle_unreferenced_ptrs`, `free_unreferenced`, `store_remaining_addrs` |
| `do_reclaim` | `signal_all_*`, `do_reclaim_search`, `do_reclaim_block`, `do_reclaim_await` |
| `signal_handler` | `signal_delivered`, `raise_flag`, `raise_flag_stamp`, `search_self_*`, `lower_flag` |
| `thread_base`, `thread_cleanup` | `thread_base_self`, `thread_base_active`, `thread_cleanup_inactive`, `proc_remove_thread_data`, `orig_pthread_exit` |
| `register_local_block` | `register_local_block_high`, `register_local_block_low` |

Undefined or platform-dependent behaviour is a choice: the two unordered stores of
`thread_base` happen in either order; `pthread_kill` on a `td->self` that is still
zero faults or returns ESRCH; the read of `buf_addrs[-1]` with an empty list faults,
or yields a value without effect on the list. If another mapping lies there, the
search may even set the low bit of that word (`threadscan.c:288`); the fault stands
for the harm done elsewhere.

`low` and `high` are numbers: 0 is not set, k the bound stored by the k-th
registration. A second registration stores the new `high` beside the old `low`, and
a handler that interrupts it searches what lies between. The outcome of that search
is open: it marks any addresses, or it faults (the pages between are not mapped, or
`high` is the smaller and their difference wraps around). Neither block is sure to be
searched then (if the new block ends where the old one begins, the range is empty),
hence the condition on the application.

The sweep has a quirk that the model keeps: a marked entry that no unmarked entry
precedes is overwritten with zero. Blocks therefore have `nulls`, entries that are
zero, which come back in later rounds, can be marked by a zero word and end up in
`free(NULL)`.

### Queue and Fifo

One writer, one reader, one access per step; the n-th value pushed is n.
Linearization points: `++idx_head` for push, the caching of `idx_head` for
`pop_bulk`. `IsFifo` is the refinement under the mapping `F`.

### Search

Every access to `buf_addrs` is a step; the scan map is written before the first
signal and not changed. `cmp`, `min_ptr`, `max_ptr` and the indexes are locals of a
searcher. Lists start with up to two zero entries, as `WorkingList` can produce.

### WorkingList

One reclaimer at a time, successive rounds. The array is a function from 0, a
stored block a record of its words, so the overlay of header and addresses is
explicit. A step is one iteration of a loop: of `partition`, of either loop of
`insertion_sort`, of the sweep, of the shuffle. The recursion of `quicksort` is a stack
of calls, `calls`, each with its `min` and `max`; `partition` and `insertion_sort` work
on the first. `dst` is the place a loop writes to (`mid`, `j`, `write_position`); an
index that goes out of scope is set to zero. The names `ListInit`, `ListNext` and
`ListSpec` leave `Spec` to `Search`, so that `ListProofs` can extend both. What the
searches mark is left open: any of the addresses, and of the zeros only the first,
which is what `OnlyFound` allows.

### ThreadRegistry

The metadata of a thread, `td[t]`, is a page, and `next`, `mapped` and `ref_count` are
of pages: `mmap` may return any page that is not mapped, also one that a list still
leads to. This is what a failed creation brings about, which unmaps metadata and leaves
it on the thread list. When the next creation gets that page, its `next` is NULL at
first, which cuts the list, and `thread_list_add` then links it in a second time, which
makes the list circular (`td->next = td` if it was the first). `reused` is a variable
for the properties that records this; nothing else reads it. A page that is not mapped
for metadata faults when it is read; this also stands for reading whatever else it is
mapped for by then.

The lists are linked by `next`, as in the code, and `Reach` follows the links:
`Reachable` of Links is the least set of nodes that has the start and is closed under
the field, a definition that needs no recursion. A
list critical section without a loop of its own is one step; a walk takes the lock,
visits one entry per step, and unlocks; so does the search in `thread_list_remove`
(`thread_list_unlink`), which need not end on a damaged list. `CreateMayFail` lets `orig_pthread_create`
return an error.

### AddrStorage and AddrSet

A reclaimer goes round: with the cleanup lock it maps a working buffer, exchanges
the top of the stack with NULL, copies and unmaps block after block, and pops the
queues; after its release it sweeps, makes its buffer a block and pushes it, while
the next reclaimer does its first half. The lock itself is ThreadScan's. A block is
the address of its mapping, and a mapping may be made at any address that is not
mapped, so that an address may return between the read of `g_tsdata.storage` and the
CAS. The CAS then succeeds, rightly: what is compared is the present top, whatever
block it is. Under the mapping `S`, `stored` is what a walk from the top finds,
and `held` what a reclaimer has copied together with what it still has to copy.
The members of `Addrs` are entries of the lists, each an address that was collected; an
entry that a sweep overwrites with zero stays an entry, is stored, and counts against
the size of the buffer, as in the code (`threadscan.c:163`, `188`).

### Alloc

Nodes are named by the page and the place in it where they lie, and linked by `next`
and `prev`, which are also the links of the free list. The kernel places a mapping on
any free pages. Everything is done with `list_lock`, so a critical section without a
loop is one step; the two searches of the circular list make one step per iteration,
to show that they end. The links of a removed node are cleared after the unlock in
the code, in the same step here: nobody else can reach the node. `Pool` is the set of
the nodes of the pool blocks that are mapped, `Ring` those that a walk from
`alloc_list` meets.

### Startup

One action per constructor, then `main_replacement`: one line of `/proc/self/maps`
per step, the list, and the stack pointer arithmetic of `thread_base`. Integers
have 32 bits and wrap as the compiled code does; `OrShift` takes them bit by bit, with
recursive functions over the natural numbers. `NoMapline` says which lines the `fscanf`
of `read_mapline` cannot read: what follows a space in a name, and the end of a file
whose last line has no name.

## Runs

| Run | Instance | What it shows |
|---|---|---|
| `core` | 2 threads, 2 addresses, capacity 2, 2 insertions and so 2 rounds, fair | The safety properties, the inductive invariant `IInv`, and that rounds end and calls return. Both threads reclaim, and one sweeps while the other runs the next round. |
| `three` | 3 threads (created ones symmetric), 1 address inserted twice, 2 rounds, Main registers 2 blocks | Two helpers at once; a helper left over from the previous round meets the next one; a search interrupts the registration of the first block and of the second; pointers that live only in the block are found; an address is freed, reused and collected again. |
| `queue` | capacity 4, 10 pushes, buffers of 0..3 | The ring wraps twice; short buffers fall on every offset. |
| `search` | 2 searchers, all lists over 5 addresses with 0..2 zeros, pages of 2, threshold 2 | Both levels of the search loop, last pages full and partly full. |
| `sweep` | 5 addresses, buffer of 6, 3 rounds, threshold 1 | Quicksort recurses, and pivots fall on either end of a range; the storage limit is reached. |
| `registry` | 5 threads, 4 pages, limit 3, creation may fail; created threads and pages symmetric | Create, exit, join and walks in every order, also when the limit ends the process, when a creation fails, and when the page it left on the list is mapped again. |
| `storage` | 3 reclaimers, 4 block addresses, 5 addresses, room for 4; all symmetric | One reclaimer takes and copies while two sweep and push; blocks return at the same address under a CAS; two stored blocks do not fit together; a list does not fit with its header. |
| `alloc` | 2 threads, 4 pages, blocks of 1 and 2 pages, pools of 2 nodes, fair | Insertions at the front, in the middle and at the end of the list, adjacent blocks, release of the first, a second pool, exhaustion. |
| `startup` | 128 values of the variable and none, 12 memory maps, 5 places of the frame, 3 frame sizes | Every boundary of the 32-bit arithmetic; frames at, above and below a page boundary. |

The capacity 2 is the smallest with room for one address: one push fills the
queue, so every collection contends for the lock, which is the hard case. A larger
capacity lets more addresses gather before a round; `sweep` and `search` have the
longer lists, and the proofs have any capacity. The buffer of `core` and `three`
always suffices; `storage` and `queue` have buffers that do not, and the theorems of
ThreadScan hold for every `BufMax`.
`MaxAllocs` bounds the number of rounds, since a round starts with a collection: one
round leaves a helper and stored addresses behind, the next one meets them, and an
address freed by the first may be inserted again. `MaxStamp` (the guard is in
`try_acquire_cas`) is above what two rounds reach. `MaxBlocks` = 2 has a first
registration and one that replaces it. In `registry`, four pages and a limit of 3 are
enough for a list of three with a failed creation at its front or in its middle, the
page mapped again, and metadata staged at the same time. `Halted`, `Drained`, `Stop` and `AllDone` are the ends of a
bounded behaviour, so that TLC's deadlock check stays on everywhere. In `alloc`
four pages are enough for a pool and three blocks, or two pools and two blocks, so
that a node is inserted between two others and the last node of a pool is taken and
returned.

### Disagreements between the code and its comments

Three runs are expected to fail; each checks one property that a comment of the
code states.

| Run | Property | What happens |
|---|---|---|
| `lost` | `NothingLost` | The sweep overwrites a referenced address at the front of the list with zero; it is never freed (`threadscan.c:338`). |
| `empty` | `SearchesSomething` | A queue is emptied between `is_full` and the CAS; the round reads `buf_addrs[-1]` (`threadscan.c:273`). |
| `passarg` | `NoUseAfterFree` | The argument of a thread that is not active yet is not searched (`proc.c:188`). |

Others are visible in actions, or in what properties that hold have to except:

* `td->is_active` may become visible before `td->self` (`thread.c:79-80`, "Save info
  about this thread so that it can be signalled"): gcc 12 with -O2 emits the two
  stores in that order. `signal_all_except` then uses a zero `pthread_t`.
* A failed creation unmaps metadata that stays on the thread list
  (`wrappers.c:152`, "Just clean up the memory we allocated"), with a reference still
  counted, against `assert(td->ref_count == 0)` at `util.c:77`. A walk that meets it
  faults, or, when `mmap` has returned the page for another thread, finds a list that is
  cut off or circular: registered threads drop off it, walks and removals go round for
  ever with the lock held, and after the exit of that thread `head` leads to metadata
  that is staged and later unmapped. `ListIsExact` and `ListedAreMapped` hold until
  then, and say that it takes a failed creation. The creation also keeps its share of
  `g_thread_count` for good (`CountIsExact`).
* `threadscan_register_local_block` sets "low" last, so that there is "no chance of
  funky reads" (`threadscan.c:451-453`). This holds of a thread's first block; a later
  registration is searched with the bounds of two blocks, which `NoFunkyReads` excepts.
* The test of `wrappers.c:92` compares the count before the increment, so
  MAX_THREAD_COUNT + 1 threads can be registered ("Exceeded maximum thread count").
* `SortSorts` has to except zeros: nothing removes the duplicates that
  `threadscan.c:393` speaks of, and `assert_monotonicity` would reject the zeros that
  a sweep leaves.
* `CapacityUsable` holds of values up to 2^20 only: above, the product or the
  rounding overflows, and too much is warned of, and treated, as too little
  (`env.c:57`). "Default is ~16000 pointers" (`env.c:55`), but the default is 4096;
  "0 if val is NULL" (`env.c:37`), but it is the default.
* `MainIsReady` excepts a memory map in which a name before the stack's contains a
  space, for instance the path of the executable: `read_mapline` gives up and ends
  the process before main (`proc.c:106`).

### Fairness

`FairSpec` of ThreadScan has weak fairness of each thread's library code and of
each thread's handler: the kernel schedules every runnable thread, and delivers a
pending signal (a thread blocked in a mutex or spinning is interrupted too).
Nothing is assumed of the application, which may stop calling the library. The
mutex needs no strong fairness: walks are finite, and the liveness properties are
about calls that compete with a bounded number of walks (`MaxAllocs`). This also
limits what `core` shows: with unboundedly many rounds of others, a caller whose
queue is never emptied could lose every race for the lock, and the run does not
exclude that; the code relies on a round emptying every queue. `FairSpec` of Search
assumes that each searcher runs on, and that of Alloc that a thread in the middle of
a call does; nothing is assumed about who gets the mutex, or that anybody asks for
memory.

## Proofs

Every theorem holds for all values of the constants that satisfy the named
assumptions; each is proved from an inductive invariant that is a conjunction of
named parts, which TLC checked on the run's instance first.

### The protocol

`ThreadScanProofs` proves, with TLAPS, for any finite set of threads, any finite
set of addresses, any capacity of at least 2, any buffer size and any number of
rounds:

* `CoreInvariant`: `Spec => []CoreInv`, and from it `TypeCorrect`,
  `MutualExclusion`, `NoDoubleFree`, `SignalCount`, `SearchInRound`,
  `HelpersFinish`, `SignalsReachLiveThreads`, `PushHasRoom`, `BlockBoundsSet`,
  and the action property `ListNotReplaced`;
* `Invariance` and `Safety`: `~PassArgs => (Spec => []NoUseAfterFree)`. The
  hypothesis is needed: the run `passarg` violates the property without it.

The argument. Mutual exclusion rests on the CAS: it succeeds only on an inactive
timestamp (`LockInv`). Signals are outstanding only between the first
`pthread_kill` and the end of the wait, because the count is the sum of what was
answered and what is outstanding (`SignalInv`, `CountInv`). A handler of round n
that has not lowered its flag carries a timestamp below n + 1 (`StampInv`), so
`wait_for_timestamp` waits for it, and behind the walk every handler is idle and
stays so (`HelperInv`). The bounds of a local block differ only between the two stores
of a registration, by one, and its thread has nothing in a block then (`LifeInv`). An unmarked address of the list that some thread holds
belongs to a thread that is still to be searched (`ScanInv`); when the wait is
over nobody is, so every unmarked address is held by nobody, and since it is
retired nobody can load it again: the victims are unreferenced. None of these
parts is inductive alone: `NoUseAfterFree` needs `ScanInv`, which needs the signal
accounting to know that no search is still to come, which needs the lock and the
timestamps; `ThreadScanInv` states them as named conjuncts, and `core` checks their
conjunction with TLC.

Assumptions: `ThreadsAssumption`, `PtrsAssumption`, `BoundsAssumption`. They state
that threads and addresses are finite, and the capacity is at least 2 (`env_init`
makes it at least 1024).

### The queue

`QueueProofs`, for any capacity and any lengths of the reader's buffers:
`TypeCorrect`, `HeadStaysBelowTail`, `PopBulkFitsBuffer`, the action property
`CopiesAreStable`, and the refinement `QueueIsFifo`. The invariant says what the
writer and the reader have in their locals relative to the indexes (`WriterInv`,
`ReaderInv`) and that the slots from `idx_tail` to `idx_head` hold consecutive numbers
(`ContentInv`). The lemmas are about `INDEXIFY`: two counters less than a capacity
apart never name the same slot, so a store of the writer meets nothing that the
reader has still to copy. For the refinement, every step is matched with a step of
Fifo or a stutter; the queue's content is the segment of numbers between two counters,
and the lemmas about `Numbers` say how segments split and join.

### The search and the working list

`ListProofs` has both. Of `Search`, for any number of searchers, ranges, page sizes and
thresholds from 2, and any list that is not empty and sorted but for leading zeros
(`SearchAssumption`; the run `empty` shows what an empty one does): `TypeCorrect`,
`SearchStaysInMapping`, `OnlyFoundAreMarked`, `NoReferenceMissed`. Other searchers set
low bits while this one compares, so the usual invariant of a binary search (the entry
is within the bounds) is false; `RangeInv` has instead that it is within the bounds *or
already marked*, and `LocInv` that a search which ends at another entry was led astray
by a mark on the right one.

Of `WorkingList`, for any finite set of addresses that are multiples of four, any size
of the buffer, any `SORT_THRESHOLD` and any number of rounds: `WorkingListInvariant`,
and from it `SortIsCorrect`, `SweepIsAsModelled`, `StoredIsRead` and
`SortedIsSearchable`. The last says that every list a round hands to `do_search` is one
that the theorems about `Search` assume. The invariant `WorkInv`:

* The sort: two entries are in order, or both lie in the range of a call that has not
  returned (`Ordered`, `Pending`); the ranges follow each other without overlap
  (`Ranged`). `partition` keeps its two parts around the pivot (`Parted`), and
  `insertion_sort` everything up to `idx` in order but for the entry on its way down
  (`Inserted`). Its inner loop is bounded by 0 and not by `min`; it stops
  there all the same, because an entry below the range is no greater than those in it,
  which is `Ordered` again. That
  nothing is lost is a bijection between the places before and now (`Rearranged`), which
  every swap preserves and which makes the bags equal (`RearrangedBag`).
* The sweep: `write_position` is the number of marked entries passed, and is behind
  the index as soon as one was unmarked and only then (`Counted`): until then a marked
  entry is overwritten by its own zero. `KeptUpTo` and `FreedUpTo` say of the entries
  passed which are kept and which were freed; `Abstract` of the list before the
  sweep turns this into what `Buffers` says.
* The storage: one address or many, the two words saved behind the list and those that
  stay are a rearrangement of the list. It matters that the two assignments come one
  after the other: with one address the second copies what the first has just written.

Two theorems are about the loops ending. `SearchRunsDown`: each step of a search lowers
a triple of natural numbers in lexicographic order (the words left, the line it is at,
the width of the range), and the steps of the other searchers leave it alone, whatever
they mark. `RoundRunsDown`: each step of a round that changes anything lowers such a
tuple; for the recursion of `quicksort` it is the number of entries in the pending
ranges, of which a partition takes out its pivot, and then the number of calls. That
the steps are taken is fairness, and `SearchEnds` itself is TLC's.

### The registry

`RegistryProofs`, for any finite set of threads, any set of pages and any limit:
`TypeCorrect`, `ThreadListIsExact`, `MetadataIsMapped`, `JoinAlwaysFindsStaged`,
`StacksOutliveThreads`, `ThreadCountIsExact`. Whether a step on one list disturbs the
other depends on where the metadata of the thread is, so the properties are not
inductive, and the invariant says:

* who has whom in hand: the lock is held by the one thread that walks (`LockInv`), and
  creators and joiners are unique (`CreateInv`, `JoinInv`, `JoinedInv`);
* whose a page is: a thread has metadata from its creation until its joiner frees it
  (`HeldInv`); it is mapped, and no two threads have the same (`OwnInv`); it has its
  reference until the thread exits (`RefInv`); and stacks likewise (`StackInv`);
* which metadata is staged: that of threads which have dropped their reference and were
  not joined, or whose joiner has not come to it; this list passes each page once
  (`StagedInv`);
* what is on the thread list, as long as no page was mapped while listed (`ListInv`), and
  that this takes a failed creation (`ReuseInv`).

Everything but `ListInv` is kept whatever the thread list looks like. A removal on a
damaged list may run into the staged one, but it changes no link there, because the
link that it changes leads to the metadata of the thread that is being removed, which
is not staged yet. `LinksProofs` proves what a push at the front and an unlinking do to
the set of nodes of such a list; that this set is the *least* closed one takes the
place of induction along it. `RegistryAssumption` has the set of threads finite, for
the cardinalities of `CountIsExact`.

### The storage

`StorageProofs`, for any reclaimers and any finite sets of blocks and addresses:
`TypeCorrect`, `BlocksStayInOnePlace`, `FatalMeansFull`, and the refinement
`StackIsAddrSet`. `PlaceInv` is `BlocksInOnePlace` block by block, `HandsInv` says what
a reclaimer has in hand at each place, and `ContentInv` that an entry is in
one block, except for a block that was copied and is still to be unmapped. That
exception is why the copy is a stutter of AddrSet, and why two blocks that are merged
never hold more than is tracked. The CAS needs no fact about the history of the top:
the block that is pushed links to the present one.

### The allocator

`AllocProofs`, for any threads, any number of pages, any sizes and any number of nodes
in a pool block: `TypeCorrect`, `ListStaysSorted`, `MemoryIsTracked`,
`NodesStayInOnePlace`. The three properties need each other. That a new node goes where
the order wants it rests on `SortInv`: a search for its place has passed only blocks
that start below its end, and blocks do not overlap (`PagesInv`), so they end before it.
That `metadata_remove` unlinks the caller's node and not that of a pool block rests on
`HeldInv` and again on blocks that do not overlap; and that the ring is never left empty
by it, on `NodesInOnePlace`: the block of the node is on the ring too. `BaseInv` says
that the first node of a pool block describes the block, so that a page the kernel
offers is no pool block. `HandInv` has a thread that has mapped a pool block find the
free list empty until it has filled it, because it keeps `list_lock`.

The lemmas of `LinksProofs` about rings say what `Link` and the unlinking do; the one
about a list laid out in an array (`ReachesDown`) what filling a pool block does. It
needs induction over the places of the array, in the form that a set of numbers which
is not empty has a least one (`LeastNumber`).

### The start

`StartupProofs`: `MainStartsReady`, for any files of mappings whose lines begin at
pages and of which one holds the stack (`StartupAssumption`: the frame of
`thread_base` is on the same mapping as the one of `main_replacement`, below it). The
search for the line cannot run off the file, because the stack's is still to come
(`WalkInv`); so the only failure is a name with a space.

`CapacityIsUsable`, for every value of the environment variable: what `env_init` leaves
is a power of two within the limits, and the least that suffices unless the product or
the rounding overflows. The lemmas are about bits: `ShiftFacts` and `OrBitsFacts` say
what the recursive functions compute, `OrShiftBits` what a bit of `x | x >> k` is, and
`SmearBits` that the five of them set every bit below the highest one, which for a
positive number gives a power of two less one (`SmearPositive`) and for a negative one
-1 (`SmearNegative`). `BuffersAlwaysFit` follows: a power of two within the limits is a
multiple of `MIN_PTRS_PER_THREAD`, and for those the sizes are right.

The provers have no induction over data; where it is needed, it has the form that a set
of numbers which is not empty has a least one (`LeastNumber`), or that a set which has 0
and with each number the next has them all (`FromZero`). With it `RecursiveExists` shows
that the recursive functions are what their equations say.

### Only model-checked

Liveness under fairness: `CollectReturns`, `RoundEnds`, `SearchEnds`, `LockIsReleased`.
For the searches and the loops of a round the theorems above have the measure that
decreases. Every invariant, every action property and both refinements that the passing
runs check are proved.

## Not modelled

* Messages; what `atoi`, `dlsym`, `signal` and `mprotect` do; a `munmap`, an `fopen`
  or a `pthread_attr_` call that fails.
* Which registers the kernel saves in a signal frame: the model takes a search as
  covering all the pointers of the thread.
* `threadscan_util_thread_list_find`, `threadscan_queue_pop` and
  `threadscan_queue_push_bulk`: the first has no caller, the others no body.
* A SIGUSR1 sent by the application itself, which the handler would count.
* Threads that are never joined (their metadata stays staged), user-supplied
  stacks, a `pthread_join` that returns an error, and reuse of a `pthread_t`.
* Store buffers and reordering by the compiler, but for the two stores of
  `thread_base`: memory is sequentially consistent. The code runs on x86-64 and the
  stores that matter are followed by a locked instruction, a fence or a system
  call, or may be late without harm (`lower_flag`, `cleanup_release`, `idx_tail`).
* Builds with assertions: the Makefile defines NDEBUG. What an assertion says is
  checked as a property instead.
* The wrap-around of 63- and 64-bit counters.
* Names in `/proc/self/maps` longer than the 256 bytes of `mapline_t.location`, which
  `read_mapline` writes past (the FIXME at `proc.c:106`).
* Code that runs after `threadscan_thread_cleanup`: cleanup handlers and destructors of
  thread-specific data run inside `orig_pthread_exit`, when the thread is no longer
  active. The model drops all references of a thread when `is_active` is cleared, so
  nothing is said of a node that such code still uses.
* An application whose pointers are only in a block while it registers another.

## Open

With at most `MAX_THREAD_COUNT` threads and full queues, how much can be stored before
`add_to_buf_addrs` or `store_remaining_addrs` gives up: `FatalMeansFull` says that it
happens only when that much is tracked, not when the application can get there.
