--------------------------- MODULE ThreadRegistry ---------------------------
(***************************************************************************)
(* The metadata of threads, from pthread_create to pthread_join: the count *)
(* of threads, the mapping of a thread_data_t and of its stack, the thread *)
(* list, and the list of metadata staged to be freed (wrappers.c, util.c,  *)
(* threadscan_thread_cleanup in thread.c).  Both lists are linked through  *)
(* the one field td->next.  A walk over the thread list, as the reclaimer  *)
(* does three times in a round, reads the metadata under the list's lock.  *)
(*                                                                         *)
(* The metadata of a thread is a page, and a page that was unmapped may be *)
(* the next one that is mapped, also when a list still leads to it.  What  *)
(* a critical section without a loop does is one step; so is the search of *)
(* the staged list, which only runs with g_staged_lock held.               *)
(***************************************************************************)
EXTENDS Integers, FiniteSets, Links

CONSTANTS
    Threads,            \* every thread the process ever has
    Pages,              \* the pages that may be mapped for a thread_data_t
    Main,               \* the thread of main_replacement
    NULL,
    MAX_THREAD_COUNT,
    CreateMayFail       \* whether orig_pthread_create may return an error

ASSUME RegistryAssumption ==
    /\ IsFiniteSet(Threads) /\ Main \in Threads /\ NULL \notin Threads \cup Pages
    /\ MAX_THREAD_COUNT \in Nat \ {0} /\ CreateMayFail \in BOOLEAN

VARIABLES
    g_thread_count,
    td,                    \* the page of a thread's metadata, until it is freed
    head, next,            \* thread_list.head; td->next of a page
    staged,                \* g_td_staged_to_free
    mapped,                \* the page (and the queue with it) is mapped
    ref_count,             \* td->ref_count of a page
    stack,                 \* the stack that pthread_create mapped is mapped
    lock, cursor,          \* who walks the thread list, and where it is
    pc, peer,              \* where a thread is; the thread it creates or joins
    joined,                \* pthread_join has been called on the thread
    status,                \* "ok", "segv" or "fatal" (threadscan_fatal)
    reused                 \* for the properties: a page was mapped while listed

listVars == <<head, next, staged>>
memVars == <<td, mapped, ref_count, stack, reused>>
walkVars == <<lock, cursor>>
vars == <<g_thread_count, listVars, memVars, walkVars, pc, peer, joined, status>>

\* main_replacement has put the metadata of Main on the list.
Init ==
    /\ g_thread_count = 1
    /\ head \in Pages /\ next = [x \in Pages |-> NULL] /\ staged = NULL
    /\ td = [t \in Threads |-> IF t = Main THEN head ELSE NULL]
    /\ mapped = [x \in Pages |-> x = head]
    /\ ref_count = [x \in Pages |-> IF x = head THEN 1 ELSE 0]
    /\ stack = [t \in Threads |-> FALSE]
    /\ lock = NULL /\ cursor = NULL
    /\ pc = [t \in Threads |-> IF t = Main THEN "user" ELSE "unborn"]
    /\ peer = [t \in Threads |-> NULL]
    /\ joined = [t \in Threads |-> FALSE]
    /\ status = "ok" /\ reused = FALSE

Runs(t, at) == status = "ok" /\ pc[t] = at
Goto(t, at) == pc' = [pc EXCEPT ![t] = at]

\* The pages that a walk from x meets through the next fields.
Reach(x) == Reachable(Pages, next, x)

\* Reading any other page faults, or reads what it is mapped for by then.
Mapped == {x \in Pages : mapped[x]}

\* threadscan_util_thread_data_new: any free page, filled with zeros.
util_thread_data_new(x) ==
    /\ ~mapped[x]
    /\ mapped' = [mapped EXCEPT ![x] = TRUE]
    /\ next' = [next EXCEPT ![x] = NULL]
    /\ ref_count' = [ref_count EXCEPT ![x] = 1]
    /\ reused' = (reused \/ x \in Reach(head))

\* threadscan_util_thread_data_free: the queue, then the metadata.
util_thread_data_free(x) == mapped' = [mapped EXCEPT ![x] = FALSE]

-----------------------------------------------------------------------------
(* pthread_create.                                                          *)

\* if (MAX_THREAD_COUNT < __sync_fetch_and_add(&g_thread_count, 1)).
create_count(c) ==
    /\ Runs(c, "user") /\ \E t \in Threads : pc[t] = "unborn"
    /\ g_thread_count' = g_thread_count + 1
    /\ \/ /\ MAX_THREAD_COUNT < g_thread_count
          /\ status' = "fatal" /\ UNCHANGED pc
       \/ /\ MAX_THREAD_COUNT >= g_thread_count
          /\ Goto(c, "new") /\ UNCHANGED status
    /\ UNCHANGED <<listVars, memVars, walkVars, peer, joined>>

\* The metadata, and a stack of our own.
thread_data_new(c, t) ==
    /\ Runs(c, "new") /\ pc[t] = "unborn"
    /\ \E x \in Pages : util_thread_data_new(x) /\ td' = [td EXCEPT ![t] = x]
    /\ stack' = [stack EXCEPT ![t] = TRUE]
    /\ peer' = [peer EXCEPT ![c] = t]
    /\ pc' = [pc EXCEPT ![c] = "add", ![t] = "made"]
    /\ UNCHANGED <<g_thread_count, head, staged, walkVars, joined, status>>

\* threadscan_util_thread_list_add.
thread_list_add(c) ==
    /\ Runs(c, "add") /\ lock = NULL
    /\ next' = [next EXCEPT ![td[peer[c]]] = head]
    /\ head' = td[peer[c]]
    /\ Goto(c, "create")
    /\ UNCHANGED <<g_thread_count, staged, memVars, walkVars, peer, joined, status>>

\* The new thread runs threadscan_thread_base, and may be joined.
orig_pthread_create(c) ==
    /\ Runs(c, "create")
    /\ pc' = [pc EXCEPT ![c] = "user", ![peer[c]] = "user"]
    /\ peer' = [peer EXCEPT ![c] = NULL]
    /\ UNCHANGED <<g_thread_count, listVars, memVars, walkVars, joined, status>>

(***************************************************************************)
(* "Just clean up the memory we allocated for the thread": the metadata is *)
(* freed with its reference still counted, and stays on the list.  td is   *)
(* kept, to tell what is there.                                            *)
(***************************************************************************)
create_failed(c) ==
    /\ Runs(c, "create") /\ CreateMayFail
    /\ stack' = [stack EXCEPT ![peer[c]] = FALSE]
    /\ util_thread_data_free(td[peer[c]])
    /\ pc' = [pc EXCEPT ![c] = "user", ![peer[c]] = "failed"]
    /\ peer' = [peer EXCEPT ![c] = NULL]
    /\ UNCHANGED <<g_thread_count, listVars, td, ref_count, reused, walkVars, joined,
                   status>>

-----------------------------------------------------------------------------
(* pthread_exit.  A thread also gets here when its user routine returns;    *)
(* Main only by calling it.                                                 *)

\* threadscan_thread_cleanup clears is_active.
thread_cleanup(t) ==
    /\ Runs(t, "user")
    /\ Goto(t, "remove")
    /\ UNCHANGED <<g_thread_count, listVars, memVars, walkVars, peer, joined,
                   status>>

\* Mutant: the list is changed under a walk.
MayChange_anyway == TRUE

\* The lock of the thread list is free.
MayChange == lock = NULL

(***************************************************************************)
(* threadscan_util_thread_list_remove: the first of the list is unlinked   *)
(* at once, and for any other the walk begins.  An empty list faults.      *)
(***************************************************************************)
thread_list_remove(t) ==
    /\ Runs(t, "remove") /\ MayChange
    /\ IF head = td[t]
       THEN head' = next[head] /\ Goto(t, "decr") /\ UNCHANGED <<walkVars, status>>
       ELSE IF head = NULL THEN status' = "segv" /\ UNCHANGED <<head, walkVars, pc>>
       ELSE /\ lock' = t /\ cursor' = head
            /\ Goto(t, "unlink") /\ UNCHANGED <<head, status>>
    /\ UNCHANGED <<g_thread_count, next, staged, memVars, peer, joined>>

\* Mutant: the predecessor keeps its link.
Unlink_not(x) == UNCHANGED next

\* tmp->next = td->next.
Unlink(x) == next' = [next EXCEPT ![cursor] = next[x]]

(***************************************************************************)
(* while (tmp->next != td), one page at a time; td->next keeps pointing    *)
(* into the list.  A walk that meets an unmapped page, or runs off the     *)
(* list, faults (the assertions are compiled out); a circular one does not *)
(* end.                                                                    *)
(***************************************************************************)
thread_list_unlink(t) ==
    /\ Runs(t, "unlink")
    /\ \/ /\ cursor \notin Mapped
          /\ status' = "segv" /\ UNCHANGED <<next, walkVars, pc>>
       \/ /\ cursor \in Mapped /\ next[cursor] # td[t]
          /\ cursor' = next[cursor] /\ UNCHANGED <<next, lock, pc, status>>
       \/ /\ cursor \in Mapped /\ next[cursor] = td[t]
          /\ Unlink(td[t])
          /\ lock' = NULL /\ cursor' = NULL
          /\ Goto(t, "decr") /\ UNCHANGED status
    /\ UNCHANGED <<g_thread_count, head, staged, memVars, peer, joined>>

\* Mutant: the last reference is not recognised.
LastRef_late(t) == ref_count[td[t]] = 0

LastRef(t) == ref_count[td[t]] - 1 = 0

\* threadscan_util_thread_data_decr_ref: the last reference stages td.
thread_data_decr_ref(t) ==
    /\ Runs(t, "decr")
    /\ ref_count' = [ref_count EXCEPT ![td[t]] = @ - 1]
    /\ IF LastRef(t)
       THEN next' = [next EXCEPT ![td[t]] = staged] /\ staged' = td[t]
       ELSE UNCHANGED <<next, staged>>
    /\ Goto(t, "uncount")
    /\ UNCHANGED <<g_thread_count, head, td, mapped, stack, reused, walkVars, peer,
                   joined, status>>

\* Mutant: the count is decremented on another path already.
Uncounted_twice == g_thread_count - 2

Uncounted == g_thread_count - 1

exit_uncount(t) ==
    /\ Runs(t, "uncount")
    /\ g_thread_count' = Uncounted
    /\ Goto(t, "exit")
    /\ UNCHANGED <<listVars, memVars, walkVars, peer, joined, status>>

orig_pthread_exit(t) ==
    /\ Runs(t, "exit")
    /\ Goto(t, "gone")
    /\ UNCHANGED <<g_thread_count, listVars, memVars, walkVars, peer, joined,
                   status>>

-----------------------------------------------------------------------------
(* pthread_join.                                                            *)

\* A thread that was created is joined, by one other thread.
pthread_join(j, t) ==
    /\ Runs(j, "user") /\ j # t /\ ~joined[t]
    /\ pc[t] \notin {"unborn", "made", "failed"}
    /\ joined' = [joined EXCEPT ![t] = TRUE]
    /\ peer' = [peer EXCEPT ![j] = t]
    /\ Goto(j, "join")
    /\ UNCHANGED <<g_thread_count, listVars, memVars, walkVars, status>>

\* Mutant: the metadata is cleaned up before the thread has ended.
Ended_nearly(t) == pc[t] \in {"uncount", "exit", "gone"}

Ended(t) == pc[t] = "gone"

\* orig_pthread_join waits for the thread to end.
orig_pthread_join(j) ==
    /\ Runs(j, "join") /\ Ended(peer[j])
    /\ Goto(j, "cleanup")
    /\ UNCHANGED <<g_thread_count, listVars, memVars, walkVars, peer, joined,
                   status>>

\* The links when x has been taken off the list that starts at staged.
Unstaged(x) ==
    [p \in Pages |-> IF p \in Reach(staged) /\ next[p] = x THEN next[x] ELSE next[p]]

(***************************************************************************)
(* threadscan_util_thread_data_cleanup finds the metadata of the joined    *)
(* thread on the staged list and unlinks it; a search that runs off the    *)
(* list dereferences NULL (the assertions are compiled out).               *)
(***************************************************************************)
thread_data_cleanup(j) ==
    LET x == td[peer[j]] IN
    /\ Runs(j, "cleanup")
    /\ IF x \notin Reach(staged)
       THEN status' = "segv" /\ UNCHANGED <<next, staged, pc>>
       ELSE /\ staged' = IF staged = x THEN next[x] ELSE staged
            /\ next' = Unstaged(x)
            /\ IF ref_count[x] > 0 THEN status' = "fatal" /\ UNCHANGED pc
               ELSE Goto(j, "free") /\ UNCHANGED status
    /\ UNCHANGED <<g_thread_count, head, memVars, walkVars, peer, joined>>

\* The stack is unmapped if it is ours, then the queue and the metadata.
thread_data_free(j) ==
    /\ Runs(j, "free")
    /\ stack' = [stack EXCEPT ![peer[j]] = FALSE]
    /\ util_thread_data_free(td[peer[j]])
    /\ td' = [td EXCEPT ![peer[j]] = NULL]
    /\ peer' = [peer EXCEPT ![j] = NULL]
    /\ Goto(j, "user")
    /\ UNCHANGED <<g_thread_count, listVars, ref_count, reused, walkVars, joined, status>>

-----------------------------------------------------------------------------
(* FOREACH_IN_THREAD_LIST ... ENDFOREACH_IN_THREAD_LIST.                    *)

walk_lock(w) ==
    /\ Runs(w, "user") /\ lock = NULL
    /\ lock' = w /\ cursor' = head
    /\ Goto(w, "walk")
    /\ UNCHANGED <<g_thread_count, listVars, memVars, peer, joined, status>>

\* The body reads td, and the loop its next field; an unmapped page faults.
walk_next(w) ==
    /\ Runs(w, "walk") /\ cursor # NULL
    /\ IF cursor \in Mapped THEN cursor' = next[cursor] /\ UNCHANGED status
       ELSE status' = "segv" /\ UNCHANGED cursor
    /\ UNCHANGED <<g_thread_count, listVars, memVars, lock, pc, peer, joined>>

walk_unlock(w) ==
    /\ Runs(w, "walk") /\ cursor = NULL
    /\ lock' = NULL
    /\ Goto(w, "user")
    /\ UNCHANGED <<g_thread_count, listVars, memVars, cursor, peer, joined, status>>

-----------------------------------------------------------------------------
Create(c) ==
    \/ create_count(c) \/ (\E t \in Threads : thread_data_new(c, t))
    \/ thread_list_add(c) \/ orig_pthread_create(c) \/ create_failed(c)

Exit(t) ==
    \/ thread_cleanup(t) \/ thread_list_remove(t) \/ thread_list_unlink(t)
    \/ thread_data_decr_ref(t) \/ exit_uncount(t) \/ orig_pthread_exit(t)

Join(j) ==
    \/ (\E t \in Threads : pthread_join(j, t))
    \/ orig_pthread_join(j) \/ thread_data_cleanup(j) \/ thread_data_free(j)

Walk(w) == walk_lock(w) \/ walk_next(w) \/ walk_unlock(w)

(***************************************************************************)
(* The process has died or no thread runs: all have ended, or the rest     *)
(* wait for each other to be joined, or (with the bounds on Threads and    *)
(* Pages) a creation that was counted has no thread or page left.          *)
(***************************************************************************)
Halted ==
    /\ \/ status # "ok"
       \/ \A t \in Threads : \/ pc[t] \in {"unborn", "made", "failed", "gone"}
                             \/ pc[t] = "join" /\ pc[peer[t]] # "gone"
                             \/ /\ pc[t] = "new"
                                /\ \/ \A u \in Threads : pc[u] # "unborn"
                                   \/ Mapped = Pages
    /\ UNCHANGED vars

Next == (\E t \in Threads : Create(t) \/ Exit(t) \/ Join(t) \/ Walk(t)) \/ Halted

Spec == Init /\ [][Next]_vars

-----------------------------------------------------------------------------
(* Properties.                                                              *)

PC == {"unborn", "made", "failed", "user", "new", "add", "create", "remove", "unlink",
       "decr", "uncount", "exit", "gone", "join", "cleanup", "free", "walk"}
TypeOK ==
    /\ g_thread_count \in Nat
    /\ td \in [Threads -> Pages \cup {NULL}]
    /\ head \in Pages \cup {NULL} /\ next \in [Pages -> Pages \cup {NULL}]
    /\ staged \in Pages \cup {NULL} /\ mapped \in [Pages -> BOOLEAN]
    /\ stack \in [Threads -> BOOLEAN] /\ ref_count \in [Pages -> {0, 1}]
    /\ lock \in Threads \cup {NULL} /\ cursor \in Pages \cup {NULL}
    /\ pc \in [Threads -> PC] /\ peer \in [Threads -> Threads \cup {NULL}]
    /\ joined \in [Threads -> BOOLEAN] /\ status \in {"ok", "segv", "fatal"}
    /\ reused \in BOOLEAN

\* Threads between thread_list_add and the end of thread_list_remove.
Registered ==
    {t \in Threads : \/ pc[t] \notin {"unborn", "made", "failed", "decr", "uncount",
                                      "exit", "gone"}
                     \/ \E c \in Threads : pc[c] = "create" /\ peer[c] = t}

\* Threads whose creation failed, with the metadata unmapped already.
Failed == {t \in Threads : pc[t] = "failed"}

Metadata(S) == {td[t] : t \in S}

(***************************************************************************)
(* The list holds the metadata of the registered threads and what failed   *)
(* creations left there, and nothing else, although the staged list is     *)
(* linked through the same field: a walk misses no thread and strays       *)
(* nowhere else.  The one exception: a page that a failed creation left    *)
(* there has been mapped again, which cuts the list and makes it circular. *)
(***************************************************************************)
ListIsExact ==
    /\ reused => Failed # {}
    /\ ~reused => /\ Reach(head) = Metadata(Registered \cup Failed)
                  /\ Reach(head) \cap Reach(staged) = {}

(***************************************************************************)
(* Metadata of a thread that was created is mapped while it can be found:  *)
(* on the staged list always, and, unless a page was mapped while listed,  *)
(* on the thread list and where a walk is.                                 *)
(***************************************************************************)
ListedAreMapped ==
    /\ \A x \in Reach(staged) : mapped[x]
    /\ ~reused => /\ \A x \in Reach(head) \ Metadata(Failed) : mapped[x]
                  /\ cursor # NULL => cursor \in Reach(head)

(***************************************************************************)
(* pthread_join finds what pthread_exit staged, and is the only one to     *)
(* free it: no NULL is dereferenced and no reference is left, even where   *)
(* a damaged thread list runs into the staged one.                         *)
(***************************************************************************)
JoinFindsStaged ==
    \A j \in Threads :
        /\ pc[j] = "cleanup" => /\ td[peer[j]] \in Reach(staged)
                                /\ ref_count[td[peer[j]]] = 0
        /\ pc[j] = "free" => mapped[td[peer[j]]] /\ td[peer[j]] \notin Reach(staged)

(***************************************************************************)
(* A created thread has its stack, and metadata that it shares with no     *)
(* other, until it has ended, whichever pages were mapped again.           *)
(***************************************************************************)
StackOutlivesThread ==
    \A t \in Threads \ {Main} :
        pc[t] \notin {"unborn", "failed", "gone"} =>
            /\ stack[t] /\ mapped[td[t]]
            /\ \A u \in Threads \ (Failed \cup {t}) : td[u] # td[t]

(***************************************************************************)
(* g_thread_count counts the threads on the list, those about to be, those *)
(* that have left it but not yet given their count back, and every failed  *)
(* creation for good.  So the limit on it limits the queues that a round   *)
(* may have to gather.                                                     *)
(***************************************************************************)
CountIsExact ==
    status # "fatal" =>
        g_thread_count =
            Cardinality(Registered)
            + Cardinality({t \in Threads : pc[t] \in {"new", "add", "decr", "uncount"}})
            + Cardinality(Failed)

=============================================================================
