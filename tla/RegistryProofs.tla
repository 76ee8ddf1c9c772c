--------------------------- MODULE RegistryProofs ---------------------------
(***************************************************************************)
(* Proofs about the thread registry, for any number of threads and pages:  *)
(* the two lists that share the field td->next hold the metadata they      *)
(* should and no other, metadata is mapped while it can be found, and the  *)
(* count of threads is exact.  What is said of the thread list holds until *)
(* a page that a failed creation left on it is mapped again; the rest,     *)
(* which concerns the staged list and who owns a page, holds always.       *)
(***************************************************************************)
EXTENDS ThreadRegistry, LinksProofs, FiniteSetTheorems, TLAPS

-----------------------------------------------------------------------------
(* The inductive invariant.                                                 *)

\* Who walks the list holds the lock, and a walk that has ended has no cursor.
LockInv ==
    /\ \A w \in Threads : pc[w] \in {"walk", "unlink"} <=> lock = w
    /\ lock = NULL => cursor = NULL

\* A thread that is being made has one creator.
CreateInv ==
    \A c \in Threads : pc[c] \in {"add", "create"} =>
        /\ peer[c] \in Threads /\ pc[peer[c]] = "made"
        /\ \A d \in Threads : pc[d] \in {"add", "create"} /\ peer[d] = peer[c] => d = c

Joins(j) == pc[j] \in {"join", "cleanup", "free"}

\* A thread has one joiner, which goes on once the thread has ended.
JoinInv ==
    \A j \in Threads : Joins(j) =>
        /\ peer[j] \in Threads /\ joined[peer[j]]
        /\ pc[peer[j]] \notin {"unborn", "made", "failed"}
        /\ pc[j] # "join" => pc[peer[j]] = "gone"
        /\ \A k \in Threads : Joins(k) /\ peer[k] = peer[j] => k = j

\* Until a joined thread has ended, its joiner waits.
JoinedInv ==
    \A t \in Threads : joined[t] /\ pc[t] # "gone" =>
        \E j \in Threads : pc[j] = "join" /\ peer[j] = t

\* Threads whose metadata has not been freed.
Held == {t \in Threads : td[t] # NULL /\ pc[t] # "failed"}

\* A thread has metadata from its creation until its joiner frees it.
HeldInv ==
    /\ \A t \in Threads : pc[t] = "unborn" => td[t] = NULL
    /\ \A t \in Threads : td[t] = NULL => pc[t] = "unborn" \/ (pc[t] = "gone" /\ joined[t])
    /\ \A j \in Threads : Joins(j) => td[peer[j]] # NULL

\* Metadata that is not freed is mapped, and no two threads share it.
OwnInv ==
    /\ \A t \in Held : mapped[td[t]]
    /\ \A t, u \in Held : td[t] = td[u] => t = u

\* The only reference is dropped by the thread itself when it exits.
RefInv ==
    \A t \in Held :
        ref_count[td[t]] = IF pc[t] \in {"uncount", "exit", "gone"} THEN 0 ELSE 1

\* Threads that have staged their metadata, until the joiner takes it off.
Staged == {t \in Threads :
              /\ pc[t] \in {"uncount", "exit", "gone"}
              /\ \/ ~joined[t]
                 \/ \E j \in Threads : pc[j] \in {"join", "cleanup"} /\ peer[j] = t}

StagedInv == Reach(staged) = Metadata(Staged) /\ IsList(Pages, next, staged)

(***************************************************************************)
(* The thread list, as long as none of its pages was mapped again: what a  *)
(* failed creation left there stays there, unmapped, and so is never the   *)
(* metadata of another thread.                                             *)
(***************************************************************************)
ListInv ==
    ~reused =>
        /\ Reach(head) = Metadata(Registered \cup Failed) /\ IsList(Pages, next, head)
        /\ \A t \in Failed : ~mapped[td[t]]
        /\ cursor # NULL => cursor \in Reach(head)

ReuseInv == reused => Failed # {}

StackInv ==
    \A t \in Threads \ {Main} : pc[t] \notin {"unborn", "failed", "gone"} => stack[t]

IInv ==
    /\ TypeOK /\ LockInv /\ CreateInv /\ JoinInv /\ JoinedInv /\ HeldInv /\ OwnInv /\ RefInv
    /\ StagedInv /\ ListInv /\ ReuseInv /\ StackInv /\ CountIsExact

\* Threads that are counted and not on the list, or counted for another.
Pending == {t \in Threads : pc[t] \in {"new", "add", "decr", "uncount"}}

-----------------------------------------------------------------------------
(* Facts about a state.                                                     *)

\* Whoever is registered or staged holds metadata; nobody is both.
LEMMA Holders ==
  ASSUME IInv
  PROVE  /\ Registered \subseteq Held /\ Staged \subseteq Held
         /\ Registered \cap Staged = {} /\ Registered \cap Failed = {}
         /\ \A t \in Held : td[t] \in Pages
         /\ Registered \subseteq Threads /\ Failed \subseteq Threads
         /\ Staged \subseteq Threads /\ Held \subseteq Threads
<1>1. Registered \subseteq Held
  BY DEF IInv, TypeOK, CreateInv, HeldInv, Registered, Held
<1>2. Staged \subseteq Held
  BY DEF IInv, TypeOK, JoinInv, Joins, HeldInv, Staged, Held
<1>3. Registered \cap Staged = {} /\ Registered \cap Failed = {}
  BY DEF IInv, CreateInv, Registered, Staged, Failed
<1>4. \A t \in Held : td[t] \in Pages
  BY DEF IInv, TypeOK, Held
<1>5. /\ Registered \subseteq Threads /\ Failed \subseteq Threads
      /\ Staged \subseteq Threads /\ Held \subseteq Threads
  BY DEF Registered, Failed, Staged, Held
<1> QED BY <1>1, <1>2, <1>3, <1>4, <1>5

\* On a sound list the metadata of a thread that holds one is its own.
LEMMA Apart ==
  ASSUME IInv, NEW t \in Held
  PROVE  /\ t \notin Staged => td[t] \notin Reach(staged)
         /\ ~reused /\ t \notin Registered => td[t] \notin Reach(head)
         /\ ~reused => td[t] \notin Metadata(Failed)
<1>1. ~reused => td[t] \notin Metadata(Failed)
  BY DEF IInv, OwnInv, ListInv, Metadata
<1>2. t \notin Staged => td[t] \notin Reach(staged)
  BY Holders DEF IInv, OwnInv, StagedInv, Metadata
<1>3. ~reused /\ t \notin Registered => td[t] \notin Metadata(Registered)
  BY Holders DEF IInv, OwnInv, Metadata
<1> QED BY <1>1, <1>2, <1>3 DEF IInv, ListInv, Metadata

\* The two lists do not meet.
LEMMA Disjoint ==
  ASSUME IInv, ~reused
  PROVE  Reach(head) \cap Reach(staged) = {}
<1>1. \A t \in Staged : td[t] \notin Reach(head)
  BY Holders, Apart
<1> QED BY <1>1 DEF IInv, StagedInv, Metadata

LEMMA Sizes ==
  /\ IsFiniteSet(Registered) /\ IsFiniteSet(Failed) /\ IsFiniteSet(Pending)
  /\ Cardinality(Registered) \in Nat /\ Cardinality(Failed) \in Nat
  /\ Cardinality(Pending) \in Nat
<1>1. Registered \subseteq Threads /\ Failed \subseteq Threads /\ Pending \subseteq Threads
  BY DEF Registered, Failed, Pending
<1>2. IsFiniteSet(Registered) /\ IsFiniteSet(Failed) /\ IsFiniteSet(Pending)
  BY <1>1, RegistryAssumption, FS_Subset
<1> QED BY <1>2, FS_CardinalityType

LEMMA CountForm ==
  /\ CountIsExact <=> (status # "fatal" =>
         g_thread_count = Cardinality(Registered) + Cardinality(Pending) + Cardinality(Failed))
  /\ CountIsExact' <=> (status' # "fatal" =>
         g_thread_count' = Cardinality(Registered') + Cardinality(Pending')
                           + Cardinality(Failed'))
BY DEF CountIsExact, Pending

\* A set of threads grows or shrinks by one.
LEMMA OneMore ==
  ASSUME NEW S, NEW x, IsFiniteSet(S), x \notin S
  PROVE  Cardinality(S \cup {x}) = Cardinality(S) + 1
BY FS_AddElement

LEMMA OneLess ==
  ASSUME NEW S, NEW x \in S, IsFiniteSet(S)
  PROVE  Cardinality(S \ {x}) = Cardinality(S) - 1
BY FS_RemoveElement

-----------------------------------------------------------------------------
(* The steps, action by action.                                             *)

\* A step that touches neither the lists nor the memory they lead to.
LEMMA SameLists ==
  ASSUME IInv, UNCHANGED <<listVars, td, mapped, reused, cursor>>,
         Registered' = Registered, Failed' = Failed, Staged' = Staged
  PROVE  StagedInv' /\ ListInv' /\ ReuseInv'
BY DEF IInv, listVars, StagedInv, ListInv, ReuseInv, Reach, Metadata

\* A step that touches no memory and starts or ends no holding.
LEMMA SameMemory ==
  ASSUME IInv, UNCHANGED <<td, mapped, ref_count>>, Held' = Held,
         \A t \in Held : pc'[t] \in {"uncount", "exit", "gone"}
                         <=> pc[t] \in {"uncount", "exit", "gone"}
  PROVE  OwnInv' /\ RefInv'
BY DEF IInv, OwnInv, RefInv

LEMMA Step_create_count ==
  ASSUME IInv, NEW c \in Threads, create_count(c)
  PROVE  IInv'
<1> USE DEF create_count, Runs, Goto, listVars, memVars, walkVars
<1> USE RegistryAssumption
<1>1. TypeOK'
  BY DEF IInv, TypeOK, PC
<1>2. LockInv'
  BY DEF IInv, TypeOK, LockInv, CreateInv
<1>3. CreateInv'
  BY DEF IInv, TypeOK, CreateInv
<1>4. JoinInv'
  BY DEF IInv, TypeOK, CreateInv, JoinInv, Joins
<1>5. JoinedInv'
  BY DEF IInv, TypeOK, CreateInv, JoinInv, Joins, JoinedInv
<1>6. HeldInv'
  BY DEF IInv, TypeOK, CreateInv, JoinInv, Joins, HeldInv
<1>7. /\ Registered' = Registered /\ Failed' = Failed
      /\ status' = "ok" => Pending' = Pending \cup {c} /\ c \notin Pending
  BY DEF IInv, TypeOK, CreateInv, Registered, Failed, Pending
<1>8. Staged' = Staged /\ Held' = Held
  BY DEF IInv, TypeOK, CreateInv, JoinInv, Joins, HeldInv, Staged, Held
<1>9. OwnInv' /\ RefInv'
  BY <1>8, SameMemory DEF IInv, TypeOK, CreateInv, Held
<1>10. StagedInv' /\ ListInv' /\ ReuseInv'
  BY <1>7, <1>8, SameLists
<1>11. StackInv'
  BY DEF IInv, TypeOK, CreateInv, StackInv
<1>12. CountIsExact'
  <2>1. CASE status' = "ok"
    <3>1. Cardinality(Pending') = Cardinality(Pending) + 1
      BY <1>7, <2>1, Sizes, OneMore
    <3> QED BY <1>7, <2>1, <3>1, Sizes, CountForm DEF IInv, TypeOK
  <2>2. CASE status' # "ok"
    BY <2>2 DEF IInv, TypeOK, CountIsExact
  <2> QED BY <2>1, <2>2
<1> QED BY <1>1, <1>2, <1>3, <1>4, <1>5, <1>6, <1>9, <1>10, <1>11, <1>12 DEF IInv

LEMMA Step_thread_data_new ==
  ASSUME IInv, NEW c \in Threads, NEW t \in Threads, thread_data_new(c, t)
  PROVE  IInv'
<1> USE DEF thread_data_new, Runs, Goto, listVars, memVars, walkVars, util_thread_data_new
<1> USE RegistryAssumption
<1>0. PICK x \in Pages : util_thread_data_new(x) /\ td' = [td EXCEPT ![t] = x]
  OBVIOUS
<1>1. TypeOK'
  BY <1>0 DEF IInv, TypeOK, PC
<1>2. LockInv'
  BY DEF IInv, TypeOK, LockInv, CreateInv
<1>3. CreateInv'
  BY DEF IInv, TypeOK, CreateInv
<1>4. JoinInv'
  BY DEF IInv, TypeOK, CreateInv, JoinInv, Joins
<1>5. JoinedInv'
  BY DEF IInv, TypeOK, CreateInv, JoinInv, Joins, JoinedInv
<1>6. HeldInv'
  BY <1>0 DEF IInv, TypeOK, CreateInv, JoinInv, Joins, HeldInv
<1>7. Registered' = Registered /\ Failed' = Failed /\ Pending' = Pending
  BY DEF IInv, TypeOK, CreateInv, Registered, Failed, Pending
<1>8. Staged' = Staged /\ Held' = Held \cup {t} /\ t \notin Held
  BY DEF IInv, TypeOK, CreateInv, JoinInv, Joins, HeldInv, Staged, Held
<1>9. OwnInv' /\ RefInv'
  <2>1. \A u \in Held : u # t /\ td'[u] = td[u] /\ td[u] # x /\ td[u] \in Pages
    BY <1>0, <1>8, Holders DEF IInv, TypeOK, OwnInv, Held
  <2>2. td'[t] = x /\ mapped'[x] /\ ref_count'[x] = 1
    BY <1>0 DEF IInv, TypeOK
  <2>3. \A y \in Pages : y # x => mapped'[y] = mapped[y] /\ ref_count'[y] = ref_count[y]
    BY <1>0 DEF IInv, TypeOK
  <2>4. \A u \in Held : mapped'[td'[u]] /\ ref_count'[td'[u]] = ref_count[td[u]]
                        /\ (u # c => pc'[u] = pc[u])
    BY <2>1, <2>3 DEF IInv, TypeOK, OwnInv, Held
  <2>5. OwnInv'
    BY <1>8, <2>1, <2>2, <2>4 DEF IInv, OwnInv
  <2>6. RefInv'
    BY <1>8, <2>1, <2>2, <2>4 DEF IInv, TypeOK, RefInv, Held
  <2> QED BY <2>5, <2>6
<1>10. StagedInv' /\ ListInv' /\ ReuseInv'
  <2>1. x \notin Reach(staged)
    BY <1>0, Holders DEF IInv, OwnInv, StagedInv, Metadata
  <2>2. \A y \in Pages : y # x => next'[y] = next[y] /\ mapped'[y] = mapped[y]
    BY <1>0 DEF IInv, TypeOK
  <2>3. \A u \in Threads : u # t => td'[u] = td[u]
    BY <1>0 DEF IInv, TypeOK
  <2>4. t \notin Staged /\ t \notin Registered /\ t \notin Failed
    BY DEF IInv, CreateInv, Staged, Registered, Failed
  <2>5. StagedInv'
    <3>1. \A y \in Reach(staged) : next'[y] = next[y]
      BY <2>1, <2>2, ReachedAreNodes DEF Reach
    <3>2. Reachable(Pages, next', staged) = Reach(staged) /\ IsList(Pages, next', staged)
      <4> HIDE DEF thread_data_new
      <4> QED BY <3>1, ReachesSame, ListSame DEF Reach, IInv, StagedInv
    <3>3. Metadata(Staged)' = Metadata(Staged)
      BY <1>8, <2>3, <2>4, Holders DEF Metadata
    <3> QED BY <3>2, <3>3 DEF IInv, StagedInv, Reach
  <2>6. ListInv'
    <3> SUFFICES ASSUME ~reused'
                 PROVE  ListInv'
      BY DEF ListInv
    <3>1. ~reused /\ x \notin Reach(head)
      BY <1>0
    <3>2. \A y \in Reach(head) : next'[y] = next[y] /\ mapped'[y] = mapped[y]
      BY <2>2, <3>1, ReachedAreNodes DEF Reach
    <3>3. Reachable(Pages, next', head) = Reach(head) /\ IsList(Pages, next', head)
      <4> HIDE DEF thread_data_new
      <4> QED BY <3>1, <3>2, ReachesSame, ListSame DEF Reach, IInv, ListInv
    <3>4. Metadata(Registered \cup Failed)' = Metadata(Registered \cup Failed)
      BY <1>7, <2>3, <2>4, Holders DEF Metadata
    <3>5. \A u \in Failed : td'[u] = td[u] /\ td[u] \in Reach(head)
      BY <2>3, <2>4, <3>1 DEF IInv, ListInv, Metadata, Failed
    <3>6. \A u \in Failed : ~mapped'[td'[u]]
      BY <3>1, <3>2, <3>5 DEF IInv, ListInv
    <3> QED BY <1>7, <3>1, <3>3, <3>4, <3>6 DEF IInv, ListInv, Reach
  <2>7. ReuseInv'
    <3>1. ~reused /\ x \in Reach(head) => Failed # {}
      BY <1>0, Holders DEF IInv, OwnInv, ListInv, Metadata
    <3> QED BY <1>0, <1>7, <3>1 DEF IInv, ReuseInv
  <2> QED BY <2>5, <2>6, <2>7
<1>11. StackInv'
  BY DEF IInv, TypeOK, CreateInv, StackInv
<1>12. CountIsExact'
  BY <1>7 DEF IInv, CountIsExact, Pending
<1> QED BY <1>1, <1>2, <1>3, <1>4, <1>5, <1>6, <1>9, <1>10, <1>11, <1>12 DEF IInv

LEMMA Step_thread_list_add ==
  ASSUME IInv, NEW c \in Threads, thread_list_add(c)
  PROVE  IInv'
<1> USE DEF thread_list_add, Runs, Goto, listVars, memVars, walkVars
<1> USE RegistryAssumption
<1>0. peer[c] \in Held /\ td[peer[c]] \in Pages
  BY Holders DEF IInv, CreateInv, HeldInv, Held
<1>1. TypeOK'
  BY <1>0 DEF IInv, TypeOK, PC
<1>2. LockInv'
  BY DEF IInv, TypeOK, LockInv, CreateInv
<1>3. CreateInv'
  BY DEF IInv, TypeOK, CreateInv
<1>4. JoinInv'
  BY DEF IInv, TypeOK, CreateInv, JoinInv, Joins
<1>5. JoinedInv'
  BY DEF IInv, TypeOK, CreateInv, JoinInv, Joins, JoinedInv
<1>6. HeldInv'
  BY DEF IInv, TypeOK, CreateInv, JoinInv, Joins, HeldInv
<1>7. Registered' = Registered \cup {peer[c]} /\ Failed' = Failed /\ Pending' = Pending \ {c}
  BY DEF IInv, TypeOK, CreateInv, Registered, Failed, Pending
<1>8. Staged' = Staged /\ Held' = Held
  BY DEF IInv, TypeOK, CreateInv, JoinInv, Joins, HeldInv, Staged, Held
<1>9. OwnInv' /\ RefInv'
  BY <1>8, SameMemory DEF IInv, TypeOK, CreateInv, Held
<1>10. StagedInv' /\ ListInv' /\ ReuseInv'
  <2>1. td[peer[c]] \notin Reach(staged) /\ (~reused => td[peer[c]] \notin Reach(head))
    <3>1. peer[c] \notin Staged /\ peer[c] \notin Registered
      BY DEF IInv, CreateInv, Staged, Registered
    <3> QED BY <1>0, <3>1, Apart
  <2>2. next'[td[peer[c]]] = head /\ \A y \in Pages \ {td[peer[c]]} : next'[y] = next[y]
    BY <1>0 DEF IInv, TypeOK
  <2>3. StagedInv'
    <3>1. \A y \in Reach(staged) : next'[y] = next[y]
      BY <2>1, <2>2, ReachedAreNodes DEF Reach
    <3>2. Reachable(Pages, next', staged) = Reach(staged) /\ IsList(Pages, next', staged)
      BY <3>1, ReachesSame, ListSame DEF Reach, IInv, StagedInv
    <3> QED BY <1>8, <3>2 DEF IInv, StagedInv, Reach, Metadata
  <2>4. ASSUME ~reused
        PROVE  Reach(head)' = Reach(head) \cup {td[peer[c]]} /\ IsList(Pages, next', head')
    <3>1. PICK x \in Pages : x = td[peer[c]]
      BY <1>0
    <3> HIDE DEF thread_list_add
    <3>2. Reachable(Pages, next', x) = Reachable(Pages, next, head) \cup {x}
          /\ IsList(Pages, next', x)
      BY <2>1, <2>2, <2>4, <3>1, PushedOn DEF Reach, IInv, ListInv
    <3> QED BY <3>1, <3>2 DEF Reach, thread_list_add
  <2>5. ListInv'
    <3>1. lock = NULL /\ cursor' = NULL
      BY DEF IInv, LockInv
    <3>2. Metadata(Registered \cup Failed)' = Metadata(Registered \cup Failed) \cup {td[peer[c]]}
      BY <1>7 DEF Metadata
    <3> QED BY <1>7, <2>4, <3>1, <3>2 DEF IInv, ListInv
  <2> QED BY <1>7, <2>3, <2>5 DEF IInv, ReuseInv
<1>11. StackInv'
  BY DEF IInv, TypeOK, CreateInv, StackInv
<1>12. CountIsExact'
  <2>1. peer[c] \notin Registered /\ c \in Pending
    BY DEF IInv, TypeOK, CreateInv, Registered, Pending
  <2>2. Cardinality(Registered') = Cardinality(Registered) + 1
        /\ Cardinality(Pending') = Cardinality(Pending) - 1
    BY <1>7, <2>1, Sizes, OneMore, OneLess
  <2> QED BY <1>7, <2>2, Sizes, CountForm DEF IInv, TypeOK
<1> QED BY <1>1, <1>2, <1>3, <1>4, <1>5, <1>6, <1>9, <1>10, <1>11, <1>12 DEF IInv

LEMMA Step_orig_pthread_create ==
  ASSUME IInv, NEW c \in Threads, orig_pthread_create(c)
  PROVE  IInv'
<1> USE DEF orig_pthread_create, Runs, Goto, listVars, memVars, walkVars
<1> USE RegistryAssumption
<1>1. TypeOK'
  BY DEF IInv, TypeOK, PC
<1>2. LockInv'
  BY DEF IInv, TypeOK, LockInv, CreateInv
<1>3. CreateInv'
  BY DEF IInv, TypeOK, CreateInv
<1>4. JoinInv'
  BY DEF IInv, TypeOK, CreateInv, JoinInv, Joins
<1>5. JoinedInv'
  BY DEF IInv, TypeOK, CreateInv, JoinInv, Joins, JoinedInv
<1>6. HeldInv'
  BY DEF IInv, TypeOK, CreateInv, JoinInv, Joins, HeldInv
<1>7. Registered' = Registered /\ Failed' = Failed /\ Pending' = Pending
  BY DEF IInv, TypeOK, CreateInv, Registered, Failed, Pending
<1>8. Staged' = Staged /\ Held' = Held
  BY DEF IInv, TypeOK, CreateInv, JoinInv, Joins, HeldInv, Staged, Held
<1>9. OwnInv' /\ RefInv'
  BY <1>8, SameMemory DEF IInv, TypeOK, CreateInv, Held
<1>10. StagedInv' /\ ListInv' /\ ReuseInv'
  BY <1>7, <1>8, SameLists
<1>11. StackInv'
  BY DEF IInv, TypeOK, CreateInv, StackInv
<1>12. CountIsExact'
  BY <1>7 DEF IInv, CountIsExact, Pending
<1> QED BY <1>1, <1>2, <1>3, <1>4, <1>5, <1>6, <1>9, <1>10, <1>11, <1>12 DEF IInv

LEMMA Step_create_failed ==
  ASSUME IInv, NEW c \in Threads, create_failed(c)
  PROVE  IInv'
<1> USE DEF create_failed, Runs, Goto, listVars, memVars, walkVars, util_thread_data_free
<1> USE RegistryAssumption
<1>1. TypeOK'
  BY DEF IInv, TypeOK, PC
<1>2. LockInv'
  BY DEF IInv, TypeOK, LockInv, CreateInv
<1>3. CreateInv'
  BY DEF IInv, TypeOK, CreateInv
<1>4. JoinInv'
  BY DEF IInv, TypeOK, CreateInv, JoinInv, Joins
<1>5. JoinedInv'
  BY DEF IInv, TypeOK, CreateInv, JoinInv, Joins, JoinedInv
<1>6. HeldInv'
  BY DEF IInv, TypeOK, CreateInv, JoinInv, Joins, HeldInv
<1>7. /\ Registered' = Registered \ {peer[c]} /\ Failed' = Failed \cup {peer[c]}
      /\ Pending' = Pending /\ peer[c] \in Registered /\ peer[c] \notin Failed
  BY DEF IInv, TypeOK, CreateInv, Registered, Failed, Pending
<1>8. Staged' = Staged /\ Held' = Held \ {peer[c]} /\ peer[c] \in Held
  BY DEF IInv, TypeOK, CreateInv, JoinInv, Joins, HeldInv, Staged, Held
<1>9. OwnInv' /\ RefInv'
  <2>1. \A u \in Held' : td[u] # td[peer[c]] /\ td[u] \in Pages
    BY <1>8, Holders DEF IInv, OwnInv
  <2>2. \A y \in Pages : y # td[peer[c]] => mapped'[y] = mapped[y]
    BY DEF IInv, TypeOK
  <2>3. OwnInv'
    BY <1>8, <2>1, <2>2 DEF IInv, OwnInv
  <2> QED BY <1>8, <2>3 DEF IInv, TypeOK, CreateInv, RefInv, Held
<1>10. StagedInv' /\ ListInv' /\ ReuseInv'
  <2>1. StagedInv'
    BY <1>8 DEF IInv, StagedInv, Reach, Metadata
  <2>2. ListInv'
    <3>1. td[peer[c]] \in Pages
      BY <1>8, Holders
    <3>2. Metadata(Registered \cup Failed)' = Metadata(Registered \cup Failed)
      BY <1>7 DEF Metadata
    <3>3. \A y \in Pages : ~mapped[y] => ~mapped'[y]
      BY DEF IInv, TypeOK
    <3>4. ~mapped'[td[peer[c]]]
      BY <3>1 DEF IInv, TypeOK
    <3>5. \A u \in Failed : td[u] \in Pages
      BY DEF IInv, TypeOK, HeldInv, Failed
    <3> QED BY <1>7, <3>2, <3>3, <3>4, <3>5 DEF IInv, ListInv, Reach
  <2> QED BY <1>7, <2>1, <2>2 DEF ReuseInv
<1>11. StackInv'
  BY DEF IInv, TypeOK, CreateInv, StackInv
<1>12. CountIsExact'
  <2>1. Cardinality(Registered') = Cardinality(Registered) - 1
        /\ Cardinality(Failed') = Cardinality(Failed) + 1
    BY <1>7, Sizes, OneMore, OneLess
  <2> QED BY <1>7, <2>1, Sizes, CountForm DEF IInv, TypeOK
<1> QED BY <1>1, <1>2, <1>3, <1>4, <1>5, <1>6, <1>9, <1>10, <1>11, <1>12 DEF IInv

LEMMA Step_thread_cleanup ==
  ASSUME IInv, NEW t \in Threads, thread_cleanup(t)
  PROVE  IInv'
<1> USE DEF thread_cleanup, Runs, Goto, listVars, memVars, walkVars
<1> USE RegistryAssumption
<1>1. TypeOK'
  BY DEF IInv, TypeOK, PC
<1>2. LockInv'
  BY DEF IInv, TypeOK, LockInv, CreateInv
<1>3. CreateInv'
  BY DEF IInv, TypeOK, CreateInv
<1>4. JoinInv'
  BY DEF IInv, TypeOK, CreateInv, JoinInv, Joins
<1>5. JoinedInv'
  BY DEF IInv, TypeOK, CreateInv, JoinInv, Joins, JoinedInv
<1>6. HeldInv'
  BY DEF IInv, TypeOK, CreateInv, JoinInv, Joins, HeldInv
<1>7. Registered' = Registered /\ Failed' = Failed /\ Pending' = Pending
  BY DEF IInv, TypeOK, CreateInv, Registered, Failed, Pending
<1>8. Staged' = Staged /\ Held' = Held
  BY DEF IInv, TypeOK, CreateInv, JoinInv, Joins, HeldInv, Staged, Held
<1>9. OwnInv' /\ RefInv'
  BY <1>8, SameMemory DEF IInv, TypeOK, CreateInv, Held
<1>10. StagedInv' /\ ListInv' /\ ReuseInv'
  BY <1>7, <1>8, SameLists
<1>11. StackInv'
  BY DEF IInv, TypeOK, CreateInv, StackInv
<1>12. CountIsExact'
  BY <1>7 DEF IInv, CountIsExact, Pending
<1> QED BY <1>1, <1>2, <1>3, <1>4, <1>5, <1>6, <1>9, <1>10, <1>11, <1>12 DEF IInv

LEMMA Step_thread_list_remove ==
  ASSUME IInv, NEW t \in Threads, thread_list_remove(t)
  PROVE  IInv'
<1> USE DEF thread_list_remove, Runs, Goto, listVars, memVars, walkVars, MayChange
<1> USE RegistryAssumption
<1>0. t \in Held /\ td[t] \in Pages
  BY Holders DEF IInv, HeldInv, Held
<1>1. TypeOK'
  BY <1>0 DEF IInv, TypeOK, PC
<1>2. LockInv'
  BY DEF IInv, TypeOK, LockInv, CreateInv
<1>3. CreateInv'
  BY DEF IInv, TypeOK, CreateInv
<1>4. JoinInv'
  BY DEF IInv, TypeOK, CreateInv, JoinInv, Joins
<1>5. JoinedInv'
  BY DEF IInv, TypeOK, CreateInv, JoinInv, Joins, JoinedInv
<1>6. HeldInv'
  BY DEF IInv, TypeOK, CreateInv, JoinInv, Joins, HeldInv
<1>7. /\ Registered' = (IF head = td[t] THEN Registered \ {t} ELSE Registered)
      /\ Pending' = (IF head = td[t] THEN Pending \cup {t} ELSE Pending)
      /\ Failed' = Failed /\ t \in Registered /\ t \notin Pending /\ t \notin Failed
  BY DEF IInv, TypeOK, CreateInv, Registered, Failed, Pending
<1>8. Staged' = Staged /\ Held' = Held
  BY DEF IInv, TypeOK, CreateInv, JoinInv, Joins, HeldInv, Staged, Held
<1>9. OwnInv' /\ RefInv'
  BY <1>8, SameMemory DEF IInv, TypeOK, CreateInv, Held
<1>10. StagedInv' /\ ListInv' /\ ReuseInv'
  <2>1. CASE head # td[t]
    <3>1. UNCHANGED <<listVars, td, mapped, reused>>
      BY <2>1
    <3>2. head \in Pages => head \in Reach(head)
      BY ReachesStart DEF Reach
    <3>3. Reach(head)' = Reach(head) /\ Reach(staged)' = Reach(staged)
      BY <3>1 DEF Reach
    <3> QED BY <1>7, <1>8, <2>1, <3>1, <3>2, <3>3
         DEF IInv, TypeOK, StagedInv, ListInv, ReuseInv, Metadata
  <2>2. CASE head = td[t]
    <3>1. head' = next[head] /\ UNCHANGED <<next, staged, td, mapped, reused, cursor>>
      BY <2>2
    <3>2. lock = NULL /\ cursor = NULL
      BY DEF IInv, LockInv
    <3>3. ASSUME ~reused
          PROVE  Reach(head)' = Reach(head) \ {td[t]} /\ IsList(Pages, next', head')
      <4>1. head \in Pages /\ IsList(Pages, next, head)
        BY <1>0, <2>2, <3>3 DEF IInv, ListInv
      <4> HIDE DEF thread_list_remove
      <4>2. Reachable(Pages, next, next[head]) = Reachable(Pages, next, head) \ {head}
            /\ IsList(Pages, next, next[head])
        BY <4>1, Pops
      <4> QED BY <2>2, <3>1, <4>2 DEF Reach
    <3>4. ASSUME ~reused
          PROVE  Metadata(Registered \cup Failed)' = Metadata(Registered \cup Failed) \ {td[t]}
      <4>1. \A u \in Registered \cup Failed : td[u] = td[t] => u = t
        BY <1>0, <3>4, Apart, Holders DEF IInv, OwnInv, Metadata
      <4> QED BY <1>7, <2>2, <4>1 DEF Metadata
    <3>5. ListInv'
      <4>1. ASSUME ~reused PROVE \A u \in Failed' : ~mapped'[td'[u]]
        BY <1>7, <3>1, <4>1 DEF IInv, ListInv
      <4>2. reused' = reused /\ cursor' = NULL
        BY <3>1, <3>2
      <4> HIDE DEF thread_list_remove
      <4>3. ASSUME ~reused PROVE Reach(head)' = Metadata(Registered \cup Failed)'
        BY <3>3, <3>4, <4>3 DEF IInv, ListInv
      <4> QED BY <3>3, <4>1, <4>2, <4>3 DEF ListInv
    <3>6. StagedInv'
      BY <1>8, <3>1 DEF IInv, StagedInv, Reach, Metadata
    <3> QED BY <1>7, <3>1, <3>5, <3>6 DEF IInv, ReuseInv
  <2> QED BY <2>1, <2>2
<1>11. StackInv'
  BY DEF IInv, TypeOK, CreateInv, StackInv
<1>12. CountIsExact'
  <2>1. head = td[t] => Cardinality(Registered') = Cardinality(Registered) - 1
                        /\ Cardinality(Pending') = Cardinality(Pending) + 1
    BY <1>7, Sizes, OneMore, OneLess
  <2> QED BY <1>7, <2>1, Sizes, CountForm DEF IInv, TypeOK
<1> QED BY <1>1, <1>2, <1>3, <1>4, <1>5, <1>6, <1>9, <1>10, <1>11, <1>12 DEF IInv

LEMMA Step_thread_list_unlink ==
  ASSUME IInv, NEW t \in Threads, thread_list_unlink(t)
  PROVE  IInv'
<1> USE DEF thread_list_unlink, Runs, Goto, listVars, memVars, walkVars, Mapped, Unlink
<1> USE RegistryAssumption
<1>0. t \in Held /\ td[t] \in Pages
  BY Holders DEF IInv, HeldInv, Held
<1>1. TypeOK'
  BY <1>0 DEF IInv, TypeOK, PC
<1>2. LockInv'
  BY DEF IInv, TypeOK, LockInv, CreateInv
<1>3. CreateInv'
  BY DEF IInv, TypeOK, CreateInv
<1>4. JoinInv'
  BY DEF IInv, TypeOK, CreateInv, JoinInv, Joins
<1>5. JoinedInv'
  BY DEF IInv, TypeOK, CreateInv, JoinInv, Joins, JoinedInv
<1>6. HeldInv'
  BY DEF IInv, TypeOK, CreateInv, JoinInv, Joins, HeldInv
<1>7. /\ Registered' = (IF pc'[t] = "decr" THEN Registered \ {t} ELSE Registered)
      /\ Pending' = (IF pc'[t] = "decr" THEN Pending \cup {t} ELSE Pending)
      /\ Failed' = Failed /\ t \in Registered /\ t \notin Pending /\ t \notin Failed
  BY DEF IInv, TypeOK, CreateInv, Registered, Failed, Pending
<1>8. Staged' = Staged /\ Held' = Held
  BY DEF IInv, TypeOK, CreateInv, JoinInv, Joins, HeldInv, Staged, Held
<1>9. OwnInv' /\ RefInv'
  BY <1>8, SameMemory DEF IInv, TypeOK, CreateInv, Held
<1>10. StagedInv' /\ ListInv' /\ ReuseInv'
  <2>1. CASE cursor \notin Mapped
    BY <1>7, <1>8, <2>1, SameLists
  <2>2. CASE cursor \in Mapped /\ next[cursor] # td[t]
    <3>1. UNCHANGED <<listVars, td, mapped, reused>> /\ cursor' = next[cursor]
      BY <2>2
    <3>2. ~reused /\ next[cursor] # NULL => next[cursor] \in Reach(head)
      BY <2>2, ReachesNext DEF IInv, TypeOK, ListInv, Reach
    <3>3. Reach(head)' = Reach(head) /\ Reach(staged)' = Reach(staged)
      BY <3>1 DEF Reach
    <3>4. Registered' = Registered
      BY <1>7, <2>2 DEF IInv, TypeOK
    <3> QED BY <1>7, <1>8, <3>1, <3>2, <3>3, <3>4
         DEF IInv, StagedInv, ListInv, ReuseInv, Metadata
  <2>3. CASE cursor \in Mapped /\ next[cursor] = td[t]
    <3>1. /\ next' = [next EXCEPT ![cursor] = next[td[t]]] /\ cursor' = NULL
          /\ UNCHANGED <<head, staged, td, mapped, reused>> /\ pc'[t] = "decr"
      BY <2>3 DEF IInv, TypeOK
    <3>2. \A p \in Pages : next'[p] = IF p = cursor THEN next[td[t]] ELSE next[p]
      BY <3>1 DEF IInv, TypeOK
    <3>3. StagedInv'
      <4>1. td[t] \notin Reach(staged)
        BY <1>0, <1>7, Holders, Apart
      <4>2. cursor \notin Reach(staged)
        BY <1>0, <2>3, <4>1, ReachesNext DEF Reach
      <4>3. \A y \in Reach(staged) : next'[y] = next[y]
        BY <3>2, <4>2, ReachedAreNodes DEF Reach
      <4>4. Reachable(Pages, next', staged) = Reach(staged) /\ IsList(Pages, next', staged)
        BY <4>3, ReachesSame, ListSame DEF Reach, IInv, StagedInv
      <4>5. Reach(staged)' = Reach(staged) /\ Metadata(Staged)' = Metadata(Staged)
        BY <1>8, <3>1, <4>4 DEF Reach, Metadata
      <4> QED BY <3>1, <4>4, <4>5 DEF IInv, StagedInv
    <3>4. ASSUME ~reused
          PROVE  Reach(head)' = Reach(head) \ {td[t]} /\ IsList(Pages, next', head')
      <4>1. PICK x : x = td[t]
        OBVIOUS
      <4>2. IsList(Pages, next, head) /\ cursor \in Reachable(Pages, next, head)
        BY <2>3, <3>4 DEF IInv, TypeOK, ListInv, Reach
      <4>3. x \in Reachable(Pages, next, head) /\ head # x
        BY <1>0, <2>3, <4>1, <4>2, ReachesNext DEF IsList
      <4>4. \A p \in Pages : next'[p] = IF p \in Reachable(Pages, next, head) /\ next[p] = x
                                       THEN next[x] ELSE next[p]
        BY <1>0, <2>3, <3>2, <4>1, <4>2 DEF IsList
      <4>5. head = IF head = x THEN next[x] ELSE head
        BY <4>3
      <4>6. Reachable(Pages, next', head) = Reachable(Pages, next, head) \ {x}
            /\ IsList(Pages, next', head)
        BY ONLY <4>2, <4>3, <4>4, <4>5, Unlinks
      <4> QED BY <3>1, <4>1, <4>6 DEF Reach
    <3>5. ASSUME ~reused
          PROVE  Metadata(Registered \cup Failed)' = Metadata(Registered \cup Failed) \ {td[t]}
      <4>1. \A u \in Registered \cup Failed : td[u] = td[t] => u = t
        BY <1>0, <3>5, Apart, Holders DEF IInv, OwnInv, Metadata
      <4> QED BY <1>7, <3>1, <4>1 DEF Metadata
    <3>6. ListInv'
      <4>1. ASSUME ~reused PROVE \A u \in Failed' : ~mapped'[td'[u]]
        BY <1>7, <3>1, <4>1 DEF IInv, ListInv
      <4>2. reused' = reused /\ cursor' = NULL
        BY <3>1
      <4> HIDE DEF thread_list_unlink
      <4>3. ASSUME ~reused PROVE Reach(head)' = Metadata(Registered \cup Failed)'
        BY <3>4, <3>5, <4>3 DEF IInv, ListInv
      <4> QED BY <3>4, <4>1, <4>2, <4>3 DEF ListInv
    <3> QED BY <1>7, <3>1, <3>3, <3>6 DEF IInv, ReuseInv
  <2> QED BY <2>1, <2>2, <2>3
<1>11. StackInv'
  BY DEF IInv, TypeOK, CreateInv, StackInv
<1>12. CountIsExact'
  <2>1. pc'[t] = "decr" => Cardinality(Registered') = Cardinality(Registered) - 1
                        /\ Cardinality(Pending') = Cardinality(Pending) + 1
    BY <1>7, Sizes, OneMore, OneLess
  <2> QED BY <1>7, <2>1, Sizes, CountForm DEF IInv, TypeOK
<1> QED BY <1>1, <1>2, <1>3, <1>4, <1>5, <1>6, <1>9, <1>10, <1>11, <1>12 DEF IInv

LEMMA Step_thread_data_decr_ref ==
  ASSUME IInv, NEW t \in Threads, thread_data_decr_ref(t)
  PROVE  IInv'
<1> USE DEF thread_data_decr_ref, Runs, Goto, listVars, memVars, walkVars, LastRef
<1> USE RegistryAssumption
<1>0. t \in Held /\ td[t] \in Pages /\ ref_count[td[t]] = 1
  BY Holders DEF IInv, HeldInv, RefInv, Held
<1>1. TypeOK'
  BY <1>0 DEF IInv, TypeOK, PC
<1>2. LockInv'
  BY DEF IInv, TypeOK, LockInv, CreateInv
<1>3. CreateInv'
  BY DEF IInv, TypeOK, CreateInv
<1>4. JoinInv'
  BY DEF IInv, TypeOK, CreateInv, JoinInv, Joins
<1>5. JoinedInv'
  BY DEF IInv, TypeOK, CreateInv, JoinInv, Joins, JoinedInv
<1>6. HeldInv'
  BY DEF IInv, TypeOK, CreateInv, JoinInv, Joins, HeldInv
<1>7. Registered' = Registered /\ Failed' = Failed /\ Pending' = Pending
  BY DEF IInv, TypeOK, CreateInv, Registered, Failed, Pending
<1>8. Staged' = Staged \cup {t} /\ Held' = Held
  <2>1. joined[t] => \E j \in Threads : pc[j] \in {"join", "cleanup"} /\ peer[j] = t
    BY DEF IInv, TypeOK, JoinedInv
  <2> QED BY <2>1 DEF IInv, TypeOK, CreateInv, JoinInv, Joins, HeldInv, Staged, Held
<1>9. OwnInv' /\ RefInv'
  <2>1. \A u \in Held : u # t => td[u] # td[t] /\ td[u] \in Pages
    BY <1>0, Holders DEF IInv, OwnInv
  <2>2. ref_count'[td[t]] = 0 /\ \A y \in Pages : y # td[t] => ref_count'[y] = ref_count[y]
    BY <1>0 DEF IInv, TypeOK
  <2>3. \A u \in Held : u # t => pc'[u] = pc[u] /\ ref_count'[td[u]] = ref_count[td[u]]
    BY <2>1, <2>2 DEF IInv, TypeOK, Held
  <2> QED BY <1>8, <2>2, <2>3 DEF IInv, TypeOK, OwnInv, RefInv
<1>10. StagedInv' /\ ListInv' /\ ReuseInv'
  <2>1. td[t] \notin Reach(staged) /\ (~reused => td[t] \notin Reach(head))
    <3>1. t \notin Staged /\ t \notin Registered
      BY DEF IInv, CreateInv, Staged, Registered
    <3> QED BY <1>0, <3>1, Apart
  <2>2. next' = [next EXCEPT ![td[t]] = staged] /\ staged' = td[t]
    BY <1>0
  <2>3. next'[td[t]] = staged /\ \A y \in Pages \ {td[t]} : next'[y] = next[y]
    BY <1>0, <2>2 DEF IInv, TypeOK
  <2>4. StagedInv'
    <3>1. PICK x \in Pages : x = td[t]
      BY <1>0
    <3> HIDE DEF thread_data_decr_ref
    <3>2. Reachable(Pages, next', x) = Reachable(Pages, next, staged) \cup {x}
          /\ IsList(Pages, next', x)
      BY <2>1, <2>3, <3>1, PushedOn DEF Reach, IInv, StagedInv
    <3>3. Metadata(Staged)' = Metadata(Staged) \cup {x}
      BY <1>8, <3>1 DEF Metadata, thread_data_decr_ref
    <3> QED BY <2>2, <3>1, <3>2, <3>3 DEF Reach, IInv, StagedInv
  <2>5. ListInv'
    <3> SUFFICES ASSUME ~reused
                 PROVE  ListInv'
      BY DEF ListInv
    <3>1. \A y \in Reach(head) : next'[y] = next[y]
      BY <2>1, <2>3, ReachedAreNodes DEF Reach
    <3>2. Reachable(Pages, next', head) = Reach(head) /\ IsList(Pages, next', head)
      BY <3>1, ReachesSame, ListSame DEF Reach, IInv, ListInv
    <3>3. Metadata(Registered \cup Failed)' = Metadata(Registered \cup Failed)
      BY <1>7 DEF Metadata
    <3> QED BY <1>7, <3>2, <3>3 DEF IInv, ListInv, Reach
  <2> QED BY <1>7, <2>4, <2>5 DEF IInv, ReuseInv
<1>11. StackInv'
  BY DEF IInv, TypeOK, CreateInv, StackInv
<1>12. CountIsExact'
  BY <1>7 DEF IInv, CountIsExact, Pending
<1> QED BY <1>1, <1>2, <1>3, <1>4, <1>5, <1>6, <1>9, <1>10, <1>11, <1>12 DEF IInv

LEMMA Step_exit_uncount ==
  ASSUME IInv, NEW t \in Threads, exit_uncount(t)
  PROVE  IInv'
<1> USE DEF exit_uncount, Runs, Goto, listVars, memVars, walkVars, Uncounted
<1> USE RegistryAssumption
<1>1. TypeOK'
  <2>1. t \in Pending
    BY DEF Pending
  <2>2. Cardinality(Pending \ {t}) = Cardinality(Pending) - 1 /\ Cardinality(Pending \ {t}) \in Nat
    BY <2>1, Sizes, OneLess, FS_RemoveElement, FS_CardinalityType
  <2>3. g_thread_count >= 1
    BY <2>2, Sizes, CountForm DEF IInv, TypeOK
  <2> QED BY <2>3 DEF IInv, TypeOK, PC
<1>2. LockInv'
  BY DEF IInv, TypeOK, LockInv, CreateInv
<1>3. CreateInv'
  BY DEF IInv, TypeOK, CreateInv
<1>4. JoinInv'
  BY DEF IInv, TypeOK, CreateInv, JoinInv, Joins
<1>5. JoinedInv'
  BY DEF IInv, TypeOK, CreateInv, JoinInv, Joins, JoinedInv
<1>6. HeldInv'
  BY DEF IInv, TypeOK, CreateInv, JoinInv, Joins, HeldInv
<1>7. Registered' = Registered /\ Failed' = Failed /\ Pending' = Pending \ {t}
  BY DEF IInv, TypeOK, CreateInv, Registered, Failed, Pending
<1>8. Staged' = Staged /\ Held' = Held
  BY DEF IInv, TypeOK, CreateInv, JoinInv, Joins, HeldInv, Staged, Held
<1>9. OwnInv' /\ RefInv'
  BY <1>8, SameMemory DEF IInv, TypeOK, CreateInv, Held
<1>10. StagedInv' /\ ListInv' /\ ReuseInv'
  BY <1>7, <1>8, SameLists
<1>11. StackInv'
  BY DEF IInv, TypeOK, CreateInv, StackInv
<1>12. CountIsExact'
  <2>1. t \in Pending
    BY DEF Pending
  <2>2. Cardinality(Pending') = Cardinality(Pending) - 1
    BY <1>7, <2>1, Sizes, OneLess
  <2> QED BY <1>7, <2>2, Sizes, CountForm DEF IInv, TypeOK
<1> QED BY <1>1, <1>2, <1>3, <1>4, <1>5, <1>6, <1>9, <1>10, <1>11, <1>12 DEF IInv

LEMMA Step_orig_pthread_exit ==
  ASSUME IInv, NEW t \in Threads, orig_pthread_exit(t)
  PROVE  IInv'
<1> USE DEF orig_pthread_exit, Runs, Goto, listVars, memVars, walkVars
<1> USE RegistryAssumption
<1>1. TypeOK'
  BY DEF IInv, TypeOK, PC
<1>2. LockInv'
  BY DEF IInv, TypeOK, LockInv, CreateInv
<1>3. CreateInv'
  BY DEF IInv, TypeOK, CreateInv
<1>4. JoinInv'
  BY DEF IInv, TypeOK, CreateInv, JoinInv, Joins
<1>5. JoinedInv'
  BY DEF IInv, TypeOK, CreateInv, JoinInv, Joins, JoinedInv
<1>6. HeldInv'
  BY DEF IInv, TypeOK, CreateInv, JoinInv, Joins, HeldInv
<1>7. Registered' = Registered /\ Failed' = Failed /\ Pending' = Pending
  BY DEF IInv, TypeOK, CreateInv, Registered, Failed, Pending
<1>8. Staged' = Staged /\ Held' = Held
  BY DEF IInv, TypeOK, CreateInv, JoinInv, Joins, HeldInv, Staged, Held
<1>9. OwnInv' /\ RefInv'
  BY <1>8, SameMemory DEF IInv, TypeOK, CreateInv, Held
<1>10. StagedInv' /\ ListInv' /\ ReuseInv'
  BY <1>7, <1>8, SameLists
<1>11. StackInv'
  BY DEF IInv, TypeOK, CreateInv, StackInv
<1>12. CountIsExact'
  BY <1>7 DEF IInv, CountIsExact, Pending
<1> QED BY <1>1, <1>2, <1>3, <1>4, <1>5, <1>6, <1>9, <1>10, <1>11, <1>12 DEF IInv

LEMMA Step_pthread_join ==
  ASSUME IInv, NEW j \in Threads, NEW t \in Threads, pthread_join(j, t)
  PROVE  IInv'
<1> USE DEF pthread_join, Runs, Goto, listVars, memVars, walkVars
<1> USE RegistryAssumption
<1>1. TypeOK'
  BY DEF IInv, TypeOK, PC
<1>2. LockInv'
  BY DEF IInv, TypeOK, LockInv, CreateInv
<1>3. CreateInv'
  BY DEF IInv, TypeOK, CreateInv
<1>4. JoinInv'
  BY DEF IInv, TypeOK, CreateInv, JoinInv, Joins
<1>5. JoinedInv'
  BY DEF IInv, TypeOK, CreateInv, JoinInv, Joins, JoinedInv
<1>6. HeldInv'
  BY DEF IInv, TypeOK, CreateInv, JoinInv, Joins, HeldInv
<1>7. Registered' = Registered /\ Failed' = Failed /\ Pending' = Pending
  BY DEF IInv, TypeOK, CreateInv, Registered, Failed, Pending
<1>8. Staged' = Staged /\ Held' = Held
  BY DEF IInv, TypeOK, CreateInv, JoinInv, Joins, HeldInv, Staged, Held
<1>9. OwnInv' /\ RefInv'
  BY <1>8, SameMemory DEF IInv, TypeOK, CreateInv, Held
<1>10. StagedInv' /\ ListInv' /\ ReuseInv'
  BY <1>7, <1>8, SameLists
<1>11. StackInv'
  BY DEF IInv, TypeOK, CreateInv, StackInv
<1>12. CountIsExact'
  BY <1>7 DEF IInv, CountIsExact, Pending
<1> QED BY <1>1, <1>2, <1>3, <1>4, <1>5, <1>6, <1>9, <1>10, <1>11, <1>12 DEF IInv

LEMMA Step_orig_pthread_join ==
  ASSUME IInv, NEW j \in Threads, orig_pthread_join(j)
  PROVE  IInv'
<1> USE DEF orig_pthread_join, Runs, Goto, listVars, memVars, walkVars, Ended
<1> USE RegistryAssumption
<1>1. TypeOK'
  BY DEF IInv, TypeOK, PC
<1>2. LockInv'
  BY DEF IInv, TypeOK, LockInv, CreateInv
<1>3. CreateInv'
  BY DEF IInv, TypeOK, CreateInv
<1>4. JoinInv'
  BY DEF IInv, TypeOK, CreateInv, JoinInv, Joins
<1>5. JoinedInv'
  BY DEF IInv, TypeOK, CreateInv, JoinInv, Joins, JoinedInv
<1>6. HeldInv'
  BY DEF IInv, TypeOK, CreateInv, JoinInv, Joins, HeldInv
<1>7. Registered' = Registered /\ Failed' = Failed /\ Pending' = Pending
  BY DEF IInv, TypeOK, CreateInv, Registered, Failed, Pending
<1>8. Staged' = Staged /\ Held' = Held
  BY DEF IInv, TypeOK, CreateInv, JoinInv, Joins, HeldInv, Staged, Held
<1>9. OwnInv' /\ RefInv'
  BY <1>8, SameMemory DEF IInv, TypeOK, CreateInv, Held
<1>10. StagedInv' /\ ListInv' /\ ReuseInv'
  BY <1>7, <1>8, SameLists
<1>11. StackInv'
  BY DEF IInv, TypeOK, CreateInv, StackInv
<1>12. CountIsExact'
  BY <1>7 DEF IInv, CountIsExact, Pending
<1> QED BY <1>1, <1>2, <1>3, <1>4, <1>5, <1>6, <1>9, <1>10, <1>11, <1>12 DEF IInv

LEMMA Step_thread_data_cleanup ==
  ASSUME IInv, NEW j \in Threads, thread_data_cleanup(j)
  PROVE  IInv'
<1> USE DEF thread_data_cleanup, Runs, Goto, listVars, memVars, walkVars, Unstaged
<1> USE RegistryAssumption
<1>0. /\ peer[j] \in Staged /\ peer[j] \in Held /\ td[peer[j]] \in Pages
      /\ td[peer[j]] \in Reach(staged) /\ ref_count[td[peer[j]]] = 0
  <2>1. peer[j] \in Staged /\ pc[peer[j]] = "gone"
    BY DEF IInv, JoinInv, Joins, Staged
  <2> QED BY <2>1, Holders DEF IInv, StagedInv, Metadata, RefInv
<1>1. TypeOK'
  BY <1>0 DEF IInv, TypeOK, PC
<1>2. LockInv'
  BY DEF IInv, TypeOK, LockInv, CreateInv
<1>3. CreateInv'
  BY DEF IInv, TypeOK, CreateInv
<1>4. JoinInv'
  BY DEF IInv, TypeOK, CreateInv, JoinInv, Joins
<1>5. JoinedInv'
  BY DEF IInv, TypeOK, CreateInv, JoinInv, Joins, JoinedInv
<1>6. HeldInv'
  BY DEF IInv, TypeOK, CreateInv, JoinInv, Joins, HeldInv
<1>7. Registered' = Registered /\ Failed' = Failed /\ Pending' = Pending
  BY DEF IInv, TypeOK, CreateInv, Registered, Failed, Pending
<1>8. Staged' = Staged \ {peer[j]} /\ Held' = Held
  <2>1. pc' = [pc EXCEPT ![j] = "free"]
    BY <1>0 DEF IInv, TypeOK
  <2>2. joined[peer[j]]
        /\ \A k \in Threads : pc[k] \in {"join", "cleanup"} /\ peer[k] = peer[j] => k = j
    BY DEF IInv, TypeOK, JoinInv, Joins
  <2> QED BY <1>0, <2>1, <2>2 DEF IInv, TypeOK, Staged, Held
<1>9. OwnInv' /\ RefInv'
  BY <1>8, SameMemory DEF IInv, TypeOK, CreateInv, Held
<1>10. StagedInv' /\ ListInv' /\ ReuseInv'
  <2>1. PICK x : x = td[peer[j]]
    OBVIOUS
  <2>2. /\ staged' = (IF staged = x THEN next[x] ELSE staged)
        /\ x \in Reachable(Pages, next, staged)
        /\ \A p \in Pages :
               next'[p] = IF p \in Reachable(Pages, next, staged) /\ next[p] = x
                          THEN next[x] ELSE next[p]
    BY <1>0, <2>1 DEF Reach
  <2>3. Reachable(Pages, next', staged') = Reachable(Pages, next, staged) \ {x}
        /\ IsList(Pages, next', staged')
    <3>1. IsList(Pages, next, staged)
      BY DEF IInv, StagedInv
    <3> QED BY ONLY <2>2, <3>1, Unlinks
  <2>4. StagedInv'
    <3>1. \A u \in Staged : td[u] = x => u = peer[j]
      BY <1>0, <2>1, Holders DEF IInv, OwnInv
    <3>2. Metadata(Staged)' = Metadata(Staged) \ {x}
      BY <1>8, <2>1, <3>1 DEF Metadata
    <3> QED BY <2>3, <3>2 DEF IInv, StagedInv, Reach
  <2>5. ListInv'
    <3> SUFFICES ASSUME ~reused
                 PROVE  ListInv'
      BY DEF ListInv
    <3>1. \A y \in Reach(head) : next'[y] = next[y]
      BY <2>2, Disjoint, ReachedAreNodes DEF Reach
    <3>2. Reachable(Pages, next', head) = Reach(head) /\ IsList(Pages, next', head)
      <4> HIDE DEF thread_data_cleanup, Unstaged
      <4> QED BY <3>1, ReachesSame, ListSame DEF Reach, IInv, ListInv
    <3>3. Metadata(Registered \cup Failed)' = Metadata(Registered \cup Failed)
      BY <1>7 DEF Metadata
    <3> QED BY <1>7, <3>2, <3>3 DEF IInv, ListInv, Reach
  <2> QED BY <1>7, <2>4, <2>5 DEF IInv, ReuseInv
<1>11. StackInv'
  BY DEF IInv, TypeOK, CreateInv, StackInv
<1>12. CountIsExact'
  BY <1>7 DEF IInv, CountIsExact, Pending
<1> QED BY <1>1, <1>2, <1>3, <1>4, <1>5, <1>6, <1>9, <1>10, <1>11, <1>12 DEF IInv

LEMMA Step_thread_data_free ==
  ASSUME IInv, NEW j \in Threads, thread_data_free(j)
  PROVE  IInv'
<1> USE DEF thread_data_free, Runs, Goto, listVars, memVars, walkVars, util_thread_data_free
<1> USE RegistryAssumption
<1>0. peer[j] \in Held /\ pc[peer[j]] = "gone" /\ joined[peer[j]]
  BY DEF IInv, JoinInv, Joins, HeldInv, Held
<1>1. TypeOK'
  BY <1>0 DEF IInv, TypeOK, PC
<1>2. LockInv'
  BY DEF IInv, TypeOK, LockInv, CreateInv
<1>3. CreateInv'
  BY DEF IInv, TypeOK, CreateInv
<1>4. JoinInv'
  BY DEF IInv, TypeOK, CreateInv, JoinInv, Joins
<1>5. JoinedInv'
  BY DEF IInv, TypeOK, CreateInv, JoinInv, Joins, JoinedInv
<1>6. HeldInv'
  BY <1>0 DEF IInv, TypeOK, CreateInv, JoinInv, Joins, HeldInv
<1>7. Registered' = Registered /\ Failed' = Failed /\ Pending' = Pending
  BY DEF IInv, TypeOK, CreateInv, Registered, Failed, Pending
<1>8. Staged' = Staged /\ Held' = Held \ {peer[j]} /\ peer[j] \notin Staged
  BY <1>0 DEF IInv, TypeOK, CreateInv, JoinInv, Joins, HeldInv, Staged, Held
<1>9. OwnInv' /\ RefInv'
  <2>1. \A u \in Held' : /\ td'[u] = td[u] /\ td[u] # td[peer[j]] /\ td[u] \in Pages
                         /\ u # j => pc'[u] = pc[u]
    BY <1>0, <1>8, Holders DEF IInv, TypeOK, OwnInv, Held
  <2>2. \A y \in Pages : y # td[peer[j]] => mapped'[y] = mapped[y]
    BY DEF IInv, TypeOK
  <2>3. OwnInv'
    BY <1>8, <2>1, <2>2 DEF IInv, OwnInv
  <2> QED BY <1>8, <2>1, <2>3 DEF IInv, TypeOK, RefInv, Held
<1>10. StagedInv' /\ ListInv' /\ ReuseInv'
  <2>1. \A u \in Threads : u # peer[j] => td'[u] = td[u]
    BY DEF IInv, TypeOK
  <2>2. peer[j] \notin Registered \cup Failed
    BY <1>0 DEF IInv, CreateInv, Registered, Failed
  <2>3. Metadata(Staged)' = Metadata(Staged)
        /\ Metadata(Registered \cup Failed)' = Metadata(Registered \cup Failed)
    BY <1>7, <1>8, <2>1, <2>2 DEF Metadata, Staged, Registered, Failed
  <2>4. StagedInv'
    BY <2>3 DEF IInv, StagedInv, Reach
  <2>5. \A u \in Failed : td[u] \in Pages /\ td'[u] = td[u]
    BY <2>1, <2>2 DEF IInv, TypeOK, HeldInv, Failed
  <2>6. \A y \in Pages : ~mapped[y] => ~mapped'[y]
    BY DEF IInv, TypeOK
  <2>7. ListInv'
    BY <1>7, <2>3, <2>5, <2>6 DEF IInv, ListInv, Reach
  <2> QED BY <1>7, <2>4, <2>7 DEF IInv, ReuseInv
<1>11. StackInv'
  BY <1>0 DEF IInv, TypeOK, CreateInv, StackInv
<1>12. CountIsExact'
  BY <1>7 DEF IInv, CountIsExact, Pending
<1> QED BY <1>1, <1>2, <1>3, <1>4, <1>5, <1>6, <1>9, <1>10, <1>11, <1>12 DEF IInv

LEMMA Step_walk_lock ==
  ASSUME IInv, NEW w \in Threads, walk_lock(w)
  PROVE  IInv'
<1> USE DEF walk_lock, Runs, Goto, listVars, memVars, walkVars
<1> USE RegistryAssumption
<1>1. TypeOK'
  BY DEF IInv, TypeOK, PC
<1>2. LockInv'
  BY DEF IInv, TypeOK, LockInv, CreateInv
<1>3. CreateInv'
  BY DEF IInv, TypeOK, CreateInv
<1>4. JoinInv'
  BY DEF IInv, TypeOK, CreateInv, JoinInv, Joins
<1>5. JoinedInv'
  BY DEF IInv, TypeOK, CreateInv, JoinInv, Joins, JoinedInv
<1>6. HeldInv'
  BY DEF IInv, TypeOK, CreateInv, JoinInv, Joins, HeldInv
<1>7. Registered' = Registered /\ Failed' = Failed /\ Pending' = Pending
  BY DEF IInv, TypeOK, CreateInv, Registered, Failed, Pending
<1>8. Staged' = Staged /\ Held' = Held
  BY DEF IInv, TypeOK, CreateInv, JoinInv, Joins, HeldInv, Staged, Held
<1>9. OwnInv' /\ RefInv'
  BY <1>8, SameMemory DEF IInv, TypeOK, CreateInv, Held
<1>10. StagedInv' /\ ListInv' /\ ReuseInv'
  <2>1. head # NULL => head \in Reach(head)
    BY ReachesStart DEF IInv, TypeOK, Reach
  <2>2. Reach(head)' = Reach(head) /\ Reach(staged)' = Reach(staged)
    BY DEF Reach
  <2> QED BY <1>7, <1>8, <2>1, <2>2
       DEF IInv, TypeOK, StagedInv, ListInv, ReuseInv, Metadata
<1>11. StackInv'
  BY DEF IInv, TypeOK, CreateInv, StackInv
<1>12. CountIsExact'
  BY <1>7 DEF IInv, CountIsExact, Pending
<1> QED BY <1>1, <1>2, <1>3, <1>4, <1>5, <1>6, <1>9, <1>10, <1>11, <1>12 DEF IInv

LEMMA Step_walk_next ==
  ASSUME IInv, NEW w \in Threads, walk_next(w)
  PROVE  IInv'
<1> USE DEF walk_next, Runs, Goto, listVars, memVars, walkVars, Mapped
<1> USE RegistryAssumption
<1>1. TypeOK'
  BY DEF IInv, TypeOK, PC
<1>2. LockInv'
  BY DEF IInv, TypeOK, LockInv, CreateInv
<1>3. CreateInv'
  BY DEF IInv, TypeOK, CreateInv
<1>4. JoinInv'
  BY DEF IInv, TypeOK, CreateInv, JoinInv, Joins
<1>5. JoinedInv'
  BY DEF IInv, TypeOK, CreateInv, JoinInv, Joins, JoinedInv
<1>6. HeldInv'
  BY DEF IInv, TypeOK, CreateInv, JoinInv, Joins, HeldInv
<1>7. Registered' = Registered /\ Failed' = Failed /\ Pending' = Pending
  BY DEF IInv, TypeOK, CreateInv, Registered, Failed, Pending
<1>8. Staged' = Staged /\ Held' = Held
  BY DEF IInv, TypeOK, CreateInv, JoinInv, Joins, HeldInv, Staged, Held
<1>9. OwnInv' /\ RefInv'
  BY <1>8, SameMemory DEF IInv, TypeOK, CreateInv, Held
<1>10. StagedInv' /\ ListInv' /\ ReuseInv'
  <2>1. CASE cursor \notin Mapped
    BY <1>7, <1>8, <2>1, SameLists
  <2>2. CASE cursor \in Mapped
    <3>1. cursor' = next[cursor]
      BY <2>2
    <3>2. ~reused /\ next[cursor] # NULL => next[cursor] \in Reach(head)
      BY <2>2, ReachesNext DEF IInv, TypeOK, ListInv, Reach
    <3>3. Reach(head)' = Reach(head) /\ Reach(staged)' = Reach(staged)
      BY DEF Reach
    <3> QED BY <1>7, <1>8, <3>1, <3>2, <3>3
         DEF IInv, StagedInv, ListInv, ReuseInv, Metadata
  <2> QED BY <2>1, <2>2
<1>11. StackInv'
  BY DEF IInv, TypeOK, CreateInv, StackInv
<1>12. CountIsExact'
  BY <1>7 DEF IInv, CountIsExact, Pending
<1> QED BY <1>1, <1>2, <1>3, <1>4, <1>5, <1>6, <1>9, <1>10, <1>11, <1>12 DEF IInv

LEMMA Step_walk_unlock ==
  ASSUME IInv, NEW w \in Threads, walk_unlock(w)
  PROVE  IInv'
<1> USE DEF walk_unlock, Runs, Goto, listVars, memVars, walkVars
<1> USE RegistryAssumption
<1>1. TypeOK'
  BY DEF IInv, TypeOK, PC
<1>2. LockInv'
  BY DEF IInv, TypeOK, LockInv, CreateInv
<1>3. CreateInv'
  BY DEF IInv, TypeOK, CreateInv
<1>4. JoinInv'
  BY DEF IInv, TypeOK, CreateInv, JoinInv, Joins
<1>5. JoinedInv'
  BY DEF IInv, TypeOK, CreateInv, JoinInv, Joins, JoinedInv
<1>6. HeldInv'
  BY DEF IInv, TypeOK, CreateInv, JoinInv, Joins, HeldInv
<1>7. Registered' = Registered /\ Failed' = Failed /\ Pending' = Pending
  BY DEF IInv, TypeOK, CreateInv, Registered, Failed, Pending
<1>8. Staged' = Staged /\ Held' = Held
  BY DEF IInv, TypeOK, CreateInv, JoinInv, Joins, HeldInv, Staged, Held
<1>9. OwnInv' /\ RefInv'
  BY <1>8, SameMemory DEF IInv, TypeOK, CreateInv, Held
<1>10. StagedInv' /\ ListInv' /\ ReuseInv'
  BY <1>7, <1>8, SameLists
<1>11. StackInv'
  BY DEF IInv, TypeOK, CreateInv, StackInv
<1>12. CountIsExact'
  BY <1>7 DEF IInv, CountIsExact, Pending
<1> QED BY <1>1, <1>2, <1>3, <1>4, <1>5, <1>6, <1>9, <1>10, <1>11, <1>12 DEF IInv

LEMMA Inductive == IInv /\ [Next]_vars => IInv'
<1> SUFFICES ASSUME IInv, [Next]_vars
             PROVE  IInv'
  OBVIOUS
<1>1. CASE \E c \in Threads : Create(c)
  BY <1>1, Step_create_count, Step_thread_data_new, Step_thread_list_add,
     Step_orig_pthread_create, Step_create_failed DEF Create
<1>2. CASE \E t \in Threads : Exit(t)
  BY <1>2, Step_thread_cleanup, Step_thread_list_remove, Step_thread_list_unlink,
     Step_thread_data_decr_ref, Step_exit_uncount, Step_orig_pthread_exit DEF Exit
<1>3. CASE \E j \in Threads : Join(j)
  BY <1>3, Step_pthread_join, Step_orig_pthread_join, Step_thread_data_cleanup,
     Step_thread_data_free DEF Join
<1>4. CASE \E w \in Threads : Walk(w)
  BY <1>4, Step_walk_lock, Step_walk_next, Step_walk_unlock DEF Walk
<1>5. CASE UNCHANGED vars
  BY <1>5 DEF vars, listVars, memVars, walkVars, IInv, TypeOK, LockInv, CreateInv, JoinInv,
     Joins, JoinedInv, HeldInv, OwnInv, Held, RefInv, StagedInv, Staged, ListInv, ReuseInv,
     StackInv, CountIsExact, Registered, Failed, Reach, Metadata
<1> QED BY <1>1, <1>2, <1>3, <1>4, <1>5 DEF Next, Halted

LEMMA Starts == Init => IInv
<1> SUFFICES ASSUME Init
             PROVE  IInv
  OBVIOUS
<1> USE RegistryAssumption DEF Init
<1>1. TypeOK
  BY DEF TypeOK, PC
<1>2. LockInv /\ CreateInv /\ JoinInv /\ JoinedInv /\ HeldInv /\ ReuseInv /\ StackInv
  BY DEF LockInv, CreateInv, JoinInv, Joins, JoinedInv, HeldInv, ReuseInv, StackInv
<1>3. Held = {Main} /\ Registered = {Main} /\ Failed = {} /\ Pending = {} /\ Staged = {}
  BY DEF Held, Registered, Failed, Pending, Staged
<1>4. OwnInv /\ RefInv
  BY <1>3 DEF OwnInv, RefInv
<1>5. Reach(staged) = {}
  BY ReachesNothing DEF Reach
<1>6. Reach(head) = {head}
  <2>1. PICK S : S = {head}
    OBVIOUS
  <2>2. Reach(head) \subseteq S
    BY <2>1, ReachesLeast DEF Reach
  <2>3. head \in Reach(head)
    BY ReachesStart DEF Reach
  <2> QED BY <2>1, <2>2, <2>3
<1>7. StagedInv
  BY <1>3, <1>5 DEF StagedInv, Metadata, IsList, Reach
<1>8. ListInv
  <2>1. IsList(Pages, next, head)
    BY <1>6 DEF IsList, Reach
  <2>2. Metadata(Registered \cup Failed) = {head}
    BY <1>3 DEF Metadata
  <2> QED BY <1>3, <1>6, <2>1, <2>2 DEF ListInv
<1>9. CountIsExact
  <2>1. Cardinality({}) = 0 /\ Cardinality({Main}) = 1
    BY FS_EmptySet, FS_Singleton
  <2> QED BY <1>3, <2>1, CountForm
<1> QED BY <1>1, <1>2, <1>4, <1>7, <1>8, <1>9 DEF IInv

LEMMA Invariant == Spec => []IInv
BY Starts, Inductive, PTL DEF Spec

-----------------------------------------------------------------------------
(* The theorems.                                                            *)

\* Every variable keeps its type; the count of threads never drops below 0.
THEOREM TypeCorrect == Spec => []TypeOK
BY Invariant, PTL DEF IInv

(***************************************************************************)
(* A walk over the thread list misses no registered thread and meets       *)
(* nothing but these and what failed creations left: linking in, unlinking *)
(* and staging, all through the one field td->next, never mix the lists.   *)
(* This can end in one way only: a page that a failed creation left there  *)
(* is mapped for another thread's metadata.                                *)
(***************************************************************************)
THEOREM ThreadListIsExact == Spec => []ListIsExact
<1>1. IInv => ListIsExact
  BY Disjoint DEF IInv, ListInv, ReuseInv, ListIsExact
<1> QED BY <1>1, Invariant, PTL

(***************************************************************************)
(* threadscan_util_thread_data_free unmaps no metadata of a created thread *)
(* that the staged list leads to, nor, until a listed page is mapped       *)
(* again, any that the thread list or a walk in progress leads to.         *)
(***************************************************************************)
THEOREM MetadataIsMapped == Spec => []ListedAreMapped
<1>1. IInv => ListedAreMapped
  <2> SUFFICES ASSUME IInv
               PROVE  ListedAreMapped
    OBVIOUS
  <2>1. \A x \in Metadata(Registered) \cup Metadata(Staged) : mapped[x]
    BY Holders DEF IInv, OwnInv, Metadata
  <2>2. Metadata(Registered \cup Failed) = Metadata(Registered) \cup Metadata(Failed)
    BY DEF Metadata
  <2> QED BY <2>1, <2>2 DEF IInv, StagedInv, ListInv, ListedAreMapped
<1> QED BY <1>1, Invariant, PTL

(***************************************************************************)
(* threadscan_util_thread_data_cleanup, called by pthread_join, always     *)
(* finds the metadata on the staged list, with no reference left, and      *)
(* takes it off before it is freed.  A removal from a damaged thread list  *)
(* may walk into the staged list, but finds nothing there to unlink.       *)
(***************************************************************************)
THEOREM JoinAlwaysFindsStaged == Spec => []JoinFindsStaged
<1>1. IInv => JoinFindsStaged
  <2> SUFFICES ASSUME IInv, NEW j \in Threads, pc[j] \in {"cleanup", "free"}
               PROVE  /\ pc[j] = "cleanup" => /\ td[peer[j]] \in Reach(staged)
                                              /\ ref_count[td[peer[j]]] = 0
                      /\ pc[j] = "free" => /\ mapped[td[peer[j]]]
                                           /\ td[peer[j]] \notin Reach(staged)
    BY DEF JoinFindsStaged
  <2>1. peer[j] \in Held /\ pc[peer[j]] = "gone"
    BY DEF IInv, JoinInv, Joins, HeldInv, Held
  <2>2. pc[j] = "cleanup" => peer[j] \in Staged
    BY DEF IInv, JoinInv, Joins, Staged
  <2>3. pc[j] = "free" => peer[j] \notin Staged
    BY DEF IInv, JoinInv, Joins, Staged
  <2> QED BY <2>1, <2>2, <2>3, Apart DEF IInv, OwnInv, RefInv, StagedInv, Metadata
<1> QED BY <1>1, Invariant, PTL

(***************************************************************************)
(* pthread_join and the error path of pthread_create unmap no stack and no *)
(* metadata in use, and no thread is given metadata that is in use.        *)
(***************************************************************************)
THEOREM StacksOutliveThreads == Spec => []StackOutlivesThread
<1>1. IInv => StackOutlivesThread
  <2> SUFFICES ASSUME IInv, NEW t \in Threads \ {Main},
                      pc[t] \notin {"unborn", "failed", "gone"}
               PROVE  /\ stack[t] /\ mapped[td[t]]
                      /\ \A u \in Threads \ (Failed \cup {t}) : td[u] # td[t]
    BY DEF StackOutlivesThread
  <2>1. t \in Held
    BY DEF IInv, HeldInv, Held
  <2>2. \A u \in Threads \ Failed : td[u] = td[t] => u \in Held
    BY <2>1 DEF Held, Failed
  <2> QED BY <2>1, <2>2 DEF IInv, StackInv, OwnInv
<1> QED BY <1>1, Invariant, PTL

(***************************************************************************)
(* Increments and decrements of g_thread_count balance, except that a      *)
(* failed creation keeps its count for good.                               *)
(***************************************************************************)
THEOREM ThreadCountIsExact == Spec => []CountIsExact
BY Invariant, PTL DEF IInv

=============================================================================
