------------------------------- MODULE AddrSet -------------------------------
(***************************************************************************)
(* What the stack of stored blocks promises: the addresses that rounds     *)
(* leave over are one set, to which a reclaimer adds all of its own in one *)
(* step and from which the next takes all in one step.  ThreadScan uses    *)
(* the storage like this.                                                  *)
(***************************************************************************)
CONSTANTS Reclaimers, Addrs

VARIABLES
    stored,      \* left over, in nobody's hands
    held,        \* the addresses on a reclaimer's working list
    untracked    \* addresses that the application may collect

vars == <<stored, held, untracked>>

Init ==
    /\ stored = {} /\ untracked = Addrs
    /\ held = [t \in Reclaimers |-> {}]

Take(t) ==
    /\ held' = [held EXCEPT ![t] = stored]
    /\ held[t] = {} /\ stored' = {}
    /\ UNCHANGED untracked

Gather(t) ==
    \E S \in SUBSET untracked :
        /\ held' = [held EXCEPT ![t] = @ \cup S]
        /\ untracked' = untracked \ S
        /\ UNCHANGED stored

Free(t) ==
    \E S \in SUBSET held[t] :
        /\ held' = [held EXCEPT ![t] = @ \ S]
        /\ untracked' = untracked \cup S
        /\ UNCHANGED stored

Put(t) ==
    /\ stored' = stored \cup held[t]
    /\ held' = [held EXCEPT ![t] = {}]
    /\ UNCHANGED untracked

Next == \E t \in Reclaimers : Take(t) \/ Gather(t) \/ Free(t) \/ Put(t)

Spec == Init /\ [][Next]_vars

=============================================================================
