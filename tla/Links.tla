------------------------------- MODULE Links --------------------------------
(***************************************************************************)
(* Lists linked through a field of their nodes.  N is the set of nodes, f  *)
(* the field, and whatever is not a node (NULL) ends a list.               *)
(***************************************************************************)

\* The nodes that a walk from x meets: the least set that has x and is closed.
Reachable(N, f, x) ==
    LET Having == {S \cup ({x} \cap N) : S \in SUBSET (N \ {x})}
        Closed == {S \in Having : \A y \in S : f[y] \in N => f[y] \in S}
    IN {y \in N : \A S \in Closed : y \in S}

(***************************************************************************)
(* The walk from h passes every node once: no two of its nodes have the    *)
(* same successor, and none leads back to h.                               *)
(***************************************************************************)
IsList(N, f, h) ==
    /\ \A p, q \in Reachable(N, f, h) : f[p] = f[q] /\ f[p] \in N => p = q
    /\ \A p \in Reachable(N, f, h) : f[p] # h

\* The walk from h is circular, and g leads back along it.
IsRing(N, f, g, h) ==
    \A p \in Reachable(N, f, h) :
        /\ f[p] \in Reachable(N, f, h) /\ g[p] \in Reachable(N, f, h)
        /\ g[f[p]] = p /\ f[g[p]] = p

=============================================================================
