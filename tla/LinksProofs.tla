---------------------------- MODULE LinksProofs -----------------------------
(***************************************************************************)
(* What linking a node in and unlinking one do to the nodes of a list, for *)
(* any set of nodes.  That the set of nodes reached is the least closed    *)
(* one takes the place of induction along the list.                        *)
(***************************************************************************)
EXTENDS Links, Integers, WellFoundedInduction, TLAPS

LEMMA ReachedAreNodes ==
  ASSUME NEW N, NEW f, NEW x
  PROVE  Reachable(N, f, x) \subseteq N
BY DEF Reachable

LEMMA ReachesStart ==
  ASSUME NEW N, NEW f, NEW x \in N
  PROVE  x \in Reachable(N, f, x)
BY DEF Reachable

LEMMA ReachesNext ==
  ASSUME NEW N, NEW f, NEW x, NEW y \in Reachable(N, f, x), f[y] \in N
  PROVE  f[y] \in Reachable(N, f, x)
BY DEF Reachable

\* The principle by which the others are proved.
LEMMA ReachesLeast ==
  ASSUME NEW N, NEW f, NEW x, NEW S, S \subseteq N, x \in N => x \in S,
         \A y \in S : f[y] \in N => f[y] \in S
  PROVE  Reachable(N, f, x) \subseteq S
<1>1. S \ {x} \in SUBSET (N \ {x}) /\ S = (S \ {x}) \cup ({x} \cap N)
  OBVIOUS
<1>2. S \in {T \cup ({x} \cap N) : T \in SUBSET (N \ {x})}
  BY <1>1
<1> QED BY <1>2 DEF Reachable

LEMMA ReachesNothing ==
  ASSUME NEW N, NEW f, NEW x, x \notin N
  PROVE  Reachable(N, f, x) = {}
<1>1. PICK S : S = {}
  OBVIOUS
<1>2. Reachable(N, f, x) \subseteq S
  BY <1>1, ReachesLeast
<1> QED BY <1>1, <1>2

\* Nodes that are not on the list may be relinked.
LEMMA ReachesSame ==
  ASSUME NEW N, NEW f, NEW g, NEW x, \A y \in Reachable(N, f, x) : g[y] = f[y]
  PROVE  Reachable(N, g, x) = Reachable(N, f, x)
<1> DEFINE R == Reachable(N, f, x)
           Q == Reachable(N, g, x)
<1>1. R \subseteq N /\ Q \subseteq N /\ (x \in N => x \in R /\ x \in Q)
  BY ReachedAreNodes, ReachesStart
<1>2. \A y \in R : f[y] \in N => f[y] \in R
  BY ReachesNext
<1>3. \A y \in Q : g[y] \in N => g[y] \in Q
  BY ReachesNext
<1>4. Q \subseteq R
  <2>1. \A y \in R : g[y] \in N => g[y] \in R
    BY <1>2
  <2> HIDE DEF R
  <2> QED BY <1>1, <2>1, ReachesLeast
<1>5. R \subseteq Q
  <2> DEFINE S == R \cap Q
  <2>1. S \subseteq N /\ (x \in N => x \in S) /\ \A y \in S : f[y] \in N => f[y] \in S
    BY <1>1, <1>2, <1>3
  <2> HIDE DEF S
  <2>2. R \subseteq S
    BY <2>1, ReachesLeast
  <2> QED BY <2>2 DEF S
<1> QED BY <1>4, <1>5

\* What is reached from a node that is reached.
LEMMA ReachesOn ==
  ASSUME NEW N, NEW f, NEW x, NEW y \in Reachable(N, f, x)
  PROVE  Reachable(N, f, y) \subseteq Reachable(N, f, x)
BY ReachedAreNodes, ReachesNext, ReachesLeast

LEMMA ListSame ==
  ASSUME NEW N, NEW f, NEW g, NEW h, IsList(N, f, h),
         \A y \in Reachable(N, f, h) : g[y] = f[y]
  PROVE  IsList(N, g, h)
BY ReachesSame DEF IsList

\* A node that is not on the list is put in front of it.
LEMMA PushedOn ==
  ASSUME NEW N, NEW f, NEW g, NEW h, NEW x \in N, x \notin Reachable(N, f, h),
         IsList(N, f, h), g[x] = h, \A y \in N \ {x} : g[y] = f[y]
  PROVE  Reachable(N, g, x) = Reachable(N, f, h) \cup {x} /\ IsList(N, g, x)
<1> DEFINE R == Reachable(N, f, h)
           Q == Reachable(N, g, x)
<1>1. R \subseteq N /\ (h \in N => h \in R) /\ \A y \in R : f[y] \in N => f[y] \in R
  BY ReachedAreNodes, ReachesStart, ReachesNext
<1>2. Q \subseteq N /\ x \in Q /\ \A y \in Q : g[y] \in N => g[y] \in Q
  BY ReachedAreNodes, ReachesStart, ReachesNext
<1>3. \A y \in R : g[y] = f[y] /\ y # x
  BY <1>1
<1>4. Q \subseteq R \cup {x}
  <2> DEFINE S == R \cup {x}
  <2>1. S \subseteq N /\ x \in S /\ \A y \in S : g[y] \in N => g[y] \in S
    BY <1>1, <1>3
  <2> HIDE DEF S
  <2>2. Q \subseteq S
    BY <2>1, ReachesLeast
  <2> QED BY <2>2 DEF S
<1>5. R \subseteq Q
  <2> DEFINE S == R \cap Q
  <2>1. S \subseteq N /\ (h \in N => h \in S) /\ \A y \in S : f[y] \in N => f[y] \in S
    BY <1>1, <1>2, <1>3
  <2> HIDE DEF S
  <2>2. R \subseteq S
    BY <2>1, ReachesLeast
  <2> QED BY <2>2 DEF S
<1>6. Q = R \cup {x}
  BY <1>2, <1>4, <1>5
<1>7. \A p, q \in Q : g[p] = g[q] /\ g[p] \in N => p = q
  BY <1>1, <1>3, <1>6 DEF IsList
<1>8. \A p \in Q : g[p] # x
  BY <1>1, <1>3, <1>6
<1> QED BY <1>6, <1>7, <1>8 DEF IsList

(***************************************************************************)
(* A node of the list is unlinked: its predecessor, or else the start of   *)
(* the list, gets its successor.  Nothing else leaves the list.            *)
(***************************************************************************)
LEMMA Unlinks ==
  ASSUME NEW N, NEW f, NEW g, NEW h, NEW k, NEW x \in Reachable(N, f, h),
         IsList(N, f, h), k = IF h = x THEN f[x] ELSE h,
         \A p \in N : g[p] = IF p \in Reachable(N, f, h) /\ f[p] = x
                             THEN f[x] ELSE f[p]
  PROVE  Reachable(N, g, k) = Reachable(N, f, h) \ {x} /\ IsList(N, g, k)
<1> DEFINE R == Reachable(N, f, h)
           Q == Reachable(N, g, k)
<1>1. R \subseteq N /\ (h \in N => h \in R) /\ \A y \in R : f[y] \in N => f[y] \in R
  BY ReachedAreNodes, ReachesStart, ReachesNext
<1>2. Q \subseteq N /\ (k \in N => k \in Q) /\ \A y \in Q : g[y] \in N => g[y] \in Q
  BY ReachedAreNodes, ReachesStart, ReachesNext
<1>3. h \in N
  <2>1. h \notin N => R = {}
    BY ReachesNothing
  <2> QED BY <2>1
<1>4. f[x] # x
  <2> SUFFICES ASSUME f[x] = x PROVE FALSE
    OBVIOUS
  <2>1. x # h
    BY DEF IsList
  <2> DEFINE S == R \ {x}
  <2>2. \A y \in S : f[y] # x
    BY <1>1 DEF IsList
  <2>3. S \subseteq N /\ h \in S /\ \A y \in S : f[y] \in N => f[y] \in S
    BY <1>1, <1>3, <2>1, <2>2
  <2> HIDE DEF S
  <2>4. R \subseteq S
    BY <2>3, ReachesLeast
  <2> QED BY <2>4 DEF S
<1>5. \A y \in R : g[y] = IF f[y] = x THEN f[x] ELSE f[y]
  BY <1>1
<1>6. Q \subseteq R \ {x}
  <2> DEFINE S == R \ {x}
  <2>1. S \subseteq N /\ (k \in N => k \in S) /\ \A y \in S : g[y] \in N => g[y] \in S
    BY <1>1, <1>3, <1>4, <1>5
  <2> HIDE DEF S
  <2>2. Q \subseteq S
    BY <2>1, ReachesLeast
  <2> QED BY <2>2 DEF S
<1>7. R \subseteq Q \cup {x}
  <2>1. CASE h = x \/ \E p \in Q \cap R : f[p] = x
    <3> DEFINE S == (Q \cap R) \cup {x}
    <3>1. f[x] \in N => f[x] \in Q \cap R
      BY <1>1, <1>2, <1>5, <2>1
    <3>2. S \subseteq N /\ h \in S
      BY <1>1, <1>2, <1>3
    <3>3. \A y \in S : f[y] \in N => f[y] \in S
      BY <1>1, <1>2, <1>5, <3>1
    <3> HIDE DEF S
    <3>4. R \subseteq S
      BY <3>2, <3>3, ReachesLeast
    <3> QED BY <3>4 DEF S
  <2>2. CASE h # x /\ \A p \in Q \cap R : f[p] # x
    <3> DEFINE S == Q \cap R
    <3>1. S \subseteq N /\ h \in S /\ \A y \in S : f[y] \in N => f[y] \in S
      BY <1>1, <1>2, <1>3, <1>5, <2>2
    <3> HIDE DEF S
    <3>2. R \subseteq S
      BY <3>1, ReachesLeast
    <3> QED BY <3>2 DEF S
  <2> QED BY <2>1, <2>2
<1>8. Q = R \ {x}
  BY <1>6, <1>7
<1>9. \A p, q \in Q : g[p] = g[q] /\ g[p] \in N => p = q
  BY <1>1, <1>5, <1>8 DEF IsList
<1>10. \A p \in Q : g[p] # k
  <2>1. CASE k \notin N
    <3>1. Q = {}
      BY <2>1, ReachesNothing
    <3> QED BY <3>1
  <2>2. CASE h = x /\ f[x] \in N
    <3>1. \A p \in Q : g[p] = f[p] /\ p # x /\ p \in R
      BY <1>1, <1>5, <1>8, <2>2 DEF IsList
    <3>2. \A p \in R : f[p] = f[x] => p = x
      BY <2>2 DEF IsList
    <3> QED BY <2>2, <3>1, <3>2
  <2>3. CASE h # x
    <3>1. \A p \in R : f[p] # h
      BY DEF IsList
    <3>2. \A p \in Q : g[p] \in {f[p], f[x]} /\ p \in R
      BY <1>1, <1>5, <1>8
    <3> QED BY <2>3, <3>1, <3>2
  <2> QED BY <2>1, <2>2, <2>3
<1> QED BY <1>8, <1>9, <1>10 DEF IsList

\* The list without its first node.
LEMMA Pops ==
  ASSUME NEW N, NEW f, NEW x \in N, IsList(N, f, x)
  PROVE  Reachable(N, f, f[x]) = Reachable(N, f, x) \ {x} /\ IsList(N, f, f[x])
<1>1. x \in Reachable(N, f, x)
  BY ReachesStart
<1>2. \A p \in N : f[p] = IF p \in Reachable(N, f, x) /\ f[p] = x THEN f[x] ELSE f[p]
  BY DEF IsList
<1>3. PICK k : k = f[x]
  OBVIOUS
<1>4. k = IF x = x THEN f[x] ELSE x
  BY <1>3
<1>5. Reachable(N, f, k) = Reachable(N, f, x) \ {x} /\ IsList(N, f, k)
  BY ONLY <1>1, <1>2, <1>4, IsList(N, f, x), Unlinks
<1> QED BY <1>3, <1>5

\* Nodes are added to which nothing on the list leads.
LEMMA Widens ==
  ASSUME NEW N, NEW M, N \subseteq M, NEW f, NEW x, x \in M => x \in N,
         \A y \in Reachable(N, f, x) : f[y] \in M => f[y] \in N
  PROVE  Reachable(M, f, x) = Reachable(N, f, x)
<1> DEFINE R == Reachable(N, f, x)
           Q == Reachable(M, f, x)
<1>1. R \subseteq N /\ (x \in N => x \in R) /\ \A y \in R : f[y] \in N => f[y] \in R
  BY ReachedAreNodes, ReachesStart, ReachesNext
<1>2. Q \subseteq M /\ (x \in M => x \in Q) /\ \A y \in Q : f[y] \in M => f[y] \in Q
  BY ReachedAreNodes, ReachesStart, ReachesNext
<1>3. Q \subseteq R
  <2>1. R \subseteq M /\ (x \in M => x \in R) /\ \A y \in R : f[y] \in M => f[y] \in R
    BY <1>1
  <2> HIDE DEF R
  <2> QED BY <2>1, ReachesLeast
<1>4. R \subseteq Q
  <2> DEFINE S == R \cap Q
  <2>1. S \subseteq N /\ (x \in N => x \in S) /\ \A y \in S : f[y] \in N => f[y] \in S
    BY <1>1, <1>2
  <2> HIDE DEF S
  <2>2. R \subseteq S
    BY <2>1, ReachesLeast
  <2> QED BY <2>2 DEF S
<1> QED BY <1>3, <1>4

-----------------------------------------------------------------------------
(* Rings.                                                                   *)

LEMMA RingSame ==
  ASSUME NEW N, NEW f, NEW g, NEW f2, NEW g2, NEW h, IsRing(N, f, g, h),
         \A y \in Reachable(N, f, h) : f2[y] = f[y] /\ g2[y] = g[y]
  PROVE  Reachable(N, f2, h) = Reachable(N, f, h) /\ IsRing(N, f2, g2, h)
<1>1. Reachable(N, f2, h) = Reachable(N, f, h)
  BY ReachesSame
<1> QED BY <1>1 DEF IsRing

LEMMA RingAlone ==
  ASSUME NEW N, NEW f, NEW g, NEW h \in N, f[h] = h, g[h] = h
  PROVE  Reachable(N, f, h) = {h} /\ IsRing(N, f, g, h)
<1>1. PICK S : S = {h}
  OBVIOUS
<1>2. Reachable(N, f, h) \subseteq S
  BY <1>1, ReachesLeast
<1>3. Reachable(N, f, h) = {h}
  BY <1>1, <1>2, ReachesStart
<1> QED BY <1>3 DEF IsRing

\* A node that is not on the ring is linked in before c.
LEMMA RingGrows ==
  ASSUME NEW N, NEW f, NEW g, NEW f2, NEW g2, NEW h \in N, NEW k, IsRing(N, f, g, h),
         NEW c \in Reachable(N, f, h), NEW x \in N, x \notin Reachable(N, f, h),
         f2[x] = c, f2[g[c]] = x, \A y \in N \ {x, g[c]} : f2[y] = f[y],
         g2[x] = g[c], g2[c] = x, \A y \in N \ {x, c} : g2[y] = g[y],
         k = h \/ (k = x /\ c = h)
  PROVE  Reachable(N, f2, k) = Reachable(N, f, h) \cup {x} /\ IsRing(N, f2, g2, k)
<1> DEFINE R == Reachable(N, f, h)
           Q == Reachable(N, f2, k)
<1>1. R \subseteq N /\ h \in R /\ k \in N
  BY ReachedAreNodes, ReachesStart
<1>2. Q \subseteq N /\ k \in Q /\ \A y \in Q : f2[y] \in N => f2[y] \in Q
  BY <1>1, ReachedAreNodes, ReachesStart, ReachesNext
<1>3. \A y \in R : f[y] \in R /\ g[y] \in R /\ g[f[y]] = y /\ f[g[y]] = y
  BY DEF IsRing
<1>4. \A y \in R \ {g[c]} : f2[y] = f[y] /\ f[y] # c
  BY <1>1, <1>3
<1>5. Q \subseteq R \cup {x}
  <2> DEFINE S == R \cup {x}
  <2>1. S \subseteq N /\ k \in S /\ \A y \in S : f2[y] \in N => f2[y] \in S
    BY <1>1, <1>3, <1>4
  <2> HIDE DEF S
  <2>2. Q \subseteq S
    BY <2>1, ReachesLeast
  <2> QED BY <2>2 DEF S
<1>6. x \in Q => c \in Q
  BY <1>1, <1>2
<1>7. R \subseteq Q
  <2> DEFINE S == R \cap Q
  <2>1. h \in S
    BY <1>1, <1>2, <1>6
  <2>2. ASSUME NEW y \in S PROVE f[y] \in S
    <3>1. CASE y = g[c]
      BY <1>1, <1>2, <1>3, <1>6, <3>1
    <3>2. CASE y # g[c]
      BY <1>1, <1>2, <1>3, <1>4, <3>2
    <3> QED BY <3>1, <3>2
  <2>3. S \subseteq N /\ \A y \in S : f[y] \in N => f[y] \in S
    BY <1>1, <2>2
  <2> HIDE DEF S
  <2>4. R \subseteq S
    BY <2>1, <2>3, ReachesLeast
  <2> QED BY <2>4 DEF S
<1>8. x \in Q
  BY <1>1, <1>2, <1>3, <1>7
<1>9. Q = R \cup {x}
  BY <1>5, <1>7, <1>8
<1>10. \A y \in R \ {c} : g2[y] = g[y] /\ g[y] # g[c]
  BY <1>1, <1>3
<1>11. ASSUME NEW p \in Q
       PROVE  f2[p] \in Q /\ g2[p] \in Q /\ g2[f2[p]] = p /\ f2[g2[p]] = p
  <2>1. CASE p = x
    BY <1>3, <1>9, <2>1
  <2>2. CASE p # x
    <3>1. f2[p] \in Q /\ g2[p] \in Q
      BY <1>3, <1>4, <1>9, <1>10, <2>2
    <3>2. g2[f2[p]] = p
      BY <1>3, <1>4, <1>9, <1>10, <2>2
    <3>3. f2[g2[p]] = p
      BY <1>3, <1>4, <1>9, <1>10, <2>2
    <3> QED BY <3>1, <3>2, <3>3
  <2> QED BY <2>1, <2>2
<1> QED BY <1>9, <1>11 DEF IsRing

LEMMA RingOthers ==
  ASSUME NEW N, NEW f, NEW g, NEW h, IsRing(N, f, g, h),
         NEW c \in Reachable(N, f, h), Reachable(N, f, h) # {c}
  PROVE  f[c] # c
<1> DEFINE R == Reachable(N, f, h)
<1> SUFFICES ASSUME f[c] = c PROVE FALSE
  OBVIOUS
<1>1. R \subseteq N /\ h \in R
  <2>1. h \notin N => R = {}
    BY ReachesNothing
  <2> QED BY <2>1, ReachedAreNodes, ReachesStart
<1>2. \A y \in R : f[y] \in R /\ g[f[y]] = y
  BY DEF IsRing
<1> DEFINE S == IF h = c THEN {c} ELSE R \ {c}
<1>3. S \subseteq N /\ h \in S /\ \A y \in S : f[y] \in N => f[y] \in S
  BY <1>1, <1>2
<1>4. S # R /\ S \subseteq R
  BY <1>1
<1> HIDE DEF S
<1>5. R \subseteq S
  BY <1>3, ReachesLeast
<1> QED BY <1>4, <1>5

\* c is unlinked, by links f2 and g2 instead of f and g, and k is the head instead of h.
TakenOut(N, f, g, h, c, f2, g2, k) ==
    /\ f2[g[c]] = f[c] /\ \A y \in N \ {c, g[c]} : f2[y] = f[y]
    /\ g2[f[c]] = g[c] /\ \A y \in N \ {c, f[c]} : g2[y] = g[y]
    /\ IF c = h THEN k = f[c] ELSE k = h

\* A node of a ring that has others is unlinked.
LEMMA RingShrinks ==
  ASSUME NEW N, NEW f, NEW g, NEW f2, NEW g2, NEW h, NEW k, IsRing(N, f, g, h),
         NEW c \in Reachable(N, f, h), Reachable(N, f, h) # {c},
         TakenOut(N, f, g, h, c, f2, g2, k)
  PROVE  Reachable(N, f2, k) = Reachable(N, f, h) \ {c} /\ IsRing(N, f2, g2, k)
<1> USE DEF TakenOut
<1> DEFINE R == Reachable(N, f, h)
           Q == Reachable(N, f2, k)
<1>1. R \subseteq N /\ h \in R
  <2>1. h \notin N => R = {}
    BY ReachesNothing
  <2> QED BY <2>1, ReachedAreNodes, ReachesStart
<1>2. \A y \in R : f[y] \in R /\ g[y] \in R /\ g[f[y]] = y /\ f[g[y]] = y
  BY DEF IsRing
<1>3. f[c] # c
  BY RingOthers
<1>4. g[c] # c /\ g[c] \in R \ {c} /\ f[c] \in R \ {c}
  BY <1>2, <1>3
<1>5. \A y \in R \ {c, g[c]} : f2[y] = f[y] /\ f[y] # c /\ f[y] # f[c]
  BY <1>1, <1>2
<1>6. k \in R \ {c}
  BY <1>1, <1>4
<1>7. Q \subseteq N /\ k \in Q /\ \A y \in Q : f2[y] \in N => f2[y] \in Q
  BY <1>1, <1>6, ReachedAreNodes, ReachesStart, ReachesNext
<1>8. Q \subseteq R \ {c}
  <2> DEFINE S == R \ {c}
  <2>1. S \subseteq N /\ k \in S /\ \A y \in S : f2[y] \in N => f2[y] \in S
    BY <1>1, <1>2, <1>4, <1>5, <1>6
  <2> HIDE DEF S
  <2>2. Q \subseteq S
    BY <2>1, ReachesLeast
  <2> QED BY <2>2 DEF S
<1>9. R \subseteq Q \cup {c}
  <2>1. CASE c = h \/ g[c] \in Q
    <3> DEFINE S == Q \cup {c}
    <3>1. f[c] \in Q
      BY <1>1, <1>4, <1>7, <2>1
    <3>2. S \subseteq N /\ h \in S
      BY <1>1, <1>7
    <3>3. \A y \in S : f[y] \in N => f[y] \in S
      BY <1>2, <1>5, <1>7, <1>8, <3>1
    <3> HIDE DEF S
    <3>4. R \subseteq S
      BY <3>2, <3>3, ReachesLeast
    <3> QED BY <3>4 DEF S
  <2>2. CASE c # h /\ g[c] \notin Q
    <3>1. Q \subseteq N /\ h \in Q /\ \A y \in Q : f[y] \in N => f[y] \in Q
      BY <1>5, <1>7, <1>8, <2>2
    <3> HIDE DEF Q
    <3>2. R \subseteq Q
      BY <3>1, ReachesLeast
    <3> QED BY <3>2
  <2> QED BY <2>1, <2>2
<1>10. Q = R \ {c}
  BY <1>8, <1>9
<1>11. \A y \in R \ {c, f[c]} : g2[y] = g[y] /\ g[y] # c /\ g[y] # g[c]
  BY <1>1, <1>2
<1>12. ASSUME NEW p \in Q
       PROVE  f2[p] \in Q /\ g2[p] \in Q /\ g2[f2[p]] = p /\ f2[g2[p]] = p
  <2>1. f2[p] \in Q /\ g2[p] \in Q
    BY <1>2, <1>4, <1>5, <1>10, <1>11
  <2>2. g2[f2[p]] = p
    BY <1>2, <1>4, <1>5, <1>10, <1>11
  <2>3. f2[g2[p]] = p
    BY <1>2, <1>4, <1>5, <1>10, <1>11
  <2> QED BY <2>1, <2>2, <2>3
<1> QED BY <1>10, <1>12 DEF IsRing

-----------------------------------------------------------------------------
(* A list laid out in an array.                                             *)

LEMMA LeastNumber ==
  ASSUME NEW T, T \subseteq Nat, T # {}
  PROVE  \E m \in T : \A k \in T : m <= k
<1> DEFINE R == {ss \in Nat \X Nat : ss[1] < ss[2]}
<1>1. IsWellFoundedOn(R, Nat)
  BY NatLessThanWellFounded DEF OpToRel
<1> HIDE DEF R
<1>2. PICK m \in T : \A k \in T : ~(<<k, m>> \in R)
  BY <1>1, WFMin
<1>3. ASSUME NEW k \in T PROVE m <= k
  <2>1. <<k, m>> \in Nat \X Nat /\ <<k, m>>[1] = k /\ <<k, m>>[2] = m
    OBVIOUS
  <2>2. k < m => <<k, m>> \in R
    BY <2>1 DEF R
  <2> QED BY <1>2, <2>2
<1> QED BY <1>3

\* Each of the first n elements of array p is linked to the one before it.
LaidOut(N, f, p, n, z, x) ==
    /\ n \in Nat /\ z \notin N
    /\ \A k \in 1..n : /\ <<p, k>> \in N
                       /\ k > 1 => f[<<p, k>>] = <<p, k-1>>
                       /\ k = 1 => f[<<p, k>>] = z
    /\ n > 0 => x = <<p, n>>
    /\ n = 0 => x = z

LEMMA ReachesDown ==
  ASSUME NEW N, NEW f, NEW p, NEW n, NEW z, NEW x, LaidOut(N, f, p, n, z, x)
  PROVE  Reachable(N, f, x) = {<<p, k>> : k \in 1..n} /\ IsList(N, f, x)
<1> USE DEF LaidOut
<1> DEFINE R == Reachable(N, f, x)
           E == {<<p, k>> : k \in 1..n}
<1>1. \A k \in 1..n : <<p, k>> \in N
  OBVIOUS
<1>2. ASSUME NEW k \in 1..n, k > 1
      PROVE  k - 1 \in 1..n /\ f[<<p, k>>] = <<p, k-1>> /\ f[<<p, k>>] \in N
  <2>1. k - 1 \in 1..n
    BY <1>2
  <2>2. f[<<p, k>>] = <<p, k-1>>
    BY <1>2
  <2> QED BY <1>1, <2>1, <2>2
<1>3. ASSUME NEW k \in 1..n, ~(k > 1) PROVE k = 1 /\ f[<<p, k>>] \notin N
  <2>1. f[<<p, k>>] = z
    BY <1>3
  <2> QED BY <1>3, <2>1
<1>4. x \in N => n > 0 /\ n \in 1..n /\ x = <<p, n>>
  OBVIOUS
<1>5. n > 0 => x = <<p, n>> /\ n \in 1..n
  OBVIOUS
<1>6. R \subseteq E
  <2>1. E \subseteq N
    BY <1>1
  <2>2. x \in N => x \in E
    BY <1>4
  <2>3. ASSUME NEW k \in 1..n, f[<<p, k>>] \in N PROVE f[<<p, k>>] \in E
    BY <1>2, <1>3, <2>3
  <2>4. \A y \in E : f[y] \in N => f[y] \in E
    BY <2>3
  <2> HIDE DEF E
  <2> QED BY <2>1, <2>2, <2>4, ReachesLeast
<1>7. E \subseteq R
  <2> DEFINE T == {j \in Nat : j < n /\ <<p, n - j>> \notin R}
  <2> SUFFICES ASSUME T # {} PROVE FALSE
    <3>1. T = {} => \A k \in 1..n : <<p, k>> \in R
      <4> SUFFICES ASSUME NEW k \in 1..n, <<p, k>> \notin R PROVE n - k \in T
        OBVIOUS
      <4>1. n - k \in Nat /\ n - k < n /\ n - (n - k) = k
        OBVIOUS
      <4> QED BY <4>1
    <3> HIDE DEF T
    <3> QED BY <3>1
  <2>1. PICK m \in T : \A j \in T : m <= j
    <3>1. T \subseteq Nat
      OBVIOUS
    <3> HIDE DEF T
    <3> QED BY <3>1, LeastNumber
  <2>2. m \in Nat /\ m < n /\ <<p, n - m>> \notin R
    OBVIOUS
  <2>3. CASE m = 0
    <3>1. x = <<p, n>> /\ n \in 1..n /\ n - m = n
      BY <1>5, <2>2, <2>3
    <3>2. x \in N
      BY <1>1, <3>1
    <3> QED BY <2>2, <3>1, <3>2, ReachesStart
  <2>4. CASE m > 0
    <3>1. m - 1 \in Nat /\ m - 1 < n /\ ~(m <= m - 1)
      BY <2>2, <2>4
    <3>2. PICK k : k = n - m + 1
      OBVIOUS
    <3>3. k \in 1..n /\ k > 1 /\ n - (m - 1) = k /\ k - 1 = n - m /\ k - 1 \in 1..n
      BY <2>2, <2>4, <3>2
    <3>4. <<p, k>> \in R
      BY <2>1, <3>1, <3>3
    <3>5. f[<<p, k>>] = <<p, n - m>> /\ <<p, n - m>> \in N
      BY <1>1, <1>2, <3>3
    <3>6. <<p, n - m>> \in R
      BY <3>4, <3>5, ReachesNext
    <3> QED BY <2>2, <3>6
  <2> QED BY <2>2, <2>3, <2>4
<1>8. R = E
  BY <1>6, <1>7
<1>9. ASSUME NEW a \in 1..n, NEW b \in 1..n, f[<<p, a>>] = f[<<p, b>>], f[<<p, a>>] \in N
      PROVE  a = b
  <2>1. a > 1 /\ b > 1
    BY <1>3, <1>9
  <2>2. <<p, a-1>> = <<p, b-1>>
    BY <1>2, <1>9, <2>1
  <2>3. a - 1 = b - 1
    BY <2>2
  <2> QED BY <2>3
<1>10. ASSUME NEW a \in 1..n PROVE f[<<p, a>>] # x
  <2>1. n > 0 /\ x = <<p, n>> /\ x \in N
    BY <1>1, <1>5
  <2>2. a > 1 => f[<<p, a>>] = <<p, a-1>>
    BY <1>2
  <2>3. a - 1 # n
    OBVIOUS
  <2>4. <<p, a-1>> # <<p, n>>
    BY <2>3
  <2> QED BY <1>3, <2>1, <2>2, <2>4
<1>11. \A y, w \in E : f[y] = f[w] /\ f[y] \in N => y = w
  BY <1>9
<1>12. \A y \in E : f[y] # x
  BY <1>10
<1> QED BY <1>8, <1>11, <1>12 DEF IsList

=============================================================================
