---------------------------- MODULE StartupProofs ----------------------------
(***************************************************************************)
(* Proofs about the start: for any file that the kernel may show, any      *)
(* place of the stack and any frames, the main thread is one that          *)
(* ThreadScan can search when the user's main begins; for any value of the *)
(* environment variable the capacity is a power of two within the limits,  *)
(* and the buffers fit.  LinksProofs has the principle of the least        *)
(* number, from which the inductions over bits follow.                     *)
(***************************************************************************)
EXTENDS Startup, LinksProofs, TLAPS

-----------------------------------------------------------------------------
(* The inductive invariant.                                                 *)

TypeInv ==
    /\ stage \in {"load", "101", "201", "maps", "add", "base", "user"}
    /\ status \in {"ok", "fatal"}
    /\ maps \in Maps /\ addr \in StackAddrs /\ line \in Nat \ {0}

\* The lines that have been read are not that of the stack, which is still to come.
WalkInv ==
    /\ line \in DOMAIN maps /\ \A j \in 1..line-1 : ~OnLine(maps[j])
    /\ stage \in {"add", "base", "user"} => OnLine(maps[line]) /\ low = maps[line].begin
    /\ status = "fatal" => line > 1 /\ maps[line-1].name = "spaced"

ListInv ==
    /\ stage \in {"maps", "add"} => wrapped /\ list = <<>>
    /\ stage \in {"base", "user"} => wrapped /\ list = <<Main>>

FrameInv == stage = "user" => low <= high /\ rsp <= high /\ high < addr

IInv == TypeInv /\ WalkInv /\ ListInv /\ FrameInv

\* What register_signal_handlers makes of the capacity.
SizesInv ==
    stage \notin {"load", "101"} =>
        /\ g_tsdata.max_ptrs = ptrs_per_thread * MAX_THREAD_COUNT
        /\ g_tsdata.scan_map_offset = g_tsdata.max_ptrs * WORD * 2
        /\ g_tsdata.scan_map_sz = PageUp(ScanMapSize(g_tsdata.max_ptrs))
        /\ g_tsdata.working_buffer_sz = g_tsdata.max_ptrs * WORD * 2 + g_tsdata.scan_map_sz

-----------------------------------------------------------------------------
LEMMA MapsFacts ==
  ASSUME NEW file \in Maps
  PROVE  /\ Len(file) \in Nat /\ DOMAIN file = 1..Len(file)
         /\ \A i \in DOMAIN file : file[i] \in Lines
BY StartupAssumption

\* The search for the stack's line cannot leave the file.
LEMMA WalkStays ==
  ASSUME maps \in Maps, addr \in StackAddrs, NEW k \in Nat \ {0},
         \A j \in 1..k-1 : ~OnLine(maps[j])
  PROVE  k \in DOMAIN maps
<1>1. PICK i \in DOMAIN maps : OnLine(maps[i])
  BY StartupAssumption DEF OnLine
<1>2. Len(maps) \in Nat /\ DOMAIN maps = 1..Len(maps)
  BY MapsFacts
<1>3. ~(i \in 1..k-1)
  BY <1>1
<1> QED BY <1>2, <1>3

\* Where the frames of the user are, relative to the page of thread_base's frame.
LEMMA Frames ==
  ASSUME NEW sp \in Nat, NEW b \in Nat, b % PAGESIZE = 0, b <= sp
  PROVE  /\ b <= sp - (sp % PAGESIZE)
         /\ Alloca(sp) <= sp - (sp % PAGESIZE)
         /\ sp - (sp % PAGESIZE) <= sp
<1>1. sp % 4096 \in 0..4095 /\ sp = 4096 * (sp \div 4096) + (sp % 4096) /\ sp \div 4096 \in Int
  OBVIOUS
<1>2. b = 4096 * (b \div 4096) /\ b \div 4096 \in Int
  BY DEF PAGESIZE
<1>3. b <= sp - (sp % 4096)
  BY <1>1, <1>2
<1>4. ((sp % 4096) + 15) \div 16 \in Int /\ 16 * (((sp % 4096) + 15) \div 16) >= sp % 4096
  BY <1>1
<1> QED BY <1>1, <1>3, <1>4 DEF Alloca, PAGESIZE

LEMMA Step_stack_from_addr ==
  ASSUME IInv, stack_from_addr
  PROVE  IInv'
<1> USE DEF stack_from_addr
<1>1. line \in DOMAIN maps /\ line \in Nat \ {0} /\ line <= Len(maps) /\ Len(maps) \in Nat
  BY MapsFacts DEF IInv, TypeInv, WalkInv
<1>2. NoMapline => line > 1 /\ maps[line-1].name = "spaced"
  BY <1>1 DEF NoMapline
<1>3. TypeInv'
  BY <1>1 DEF IInv, TypeInv
<1>4. WalkInv'
  <2>1. CASE NoMapline
    BY <1>2, <2>1 DEF IInv, TypeInv, WalkInv, OnLine
  <2>2. CASE ~NoMapline /\ OnLine(maps[line])
    BY <1>1, <2>2 DEF IInv, TypeInv, WalkInv, OnLine
  <2>3. CASE ~NoMapline /\ ~OnLine(maps[line])
    <3>1. line' = line + 1 /\ UNCHANGED <<stage, low, status, maps, addr>>
      BY <1>1, <2>3
    <3>2. \A j \in 1..line : ~OnLine(maps[j])
      BY <1>1, <2>3 DEF IInv, WalkInv
    <3>3. line + 1 \in DOMAIN maps
      <4>1. line + 1 \in Nat \ {0} /\ (line + 1) - 1 = line
        BY <1>1
      <4>2. maps \in Maps /\ addr \in StackAddrs
        BY DEF IInv, TypeInv
      <4> HIDE DEF stack_from_addr
      <4> QED BY <3>2, <4>1, <4>2, WalkStays
    <3>4. (line + 1) - 1 = line
      BY <1>1
    <3>5. \A j \in 1..line'-1 : ~OnLine(maps[j])'
      BY <3>1, <3>2, <3>4 DEF OnLine
    <3> QED BY <3>1, <3>3, <3>5 DEF IInv, TypeInv, WalkInv
  <2> QED BY <2>1, <2>2, <2>3
<1>5. ListInv' /\ FrameInv'
  BY <1>1 DEF IInv, ListInv, FrameInv
<1> QED BY <1>3, <1>4, <1>5 DEF IInv

LEMMA Step_add_thread_data ==
  ASSUME IInv, add_thread_data
  PROVE  IInv'
<1> USE DEF add_thread_data
<1>1. list = <<>> /\ wrapped
  BY DEF IInv, ListInv
<1>2. list' = <<Main>>
  BY <1>1
<1> QED BY <1>1, <1>2 DEF IInv, TypeInv, WalkInv, ListInv, FrameInv, OnLine

LEMMA Step_thread_base ==
  ASSUME IInv, NEW d \in FrameSizes, thread_base(addr - d)
  PROVE  IInv'
<1> USE DEF thread_base
<1>1. PICK m \in Lines : m = maps[line]
  BY MapsFacts DEF IInv, TypeInv, WalkInv
<1>2. /\ m.begin < addr /\ addr < m.end /\ low = m.begin
      /\ m.begin \in Nat /\ addr \in Nat /\ d \in Nat \ {0}
  BY <1>1, StartupAssumption DEF IInv, TypeInv, WalkInv, OnLine, Lines
<1>3. m.begin % PAGESIZE = 0 /\ m.begin <= addr - d
  BY <1>1, <1>2, StartupAssumption DEF IInv, TypeInv, WalkInv
<1>4. PICK sp \in Nat : sp = addr - d
  BY <1>2, <1>3
<1>5. /\ m.begin <= sp - (sp % PAGESIZE) /\ Alloca(sp) <= sp - (sp % PAGESIZE)
      /\ sp - (sp % PAGESIZE) <= sp
  BY <1>2, <1>3, <1>4, Frames
<1>6. sp < addr /\ sp - (sp % PAGESIZE) \in Int
  BY <1>2, <1>4 DEF PAGESIZE
<1>7. FrameInv'
  BY <1>2, <1>4, <1>5, <1>6 DEF FrameInv
<1> QED BY <1>7 DEF IInv, TypeInv, WalkInv, ListInv, OnLine

LEMMA Inductive == IInv /\ [Next]_vars => IInv'
<1> SUFFICES ASSUME IInv, [Next]_vars PROVE IInv'
  OBVIOUS
<1> USE DEF IInv, TypeInv, WalkInv, ListInv, FrameInv, OnLine, threadVars
<1>1. CASE UNCHANGED vars \/ Started
  BY <1>1 DEF vars, Started
<1>2. CASE env_init
  BY <1>2 DEF env_init
<1>3. CASE register_signal_handlers
  BY <1>3 DEF register_signal_handlers
<1>4. CASE proc_init
  BY <1>4 DEF proc_init
<1>5. CASE do_wrapper_replacement
  BY <1>5 DEF do_wrapper_replacement
<1>6. CASE libc_start_main
  BY <1>6 DEF libc_start_main
<1> QED BY <1>1, <1>2, <1>3, <1>4, <1>5, <1>6, Step_stack_from_addr, Step_add_thread_data,
           Step_thread_base DEF Next

LEMMA Starts == Init => IInv
<1> SUFFICES ASSUME Init PROVE IInv
  OBVIOUS
<1>1. line \in DOMAIN maps
  BY WalkStays DEF Init
<1> QED BY <1>1 DEF Init, IInv, TypeInv, WalkInv, ListInv, FrameInv

LEMMA Invariant == Spec => []IInv
BY Starts, Inductive, PTL DEF Spec

(***************************************************************************)
(* main_replacement and threadscan_thread_base hand over a main thread     *)
(* that is listed, with the bounds of its stack around every frame of the  *)
(* user; and threadscan_proc_stack_from_addr fails only on a mapping with  *)
(* a space in its name before the stack's.                                 *)
(***************************************************************************)
THEOREM MainStartsReady == Spec => []MainIsReady
<1>1. IInv => MainIsReady
  <2> SUFFICES ASSUME IInv PROVE MainIsReady
    OBVIOUS
  <2>1. Len(maps) \in Nat /\ DOMAIN maps = 1..Len(maps)
    BY MapsFacts DEF IInv, TypeInv
  <2>2. stage = "user" =>
          \E i \in DOMAIN maps : /\ maps[i].begin = low
                                 /\ maps[i].begin < addr /\ addr < maps[i].end
    BY DEF IInv, WalkInv, OnLine
  <2>3. ASSUME status = "fatal" PROVE \E i \in Before : maps[i].name = "spaced"
    <3>1. line > 1 /\ maps[line-1].name = "spaced" /\ line \in 1..Len(maps)
      BY <2>1, <2>3 DEF IInv, WalkInv
    <3>2. line - 1 \in DOMAIN maps
      BY <2>1, <3>1
    <3>3. \A j \in 1..line-1 : ~(maps[j].begin < addr /\ addr < maps[j].end)
      BY DEF IInv, WalkInv, OnLine
    <3> QED BY <3>1, <3>2, <3>3 DEF Before
  <2> QED BY <2>2, <2>3 DEF IInv, ListInv, FrameInv, MainIsReady
<1> QED BY <1>1, Invariant, PTL

-----------------------------------------------------------------------------
(* Functions defined by recursion over the numbers.                         *)

LEMMA FromZero ==
  ASSUME NEW T, 0 \in T, \A k \in Nat : k \in T => k + 1 \in T
  PROVE  \A k \in Nat : k \in T
<1> DEFINE U == Nat \ T
<1> SUFFICES ASSUME U # {} PROVE FALSE
  OBVIOUS
<1>1. PICK m \in U : \A k \in U : m <= k
  BY LeastNumber
<1>2. m - 1 \in Nat /\ m - 1 \in T
  BY <1>1
<1>3. (m - 1) + 1 = m
  BY <1>1
<1> QED BY <1>1, <1>2, <1>3

\* The first n values of a recursive function.
Prefixes(S, c, g, n) ==
    {h \in [0..n -> S] : h[0] = c /\ \A k \in 0..n-1 : h[k+1] = g[k][h[k]]}

LEMMA PrefixesAgree ==
  ASSUME NEW S, NEW c, NEW g, NEW n \in Nat, NEW m \in Nat,
         NEW h \in Prefixes(S, c, g, n), NEW e \in Prefixes(S, c, g, m)
  PROVE  \A k \in Nat : k <= n /\ k <= m => h[k] = e[k]
<1> DEFINE T == {k \in Nat : k <= n /\ k <= m => h[k] = e[k]}
<1>1. 0 \in T
  BY DEF Prefixes
<1>2. ASSUME NEW k \in Nat, k \in T PROVE k + 1 \in T
  <2> SUFFICES ASSUME k + 1 <= n, k + 1 <= m PROVE h[k+1] = e[k+1]
    OBVIOUS
  <2>1. k \in 0..n-1 /\ k \in 0..m-1 /\ h[k] = e[k]
    BY <1>2
  <2> QED BY <2>1 DEF Prefixes
<1> HIDE DEF T
<1>3. \A k \in Nat : k \in T
  BY <1>1, <1>2, FromZero
<1> QED BY <1>3 DEF T

LEMMA PrefixesExist ==
  ASSUME NEW S, NEW c \in S, NEW g \in [Nat -> [S -> S]]
  PROVE  \A n \in Nat : Prefixes(S, c, g, n) # {}
<1> DEFINE T == {n \in Nat : Prefixes(S, c, g, n) # {}}
<1>1. 0 \in T
  <2>1. [k \in 0..0 |-> c] \in Prefixes(S, c, g, 0)
    BY DEF Prefixes
  <2> QED BY <2>1
<1>2. ASSUME NEW n \in Nat, n \in T PROVE n + 1 \in T
  <2>1. PICK h : h \in Prefixes(S, c, g, n)
    BY <1>2
  <2>2. h \in [0..n -> S] /\ h[0] = c /\ \A k \in 0..n-1 : h[k+1] = g[k][h[k]]
    BY <2>1 DEF Prefixes
  <2> DEFINE e == [k \in 0..n+1 |-> IF k = n + 1 THEN g[n][h[n]] ELSE h[k]]
  <2>3. g[n][h[n]] \in S
    BY <2>2
  <2>4. e \in [0..n+1 -> S]
    BY <2>2, <2>3
  <2>5. e[0] = c
    BY <2>2
  <2>6. ASSUME NEW k \in 0..(n+1)-1 PROVE e[k+1] = g[k][e[k]]
    BY <2>2
  <2>7. e \in Prefixes(S, c, g, n+1)
    BY <2>4, <2>5, <2>6 DEF Prefixes
  <2> QED BY <2>7
<1> HIDE DEF T
<1>3. \A n \in Nat : n \in T
  BY <1>1, <1>2, FromZero
<1> QED BY <1>3 DEF T

\* A function whose value at k+1 is made from the one at k.
Recursive(S, c, g, f) ==
    f \in [Nat -> S] /\ f[0] = c /\ \A k \in Nat : f[k+1] = g[k][f[k]]

LEMMA RecursiveExists ==
  ASSUME NEW S, NEW c \in S, NEW g \in [Nat -> [S -> S]]
  PROVE  \E f : Recursive(S, c, g, f)
<1> DEFINE P(n) == Prefixes(S, c, g, n)
           h(n) == CHOOSE h : h \in P(n)
           f == [n \in Nat |-> h(n)[n]]
<1>1. ASSUME NEW n \in Nat PROVE h(n) \in P(n)
  BY PrefixesExist
<1>2. ASSUME NEW n \in Nat
      PROVE h(n) \in [0..n -> S] /\ h(n)[0] = c /\ \A k \in 0..n-1 : h(n)[k+1] = g[k][h(n)[k]]
  BY <1>1 DEF Prefixes
<1>3. ASSUME NEW n \in Nat, NEW m \in Nat, n <= m PROVE h(n)[n] = h(m)[n]
  <2>1. PICK a : a = h(n)
    OBVIOUS
  <2>2. PICK b : b = h(m)
    OBVIOUS
  <2>3. a \in Prefixes(S, c, g, n) /\ b \in Prefixes(S, c, g, m)
    BY <1>1, <2>1, <2>2
  <2> HIDE DEF h
  <2>4. \A k \in Nat : k <= n /\ k <= m => a[k] = b[k]
    BY <2>3, PrefixesAgree
  <2> QED BY <1>3, <2>1, <2>2, <2>4
<1> HIDE DEF h, P
<1>4. f \in [Nat -> S] /\ f[0] = c
  BY <1>2
<1>5. ASSUME NEW k \in Nat PROVE f[k+1] = g[k][f[k]]
  <2>1. h(k+1)[k+1] = g[k][h(k+1)[k]]
    BY <1>2
  <2>2. h(k)[k] = h(k+1)[k]
    BY <1>3
  <2> QED BY <2>1, <2>2
<1> HIDE DEF f
<1>6. Recursive(S, c, g, f)
  BY <1>4, <1>5 DEF Recursive
<1> QED BY <1>6

-----------------------------------------------------------------------------
(* Bits of numbers, and powers of two.                                      *)

LEMMA ShiftFacts ==
  ASSUME NEW x \in Int
  PROVE  /\ Shift(x, 0) = x
         /\ \A i \in Nat : Shift(x, i) \in Int /\ Shift(x, i+1) = Shift(x, i) \div 2
<1> DEFINE Body(h) == [j \in Nat |-> IF j = 0 THEN x ELSE h[j-1] \div 2]
           half == CHOOSE h : h = Body(h)
           g == [k \in Nat |-> [s \in Int |-> s \div 2]]
<1>1. \E h : h = Body(h)
  <2>1. g \in [Nat -> [Int -> Int]]
    OBVIOUS
  <2> HIDE DEF g
  <2>2. PICK f : Recursive(Int, x, g, f)
    BY <2>1, RecursiveExists
  <2>3. \A k \in Nat : f[k+1] = f[k] \div 2
    BY <2>2 DEF g, Recursive
  <2>4. ASSUME NEW j \in Nat PROVE f[j] = Body(f)[j]
    <3>1. CASE j = 0
      BY <2>2, <3>1 DEF Recursive
    <3>2. CASE j # 0
      <4>1. j - 1 \in Nat /\ (j - 1) + 1 = j
        BY <3>2
      <4> QED BY <2>3, <3>2, <4>1
    <3> QED BY <3>1, <3>2
  <2>5. f = Body(f)
    BY <2>2, <2>4 DEF Recursive
  <2> QED BY <2>5
<1>2. half = Body(half)
  BY <1>1
<1>3. \A i : Shift(x, i) = half[i]
  BY DEF Shift
<1> HIDE DEF half
<1>4. half[0] = x /\ \A i \in Nat : half[i+1] = half[i] \div 2
  BY <1>2
<1>5. \A i \in Nat : half[i] \in Int
  <2> DEFINE T == {i \in Nat : half[i] \in Int}
  <2>1. 0 \in T /\ \A k \in Nat : k \in T => k + 1 \in T
    BY <1>4
  <2> HIDE DEF T
  <2>2. \A k \in Nat : k \in T
    BY <2>1, FromZero
  <2> QED BY <2>2 DEF T
<1> QED BY <1>3, <1>4, <1>5

\* The word after each bit, from the top.
OrSteps(or, sign, x, k) ==
    /\ or \in [Nat -> Int] /\ or[0] = sign
    /\ \A j \in Nat : or[j+1] = 2 * or[j]
          + (IF Bit(x, 30 - j) = 1 \/ Bit(x, 30 - j + k) = 1 THEN 1 ELSE 0)

LEMMA OrBitsFacts ==
  ASSUME NEW x \in Int, NEW sign \in Int, NEW k
  PROVE  \E or : OrSteps(or, sign, x, k) /\ OrBits(sign, x, k) = or[31]
<1> DEFINE b(j) == IF Bit(x, 31 - j) = 1 \/ Bit(x, 31 - j + k) = 1 THEN 1 ELSE 0
           Body(h) == [j \in Nat |-> IF j = 0 THEN sign ELSE 2 * h[j-1] + b(j)]
           or == CHOOSE h : h = Body(h)
           g == [j \in Nat |-> [s \in Int |-> 2 * s + b(j+1)]]
<1>0. \A j : b(j) \in Int
  OBVIOUS
<1>b. OrBits(sign, x, k) = or[31]
  BY DEF OrBits
<1> HIDE DEF b
<1>1. \E h : h = Body(h)
  <2>1. g \in [Nat -> [Int -> Int]]
    BY <1>0
  <2> HIDE DEF g
  <2>2. PICK f : Recursive(Int, sign, g, f)
    BY <2>1, RecursiveExists
  <2>3. \A j \in Nat : f[j+1] = 2 * f[j] + b(j+1)
    BY <2>2 DEF g, Recursive
  <2>4. ASSUME NEW j \in Nat PROVE f[j] = Body(f)[j]
    <3>1. CASE j = 0
      BY <2>2, <3>1 DEF Recursive
    <3>2. CASE j # 0
      <4>1. j - 1 \in Nat /\ (j - 1) + 1 = j
        BY <3>2
      <4> QED BY <2>3, <3>2, <4>1
    <3> QED BY <3>1, <3>2
  <2>5. f = Body(f)
    BY <2>2, <2>4 DEF Recursive
  <2> QED BY <2>5
<1>2. or = Body(or)
  BY <1>1
<1> HIDE DEF or
<1>4. or[0] = sign /\ \A i \in Nat : or[i+1] = 2 * or[i] + b(i+1)
  BY <1>2
<1>5. \A i \in Nat : or[i] \in Int
  <2> DEFINE T == {i \in Nat : or[i] \in Int}
  <2>1. 0 \in T /\ \A j \in Nat : j \in T => j + 1 \in T
    BY <1>0, <1>4
  <2> HIDE DEF T
  <2>2. \A j \in Nat : j \in T
    BY <2>1, FromZero
  <2> QED BY <2>2 DEF T
<1>6. or \in [Nat -> Int]
  BY <1>2, <1>5
<1>7. ASSUME NEW j \in Nat
      PROVE  b(j+1) = IF Bit(x, 30 - j) = 1 \/ Bit(x, 30 - j + k) = 1 THEN 1 ELSE 0
  <2>1. 31 - (j + 1) = 30 - j
    OBVIOUS
  <2> QED BY <2>1 DEF b
<1>8. OrSteps(or, sign, x, k)
  BY <1>4, <1>6, <1>7 DEF OrSteps
<1> QED BY <1>b, <1>8

LEMMA Pow2Facts ==
  /\ Pow2[0] = 1
  /\ \A k \in Nat : Pow2[k] \in Nat \ {0} /\ Pow2[k+1] = 2 * Pow2[k]
<1> DEFINE Body(h) == [j \in Nat |-> IF j = 0 THEN 1 ELSE 2 * h[j-1]]
           g == [k \in Nat |-> [s \in Int |-> 2 * s]]
<1>1. \E h : h = Body(h)
  <2>1. g \in [Nat -> [Int -> Int]] /\ 1 \in Int
    OBVIOUS
  <2> HIDE DEF g
  <2>2. PICK f : Recursive(Int, 1, g, f)
    BY <2>1, RecursiveExists
  <2>3. \A k \in Nat : f[k+1] = 2 * f[k]
    BY <2>2 DEF g, Recursive
  <2>4. ASSUME NEW j \in Nat PROVE f[j] = Body(f)[j]
    <3>1. CASE j = 0
      BY <2>2, <3>1 DEF Recursive
    <3>2. CASE j # 0
      <4>1. j - 1 \in Nat /\ (j - 1) + 1 = j
        BY <3>2
      <4> QED BY <2>3, <3>2, <4>1
    <3> QED BY <3>1, <3>2
  <2>5. f = Body(f)
    BY <2>2, <2>4 DEF Recursive
  <2> QED BY <2>5
<1>2. Pow2 = Body(Pow2)
  BY <1>1 DEF Pow2
<1>3. Pow2[0] = 1 /\ \A i \in Nat : Pow2[i+1] = 2 * Pow2[i]
  BY <1>2
<1> DEFINE T == {i \in Nat : Pow2[i] \in Nat \ {0}}
<1>4. 0 \in T /\ \A k \in Nat : k \in T => k + 1 \in T
  BY <1>3
<1> HIDE DEF T
<1>5. \A k \in Nat : k \in T
  BY <1>4, FromZero
<1> QED BY <1>3, <1>5 DEF T

LEMMA Pow2Grows ==
  \A d \in Nat : \A k \in Nat : Pow2[k] <= Pow2[k+d] /\ (d > 0 => Pow2[k] < Pow2[k+d])
<1> DEFINE T == {d \in Nat : \A k \in Nat : Pow2[k] <= Pow2[k+d] /\ (d > 0 => Pow2[k] < Pow2[k+d])}
<1>1. 0 \in T
  BY Pow2Facts
<1>2. ASSUME NEW d \in Nat, d \in T PROVE d + 1 \in T
  <2>1. ASSUME NEW k \in Nat PROVE Pow2[k] < Pow2[k+(d+1)]
    <3>1. k + d \in Nat /\ k + (d + 1) = (k + d) + 1
      OBVIOUS
    <3>2. Pow2[(k+d)+1] = 2 * Pow2[k+d] /\ Pow2[k+d] \in Nat \ {0} /\ Pow2[k] \in Nat
      BY <3>1, Pow2Facts
    <3>3. Pow2[k] <= Pow2[k+d]
      BY <1>2
    <3> QED BY <3>1, <3>2, <3>3
  <2>2. ASSUME NEW k \in Nat PROVE Pow2[k] <= Pow2[k+(d+1)]
    <3>1. Pow2[k] \in Nat /\ Pow2[k+(d+1)] \in Nat
      BY Pow2Facts
    <3> QED BY <2>1, <3>1
  <2> QED BY <2>1, <2>2
<1> HIDE DEF T
<1>3. \A d \in Nat : d \in T
  BY <1>1, <1>2, FromZero
<1> QED BY <1>3 DEF T

LEMMA Pow2Less ==
  ASSUME NEW i \in Nat, NEW k \in Nat
  PROVE  (i <= k => Pow2[i] <= Pow2[k]) /\ (i < k => Pow2[i] < Pow2[k])
<1>1. CASE i <= k
  <2>1. PICK d \in Nat : k = i + d
    <3>1. k - i \in Nat /\ k = i + (k - i)
      BY <1>1
    <3> QED BY <3>1
  <2>2. i < k => d > 0
    BY <2>1
  <2> QED BY <1>1, <2>1, <2>2, Pow2Grows
<1> QED BY <1>1

\* The powers that the code names.
LEMMA Pow2Values ==
  Pow2[10] = 1024 /\ Pow2[15] = 32768 /\ Pow2[30] = 1073741824 /\ Pow2[31] = 2147483648
<1>1. Pow2[0] = 1 /\ \A k \in Nat : Pow2[k+1] = 2 * Pow2[k]
  BY Pow2Facts
<1>2. Pow2[1] = 2 /\ Pow2[2] = 4 /\ Pow2[3] = 8 /\ Pow2[4] = 16 /\ Pow2[5] = 32
  <2>1. Pow2[0+1] = 2 * Pow2[0] /\ Pow2[1+1] = 2 * Pow2[1] /\ Pow2[2+1] = 2 * Pow2[2]
        /\ Pow2[3+1] = 2 * Pow2[3] /\ Pow2[4+1] = 2 * Pow2[4]
    BY <1>1, SMT
  <2> QED BY <1>1, <2>1, SMT
<1>3. Pow2[6] = 64 /\ Pow2[7] = 128 /\ Pow2[8] = 256 /\ Pow2[9] = 512 /\ Pow2[10] = 1024
  <2>1. Pow2[5+1] = 2 * Pow2[5] /\ Pow2[6+1] = 2 * Pow2[6] /\ Pow2[7+1] = 2 * Pow2[7]
        /\ Pow2[8+1] = 2 * Pow2[8] /\ Pow2[9+1] = 2 * Pow2[9]
    BY <1>1, SMT
  <2> QED BY <1>2, <2>1, SMT
<1>4. Pow2[11] = 2048 /\ Pow2[12] = 4096 /\ Pow2[13] = 8192 /\ Pow2[14] = 16384 /\ Pow2[15] = 32768
  <2>1. Pow2[10+1] = 2 * Pow2[10] /\ Pow2[11+1] = 2 * Pow2[11] /\ Pow2[12+1] = 2 * Pow2[12]
        /\ Pow2[13+1] = 2 * Pow2[13] /\ Pow2[14+1] = 2 * Pow2[14]
    BY <1>1, SMT
  <2> QED BY <1>3, <2>1, SMT
<1>5. Pow2[20] = 1048576
  <2>1. Pow2[15+1] = 2 * Pow2[15] /\ Pow2[16+1] = 2 * Pow2[16] /\ Pow2[17+1] = 2 * Pow2[17]
        /\ Pow2[18+1] = 2 * Pow2[18] /\ Pow2[19+1] = 2 * Pow2[19]
    BY <1>1, SMT
  <2> QED BY <1>4, <2>1, SMT
<1>6. Pow2[25] = 33554432
  <2>1. Pow2[20+1] = 2 * Pow2[20] /\ Pow2[21+1] = 2 * Pow2[21] /\ Pow2[22+1] = 2 * Pow2[22]
        /\ Pow2[23+1] = 2 * Pow2[23] /\ Pow2[24+1] = 2 * Pow2[24]
    BY <1>1, SMT
  <2> QED BY <1>5, <2>1, SMT
<1>7. Pow2[30] = 1073741824 /\ Pow2[31] = 2147483648
  <2>1. Pow2[25+1] = 2 * Pow2[25] /\ Pow2[26+1] = 2 * Pow2[26] /\ Pow2[27+1] = 2 * Pow2[27]
        /\ Pow2[28+1] = 2 * Pow2[28] /\ Pow2[29+1] = 2 * Pow2[29] /\ Pow2[30+1] = 2 * Pow2[30]
    BY <1>1, SMT
  <2> QED BY <1>6, <2>1, SMT
<1> QED BY <1>3, <1>4, <1>7, SMT

\* An int: what is left of it after 31 halvings is its sign.
IsWord(x) == x \in Int /\ Shift(x, 31) \in {0, -1}

LEMMA ShiftType ==
  ASSUME NEW x \in Int, NEW i \in Nat
  PROVE  /\ Shift(x, i) \in Int /\ Bit(x, i) \in {0, 1}
         /\ Shift(x, i) = 2 * Shift(x, i+1) + Bit(x, i)
<1>1. PICK s \in Int : s = Shift(x, i)
  BY ShiftFacts
<1>2. Shift(x, i+1) = s \div 2 /\ Bit(x, i) = s % 2
  BY <1>1, ShiftFacts DEF Bit
<1>3. s % 2 \in {0, 1} /\ s = 2 * (s \div 2) + (s % 2)
  OBVIOUS
<1> QED BY <1>1, <1>2, <1>3

LEMMA ShiftSign ==
  ASSUME NEW x \in Int
  PROVE  \A i \in Nat : Shift(x, i) >= 0 <=> x >= 0
<1> DEFINE T == {i \in Nat : Shift(x, i) >= 0 <=> x >= 0}
<1>1. 0 \in T
  BY ShiftFacts
<1>2. ASSUME NEW i \in Nat, i \in T PROVE i + 1 \in T
  <2>1. Shift(x, i) \in Int /\ Shift(x, i+1) = Shift(x, i) \div 2
    BY ShiftFacts
  <2>2. Shift(x, i+1) >= 0 <=> Shift(x, i) >= 0
    BY <2>1
  <2> QED BY <1>2, <2>2
<1> HIDE DEF T
<1>3. \A i \in Nat : i \in T
  BY <1>1, <1>2, FromZero
<1> QED BY <1>3 DEF T

LEMMA WordSign ==
  ASSUME NEW x, IsWord(x)
  PROVE  /\ Shift(x, 31) = IF x >= 0 THEN 0 ELSE -1
         /\ \A i \in Nat : Shift(x, 31 + i) = Shift(x, 31)
         /\ \A i \in Nat : i >= 31 => (Bit(x, i) = 1 <=> x < 0)
<1>1. x \in Int /\ Shift(x, 31) \in {0, -1}
  BY DEF IsWord
<1>2. Shift(x, 31) = IF x >= 0 THEN 0 ELSE -1
  BY <1>1, ShiftSign
<1> DEFINE T == {i \in Nat : Shift(x, 31 + i) = Shift(x, 31)}
<1>3. 0 \in T
  OBVIOUS
<1>4. ASSUME NEW i \in Nat, i \in T PROVE i + 1 \in T
  <2>1. 31 + i \in Nat /\ 31 + (i + 1) = (31 + i) + 1
    OBVIOUS
  <2>2. Shift(x, (31 + i) + 1) = Shift(x, 31 + i) \div 2
    BY <1>1, <2>1, ShiftFacts
  <2>3. Shift(x, 31) \div 2 = Shift(x, 31)
    BY <1>1
  <2> QED BY <1>4, <2>1, <2>2, <2>3
<1> HIDE DEF T
<1>5. \A i \in Nat : i \in T
  BY <1>3, <1>4, FromZero
<1>6. \A i \in Nat : Shift(x, 31 + i) = Shift(x, 31)
  BY <1>5 DEF T
<1>7. ASSUME NEW i \in Nat, i >= 31 PROVE Bit(x, i) = 1 <=> x < 0
  <2>1. PICK d \in Nat : i = 31 + d
    <3>1. i - 31 \in Nat /\ i = 31 + (i - 31)
      BY <1>7
    <3> QED BY <3>1
  <2>2. Shift(x, i) = IF x >= 0 THEN 0 ELSE -1
    BY <1>2, <1>6, <2>1
  <2> QED BY <1>1, <2>2 DEF Bit
<1> QED BY <1>2, <1>6, <1>7

IsOr(r, sign, x, k) ==
    /\ r \in Int /\ Shift(r, 31) = sign
    /\ \A i \in 0..30 : Bit(r, i) = 1 <=> (Bit(x, i) = 1 \/ Bit(x, i + k) = 1)

LEMMA OrBitsBits ==
  ASSUME NEW x \in Int, NEW sign \in Int, NEW k \in Nat
  PROVE  IsOr(OrBits(sign, x, k), sign, x, k)
<1>r. PICK r : r = OrBits(sign, x, k)
  OBVIOUS
<1>0. PICK or : OrSteps(or, sign, x, k) /\ r = or[31]
  BY <1>r, OrBitsFacts
<1>1. /\ or \in [Nat -> Int] /\ or[0] = sign /\ r = or[31]
      /\ \A j \in Nat : or[j+1] = 2 * or[j]
             + (IF Bit(x, 30 - j) = 1 \/ Bit(x, 30 - j + k) = 1 THEN 1 ELSE 0)
  BY <1>0 DEF OrSteps
<1>2. r \in Int
  BY <1>1
<1> DEFINE T == {i \in Nat : i <= 31 => Shift(r, i) = or[31-i]}
<1>3. 0 \in T
  BY <1>1, <1>2, ShiftFacts
<1>4. ASSUME NEW i \in Nat, i \in T PROVE i + 1 \in T
  <2> SUFFICES ASSUME i + 1 <= 31 PROVE Shift(r, i+1) = or[31-(i+1)]
    OBVIOUS
  <2>1. 30 - i \in Nat /\ (30 - i) + 1 = 31 - i /\ 31 - (i + 1) = 30 - i
    OBVIOUS
  <2>0. Shift(r, i) = or[31-i]
    BY <1>4
  <2>a. Shift(r, i+1) = Shift(r, i) \div 2
    BY <1>2, ShiftFacts
  <2>2. Shift(r, i+1) = or[31-i] \div 2
    BY <2>0, <2>a
  <2>3. \/ or[31-i] = 2 * or[30-i]
        \/ or[31-i] = 2 * or[30-i] + 1
    BY <1>1, <2>1
  <2>4. or[30-i] \in Int
    BY <1>1, <2>1
  <2> QED BY <2>1, <2>2, <2>3, <2>4
<1> HIDE DEF T
<1>5. \A i \in Nat : i \in T
  BY <1>3, <1>4, FromZero
<1>6. \A i \in Nat : i <= 31 => Shift(r, i) = or[31-i]
  BY <1>5 DEF T
<1>7. Shift(r, 31) = sign
  BY <1>1, <1>6
<1>8. ASSUME NEW i \in 0..30
      PROVE Bit(r, i) = 1 <=> (Bit(x, i) = 1 \/ Bit(x, i + k) = 1)
  <2>1. i \in Nat /\ i <= 31 /\ 30 - i \in Nat /\ (30 - i) + 1 = 31 - i /\ 30 - (30 - i) = i
    OBVIOUS
  <2>2. or[(30-i)+1] = 2 * or[30-i] + (IF \/ Bit(x, 30 - (30 - i)) = 1
                                          \/ Bit(x, 30 - (30 - i) + k) = 1 THEN 1 ELSE 0)
    BY <1>1, <2>1
  <2>3. or[31-i] = 2 * or[30-i] + (IF Bit(x, i) = 1 \/ Bit(x, i + k) = 1 THEN 1 ELSE 0)
    BY <2>1, <2>2
  <2>4. Bit(r, i) = or[31-i] % 2 /\ or[30-i] \in Int
    BY <1>1, <1>6, <2>1 DEF Bit
  <2> QED BY <2>3, <2>4
<1> QED BY <1>r, <1>2, <1>7, <1>8 DEF IsOr

LEMMA OrShiftBits ==
  ASSUME NEW x, IsWord(x), NEW k \in Nat, NEW r, r = OrShift(x, k)
  PROVE  /\ IsWord(r) /\ (r >= 0 <=> x >= 0)
         /\ \A i \in Nat : Bit(r, i) = 1 <=> (Bit(x, i) = 1 \/ Bit(x, i + k) = 1)
<1>0. PICK sign \in {0, -1} : x >= 0 <=> sign = 0
  BY DEF IsWord
<1>1. x \in Int /\ sign \in Int /\ r = OrBits(sign, x, k)
  BY <1>0 DEF IsWord, OrShift
<1>2. /\ r \in Int /\ Shift(r, 31) = sign
      /\ \A i \in 0..30 : Bit(r, i) = 1 <=> (Bit(x, i) = 1 \/ Bit(x, i + k) = 1)
  <2>1. IsOr(OrBits(sign, x, k), sign, x, k)
    BY <1>1, OrBitsBits
  <2> QED BY <1>1, <2>1 DEF IsOr
<1>3. IsWord(r)
  BY <1>0, <1>2 DEF IsWord
<1>4. r >= 0 <=> x >= 0
  <2>1. Shift(r, 31) = IF r >= 0 THEN 0 ELSE -1
    BY <1>3, WordSign
  <2> QED BY <1>0, <1>2, <2>1
<1>5. ASSUME NEW i \in Nat
      PROVE  Bit(r, i) = 1 <=> (Bit(x, i) = 1 \/ Bit(x, i + k) = 1)
  <2>1. CASE i <= 30
    BY <1>2, <2>1
  <2>2. CASE i > 30
    <3>1. i >= 31 /\ i + k >= 31 /\ i + k \in Nat
      BY <2>2
    <3>2. (Bit(r, i) = 1 <=> r < 0) /\ (Bit(x, i) = 1 <=> x < 0) /\ (Bit(x, i + k) = 1 <=> x < 0)
      BY <1>3, <3>1, WordSign
    <3> QED BY <1>1, <1>2, <1>4, <3>2
  <2> QED BY <2>1, <2>2
<1> QED BY <1>3, <1>4, <1>5

-----------------------------------------------------------------------------
(* The bit trick: after each step twice as many places are covered.         *)

\* The bits of s are those of x and of the m - 1 places above.
Smeared(x, s, m) ==
    /\ IsWord(s) /\ (s >= 0 <=> x >= 0)
    /\ \A i \in Nat : Bit(s, i) = 1 <=> \E j \in 0..m-1 : Bit(x, i + j) = 1

LEMMA SmearStep ==
  ASSUME NEW x, NEW s, NEW m \in Nat, Smeared(x, s, m), NEW r, r = OrShift(s, m)
  PROVE  Smeared(x, r, 2 * m)
<1>1. /\ IsWord(r) /\ (r >= 0 <=> s >= 0)
      /\ \A i \in Nat : Bit(r, i) = 1 <=> (Bit(s, i) = 1 \/ Bit(s, i + m) = 1)
  BY OrShiftBits DEF Smeared
<1>2. ASSUME NEW i \in Nat
      PROVE  Bit(r, i) = 1 <=> \E j \in 0..(2*m)-1 : Bit(x, i + j) = 1
  <2>1. ASSUME Bit(r, i) = 1 PROVE \E j \in 0..(2*m)-1 : Bit(x, i + j) = 1
    <3>1. CASE Bit(s, i) = 1
      <4>1. PICK j \in 0..m-1 : Bit(x, i + j) = 1
        BY <3>1 DEF Smeared
      <4>2. j \in 0..(2*m)-1
        OBVIOUS
      <4> QED BY <4>1, <4>2
    <3>2. CASE Bit(s, i + m) = 1
      <4>0. i + m \in Nat
        OBVIOUS
      <4>1. PICK j \in 0..m-1 : Bit(x, (i + m) + j) = 1
        BY <3>2, <4>0 DEF Smeared
      <4>2. m + j \in 0..(2*m)-1 /\ (i + m) + j = i + (m + j)
        OBVIOUS
      <4> QED BY <4>1, <4>2
    <3> QED BY <1>1, <2>1, <3>1, <3>2
  <2>2. ASSUME NEW j \in 0..(2*m)-1, Bit(x, i + j) = 1 PROVE Bit(r, i) = 1
    <3>1. CASE j <= m - 1
      <4>1. j \in 0..m-1
        BY <3>1
      <4>2. Bit(s, i) = 1
        BY <2>2, <4>1 DEF Smeared
      <4> QED BY <1>1, <4>2
    <3>2. CASE j >= m
      <4>1. j - m \in 0..m-1 /\ (i + m) + (j - m) = i + j /\ i + m \in Nat
        BY <3>2
      <4>2. Bit(s, i + m) = 1
        BY <2>2, <4>1 DEF Smeared
      <4> QED BY <1>1, <4>2
    <3> QED BY <3>1, <3>2
  <2> QED BY <2>1, <2>2
<1> QED BY <1>1, <1>2 DEF Smeared

LEMMA SmearBits ==
  ASSUME NEW x, IsWord(x)
  PROVE  Smeared(x, Smear(x), 32)
<1>1. Smeared(x, x, 1)
  <2>1. ASSUME NEW i \in Nat PROVE Bit(x, i) = 1 <=> \E j \in 0..0 : Bit(x, i + j) = 1
    OBVIOUS
  <2>2. 1 - 1 = 0
    OBVIOUS
  <2> QED BY <2>1, <2>2 DEF Smeared
<1>2. PICK a : a = OrShift(x, 1)
  OBVIOUS
<1>3. PICK b : b = OrShift(a, 2)
  OBVIOUS
<1>4. PICK c : c = OrShift(b, 4)
  OBVIOUS
<1>5. PICK d : d = OrShift(c, 8)
  OBVIOUS
<1>6. PICK e : e = OrShift(d, 16)
  OBVIOUS
<1>7. Smeared(x, a, 2 * 1)
  BY <1>1, <1>2, SmearStep
<1>8. Smeared(x, b, 2 * 2)
  BY <1>3, <1>7, SmearStep
<1>9. Smeared(x, c, 2 * 4)
  BY <1>4, <1>8, SmearStep
<1>10. Smeared(x, d, 2 * 8)
  BY <1>5, <1>9, SmearStep
<1>11. Smeared(x, e, 2 * 16)
  BY <1>6, <1>10, SmearStep
<1>12. e = Smear(x)
  BY <1>2, <1>3, <1>4, <1>5, <1>6 DEF Smear
<1> QED BY <1>11, <1>12

LEMMA WordBounds ==
  ASSUME NEW x \in Int, INT_MIN <= x, x <= INT_MAX
  PROVE  IsWord(x)
<1> DEFINE T == {i \in Nat : i <= 31 => -Pow2[31-i] <= Shift(x, i) /\ Shift(x, i) < Pow2[31-i]}
<1>1. 0 \in T
  <2>1. Pow2[31] = 2147483648 /\ Shift(x, 0) = x /\ 31 - 0 = 31
    BY Pow2Values, ShiftFacts, SMT
  <2> QED BY <2>1, SMT DEF INT_MIN, INT_MAX
<1>2. ASSUME NEW i \in Nat, i \in T PROVE i + 1 \in T
  <2> SUFFICES ASSUME i + 1 <= 31
               PROVE  -Pow2[31-(i+1)] <= Shift(x, i+1) /\ Shift(x, i+1) < Pow2[31-(i+1)]
    BY SMT
  <2>1. 30 - i \in Nat /\ (30 - i) + 1 = 31 - i /\ 31 - (i + 1) = 30 - i
    BY SMT
  <2>2. PICK p \in Nat : p = Pow2[30-i] /\ Pow2[31-i] = 2 * p
    BY <2>1, Pow2Facts, SMT
  <2>a. Shift(x, i) \in Int /\ Shift(x, i+1) = Shift(x, i) \div 2
    BY ShiftFacts, SMT
  <2>3. PICK s \in Int : s = Shift(x, i) /\ Shift(x, i+1) = s \div 2
    BY <2>a
  <2>4. -(2*p) <= s /\ s < 2 * p
    BY <1>2, <2>2, <2>3, SMT
  <2>5. -p <= s \div 2 /\ s \div 2 < p
    BY <2>4, SMT
  <2> QED BY <2>1, <2>2, <2>3, <2>5, SMT
<1> HIDE DEF T
<1>3. \A i \in Nat : i \in T
  BY <1>1, <1>2, FromZero, SMT
<1>4. -Pow2[31-31] <= Shift(x, 31) /\ Shift(x, 31) < Pow2[31-31] /\ Shift(x, 31) \in Int
  BY <1>3, ShiftFacts, SMT DEF T
<1>5. Pow2[31-31] = 1
  BY Pow2Facts, SMT
<1> QED BY <1>4, <1>5, SMT DEF IsWord

\* A number whose lowest h bits are all set, and no other.
LEMMA LowBits ==
  ASSUME NEW s, IsWord(s), NEW h \in 0..31,
         \A i \in Nat : Bit(s, i) = 1 <=> i < h
  PROVE  s = Pow2[h] - 1
<1>1. s \in Int /\ h \in Nat /\ h <= 31
  BY DEF IsWord
<1>2. Shift(s, 31) = 0
  <2>1. Bit(s, 31) # 1
    OBVIOUS
  <2> QED BY <2>1, WordSign, <1>1
<1> DEFINE T == {t \in Nat : t <= 31 - h => Shift(s, 31 - t) = 0}
<1>3. 0 \in T
  BY <1>2
<1>4. ASSUME NEW t \in Nat, t \in T PROVE t + 1 \in T
  <2> SUFFICES ASSUME t + 1 <= 31 - h PROVE Shift(s, 31 - (t + 1)) = 0
    OBVIOUS
  <2>1. PICK i \in Nat : i = 31 - (t + 1) /\ i + 1 = 31 - t /\ i >= h
    <3>1. 31 - (t + 1) \in Nat /\ (31 - (t + 1)) + 1 = 31 - t /\ 31 - (t + 1) >= h
      OBVIOUS
    <3> QED BY <3>1
  <2>2. Shift(s, i+1) = 0
    BY <1>4, <2>1
  <2>3. Bit(s, i) = 0
    BY <1>1, <2>1, ShiftType
  <2>4. Shift(s, i) = 2 * Shift(s, i+1) + Bit(s, i)
    BY <1>1, ShiftType
  <2> QED BY <2>1, <2>2, <2>3, <2>4
<1> HIDE DEF T
<1>5. \A t \in Nat : t \in T
  BY <1>3, <1>4, FromZero
<1>6. Shift(s, h) = 0
  <2>1. 31 - h \in Nat /\ 31 - (31 - h) = h
    BY <1>1
  <2>2. Shift(s, 31 - (31 - h)) = 0
    BY <1>5, <2>1 DEF T
  <2> QED BY <2>1, <2>2
<1> DEFINE U == {t \in Nat : t <= h => Shift(s, h - t) = Pow2[t] - 1}
<1>7. 0 \in U
  BY <1>1, <1>6, Pow2Facts
<1>8. ASSUME NEW t \in Nat, t \in U PROVE t + 1 \in U
  <2> SUFFICES ASSUME t + 1 <= h PROVE Shift(s, h - (t + 1)) = Pow2[t+1] - 1
    OBVIOUS
  <2>1. PICK i \in Nat : i = h - (t + 1) /\ i + 1 = h - t /\ i < h
    <3>1. h - (t + 1) \in Nat /\ (h - (t + 1)) + 1 = h - t /\ h - (t + 1) < h
      BY <1>1
    <3> QED BY <3>1
  <2>2. Shift(s, i+1) = Pow2[t] - 1
    BY <1>1, <1>8, <2>1
  <2>3. Bit(s, i) = 1
    BY <2>1
  <2>4. Shift(s, i) = 2 * Shift(s, i+1) + Bit(s, i)
    BY <1>1, ShiftType
  <2>5. Pow2[t+1] = 2 * Pow2[t] /\ Pow2[t] \in Nat
    BY Pow2Facts
  <2> QED BY <2>1, <2>2, <2>3, <2>4, <2>5
<1> HIDE DEF U
<1>9. \A t \in Nat : t \in U
  BY <1>7, <1>8, FromZero
<1>10. Shift(s, h - h) = Pow2[h] - 1
  BY <1>1, <1>9 DEF U
<1>11. h - h = 0 /\ Shift(s, 0) = s
  BY <1>1, ShiftFacts
<1> QED BY <1>10, <1>11

LEMMA AllBits ==
  ASSUME NEW s, IsWord(s), \A i \in Nat : Bit(s, i) = 1
  PROVE  s = -1
<1>1. s \in Int
  BY DEF IsWord
<1>2. Shift(s, 31) = -1
  BY <1>1, WordSign
<1> DEFINE T == {t \in Nat : t <= 31 => Shift(s, 31 - t) = -1}
<1>3. 0 \in T
  BY <1>2
<1>4. ASSUME NEW t \in Nat, t \in T PROVE t + 1 \in T
  <2> SUFFICES ASSUME t + 1 <= 31 PROVE Shift(s, 31 - (t + 1)) = -1
    OBVIOUS
  <2>1. PICK i \in Nat : i = 31 - (t + 1) /\ i + 1 = 31 - t
    <3>1. 31 - (t + 1) \in Nat /\ (31 - (t + 1)) + 1 = 31 - t
      OBVIOUS
    <3> QED BY <3>1
  <2>2. Shift(s, i+1) = -1
    BY <1>4, <2>1
  <2>3. Shift(s, i) = 2 * Shift(s, i+1) + Bit(s, i)
    BY <1>1, ShiftType
  <2> QED BY <2>1, <2>2, <2>3
<1> HIDE DEF T
<1>5. \A t \in Nat : t \in T
  BY <1>3, <1>4, FromZero
<1>6. Shift(s, 31 - 31) = -1
  BY <1>5 DEF T
<1> QED BY <1>1, <1>6, ShiftFacts

\* The highest bit of a positive number.
LEMMA TopBit ==
  ASSUME NEW y \in Nat \ {0}, IsWord(y)
  PROVE  \E h \in 0..30 : /\ \A i \in Nat : i >= h + 1 => Bit(y, i) = 0
                          /\ Bit(y, h) = 1
                          /\ Pow2[h] <= y /\ y < Pow2[h+1]
<1> DEFINE Z == {i \in Nat : Shift(y, i) = 0}
<1>1. Shift(y, 31) = 0 /\ Shift(y, 0) = y
  BY WordSign, ShiftFacts
<1>2. PICK m \in Z : \A k \in Z : m <= k
  BY <1>1, LeastNumber
<1>3. m # 0 /\ m <= 31 /\ m \in Nat /\ Shift(y, m) = 0
  BY <1>1, <1>2
<1>4. PICK h \in 0..30 : m = h + 1
  <2>1. m - 1 \in 0..30 /\ m = (m - 1) + 1
    BY <1>3
  <2> QED BY <2>1
<1>5. h \in Nat /\ Shift(y, h) # 0
  BY <1>2, <1>4
<1>6. Shift(y, h) = 2 * 0 + Bit(y, h) /\ Bit(y, h) \in {0, 1}
  BY <1>3, <1>4, <1>5, ShiftType
<1>7. Shift(y, h) = 1 /\ Bit(y, h) = 1
  BY <1>5, <1>6
<1>8. ASSUME NEW i \in Nat, i >= h + 1 PROVE Bit(y, i) = 0
  <2> DEFINE T == {t \in Nat : Shift(y, m + t) = 0}
  <2>1. 0 \in T
    BY <1>3
  <2>2. ASSUME NEW t \in Nat, t \in T PROVE t + 1 \in T
    <3>1. m + t \in Nat /\ m + (t + 1) = (m + t) + 1
      BY <1>3
    <3>2. Shift(y, (m + t) + 1) = Shift(y, m + t) \div 2
      BY <3>1, ShiftFacts
    <3> QED BY <2>2, <3>1, <3>2
  <2> HIDE DEF T
  <2>3. \A t \in Nat : t \in T
    BY <2>1, <2>2, FromZero
  <2>4. i - m \in Nat /\ m + (i - m) = i
    BY <1>3, <1>4, <1>8
  <2>5. Shift(y, i) = 0
    BY <2>3, <2>4 DEF T
  <2> QED BY <2>5 DEF Bit
<1>9. Pow2[h] <= y /\ y < Pow2[h+1]
  <2> DEFINE U == {t \in Nat : t <= h => Pow2[t] <= Shift(y, h-t) /\ Shift(y, h-t) < Pow2[t+1]}
  <2>1. 0 \in U
    <3>1. Pow2[0] = 1 /\ Pow2[0+1] = 2 /\ h - 0 = h
      BY Pow2Facts
    <3> QED BY <1>7, <3>1
  <2>2. ASSUME NEW t \in Nat, t \in U PROVE t + 1 \in U
    <3> SUFFICES ASSUME t + 1 <= h
                 PROVE  Pow2[t+1] <= Shift(y, h-(t+1)) /\ Shift(y, h-(t+1)) < Pow2[(t+1)+1]
      OBVIOUS
    <3>1. PICK i \in Nat : i = h - (t + 1) /\ i + 1 = h - t
      <4>1. h - (t + 1) \in Nat /\ (h - (t + 1)) + 1 = h - t
        OBVIOUS
      <4> QED BY <4>1
    <3>2. PICK s \in Int : s = Shift(y, i+1)
      BY ShiftType
    <3>3. Pow2[t] <= s /\ s < Pow2[t+1]
      BY <2>2, <3>1, <3>2
    <3>a. Shift(y, i) = 2 * Shift(y, i+1) + Bit(y, i) /\ Bit(y, i) \in {0, 1}
      <4> HIDE DEF U
      <4>1. y \in Int
        OBVIOUS
      <4> QED BY <4>1, ShiftType
    <3>4. Shift(y, i) = 2 * s + Bit(y, i) /\ Bit(y, i) \in {0, 1}
      BY <3>2, <3>a
    <3>5. Pow2[t+1] = 2 * Pow2[t] /\ Pow2[(t+1)+1] = 2 * Pow2[t+1] /\ Pow2[t] \in Nat
      BY Pow2Facts
    <3> QED BY <3>1, <3>3, <3>4, <3>5
  <2> HIDE DEF U
  <2>3. \A t \in Nat : t \in U
    BY <2>1, <2>2, FromZero
  <2>4. Pow2[h] <= Shift(y, h-h) /\ Shift(y, h-h) < Pow2[h+1]
    BY <1>5, <2>3 DEF U
  <2> QED BY <1>1, <1>5, <2>4
<1> QED BY <1>7, <1>8, <1>9

\* What the bit trick makes of a positive number, and of a negative one.
LEMMA SmearPositive ==
  ASSUME NEW y \in Nat \ {0}, IsWord(y)
  PROVE  \E h \in 0..30 : Pow2[h] <= y /\ y < Pow2[h+1] /\ Smear(y) = Pow2[h+1] - 1
<1>1. PICK s : s = Smear(y)
  OBVIOUS
<1>2. /\ IsWord(s)
      /\ \A i \in Nat : Bit(s, i) = 1 <=> \E j \in 0..31 : Bit(y, i + j) = 1
  <2>1. Smeared(y, s, 32) /\ 32 - 1 = 31
    BY <1>1, SmearBits
  <2> QED BY <2>1 DEF Smeared
<1>3. PICK h \in 0..30 : /\ \A i \in Nat : i >= h + 1 => Bit(y, i) = 0
                         /\ Bit(y, h) = 1
                         /\ Pow2[h] <= y /\ y < Pow2[h+1]
  BY TopBit
<1>4. ASSUME NEW i \in Nat PROVE Bit(s, i) = 1 <=> i < h + 1
  <2>1. CASE i < h + 1
    <3>1. h - i \in 0..31 /\ i + (h - i) = h
      BY <2>1
    <3> QED BY <1>2, <1>3, <2>1, <3>1
  <2>2. CASE ~(i < h + 1)
    <3>1. ASSUME NEW j \in 0..31 PROVE Bit(y, i + j) = 0
      <4>1. i + j \in Nat /\ i + j >= h + 1
        BY <2>2
      <4> QED BY <1>3, <4>1
    <3> QED BY <1>2, <2>2, <3>1
  <2> QED BY <2>1, <2>2
<1>5. PICK g \in 0..31 : g = h + 1
  <2>1. h + 1 \in 0..31
    OBVIOUS
  <2> QED BY <2>1
<1>6. s = Pow2[g] - 1
  BY <1>2, <1>4, <1>5, LowBits
<1> QED BY <1>1, <1>3, <1>5, <1>6

LEMMA SmearNegative ==
  ASSUME NEW y \in Int, IsWord(y), y < 0
  PROVE  Smear(y) = -1
<1>1. PICK s : s = Smear(y)
  OBVIOUS
<1>2. /\ IsWord(s)
      /\ \A i \in Nat : Bit(s, i) = 1 <=> \E j \in 0..31 : Bit(y, i + j) = 1
  <2>1. Smeared(y, s, 32) /\ 32 - 1 = 31
    BY <1>1, SmearBits
  <2> QED BY <2>1 DEF Smeared
<1>3. ASSUME NEW i \in Nat PROVE Bit(s, i) = 1
  <2>1. i + 31 \in Nat /\ i + 31 >= 31 /\ 31 \in 0..31
    OBVIOUS
  <2>2. Bit(y, i + 31) = 1
    BY <2>1, WordSign
  <2> QED BY <1>2, <2>1, <2>2
<1> QED BY <1>1, <1>2, <1>3, AllBits

\* Of a number that is not positive nothing is left; INT_MIN wraps around.
LEMMA RoundUpPositive ==
  ASSUME NEW x \in Int, 1 < x, x <= INT_MAX
  PROVE  \E h \in 0..30 : /\ Pow2[h] < x /\ x <= Pow2[h+1]
                          /\ RoundUp(x) = IF h = 30 THEN INT_MIN ELSE Pow2[h+1]
<1>1. x # INT_MIN
  BY SMT DEF INT_MIN, INT_MAX
<1>2. PICK y \in Nat \ {0} : y = x - 1
  <2>1. x - 1 \in Nat \ {0}
    BY SMT
  <2> QED BY <2>1
<1>3. IsWord(y)
  <2>1. y \in Int /\ INT_MIN <= y /\ y <= INT_MAX
    BY <1>2, SMT DEF INT_MIN, INT_MAX
  <2> QED BY <2>1, WordBounds
<1>4. PICK h \in 0..30 : Pow2[h] <= y /\ y < Pow2[h+1] /\ Smear(y) = Pow2[h+1] - 1
  BY <1>3, SmearPositive
<1>5. Pow2[h] \in Nat /\ Pow2[h+1] \in Nat
  <2>1. h \in Nat /\ h + 1 \in Nat
    OBVIOUS
  <2> QED BY <2>1, Pow2Facts
<1>6. Pow2[h] < x /\ x <= Pow2[h+1]
  BY <1>2, <1>4, <1>5, SMT
<1>7. RoundUp(x) = IF Pow2[h+1] - 1 = INT_MAX THEN INT_MIN ELSE (Pow2[h+1] - 1) + 1
  BY <1>1, <1>2, <1>4, Zenon DEF RoundUp
<1>8. (Pow2[h+1] - 1) + 1 = Pow2[h+1]
  BY <1>5
<1>9. Pow2[h+1] - 1 = INT_MAX <=> h = 30
  <2>1. Pow2[31] = 2147483648
    BY Pow2Values, SMT
  <2>2. h = 30 => h + 1 = 31
    OBVIOUS
  <2>3. h # 30 => Pow2[h+1] < Pow2[31]
    <3>1. h # 30 => h + 1 < 31
      OBVIOUS
    <3>2. h + 1 \in Nat /\ 31 \in Nat
      OBVIOUS
    <3> QED BY <3>1, <3>2, Pow2Less
  <2> QED BY <1>5, <2>1, <2>2, <2>3, SMT DEF INT_MAX
<1> QED BY <1>6, <1>7, <1>8, <1>9, Zenon

LEMMA RoundUpOthers ==
  ASSUME NEW x \in Int, INT_MIN <= x, x <= 0
  PROVE  RoundUp(x) \in Int /\ RoundUp(x) <= 0
<1>0. INT_MAX = 2147483647 /\ INT_MIN = -2147483648
  BY SMT DEF INT_MAX, INT_MIN
<1>1. CASE x = INT_MIN
  <2>1. PICK y \in Nat \ {0} : y = INT_MAX
    BY <1>0, SMT
  <2>2. IsWord(y)
    <3>1. y \in Int /\ INT_MIN <= y /\ y <= INT_MAX
      BY <1>0, <2>1, SMT
    <3> QED BY <3>1, WordBounds
  <2>3. PICK h \in 0..30 : Pow2[h] <= y /\ y < Pow2[h+1] /\ Smear(y) = Pow2[h+1] - 1
    BY <2>2, SmearPositive
  <2>4. h = 30
    <3>1. ASSUME h # 30 PROVE FALSE
      <4>1. h + 1 \in Nat /\ 30 \in Nat /\ h + 1 <= 30
        BY <3>1
      <4>2. Pow2[h+1] <= Pow2[30] /\ Pow2[h+1] \in Nat
        BY <4>1, Pow2Less, Pow2Facts
      <4>3. Pow2[30] = 1073741824
        BY Pow2Values, SMT
      <4> QED BY <1>0, <2>1, <2>3, <4>2, <4>3, SMT
    <3> QED BY <3>1
  <2>5. Smear(y) = INT_MAX
    <3>1. Pow2[31] = 2147483648 /\ h + 1 = 31
      BY <2>4, Pow2Values, SMT
    <3> QED BY <1>0, <2>3, <3>1, SMT
  <2>6. RoundUp(x) = INT_MIN
    BY <1>1, <2>1, <2>5, Zenon DEF RoundUp
  <2> QED BY <1>0, <2>6, SMT
<1>2. CASE x # INT_MIN
  <2>1. PICK y \in Int : y = x - 1
    <3>1. x - 1 \in Int
      BY SMT
    <3> QED BY <3>1
  <2>2. INT_MIN <= y /\ y <= INT_MAX /\ y < 0
    BY <1>0, <1>2, <2>1, SMT
  <2>3. IsWord(y)
    BY <2>2, WordBounds
  <2>4. Smear(y) = -1
    BY <2>2, <2>3, SmearNegative, SMT
  <2>5. RoundUp(x) = IF -1 = INT_MAX THEN INT_MIN ELSE -1 + 1
    BY <1>2, <2>1, <2>4, Zenon DEF RoundUp
  <2> QED BY <1>0, <2>5, SMT
<1> QED BY <1>1, <1>2

-----------------------------------------------------------------------------
(* The capacity.                                                            *)

LEMMA Times1024Value ==
  ASSUME NEW v \in Int
  PROVE  \E r \in Int : /\ Times1024(v) = 1024 * r /\ -2097152 <= r /\ r <= 2097151
                        /\ -NO_OVERFLOW <= v /\ v <= NO_OVERFLOW => r = v
<1>1. PICK m \in Int : m = v % 4194304
  BY SMT
<1>2. 0 <= m /\ m <= 4194303 /\ v = 4194304 * (v \div 4194304) + m /\ v \div 4194304 \in Int
  BY <1>1, SMT
<1>3. PICK r \in Int : r = IF m >= 2097152 THEN m - 4194304 ELSE m
  <2>1. (IF m >= 2097152 THEN m - 4194304 ELSE m) \in Int
    BY SMT
  <2> QED BY <2>1, SMT
<1>4. Times1024(v) = 1024 * r
  BY <1>1, <1>3, SMT DEF Times1024
<1>5. -2097152 <= r /\ r <= 2097151
  BY <1>2, <1>3, SMT
<1>6. -NO_OVERFLOW <= v /\ v <= NO_OVERFLOW => r = v
  BY <1>2, <1>3, SMT DEF NO_OVERFLOW
<1> QED BY <1>4, <1>5, <1>6, SMT

\* The capacity that env_init makes of the rounded number.
Limited(n) == CASE n < MIN_PTRS_PER_THREAD -> MIN_PTRS_PER_THREAD
                [] n > MAX_PTRS_PER_THREAD -> MAX_PTRS_PER_THREAD
                [] OTHER -> n

LEMMA LimitedValue ==
  ASSUME NEW n \in Int
  PROVE  /\ n < 1024 => Limited(n) = 1024
         /\ n > 32768 => Limited(n) = 32768
         /\ 1024 <= n /\ n <= 32768 => Limited(n) = n
<1>1. MIN_PTRS_PER_THREAD = 1024 /\ MAX_PTRS_PER_THREAD = 32768
  BY SMT DEF MIN_PTRS_PER_THREAD, MAX_PTRS_PER_THREAD
<1>2. CASE n < 1024
  BY <1>1, <1>2, SMT DEF Limited
<1>3. CASE n > 32768
  BY <1>1, <1>3, SMT DEF Limited
<1>4. CASE 1024 <= n /\ n <= 32768
  BY <1>1, <1>4, SMT DEF Limited
<1> QED BY <1>2, <1>3, <1>4, SMT

LEMMA PowersFacts ==
  /\ \A k \in 0..30 : Pow2[k] \in PowersOf2
  /\ \A p \in PowersOf2 : p \in Nat /\ \E k \in 0..30 : p = Pow2[k]
  /\ 1024 \in PowersOf2 /\ 32768 \in PowersOf2
<1>1. \A k \in 0..30 : k \in Nat /\ Pow2[k] \in Nat
  BY Pow2Facts
<1>2. Pow2[10] \in PowersOf2 /\ Pow2[15] \in PowersOf2
  BY SMT DEF PowersOf2
<1>3. \A p \in PowersOf2 : \E k \in 0..30 : p = Pow2[k]
  BY DEF PowersOf2
<1> QED BY <1>1, <1>2, <1>3, Pow2Values, SMT DEF PowersOf2

LEMMA LimitedIsUsable ==
  ASSUME NEW n \in Int, n <= 0 \/ n \in PowersOf2
  PROVE  /\ Limited(n) \in PowersOf2 /\ Limited(n) \in Int
         /\ 1024 <= Limited(n) /\ Limited(n) <= 32768
<1>1. CASE n < 1024
  BY <1>1, LimitedValue, PowersFacts, SMT
<1>2. CASE n > 32768
  BY <1>2, LimitedValue, PowersFacts, SMT
<1>3. CASE 1024 <= n /\ n <= 32768
  <2>1. Limited(n) = n
    BY <1>3, LimitedValue, SMT
  <2>2. n \in PowersOf2
    BY <1>3, SMT
  <2> QED BY <1>3, <2>1, <2>2
<1> QED BY <1>1, <1>2, <1>3, SMT

\* A power of two that is the least one not below n is the one wanted.
LEMMA WantedValue ==
  ASSUME NEW n \in Int, NEW p \in PowersOf2, p >= n,
         \A q \in PowersOf2 : q >= n => p <= q
  PROVE  Wanted(n) = Limited(p)
<1> DEFINE Least(e) == e \in PowersOf2 /\ e >= n /\ \A q \in PowersOf2 : q >= n => e <= q
           c == CHOOSE e \in PowersOf2 : e >= n /\ \A q \in PowersOf2 : q >= n => e <= q
<1>1. Least(c)
  OBVIOUS
<1>2. c \in Nat /\ p \in Nat
  BY <1>1, PowersFacts
<1>3. c = p
  BY <1>1, <1>2
<1> QED BY <1>3 DEF Wanted, Limited

LEMMA CapacityOf ==
  ASSUME NEW v \in Int, NEW n, n = RoundUp(Times1024(v))
  PROVE  /\ n \in Int /\ (n <= 0 \/ n \in PowersOf2)
         /\ -NO_OVERFLOW <= v /\ v <= NO_OVERFLOW => Limited(n) = Wanted(1024 * v)
<1>1. PICK r \in Int : /\ Times1024(v) = 1024 * r /\ -2097152 <= r /\ r <= 2097151
                       /\ -NO_OVERFLOW <= v /\ v <= NO_OVERFLOW => r = v
  BY Times1024Value, SMT
<1>2. PICK x \in Int : x = 1024 * r /\ x = Times1024(v)
  <2>1. 1024 * r \in Int
    BY SMT
  <2> QED BY <1>1, <2>1
<1>3. INT_MIN <= x /\ x <= INT_MAX /\ (x > 0 => x > 1)
  BY <1>1, <1>2, SMT DEF INT_MIN, INT_MAX
<1>4. CASE x <= 0
  <2>1. n \in Int /\ n <= 0
    BY <1>2, <1>3, <1>4, RoundUpOthers, SMT
  <2>2. ASSUME -NO_OVERFLOW <= v, v <= NO_OVERFLOW PROVE Limited(n) = Wanted(1024 * v)
    <3>1. 1024 * v = x
      BY <1>1, <1>2, <2>2, SMT
    <3>2. Pow2[0] = 1 /\ Pow2[0] \in PowersOf2 /\ \A q \in PowersOf2 : 1 <= q
      <4>1. \A q \in PowersOf2 : q \in Nat \ {0}
        <5>1. \A k \in 0..30 : Pow2[k] \in Nat \ {0}
          BY Pow2Facts, SMT
        <5> QED BY <5>1, PowersFacts, SMT
      <4>2. 0 \in 0..30
        BY SMT
      <4> QED BY <4>1, <4>2, PowersFacts, Pow2Facts, SMT
    <3>3. PICK p : p = Pow2[0]
      OBVIOUS
    <3>4. p \in PowersOf2 /\ p >= x /\ \A q \in PowersOf2 : q >= x => p <= q
      BY <1>4, <3>2, <3>3, SMT
    <3>5. Wanted(x) = Limited(p)
      BY <3>4, WantedValue, SMT
    <3>6. Limited(p) = 1024 /\ Limited(n) = 1024
      BY <2>1, <3>2, <3>3, LimitedValue, SMT
    <3> QED BY <3>1, <3>5, <3>6, SMT
  <2> QED BY <2>1, <2>2
<1>5. CASE x > 0
  <2>1. PICK h \in 0..30 : /\ Pow2[h] < x /\ x <= Pow2[h+1]
                           /\ n = IF h = 30 THEN INT_MIN ELSE Pow2[h+1]
    BY <1>2, <1>3, <1>5, RoundUpPositive, SMT
  <2>2. INT_MIN \in Int /\ INT_MIN <= 0
    BY SMT DEF INT_MIN, INT_MAX
  <2>3. h # 30 => h + 1 \in 0..30
    BY SMT
  <2>4. n \in Int /\ (n <= 0 \/ n \in PowersOf2)
    BY <2>1, <2>2, <2>3, PowersFacts, SMT
  <2>5. ASSUME -NO_OVERFLOW <= v, v <= NO_OVERFLOW PROVE Limited(n) = Wanted(1024 * v)
    <3>1. 1024 * v = x /\ x <= 1073741824
      BY <1>1, <1>2, <2>5, SMT DEF NO_OVERFLOW
    <3>2. h # 30
      BY <2>1, <3>1, Pow2Values, SMT
    <3>3. n = Pow2[h+1] /\ n \in PowersOf2 /\ n >= x
      BY <2>1, <2>3, <3>2, PowersFacts, SMT
    <3>4. ASSUME NEW q \in PowersOf2, q >= x PROVE n <= q
      <4>1. PICK k \in 0..30 : q = Pow2[k]
        BY PowersFacts
      <4>2. k \in Nat /\ h \in Nat /\ h + 1 \in Nat /\ Pow2[k] \in Nat /\ Pow2[h] \in Nat
        BY Pow2Facts, SMT
      <4>3. ~(k <= h)
        <5>1. k <= h => Pow2[k] <= Pow2[h]
          BY <4>2, Pow2Less
        <5> QED BY <2>1, <3>4, <4>1, <4>2, <5>1, SMT
      <4>4. h + 1 <= k
        BY <4>2, <4>3, SMT
      <4>5. Pow2[h+1] <= Pow2[k]
        BY <4>2, <4>4, Pow2Less
      <4> QED BY <3>3, <4>1, <4>5
    <3>5. Wanted(x) = Limited(n)
      BY <3>3, <3>4, WantedValue, SMT
    <3> QED BY <3>1, <3>5
  <2> QED BY <2>4, <2>5
<1> QED BY <1>3, <1>4, <1>5, SMT

LEMMA Step_env_init ==
  ASSUME env \in EnvVals \cup {Unset}, env_init
  PROVE  CapacityUsable'
<1>1. PICK v \in Int : v = get_int(env, 4)
  <2>1. get_int(env, 4) \in Int
    BY StartupAssumption DEF get_int
  <2> QED BY <2>1
<1>2. PICK n : n = RoundUp(Times1024(v))
  OBVIOUS
<1>3. ptrs_per_thread' = Limited(n) /\ env' = env
  BY <1>1, <1>2, Zenon DEF env_init, Limited
<1>4. /\ n \in Int /\ (n <= 0 \/ n \in PowersOf2)
      /\ -NO_OVERFLOW <= v /\ v <= NO_OVERFLOW => Limited(n) = Wanted(1024 * v)
  BY <1>2, CapacityOf, SMT
<1>5. /\ Limited(n) \in PowersOf2 /\ Limited(n) \in Int
      /\ 1024 <= Limited(n) /\ Limited(n) <= 32768
  BY <1>4, LimitedIsUsable, SMT
<1>6. Limited(n) \in MIN_PTRS_PER_THREAD..MAX_PTRS_PER_THREAD
  <2>1. MIN_PTRS_PER_THREAD = 1024 /\ MAX_PTRS_PER_THREAD = 32768
    BY SMT DEF MIN_PTRS_PER_THREAD, MAX_PTRS_PER_THREAD
  <2>2. MIN_PTRS_PER_THREAD \in Int /\ MAX_PTRS_PER_THREAD \in Int
        /\ MIN_PTRS_PER_THREAD <= Limited(n) /\ Limited(n) <= MAX_PTRS_PER_THREAD
    BY <1>5, <2>1, SMT
  <2> QED BY <1>5, <2>2, SMT
<1>7. v \in -NO_OVERFLOW..NO_OVERFLOW => Limited(n) = Wanted(1024 * v)
  <2>1. NO_OVERFLOW \in Int
    BY SMT DEF NO_OVERFLOW
  <2> QED BY <1>4, <2>1, SMT
<1>8. get_int(env', 4) = v
  BY <1>1, <1>3 DEF get_int
<1>9. get_int(env', 4) \in -NO_OVERFLOW..NO_OVERFLOW
         => ptrs_per_thread' = Wanted(1024 * get_int(env', 4))
  BY <1>3, <1>7, <1>8
<1>10. /\ ptrs_per_thread' \in PowersOf2
       /\ ptrs_per_thread' \in MIN_PTRS_PER_THREAD..MAX_PTRS_PER_THREAD
  BY <1>3, <1>5, <1>6
<1> QED BY <1>9, <1>10 DEF CapacityUsable

\* The environment does not change.
EnvInv == env \in EnvVals \cup {Unset} /\ CapacityUsable

(***************************************************************************)
(* env_init leaves a power of two within the limits, whatever the variable *)
(* says, and the one asked for while nothing overflows: the bit trick is   *)
(* right for each of the 2^32 values of an int.                            *)
(***************************************************************************)
THEOREM CapacityIsUsable == Spec => []CapacityUsable
<1>1. Init => EnvInv
  BY DEF Init, EnvInv, CapacityUsable
<1>2. EnvInv /\ [Next]_vars => EnvInv'
  <2> SUFFICES ASSUME EnvInv, [Next]_vars PROVE EnvInv'
    OBVIOUS
  <2>1. CASE env_init
    BY <2>1, Step_env_init DEF EnvInv, env_init
  <2>2. CASE ~env_init
    <3>1. UNCHANGED <<env, ptrs_per_thread>> /\ (stage = "load" => stage' = "load")
      BY <2>2 DEF Next, register_signal_handlers, proc_init, do_wrapper_replacement,
                  libc_start_main, stack_from_addr, add_thread_data, thread_base, Started, vars
    <3>2. get_int(env', 4) = get_int(env, 4)
      BY <3>1 DEF get_int
    <3>3. CASE stage = "load"
      BY <3>1, <3>3 DEF EnvInv, CapacityUsable
    <3>4. CASE stage # "load"
      <4>1. /\ ptrs_per_thread \in PowersOf2
            /\ ptrs_per_thread \in MIN_PTRS_PER_THREAD..MAX_PTRS_PER_THREAD
            /\ get_int(env, 4) \in -NO_OVERFLOW..NO_OVERFLOW
                  => ptrs_per_thread = Wanted(1024 * get_int(env, 4))
        BY <3>4 DEF EnvInv, CapacityUsable
      <4>2. /\ ptrs_per_thread' \in PowersOf2
            /\ ptrs_per_thread' \in MIN_PTRS_PER_THREAD..MAX_PTRS_PER_THREAD
            /\ get_int(env', 4) \in -NO_OVERFLOW..NO_OVERFLOW
                  => ptrs_per_thread' = Wanted(1024 * get_int(env', 4))
        BY <3>1, <3>2, <4>1
      <4> QED BY <3>1, <4>2 DEF EnvInv, CapacityUsable
    <3> QED BY <3>3, <3>4
  <2> QED BY <2>1, <2>2
<1>3. EnvInv => CapacityUsable
  BY DEF EnvInv
<1> QED BY <1>1, <1>2, <1>3, PTL DEF Spec

-----------------------------------------------------------------------------
(* The sizes.                                                               *)

\* The capacities that CapacityUsable leaves, and others.
Multiples == {MIN_PTRS_PER_THREAD * j : j \in 1..32}

LEMMA SizesFit ==
  ASSUME SizesInv, ptrs_per_thread \in Multiples
  PROVE  BuffersFit
<1> SUFFICES ASSUME stage \notin {"load", "101"} PROVE BuffersFit
  BY SMT DEF BuffersFit
<1>1. PICK j \in 1..32 : ptrs_per_thread = 1024 * j
  BY SMT DEF Multiples, MIN_PTRS_PER_THREAD
<1>2. g_tsdata.max_ptrs = 262144 * j
  BY <1>1, SMT DEF SizesInv, MAX_THREAD_COUNT
<1>3. g_tsdata.scan_map_offset = 4194304 * j
  BY <1>2, SMT DEF SizesInv, WORD
<1>4. g_tsdata.scan_map_sz = 8192 * j
  <2>1. (2 * (262144 * j) * 8 * 8) \div 4096 = 8192 * j
    BY SMT
  <2>2. ScanMapSize(g_tsdata.max_ptrs) = 8192 * j
    BY <1>2, <2>1, SMT DEF ScanMapSize, WORD, PAGESIZE
  <2>3. (8192 * j) % 4096 = 0
    BY SMT
  <2> QED BY <2>2, <2>3, SMT DEF SizesInv, PageUp, PAGESIZE
<1>5. g_tsdata.working_buffer_sz = 4202496 * j
  BY <1>2, <1>4, SMT DEF SizesInv, WORD
<1>6. (2 * g_tsdata.max_ptrs + 511) \div 512 = 1024 * j
  BY <1>2, SMT
<1>7. (4194304 * j) % 4096 = 0
  BY SMT
<1>8. (4202496 * j) % 4096 = 0
  BY SMT
<1>9. ((1024 * j) * 8) % 4096 = 0
  BY SMT
<1>10. 4202496 * j >= 1 /\ 4202496 * j <= 2147483647 /\ 4202496 * j \in Int
  BY SMT
<1>11. /\ g_tsdata.max_ptrs >= MAX_THREAD_COUNT * ptrs_per_thread
       /\ 2 * g_tsdata.max_ptrs * WORD <= g_tsdata.scan_map_offset
       /\ ((2 * g_tsdata.max_ptrs + 511) \div 512) * WORD <= g_tsdata.scan_map_sz
       /\ g_tsdata.scan_map_offset + g_tsdata.scan_map_sz <= g_tsdata.working_buffer_sz
  BY <1>1, <1>2, <1>3, <1>4, <1>5, <1>6, SMT DEF MAX_THREAD_COUNT, WORD
<1>12. g_tsdata.working_buffer_sz \in 1..INT_MAX
  <2>1. INT_MAX \in Int /\ 4202496 * j <= INT_MAX
    BY <1>10, SMT DEF INT_MAX
  <2> QED BY <1>5, <1>10, <2>1, SMT
<1>13. /\ g_tsdata.scan_map_offset % PAGESIZE = 0
       /\ g_tsdata.working_buffer_sz % PAGESIZE = 0
       /\ (ptrs_per_thread * WORD) % PAGESIZE = 0
  BY <1>1, <1>3, <1>5, <1>7, <1>8, <1>9, SMT DEF PAGESIZE, WORD
<1> QED BY <1>11, <1>12, <1>13, SMT DEF BuffersFit

(***************************************************************************)
(* The sizes that register_signal_handlers computes fit each other, and an *)
(* int, for every multiple of the smallest capacity up to the largest:     *)
(* what the rounding of env_init is for is not needed here.                *)
(***************************************************************************)
LEMMA MultiplesFit == Spec => [](ptrs_per_thread \in Multiples => BuffersFit)
<1>1. Init => SizesInv
  BY DEF Init, SizesInv
<1>2. SizesInv /\ [Next]_vars => SizesInv'
  <2> SUFFICES ASSUME SizesInv, [Next]_vars PROVE SizesInv'
    OBVIOUS
  <2>1. CASE register_signal_handlers
    BY <2>1 DEF register_signal_handlers, SizesInv
  <2>2. CASE env_init
    BY <2>2 DEF env_init, SizesInv
  <2>3. CASE ~register_signal_handlers /\ ~env_init
    <3>1. /\ UNCHANGED <<g_tsdata, ptrs_per_thread>>
          /\ stage \in {"load", "101"} => stage' = stage
      BY <2>3 DEF Next, proc_init, do_wrapper_replacement, libc_start_main, stack_from_addr,
                  add_thread_data, thread_base, Started, vars
    <3> QED BY <3>1 DEF SizesInv, PageUp, ScanMapSize
  <2> QED BY <2>1, <2>2, <2>3
<1>3. SizesInv => (ptrs_per_thread \in Multiples => BuffersFit)
  BY SizesFit
<1> QED BY <1>1, <1>2, <1>3, PTL DEF Spec

LEMMA UsableAreMultiples ==
  ASSUME NEW p \in PowersOf2, p \in MIN_PTRS_PER_THREAD..MAX_PTRS_PER_THREAD
  PROVE  p \in Multiples
<1>1. MIN_PTRS_PER_THREAD = 1024 /\ MAX_PTRS_PER_THREAD = 32768
  BY SMT DEF MIN_PTRS_PER_THREAD, MAX_PTRS_PER_THREAD
<1>2. p \in Int /\ 1024 <= p /\ p <= 32768
  BY <1>1, SMT
<1>3. PICK k \in 0..30 : p = Pow2[k]
  BY PowersFacts
<1>4. k \in Nat /\ Pow2[k] \in Nat
  BY Pow2Facts
<1>5. 10 <= k
  <2>1. k < 10 => Pow2[k] < Pow2[10]
    BY <1>4, Pow2Less
  <2> QED BY <1>2, <1>3, <1>4, <2>1, Pow2Values, SMT
<1>6. k <= 15
  <2>1. 15 < k => Pow2[15] < Pow2[k]
    BY <1>4, Pow2Less
  <2> QED BY <1>2, <1>3, <1>4, <2>1, Pow2Values, SMT
<1>7. p \in {1024, 2048, 4096, 8192, 16384, 32768}
  <2>1. k = 10 \/ k = 11 \/ k = 12 \/ k = 13 \/ k = 14 \/ k = 15
    BY <1>4, <1>5, <1>6, SMT
  <2>2. /\ Pow2[10+1] = 2 * Pow2[10] /\ Pow2[11+1] = 2 * Pow2[11] /\ Pow2[12+1] = 2 * Pow2[12]
        /\ Pow2[13+1] = 2 * Pow2[13]
    BY Pow2Facts, SMT
  <2> QED BY <1>3, <2>1, <2>2, Pow2Values, SMT
<1>8. \E j \in 1..32 : p = 1024 * j
  <2>1. \/ p = 1024 * 1 \/ p = 1024 * 2 \/ p = 1024 * 4
        \/ p = 1024 * 8 \/ p = 1024 * 16 \/ p = 1024 * 32
    BY <1>7, SMT
  <2> QED BY <2>1, SMT
<1> QED BY <1>1, <1>8, SMT DEF Multiples

(***************************************************************************)
(* The sizes that register_signal_handlers computes fit each other and an  *)
(* int, whatever the environment variable says.                            *)
(***************************************************************************)
THEOREM BuffersAlwaysFit == Spec => []BuffersFit
<1>1. CapacityUsable /\ (ptrs_per_thread \in Multiples => BuffersFit) => BuffersFit
  <2> SUFFICES ASSUME CapacityUsable, ptrs_per_thread \in Multiples => BuffersFit,
                      stage \notin {"load", "101"}
               PROVE  BuffersFit
    BY SMT DEF BuffersFit
  <2>1. /\ ptrs_per_thread \in PowersOf2
        /\ ptrs_per_thread \in MIN_PTRS_PER_THREAD..MAX_PTRS_PER_THREAD
    BY Zenon DEF CapacityUsable
  <2> QED BY <2>1, UsableAreMultiples
<1> QED BY <1>1, CapacityIsUsable, MultiplesFit, PTL

=============================================================================
