------------------------------- MODULE Startup -------------------------------
(***************************************************************************)
(* From the loading of the library to the first statement of the user's    *)
(* main: the constructors, of which env.c's runs before threadscan.c's and *)
(* that before the two without a priority; the capacity that the           *)
(* environment variable asks for and the sizes derived from it; and        *)
(* main_replacement, which reads /proc/self/maps and makes the main thread *)
(* one that ThreadScan knows.  Its last state is the first of              *)
(* ThreadRegistry and ThreadScan, and its capacity that of Queue.          *)
(*                                                                         *)
(* An int has 32 bits and wraps, as in the compiled code.  TLC's integers  *)
(* are no wider, so every operator stays within them.                      *)
(***************************************************************************)
EXTENDS Integers, Sequences

CONSTANTS
    EnvVals,      \* what atoi may make of THREADSCAN_PTRS_PER_THREAD
    Unset,        \* getenv returns NULL
    Maps,         \* what /proc/self/maps may say: sequences of lines
    StackAddrs,   \* where main_replacement's frame may be
    FrameSizes,   \* how far below it threadscan_thread_base's is
    Main

PAGESIZE == 4096
WORD == 8                             \* sizeof(size_t)
MAX_THREAD_COUNT == 256
MAX_PTRS_PER_THREAD == 32 * 1024
MIN_PTRS_PER_THREAD == 1024
INT_MAX == 2147483647
INT_MIN == -INT_MAX - 1

\* Lines are ranges with a name: none, one word, or one that contains a space.
Lines == [begin : Nat, end : Nat, name : {"none", "word", "spaced"}]

(***************************************************************************)
(* main_replacement's frame is in a mapping, threadscan_thread_base's is   *)
(* below it in the same one, and mappings begin at pages.                  *)
(***************************************************************************)
ASSUME StartupAssumption ==
    /\ Unset \notin Int /\ EnvVals \subseteq Int
    /\ Maps \subseteq Seq(Lines) /\ StackAddrs \subseteq Nat /\ FrameSizes \subseteq Nat \ {0}
    /\ \A file \in Maps, a \in StackAddrs :
          \E i \in DOMAIN file : file[i].begin < a /\ a < file[i].end
    /\ \A file \in Maps, a \in StackAddrs : \A i \in DOMAIN file :
          /\ file[i].begin % PAGESIZE = 0
          /\ file[i].begin < a /\ a < file[i].end =>
                \A d \in FrameSizes : file[i].begin <= a - d

VARIABLES
    stage,
    env, maps, addr,      \* the environment, and where main_replacement's frame is
    ptrs_per_thread,      \* g_threadscan_ptrs_per_thread
    g_tsdata,             \* max_ptrs and the sizes
    wrapped,              \* the orig_ functions have been found
    line,                 \* the line that read_mapline is to read
    low, high,            \* td->user_stack_low and td->user_stack_high
    rsp,                  \* the stack pointer when the user's main is called
    list,                 \* the thread list; its head is 0x1 when the library is loaded
    status                \* "ok" or "fatal"

threadVars == <<line, low, high, rsp, list>>
vars == <<stage, env, maps, addr, ptrs_per_thread, g_tsdata, wrapped, threadVars,
          status>>

Init ==
    /\ stage = "load" /\ status = "ok"
    /\ env \in EnvVals \cup {Unset} /\ maps \in Maps /\ addr \in StackAddrs
    /\ ptrs_per_thread = 0 /\ wrapped = FALSE
    /\ g_tsdata = [max_ptrs |-> 0, scan_map_offset |-> 0, scan_map_sz |-> 0,
                   working_buffer_sz |-> 0]
    /\ line = 1 /\ low = 0 /\ high = 0 /\ rsp = 0
    /\ list = <<"0x1">>

-----------------------------------------------------------------------------
(* env.c, constructor (101).                                                *)

get_int(val, default_val) == IF val = Unset THEN default_val ELSE val

\* x * 1024 in 32 bits: only the low 22 bits of x matter.
Times1024(x) == LET r == x % 4194304 IN 1024 * (IF r >= 2097152 THEN r - 4194304 ELSE r)

\* x >> i with the sign of a signed int: i halvings, rounded down.
Shift(x, i) == LET half[j \in Nat] == IF j = 0 THEN x ELSE half[j-1] \div 2 IN half[i]

Bit(x, i) == Shift(x, i) % 2

\* 31 bits of x | x >> k after the sign.
OrBits(sign, x, k) ==
    LET or[j \in Nat] ==
            IF j = 0 THEN sign
            ELSE 2 * or[j-1]
                   + (IF Bit(x, 31 - j) = 1 \/ Bit(x, 31 - j + k) = 1 THEN 1 ELSE 0)
    IN or[31]

\* x |= x >> k.
OrShift(x, k) == IF x >= 0 THEN OrBits(0, x, k) ELSE OrBits(-1, x, k)

\* "Round up to power of 2 bit trick", after the decrement.
Smear(x) == OrShift(OrShift(OrShift(OrShift(OrShift(x, 1), 2), 4), 8), 16)

\* Mutant: no decrement.
RoundUp_past(x) == LET s == Smear(x) IN IF s = INT_MAX THEN INT_MIN ELSE s + 1

RoundUp(x) ==
    LET s == Smear(IF x = INT_MIN THEN INT_MAX ELSE x - 1)
    IN IF s = INT_MAX THEN INT_MIN ELSE s + 1

env_init ==
    LET n == RoundUp(Times1024(get_int(env, 4))) IN
    /\ stage = "load" /\ stage' = "101"
    /\ ptrs_per_thread' = CASE n < MIN_PTRS_PER_THREAD -> MIN_PTRS_PER_THREAD
                            [] n > MAX_PTRS_PER_THREAD -> MAX_PTRS_PER_THREAD
                            [] OTHER -> n
    /\ UNCHANGED <<env, maps, addr, g_tsdata, wrapped, threadVars, status>>

-----------------------------------------------------------------------------
(* threadscan.c, constructor (201).                                         *)

\* Mutant: a word of the map for each page, counted in words.
ScanMapSize_words(max_ptrs) == (2 * max_ptrs * WORD) \div PAGESIZE

\* "one pointer for every page in the main buffer"
ScanMapSize(max_ptrs) == (2 * max_ptrs * WORD * WORD) \div PAGESIZE

PageUp(n) == IF n % PAGESIZE = 0 THEN n ELSE ((n + PAGESIZE) \div PAGESIZE) * PAGESIZE

register_signal_handlers ==
    LET max == ptrs_per_thread * MAX_THREAD_COUNT
        scan_map_sz == PageUp(ScanMapSize(max))
    IN /\ stage = "101" /\ stage' = "201"
       /\ g_tsdata' = [max_ptrs |-> max,
                       scan_map_offset |-> max * WORD * 2,
                       scan_map_sz |-> scan_map_sz,
                       working_buffer_sz |-> max * WORD * 2 + scan_map_sz]
       /\ UNCHANGED <<env, maps, addr, ptrs_per_thread, wrapped, threadVars, status>>

-----------------------------------------------------------------------------
(* The constructors without a priority, in the order of linking.            *)

proc_init ==
    /\ stage = "201" /\ list = <<"0x1">>
    /\ list' = <<>>
    /\ UNCHANGED <<stage, env, maps, addr, ptrs_per_thread, g_tsdata, wrapped, line,
                   low, high, rsp, status>>

do_wrapper_replacement ==
    /\ stage = "201" /\ ~wrapped
    /\ wrapped' = TRUE
    /\ UNCHANGED <<stage, env, maps, addr, ptrs_per_thread, g_tsdata, threadVars,
                   status>>

-----------------------------------------------------------------------------
(* main_replacement, called by __libc_start_main when the loader is done.   *)

\* threadscan_util_thread_data_new is a step of Alloc and ThreadRegistry.
libc_start_main ==
    /\ stage = "201" /\ wrapped /\ list = <<>>
    /\ stage' = "maps"
    /\ UNCHANGED <<env, maps, addr, ptrs_per_thread, g_tsdata, wrapped, threadVars,
                   status>>

(***************************************************************************)
(* fscanf finds no line: a name with a space was read up to the space, or  *)
(* the file ends after a line without a name, where feof is not true yet.  *)
(***************************************************************************)
NoMapline ==
    /\ line > 1
    /\ \/ maps[line-1].name = "spaced"
       \/ line > Len(maps) /\ maps[line-1].name = "none"

OnLine(m) == addr > m.begin /\ addr < m.end

\* An iteration of threadscan_proc_stack_from_addr with its read_mapline.
stack_from_addr ==
    /\ stage = "maps" /\ status = "ok"
    /\ IF NoMapline THEN status' = "fatal" /\ UNCHANGED <<stage, line, low>>
       ELSE IF line > Len(maps) THEN stage' = "add" /\ UNCHANGED <<line, low, status>>
       ELSE IF OnLine(maps[line])
            THEN low' = maps[line].begin /\ stage' = "add" /\ UNCHANGED <<line, status>>
            ELSE line' = line + 1 /\ UNCHANGED <<stage, low, status>>
    /\ UNCHANGED <<env, maps, addr, ptrs_per_thread, g_tsdata, wrapped, high, rsp, list>>

\* threadscan_proc_add_thread_data.
add_thread_data ==
    /\ stage = "add" /\ stage' = "base"
    /\ list' = <<Main>> \o list
    /\ UNCHANGED <<env, maps, addr, ptrs_per_thread, g_tsdata, wrapped, line, low,
                   high, rsp, status>>

\* Mutant: the frames of the user start where this one ends.
Alloca_none(sp) == sp

\* The stack pointer below alloca(sp & (PAGESIZE - 1)), which keeps it aligned.
Alloca(sp) == sp - 16 * (((sp % PAGESIZE) + 15) \div 16)

\* threadscan_thread_base, with its frame below that of main_replacement.
thread_base(sp) ==
    /\ stage = "base" /\ stage' = "user"
    /\ high' = sp - (sp % PAGESIZE)
    /\ rsp' = Alloca(sp)
    /\ UNCHANGED <<env, maps, addr, ptrs_per_thread, g_tsdata, wrapped, line, low, list,
                   status>>

Started == (stage = "user" \/ status = "fatal") /\ UNCHANGED vars

Next ==
    \/ env_init \/ register_signal_handlers \/ proc_init \/ do_wrapper_replacement
    \/ libc_start_main \/ stack_from_addr \/ add_thread_data
    \/ (\E d \in FrameSizes : thread_base(addr - d))
    \/ Started

Spec == Init /\ [][Next]_vars

-----------------------------------------------------------------------------
(* Properties.                                                              *)

Pow2[k \in Nat] == IF k = 0 THEN 1 ELSE 2 * Pow2[k-1]
PowersOf2 == {Pow2[k] : k \in 0..30}

\* Up to here neither the product nor the rounding overflows.
NO_OVERFLOW == 1048576

\* The smallest power of two that is not below n, within the limits.
Wanted(n) ==
    LET p == CHOOSE p \in PowersOf2 : p >= n /\ \A q \in PowersOf2 : q >= n => p <= q
    IN CASE p < MIN_PTRS_PER_THREAD -> MIN_PTRS_PER_THREAD
         [] p > MAX_PTRS_PER_THREAD -> MAX_PTRS_PER_THREAD
         [] OTHER -> p

(***************************************************************************)
(* "The number of pointers per thread should be a power of 2 because we    *)
(* use this number to do masking" (env.c): it is, and within the limits,   *)
(* for any value of the variable, negative or overflowing; and up to 2^20  *)
(* it is the one asked for.  Beyond that the product or the rounding       *)
(* overflows, and too much may be taken for too little.                    *)
(***************************************************************************)
CapacityUsable ==
    stage # "load" =>
        /\ ptrs_per_thread \in PowersOf2
        /\ ptrs_per_thread \in MIN_PTRS_PER_THREAD..MAX_PTRS_PER_THREAD
        /\ LET v == get_int(env, 4)
           IN v \in -NO_OVERFLOW..NO_OVERFLOW => ptrs_per_thread = Wanted(1024 * v)

(***************************************************************************)
(* The scan map of the longest list that add_to_buf_addrs and pop_bulk     *)
(* admit ends within the working buffer and does not overlap the list; the *)
(* queues of MAX_THREAD_COUNT threads fit in half of the list; all that is *)
(* mapped is a multiple of the page size, as threadscan_alloc_mmap asserts *)
(* of its argument; and the sizes are ints.                                *)
(***************************************************************************)
BuffersFit ==
    stage \notin {"load", "101"} =>
        LET entries == (2 * g_tsdata.max_ptrs + 511) \div 512
        IN /\ g_tsdata.max_ptrs >= MAX_THREAD_COUNT * ptrs_per_thread
           /\ 2 * g_tsdata.max_ptrs * WORD <= g_tsdata.scan_map_offset
           /\ entries * WORD <= g_tsdata.scan_map_sz
           /\ g_tsdata.scan_map_offset + g_tsdata.scan_map_sz
                 <= g_tsdata.working_buffer_sz
           /\ g_tsdata.scan_map_offset % PAGESIZE = 0
           /\ g_tsdata.working_buffer_sz % PAGESIZE = 0
           /\ (ptrs_per_thread * WORD) % PAGESIZE = 0
           /\ g_tsdata.working_buffer_sz \in 1..INT_MAX

\* The lines before the one of the main thread's stack.
Before ==
    {i \in DOMAIN maps : \A j \in 1..i : ~(maps[j].begin < addr /\ addr < maps[j].end)}

(***************************************************************************)
(* "Given an address, find the bounds of the stack on which it lives"      *)
(* (proc.c): when the user's main starts, its thread is alone on the list, *)
(* its stack begins where the mapping of main_replacement's frame does,    *)
(* and every frame of the user is below user_stack_high, where searches    *)
(* end.  It always starts, unless a mapping before the stack's has a name  *)
(* with a space.                                                           *)
(***************************************************************************)
MainIsReady ==
    /\ stage = "user" =>
          /\ wrapped /\ list = <<Main>>
          /\ \E i \in DOMAIN maps : /\ maps[i].begin = low
                                    /\ maps[i].begin < addr /\ addr < maps[i].end
          /\ low <= high /\ rsp <= high /\ high < addr
    /\ (status = "fatal") => \E i \in Before : maps[i].name = "spaced"

=============================================================================
