------------------------------ MODULE MCStartup ------------------------------
(***************************************************************************)
(* Startup for TLC: values of the variable around every boundary of the    *)
(* arithmetic, and files whose lines come in the kernel's order.           *)
(***************************************************************************)
EXTENDS Startup

Around(n) == n-2 .. n+2

MCEnvVals ==
    -3..70 \cup UNION {Around(x) : x \in {-4194304, -2097152, -1048576, -1024, 1024,
                                          1048576, 2097152, 3145728, 4194304, 8388608}}
    \cup {INT_MIN, INT_MIN + 1, INT_MAX - 1, INT_MAX}

Line(from, to, n) == [begin |-> from * PAGESIZE, end |-> to * PAGESIZE, name |-> n]

\* The executable, an anonymous mapping or none, the stack, and perhaps one above.
MCMaps ==
    {<<Line(1, 3, exe)>> \o anon \o <<Line(6, 10, "word")>> \o top :
        exe \in {"word", "spaced"},
        anon \in {<<>>, <<Line(3, 4, "none")>>},
        top \in {<<>>, <<Line(12, 13, "none")>>, <<Line(12, 13, "spaced")>>}}

MCStackAddrs == {7 * PAGESIZE, 7 * PAGESIZE + 8, 8 * PAGESIZE - 8, 8 * PAGESIZE,
                 9 * PAGESIZE + 24}

MCFrameSizes == {8, 16, 24}

=============================================================================
