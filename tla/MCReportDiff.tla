--------------------------- MODULE MCReportDiff ---------------------------
(* One file with every edit that keeps two lines, deletes and adds at most *)
(* MaxEdit lines anywhere, and a second file that the diff does not        *)
(* mention or whose blame fails.                                           *)
EXTENDS ReportDiff

CONSTANTS a, b, MaxEdit

MCFiles == {a, b}

Total(g) == FoldFunctionOnSet(+, 0, g, 0..2)
Gaps == {g \in [0..2 -> 0..MaxEdit] : Total(g) <= MaxEdit}
Lines(g) == 1..(2 + Total(g))
UpTo(n, S) == {T \in SUBSET S : Cardinality(T) <= n}

Edited ==
    UNION {{[kept |-> 2, del |-> d, add |-> n, old |-> o, new |-> w, ignored |-> g,
             unchanged |-> FALSE, blameFails |-> FALSE]
              : o \in UpTo(1, Lines(d)), w \in UpTo(2, Lines(n)) \ {{}}, g \in {{}, {2}}}
           : d \in Gaps, n \in Gaps}

Zeros == [i \in 0..2 |-> 0]
Other ==
    {[kept |-> 2, del |-> Zeros, add |-> Zeros, old |-> {1}, new |-> {1, 2}, ignored |-> {},
      unchanged |-> TRUE, blameFails |-> FALSE],
     [kept |-> 2, del |-> Zeros, add |-> [Zeros EXCEPT ![2] = 1], old |-> {}, new |-> {3}, ignored |-> {},
      unchanged |-> FALSE, blameFails |-> TRUE]}

MCInputs == {[f \in MCFiles |-> IF f = a THEN s ELSE t] : s \in Edited, t \in Other}
=============================================================================
