----------------------------- MODULE MCUnderlay -----------------------------
(***************************************************************************)
(* A base path with evidence that fails, a path over it, and one over that.*)
(***************************************************************************)
EXTENDS Underlay, TLC

CONSTANTS base, middle, top

Over(p, u, generations) == [path : {p}, under : {u}, bound : generations]

TwoLayers == Over(base, NoPath, {0}) \cup Over(middle, base, 1..2)

\* The base may be asked to rest on what rests on it.
Looping == TwoLayers \cup Over(base, middle, {1})

ThreeLayers == TwoLayers \cup Over(top, middle, 1..2)

FailingBase == [p \in Path |-> IF p = base THEN <<"good", "bad">> ELSE <<"good">>]

Threads == Permutations(Thread)
=============================================================================
