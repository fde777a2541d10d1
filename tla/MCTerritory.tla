--------------------------- MODULE MCTerritory ---------------------------
(* Values of the constants of Territory for TLC.                            *)
EXTENDS Territory, TLC

CONSTANTS a1, a2, g1, g2, w1, w2

MCOwner == (g1 :> a1) @@ (g2 :> a2)

\* A directory and a file in it.
MCPaths == {<<"src">>, <<"src", "a">>}

\* The two agents may change places with their goals, and the workspaces.
Kept == [x \in {a1, a2, g1, g2} |-> x]
Swapped == (g1 :> g2) @@ (g2 :> g1) @@ (a1 :> a2) @@ (a2 :> a1)
Interchangeable == {f @@ p : f \in {Kept, Swapped}, p \in Permutations({w1, w2})}
=============================================================================
