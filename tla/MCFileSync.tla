----------------------------- MODULE MCFileSync -----------------------------
(* TLC instances of FileSync. *)
EXTENDS FileSync, TLC
CONSTANTS r1, r2
MCRunners == {r1, r2}
\* A directory and a file in it.
MCPaths == {"d", "d/f"}
MCAbove == [p \in MCPaths |-> IF p = "d/f" THEN {"d"} ELSE {}]
MCAsked == [p \in MCPaths |-> p]
RunnerSymmetry == Permutations(Runners)
=============================================================================
