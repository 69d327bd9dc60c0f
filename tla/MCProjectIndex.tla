--------------------------- MODULE MCProjectIndex ---------------------------
(* Instances of ProjectIndex for TLC. *)
EXTENDS ProjectIndex, TLC

CONSTANTS p1, p2, codex, claude, app, lib

MCProcs == {p1, p2}
MCTools == {codex, claude}
MCPaths == {app, lib}

\* Processes, tools and paths are interchangeable in every definition.
Symmetry == Permutations(MCProcs) \cup Permutations(MCTools)
                \cup Permutations(MCPaths)
=============================================================================
