---------------------------- MODULE MCToolUpdates ----------------------------
(* Instance of ToolUpdates, and of the ToolSelection in it, for TLC. *)
EXTENDS ToolUpdates, TLC

CONSTANTS codex, demo, s1

MCUnsupported == {<<s1, demo>>}

Symmetry == Permutations(Jobs)
=============================================================================
