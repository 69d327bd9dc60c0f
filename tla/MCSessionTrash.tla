--------------------------- MODULE MCSessionTrash ---------------------------
(* Two windows of SessionAtlas, two session files, and the tool that owns  *)
(* them.                                                                   *)
EXTENDS SessionTrash, TLC

Symmetry == Permutations(Apps) \cup Permutations(Files)
            \cup Permutations(Objs) \cup Permutations(Batches)
=============================================================================
