------------------------------ MODULE MCRescan ------------------------------
(* Two session files of two projects, one of which can have more documents  *)
(* than are indexed.                                                        *)
EXTENDS Rescan, TLC

MCProjectOf == [f \in SessionFiles |-> f]
MCDocsOf == 1 :> {1, 2} @@ 2 :> {1}
MCSymmetry == Permutations(Jobs)
=============================================================================
