------------------------------ MODULE MCGroups ------------------------------
(* Instance of Groups for TLC. *)
EXTENDS Groups

CONSTANTS w1, atlas, shell, notes

\* The full catalog, and one in another order that lacks a project.
MCCatalogs == {<<atlas, shell, notes>>, <<notes, atlas>>}

\* A group in manual order beside an ungrouped project.
MCEarlier ==
    {[names |-> <<"Active", NoName>>,
      group |-> [p \in {atlas, shell, notes} |-> IF p = notes THEN 0 ELSE 1],
      sort  |-> [p \in {atlas, shell, notes} |->
                   CASE p = atlas -> [key |-> 1, at |-> 2]
                     [] p = shell -> [key |-> 1, at |-> 1]
                     [] OTHER -> NoRow]]}
=============================================================================
