----------------------------- MODULE AtomicIndex -----------------------------
(***************************************************************************)
(* What the scan contract promises of the index, with no table in sight:   *)
(* a full or partial scan publishes, in one step, the slice of every tool  *)
(* it inspected successfully, and leaves every other slice alone; a path   *)
(* keeps its identity as long as some slice lists it.                      *)
(***************************************************************************)
EXTENDS Integers

CONSTANTS Procs, Tools, Paths

VARIABLES
    slice,      \* slice[t][d]: last use of tool t at path d, 0 for none
    ident,      \* ident[d]: the version that introduced d, 0 when absent
    version,    \* number of snapshots published
    outcome     \* outcome[p]: what scan p has found, by tool

vars == <<slice, ident, version, outcome>>

NoOutcome == [t \in {} |-> 0]

Init ==
    /\ slice = [t \in Tools |-> [d \in Paths |-> 0]]
    /\ ident = [d \in Paths |-> 0]
    /\ version = 0
    /\ outcome = [p \in Procs |-> NoOutcome]

\* A scan inspects another tool, or is abandoned.
Collect(p) ==
    /\ \/ \E t \in Tools \ DOMAIN outcome[p] :
             /\ outcome'[p] \in [DOMAIN outcome[p] \cup {t} -> [Paths -> Int]]
             /\ \A u \in DOMAIN outcome[p] : outcome'[p][u] = outcome[p][u]
       \/ outcome'[p] = NoOutcome
    /\ outcome' = [outcome EXCEPT ![p] = outcome'[p]]
    /\ UNCHANGED <<slice, ident, version>>

Listed(s, d) == \E t \in Tools : s[t][d] /= 0

Publish(p) ==
    LET new == [t \in Tools |-> IF t \in DOMAIN outcome[p]
                                THEN outcome[p][t] ELSE slice[t]]
    IN
    /\ DOMAIN outcome[p] /= {}
    /\ slice' = new
    /\ ident' = [d \in Paths |->
                    IF ~ Listed(new, d) THEN 0
                    ELSE IF ident[d] /= 0 THEN ident[d]
                    ELSE version + 1]
    /\ version' = version + 1
    /\ outcome' = [outcome EXCEPT ![p] = NoOutcome]

Next == \E p \in Procs : Collect(p) \/ Publish(p)

Spec == Init /\ [][Next]_vars
=============================================================================
