---------------------------- MODULE ServerCatalog ----------------------------
(***************************************************************************)
(* What the remote part of the application promises, without tables, legacy*)
(* ids, workers or ssh: a server is registered, shows the projects of one  *)
(* listing after another, counts the sessions started in each, and takes   *)
(* everything with it when it is deleted.  Only a deletion loses sessions, *)
(* and the number of a deleted server is never used again.                 *)
(***************************************************************************)
EXTENDS Integers

CONSTANTS Servers, Paths, Tools

VARIABLES
    status,     \* status[s]: "never", "here" or "gone"
    listed,     \* listed[s]: the projects it shows
    sessions    \* sessions[s][p][t]: sessions recorded, shown or not

vars == <<status, listed, sessions>>

NoSessions == [p \in Paths |-> [t \in Tools |-> 0]]

Init ==
    /\ status \in [Servers -> {"never", "here"}]
    /\ listed \in [Servers -> SUBSET Paths]
    /\ sessions \in [Servers -> [Paths -> [Tools -> 0 .. 2]]]
    /\ \A s \in Servers : status[s] = "never" =>
          listed[s] = {} /\ sessions[s] = NoSessions

Register(s) ==
    /\ status[s] = "never"
    /\ status' = [status EXCEPT ![s] = "here"]
    /\ UNCHANGED <<listed, sessions>>

Delete(s) ==
    /\ status[s] = "here"
    /\ status' = [status EXCEPT ![s] = "gone"]
    /\ listed' = [listed EXCEPT ![s] = {}]
    /\ sessions' = [sessions EXCEPT ![s] = NoSessions]

Publish(s) ==
    /\ status[s] = "here"
    /\ \E L \in SUBSET Paths : listed' = [listed EXCEPT ![s] = L]
    /\ UNCHANGED <<status, sessions>>

Launch(s, p, t) ==
    /\ p \in listed[s]
    /\ sessions' = [sessions EXCEPT ![s][p][t] = @ + 1]
    /\ UNCHANGED <<status, listed>>

Next == \E s \in Servers :
            \/ Register(s) \/ Delete(s) \/ Publish(s)
            \/ \E p \in Paths, t \in Tools : Launch(s, p, t)

Spec == Init /\ [][Next]_vars
=============================================================================
