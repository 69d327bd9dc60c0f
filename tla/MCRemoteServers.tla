---------------------------- MODULE MCRemoteServers ----------------------------
(* Instance of RemoteServers for TLC. *)
EXTENDS RemoteServers, TLC

CONSTANTS a, b, h

\* Two repositories on one host and one on the other, and a hidden one on each;
\* the first was listed under the old id, and launched in under both, under the
\* old one last.
MCEarlier ==
    {[tree   |-> <<a :> 1 @@ b :> 0 @@ h :> 0, a :> 0 @@ b :> Absent @@ h :> 0>>,
      listed |-> {Marker(a)},
      used   |-> {Marker(a), Root(a)}]}
=============================================================================
