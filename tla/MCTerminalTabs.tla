--------------------------- MODULE MCTerminalTabs ---------------------------
(* A local terminal and two of one server.                                 *)
EXTENDS TerminalTabs

CONSTANTS here, there, elsewhere, server

MCServerOf == [k \in {there, elsewhere} |-> server]
=============================================================================
