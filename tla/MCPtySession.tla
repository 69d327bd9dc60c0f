---------------------------- MODULE MCPtySession ----------------------------
(* One terminal that two callers race for, on a channel of one message.    *)
EXTENDS PtySession

=============================================================================
