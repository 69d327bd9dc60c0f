----------------------------- MODULE MCTaskQueue -----------------------------
(* Two tabs of one project, each with up to two prompts.                   *)
EXTENDS TaskQueue
=============================================================================
