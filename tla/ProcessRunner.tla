--------------------------- MODULE ProcessRunner ---------------------------
(***************************************************************************)
(* How the window runs a program whose output it wants: a child whose      *)
(* stdout and stderr are private temporary files, polled every 10 ms, with *)
(* a deadline and a bound on each file, so that neither a full pipe nor a  *)
(* descendant that keeps one open can hold the caller                      *)
(* (output_with_timeout_limited of src-tauri/src/process.rs).              *)
(*                                                                         *)
(* Output is counted, not kept: size is how much a file holds, in units of *)
(* which Limit are allowed.  The deadline may pass at any poll.            *)
(***************************************************************************)
EXTENDS Integers, FiniteSetsExt

CONSTANTS Callers,      \* threads that run a program
          Limit         \* max_output_bytes

VARIABLE call           \* call[c]: the program that c runs

Streams == {"stdout", "stderr"}
Nothing == [s \in Streams |-> 0]

NoCall ==
    [stage |-> "idle",
     files |-> {},              \* of the two files, those that exist
     stuck |-> FALSE,           \* a file could not be removed
     child |-> "none",          \* none, running, exited, reaped
     success |-> FALSE,         \* its exit status
     heirs |-> FALSE,           \* its descendants have the files open
     size |-> Nothing,          \* what each file holds
     own |-> Nothing,           \* what each held when the child exited
     read |-> Nothing,          \* what was read of each
     error |-> FALSE]           \* the call ends with an error

RunnerInit == call = [c \in Callers |-> NoCall]

In(c, stage) == call[c].stage = stage
Becomes(c, after) == call' = [call EXCEPT ![c] = after]

Oversized(size) == \E s \in Streams : size[s] > Limit

\* The call has failed, and nobody reads what the files hold.
Failed(k) == [k EXCEPT !.error = TRUE, !.heirs = FALSE, !.size = Nothing,
                       !.own = Nothing, !.read = Nothing]

\* cleanup_output_files: removes what it can; what is left is an error.
CleanedUp(k, left) ==
    IF left = {} THEN [k EXCEPT !.stage = "done", !.files = {}]
    ELSE [Failed(k) EXCEPT !.stage = "done", !.files = left, !.stuck = TRUE]

-----------------------------------------------------------------------------
Call(c) ==
    /\ In(c, "idle")
    /\ Becomes(c, [NoCall EXCEPT !.stage = "create"])

\* The second file may be refused when the first is there.
CreateFiles(c) ==
    /\ In(c, "create")
    /\ \/ Becomes(c, [call[c] EXCEPT !.stage = "spawn", !.files = Streams])
       \/ \E left \in SUBSET {"stdout"} : Becomes(c, CleanedUp(Failed(call[c]), left))

Spawn(c) ==
    /\ In(c, "spawn")
    /\ Becomes(c, [call[c] EXCEPT !.stage = "poll", !.child = "running"])

\* A slip: the early return forgets the files.
SpawnFailsOnly(c) ==
    /\ In(c, "spawn")
    /\ Becomes(c, [Failed(call[c]) EXCEPT !.stage = "done"])

SpawnFails(c) ==
    /\ In(c, "spawn")
    /\ \E left \in SUBSET call[c].files :
          Becomes(c, CleanedUp(Failed(call[c]), left))

\* try_wait finds that the child is over, and reaps it.
PollFindsExit(c) ==
    /\ In(c, "poll")
    /\ call[c].child = "exited"
    /\ LET reaped == [call[c] EXCEPT !.child = "reaped"]
       IN  Becomes(c, IF Oversized(call[c].size)
                      THEN [Failed(reaped) EXCEPT !.stage = "terminate"]
                      ELSE [reaped EXCEPT !.stage = "read"])

\* A file is too long, the deadline has passed, or try_wait fails.
PollGivesUp(c) ==
    /\ In(c, "poll")
    /\ Becomes(c, [Failed(call[c]) EXCEPT !.stage = "terminate"])

\* terminate_child_and_cleanup kills the child and waits for it; the
\* descendants live on.
Terminate(c) ==
    /\ In(c, "terminate")
    /\ \E left \in SUBSET call[c].files :
          Becomes(c, CleanedUp([call[c] EXCEPT !.child = "reaped"], left))

\* read_checked_output of both files, each of which is measured before and
\* after, and of which no more than one unit above the limit is taken; then
\* the files go, whatever came of it.
Read(c) ==
    /\ In(c, "read")
    /\ \E left \in SUBSET call[c].files :
          \/ /\ ~Oversized(call[c].size)
             /\ Becomes(c, CleanedUp([call[c] EXCEPT !.read =
                      [s \in Streams |-> Min({call[c].size[s], Limit + 1})]], left))
          \/ Becomes(c, CleanedUp(Failed(call[c]), left))

\* The caller takes the result.
Return(c) ==
    /\ In(c, "done")
    /\ Becomes(c, NoCall)

-----------------------------------------------------------------------------
(* The program and what it leaves running.                                 *)

Writes(c, s) ==
    /\ call[c].child = "running" \/ call[c].heirs
    /\ call[c].stage \in {"poll", "read"}
    /\ call[c].size[s] <= Limit
    /\ Becomes(c, [call[c] EXCEPT !.size[s] = @ + 1])

\* Descendants may go on writing.
Exits(c, success) ==
    /\ call[c].child = "running"
    /\ \E heirs \in BOOLEAN :
          Becomes(c, [call[c] EXCEPT !.child = "exited", !.success = success,
                                    !.own = call[c].size,
                                    !.heirs = heirs /\ call[c].stage = "poll"])

RunnerSteps(c) ==
    \/ CreateFiles(c) \/ Spawn(c) \/ SpawnFails(c)
    \/ PollFindsExit(c) \/ PollGivesUp(c) \/ Terminate(c) \/ Read(c)
    \/ \E s \in Streams : Writes(c, s)

-----------------------------------------------------------------------------
(* Property.                                                               *)

\* Whichever step failed, overflowed or timed out: when a call is over no
\* child of it is left, running or as a zombie, and no file, unless one could
\* not be removed, which the caller is told; and a call without an error has
\* read all that the child wrote, and nothing above the limit, also while
\* descendants of the child go on writing.
CallsEndClean ==
    \A c \in Callers : In(c, "done") =>
        /\ call[c].child \in {"none", "reaped"}
        /\ call[c].files /= {} => call[c].stuck /\ call[c].error
        /\ ~call[c].error =>
              \A s \in Streams : call[c].read[s] \in call[c].own[s] .. Limit
=============================================================================
