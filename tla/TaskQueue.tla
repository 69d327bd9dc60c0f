------------------------------ MODULE TaskQueue ------------------------------
(***************************************************************************)
(* The task queue of frontend/app.js: a tab that is to run a series of     *)
(* `claude -p` prompts, each a session of its own, one after the other.    *)
(*                                                                         *)
(* A prompt is spawned by pty_spawn.  The end of its process reaches the   *)
(* window as a pty-exit, which a thread of the session sends that is       *)
(* started by pty_attach (PtySession); the listener finds the tab of the   *)
(* session among state.tabs, and advanceQueue spawns the next prompt.      *)
(***************************************************************************)
EXTENDS Naturals

CONSTANTS Tabs,         \* bound: queue tabs ever opened
          Projects,
          None,         \* no project
          MaxPrompts    \* bound: prompts in a queue

VARIABLES
    queue,      \* queue[q]: the tab q and its prompts
    child,      \* child[q]: the process of the prompt that q runs
    exits,      \* tabs whose session has a pty-exit under way
    begun       \* history: begun[q], prompts that were spawned

vars == <<queue, child, exits, begun>>

\* idx counts from 1; a queue that has failed has lost a prompt to an error.
NoQueue ==
    [stage |-> "none", project |-> None, total |-> 0, idx |-> 0,
     dead |-> FALSE, failed |-> FALSE]

Init ==
    /\ queue = [q \in Tabs |-> NoQueue]
    /\ child = [q \in Tabs |-> "none"]
    /\ exits = {}
    /\ begun = [q \in Tabs |-> 0]

\* openQueueTab makes a tab and its button.  Unlike openTerminalTabOnce it does
\* not put the tab into state.tabs ...
Listed(q) == FALSE

\* ... and sends no pty_attach for the session.
Attached(q) == FALSE

\* find(t => t.isQueue && t.project?.id === project.id)
Existing(p) == {q \in Tabs : Listed(q) /\ queue[q].stage = "open" /\ queue[q].project = p}

Spawning(q, total, idx) ==
    queue' = [queue EXCEPT ![q].total = total, ![q].idx = idx,
                           ![q].dead = FALSE, ![q].stage = "spawning"]

\* openQueueTab, to its await.
OpenQueue(q, p, n) ==
    /\ Existing(p) = {}
    /\ queue[q] = NoQueue
    /\ queue' = [queue EXCEPT ![q] = [NoQueue EXCEPT !.stage = "opening",
                                         !.project = p, !.total = n, !.idx = 1]]
    /\ UNCHANGED <<child, exits, begun>>

\* appendQueuePrompts: a queue that is done resumes, another goes on to them.
Add(q, p, n) ==
    /\ q \in Existing(p)
    /\ queue[q].total + n <= MaxPrompts
    /\ IF queue[q].dead
       THEN Spawning(q, queue[q].total + n, queue[q].total + 1)
       ELSE queue' = [queue EXCEPT ![q].total = @ + n]
    /\ UNCHANGED <<child, exits, begun>>

\* spawnQueuePrompt.
SpawnReturns(q) ==
    /\ queue[q].stage \in {"opening", "spawning"}
    /\ queue' = [queue EXCEPT ![q].stage = "open"]
    /\ child' = [child EXCEPT ![q] = "running"]
    /\ begun' = [begun EXCEPT ![q] = queue[q].idx]
    /\ UNCHANGED exits

\* A tab that was about to be opened is dropped, another one is finished.
SpawnFails(q) ==
    /\ \/ /\ queue[q].stage = "opening"
          /\ queue' = [queue EXCEPT ![q].stage = "dropped"]
       \/ /\ queue[q].stage = "spawning"
          /\ queue' = [queue EXCEPT ![q].stage = "open", ![q].dead = TRUE,
                                    ![q].failed = TRUE]
    /\ UNCHANGED <<child, exits, begun>>

\* "Print mode (`claude -p`) exits on its own when the prompt is answered."
ChildExits(q) ==
    /\ child[q] = "running"
    /\ child' = [child EXCEPT ![q] = "ended"]
    /\ UNCHANGED <<queue, exits, begun>>

\* The output thread of an attached session reports its end.
Report(q) ==
    /\ Attached(q)
    /\ child[q] = "ended"
    /\ child' = [child EXCEPT ![q] = "none"]
    /\ exits' = exits \cup {q}
    /\ UNCHANGED <<queue, begun>>

\* The listener of pty-exit, and advanceQueue or finishQueue.
PtyExit(q) ==
    /\ q \in exits
    /\ exits' = exits \ {q}
    /\ IF ~Listed(q) \/ queue[q].stage /= "open" THEN UNCHANGED queue
       ELSE IF queue[q].idx < queue[q].total
       THEN Spawning(q, queue[q].total, queue[q].idx + 1)
       ELSE queue' = [queue EXCEPT ![q].dead = TRUE]
    /\ UNCHANGED <<child, begun>>

\* closeTab returns at once when it does not find the tab.
Close(q) ==
    /\ Listed(q)
    /\ queue[q].stage = "open"
    /\ queue' = [queue EXCEPT ![q].stage = "dropped"]
    /\ child' = [child EXCEPT ![q] = "none"]
    /\ UNCHANGED <<exits, begun>>

Next ==
    \E q \in Tabs :
       \/ \E p \in Projects, n \in 1 .. MaxPrompts : OpenQueue(q, p, n) \/ Add(q, p, n)
       \/ SpawnReturns(q) \/ SpawnFails(q) \/ ChildExits(q)
       \/ Report(q) \/ PtyExit(q) \/ Close(q)

\* Prompts are answered, commands return and events are delivered.
Fairness ==
    \A q \in Tabs :
       /\ WF_vars(SpawnReturns(q) \/ SpawnFails(q))
       /\ WF_vars(ChildExits(q)) /\ WF_vars(Report(q)) /\ WF_vars(PtyExit(q))

Spec == Init /\ [][Next]_vars /\ Fairness

\* "One prompt per line. Each runs with `claude -p` to completion, then the next
\* starts." (frontend/i18n.js): every prompt of an open queue is started, unless
\* the tab is closed or a prompt could not be spawned.
EachPromptRuns ==
    \A q \in Tabs, i \in 1 .. MaxPrompts :
       queue[q].stage = "open" /\ queue[q].total >= i ~>
          begun[q] >= i \/ queue[q].stage = "dropped" \/ queue[q].failed
=============================================================================
