---------------------------- MODULE TerminalTabs ----------------------------
(***************************************************************************)
(* The terminals of the window: which tabs frontend/app.js shows, and the  *)
(* sessions that the backend keeps for them.                               *)
(*                                                                         *)
(* The window is one thread.  It opens a terminal in turns that end at an  *)
(* await of pty_spawn, pty_attach or pty_remote_switch; in between, other  *)
(* requests are made, tabs are closed and pty-exit events arrive.  Commands*)
(* that were sent are executed in any order, and their replies and the     *)
(* events arrive in any order.                                             *)
(*                                                                         *)
(* A terminal is a tool in a project, the key of findOpenTerminalTab.  A   *)
(* local one has a session of its own; all those of a server share one ssh *)
(* session, whose tmux client is switched from one to the other.           *)
(*                                                                         *)
(* What happens inside a session, between pty_attach and its one pty-exit, *)
(* is PtySession.                                                          *)
(***************************************************************************)
EXTENDS Naturals, Sequences

CONSTANTS Locals,       \* terminals on this machine
          Remotes,      \* terminals on servers
          Servers,
          ServerOf,     \* ServerOf[k]: the server of remote terminal k
          MaxSessions   \* bound: sessions that someone knows at one time

Terminals == Locals \cup Remotes
Sessions  == 1 .. MaxSessions
None      == 0

ASSUME TabsAssumption ==
    /\ Locals \cap Remotes = {}
    /\ ServerOf \in [Remotes -> Servers]
    /\ MaxSessions \in Nat

VARIABLES
    ready,      \* ptyEventsReady
    tabs,       \* tabs[p]: the tab of session p
    opening,    \* opening[k]: the request in openingPtys for terminal k
    waiting,    \* waiting[s]: requests in remoteTerminalQueue for server s
    sent,       \* sessions that a pty_kill is under way for
    registry,   \* registry[p]: "gone" (not in it), "fresh" or "running"
    shows,      \* shows[p]: the terminal that is behind session p
    exits       \* sessions whose pty-exit is under way

window  == <<ready, tabs, opening, waiting>>
backend == <<registry, shows>>
vars    == <<window, sent, backend, exits>>

NoTab == [open |-> FALSE, terminal |-> None, dead |-> FALSE, switching |-> FALSE]
NoRequest == [stage |-> "none", session |-> None, reply |-> "none"]

Init ==
    /\ ready = FALSE
    /\ tabs = [p \in Sessions |-> NoTab]
    /\ opening = [k \in Terminals |-> NoRequest]
    /\ waiting = [s \in Servers |-> <<>>]
    /\ sent = {}
    /\ registry = [p \in Sessions |-> "gone"]
    /\ shows = [p \in Sessions |-> None]
    /\ exits = {}

Alive(p) == tabs[p].open /\ ~tabs[p].dead

\* The requests for p, or with p as their result.
InHand(p) == \E k \in Terminals : opening[k].session = p

\* Ids are never used again; one that nobody knows any more stands for the next.
Unknown(p) ==
    registry[p] = "gone" /\ ~tabs[p].open /\ p \notin sent \cup exits /\ ~InHand(p)

\* findOpenTerminalTab and findReusableRemoteTerminalTab.
TabsOf(k) == {p \in Sessions : Alive(p) /\ tabs[p].terminal = k}

Reusable(k) ==
    {p \in Sessions : /\ Alive(p)
                      /\ k \in Remotes /\ tabs[p].terminal \in Remotes
                      /\ ServerOf[tabs[p].terminal] = ServerOf[k]}

-----------------------------------------------------------------------------
(* A request: openTerminalTab.                                             *)

\* createMutationQueue runs one operation of a server after the other.
IsFirst(k) == k \in Remotes => Head(waiting[ServerOf[k]]) = k

HasTurn(k) == opening[k].stage = "waiting" /\ IsFirst(k)

\* Promise jobs run before anything else reaches the window.
Settled == \A k \in Terminals : ~HasTurn(k)

\* A live tab is shown and a request that is under way is joined: neither
\* changes anything here.
Open(k) ==
    /\ Settled
    /\ TabsOf(k) = {}
    /\ opening[k] = NoRequest
    /\ opening' = [opening EXCEPT ![k].stage = "waiting"]
    /\ waiting' = IF k \in Locals THEN waiting
                  ELSE [waiting EXCEPT ![ServerOf[k]] = Append(@, k)]
    /\ UNCHANGED <<ready, tabs, sent, backend, exits>>

\* A slip: an operation that failed is not taken out of its queue.
LeavesOnSuccess(k) ==
    /\ opening' = [opening EXCEPT ![k] = NoRequest]
    /\ waiting' = IF k \in Locals \/ opening[k].reply = "failed" THEN waiting
                  ELSE [waiting EXCEPT ![ServerOf[k]] = Tail(@)]

\* The promise is settled, either way, and the next operation has its turn: a
\* request that leaves is the first of its queue.
Leaves(k) ==
    /\ opening' = [opening EXCEPT ![k] = NoRequest]
    /\ waiting' = IF k \in Locals THEN waiting
                  ELSE [waiting EXCEPT ![ServerOf[k]] = Tail(@)]

Sends(k, stage, p) ==
    /\ opening' = [opening EXCEPT ![k] = [stage |-> stage, session |-> p,
                                          reply |-> "none"]]
    /\ UNCHANGED waiting

\* The tab is there by now, or the tool cannot be launched, or the listeners
\* could not be registered.
RunEnds(k) ==
    /\ HasTurn(k)
    /\ TabsOf(k) /= {} \/ Reusable(k) = {}
    /\ Leaves(k)
    /\ UNCHANGED <<ready, tabs, sent, backend, exits>>

\* A slip: the tab has its new name before the switch is confirmed.
RunSwitchNamesFirst(k, p) ==
    /\ HasTurn(k)
    /\ TabsOf(k) = {}
    /\ p \in Reusable(k)
    /\ tabs' = [tabs EXCEPT ![p].switching = TRUE, ![p].terminal = k]
    /\ Sends(k, "switch", p)
    /\ UNCHANGED <<ready, sent, backend, exits>>

\* switchRemoteTerminalTab, to its await.
RunSwitch(k, p) ==
    /\ HasTurn(k)
    /\ TabsOf(k) = {}
    /\ p \in Reusable(k)
    /\ tabs' = [tabs EXCEPT ![p].switching = TRUE]
    /\ Sends(k, "switch", p)
    /\ UNCHANGED <<ready, sent, backend, exits>>

\* openTerminalTabOnce, to its first await.
RunSpawn(k) ==
    /\ HasTurn(k)
    /\ TabsOf(k) = {} /\ Reusable(k) = {}
    /\ ready
    /\ Sends(k, "spawn", None)
    /\ UNCHANGED <<ready, tabs, sent, backend, exits>>

-----------------------------------------------------------------------------
(* What the backend does with the commands.                                *)

Pending(k, stage) == opening[k].stage = stage /\ opening[k].reply = "none"
Replied(k, stage, reply) == opening[k].stage = stage /\ opening[k].reply = reply
Replies(k, p, reply) ==
    opening' = [opening EXCEPT ![k].session = p, ![k].reply = reply]

Spawned(k, p) ==
    /\ Pending(k, "spawn")
    /\ Unknown(p) /\ \A q \in 1 .. p - 1 : ~Unknown(q)
    /\ registry' = [registry EXCEPT ![p] = "fresh"]
    /\ shows' = [shows EXCEPT ![p] = k]
    /\ Replies(k, p, "done")
    /\ UNCHANGED <<ready, tabs, waiting, sent, exits>>

SpawnFails(k) ==
    /\ Pending(k, "spawn")
    /\ Replies(k, None, "failed")
    /\ UNCHANGED <<ready, tabs, waiting, sent, backend, exits>>

Attached(k) ==
    LET p == opening[k].session IN
    /\ Pending(k, "attach")
    /\ registry[p] = "fresh"
    /\ registry' = [registry EXCEPT ![p] = "running"]
    /\ Replies(k, p, "done")
    /\ UNCHANGED <<ready, tabs, waiting, sent, shows, exits>>

Removes(p) ==
    /\ registry' = [registry EXCEPT ![p] = "gone"]
    /\ shows' = [shows EXCEPT ![p] = None]

\* The tool was disabled meanwhile (of a server, nothing is asked here).
AttachRejected(k) ==
    /\ Pending(k, "attach")
    /\ k \in Locals
    /\ Replies(k, opening[k].session, "failed")
    /\ UNCHANGED <<ready, tabs, waiting, sent, backend, exits>>

\* The session is not there any more; or writing to it, or one of its threads,
\* fails: it is removed, by an output thread that was started with a pty-exit.
AttachFails(k) ==
    LET p == opening[k].session IN
    /\ Pending(k, "attach")
    /\ Removes(p)
    /\ \/ exits' = exits
       \/ registry[p] = "fresh" /\ exits' = exits \cup {p}
    /\ Replies(k, p, "failed")
    /\ UNCHANGED <<ready, tabs, waiting, sent>>

\* pty_remote_switch: an error means that the client was not switched.
Switched(k) ==
    LET p == opening[k].session IN
    /\ Pending(k, "switch")
    /\ registry[p] = "running"
    /\ shows' = [shows EXCEPT ![p] = k]
    /\ Replies(k, p, "done")
    /\ UNCHANGED <<ready, tabs, waiting, sent, registry, exits>>

SwitchFails(k) ==
    /\ Pending(k, "switch")
    /\ Replies(k, opening[k].session, "failed")
    /\ UNCHANGED <<ready, tabs, waiting, sent, backend, exits>>

\* The stream of an attached session ends.
SessionEnds(p) ==
    /\ registry[p] = "running"
    /\ Removes(p)
    /\ exits' = exits \cup {p}
    /\ UNCHANGED <<window, sent>>

\* pty_kill; only an attached session has a thread that says pty-exit.
Killed(p) ==
    /\ p \in sent
    /\ sent' = sent \ {p}
    /\ Removes(p)
    /\ exits' = IF registry[p] = "running" THEN exits \cup {p} ELSE exits
    /\ UNCHANGED window

-----------------------------------------------------------------------------
(* What the window does with replies, with events and for its user.        *)

\* The tab is there before pty_attach is sent.
SpawnReturns(k) ==
    LET p == opening[k].session IN
    /\ Settled
    /\ Replied(k, "spawn", "done")
    /\ tabs' = [tabs EXCEPT ![p] = [NoTab EXCEPT !.open = TRUE, !.terminal = k]]
    /\ Sends(k, "attach", p)
    /\ UNCHANGED <<ready, sent, backend, exits>>

SpawnReturnsError(k) ==
    /\ Settled
    /\ Replied(k, "spawn", "failed")
    /\ Leaves(k)
    /\ UNCHANGED <<ready, tabs, sent, backend, exits>>

\* recordTerminalActivity changes no tab.
AttachReturns(k) ==
    /\ Settled
    /\ Replied(k, "attach", "done")
    /\ Leaves(k)
    /\ UNCHANGED <<ready, tabs, sent, backend, exits>>

\* A slip: the session is taken to be gone, as the contract says.
AttachReturnsErrorOnly(k) ==
    LET p == opening[k].session IN
    /\ Settled
    /\ Replied(k, "attach", "failed")
    /\ Leaves(k)
    /\ tabs' = IF tabs[p].open THEN [tabs EXCEPT ![p].dead = TRUE] ELSE tabs
    /\ UNCHANGED <<ready, sent, backend, exits>>

AttachReturnsError(k) ==
    LET p == opening[k].session IN
    /\ Settled
    /\ Replied(k, "attach", "failed")
    /\ Leaves(k)
    /\ IF tabs[p].open
       THEN /\ tabs' = [tabs EXCEPT ![p].dead = TRUE]
            /\ sent' = sent \cup {p}
       ELSE UNCHANGED <<tabs, sent>>
    /\ UNCHANGED <<ready, backend, exits>>

\* A tab that was closed, or whose session ended, stays what it was.
SwitchReturns(k) ==
    LET p == opening[k].session IN
    /\ Settled
    /\ Replied(k, "switch", "done")
    /\ Leaves(k)
    /\ tabs' = CASE Alive(p) -> [tabs EXCEPT ![p].switching = FALSE, ![p].terminal = k]
                 [] tabs[p].open /\ tabs[p].dead -> [tabs EXCEPT ![p].switching = FALSE]
                 [] OTHER -> tabs
    /\ UNCHANGED <<ready, sent, backend, exits>>

SwitchReturnsError(k) ==
    LET p == opening[k].session IN
    /\ Settled
    /\ Replied(k, "switch", "failed")
    /\ Leaves(k)
    /\ tabs' = IF tabs[p].open THEN [tabs EXCEPT ![p].switching = FALSE] ELSE tabs
    /\ UNCHANGED <<ready, sent, backend, exits>>

\* The listener of pty-exit.
ExitArrives(p) ==
    /\ Settled
    /\ p \in exits
    /\ exits' = exits \ {p}
    /\ tabs' = IF Alive(p) THEN [tabs EXCEPT ![p].dead = TRUE] ELSE tabs
    /\ UNCHANGED <<ready, opening, waiting, sent, backend>>

\* closeTab.
Close(p) ==
    /\ Settled
    /\ tabs[p].open
    /\ tabs' = [tabs EXCEPT ![p] = NoTab]
    /\ sent' = sent \cup {p}
    /\ UNCHANGED <<ready, opening, waiting, backend, exits>>

\* wirePtyEvents; terminals stay closed for ever if it fails.
EventsReady ==
    /\ Settled
    /\ ~ready
    /\ ready' = TRUE
    /\ UNCHANGED <<tabs, opening, waiting, sent, backend, exits>>

-----------------------------------------------------------------------------
Runs(k) == RunEnds(k) \/ RunSpawn(k) \/ \E p \in Sessions : RunSwitch(k, p)

Answers(k) ==
    \/ SpawnFails(k) \/ \E p \in Sessions : Spawned(k, p)
    \/ Attached(k) \/ AttachRejected(k) \/ AttachFails(k)
    \/ Switched(k) \/ SwitchFails(k)

Returns(k) ==
    \/ SpawnReturns(k) \/ SpawnReturnsError(k)
    \/ AttachReturns(k) \/ AttachReturnsError(k)
    \/ SwitchReturns(k) \/ SwitchReturnsError(k)

Next ==
    \/ EventsReady
    \/ \E k \in Terminals : Open(k) \/ Runs(k) \/ Answers(k) \/ Returns(k)
    \/ \E p \in Sessions : Close(p) \/ ExitArrives(p) \/ SessionEnds(p) \/ Killed(p)

\* Promise jobs run and commands are answered; a reply is taken however often
\* the promise jobs of another request go first, since the window takes what
\* reaches it in turn.  Nothing is assumed of the user, of pty_kill or of when
\* a session ends.
Fairness ==
    \A k \in Terminals : WF_vars(Runs(k)) /\ WF_vars(Answers(k)) /\ SF_vars(Returns(k))

Spec == Init /\ [][Next]_vars /\ Fairness

-----------------------------------------------------------------------------
(* Properties.                                                             *)

\* A terminal has one tab, named after it: a live tab is named after the
\* terminal that its session shows, except while the reply to a switch is under
\* way, and a switch that failed or came back to a tab that was closed or has
\* ended leaves no wrong name behind; "an existing live tab is focused instead
\* of duplicated", and one ssh session serves all projects of a server.
OneTabPerTerminal ==
    \A p \in Sessions :
       Alive(p) =>
          /\ registry[p] = "running" /\ shows[p] /= tabs[p].terminal =>
                Replied(shows[p], "switch", "done") /\ opening[shows[p]].session = p
          /\ \A q \in Sessions \ {p} :
                Alive(q) =>
                   /\ tabs[p].terminal /= tabs[q].terminal
                   /\ ~(/\ tabs[p].terminal \in Remotes /\ tabs[q].terminal \in Remotes
                        /\ ServerOf[tabs[p].terminal] = ServerOf[tabs[q].terminal])

\* No process is left that the user cannot see: a session of the backend has a
\* live tab, is in the hands of a request, or is about to be killed.  And no
\* tab is left that waits for a process that is gone: its exit is on the way.
TabsFollowSessions ==
    \A p \in Sessions :
       /\ registry[p] \in {"fresh", "running"} => Alive(p) \/ InHand(p) \/ p \in sent
       /\ Alive(p) /\ registry[p] = "gone" => p \in exits \/ InHand(p)

\* Whatever fails on the way, a request ends, and so do those behind it in the
\* queue of their server.
RequestsEnd ==
    \A k \in Terminals : opening[k] /= NoRequest ~> opening[k] = NoRequest
=============================================================================
