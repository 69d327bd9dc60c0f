----------------------------- MODULE PtySession -----------------------------
(***************************************************************************)
(* The in-app terminals of the desktop application: the session registry,  *)
(* the commands of the window, the reader thread and the output thread of  *)
(* each attached session, and the child process behind its PTY             *)
(* (src-tauri/src/lib.rs and pty.rs).                                      *)
(*                                                                         *)
(* Output is counted in chunks, one chunk per read: what a chunk says, and *)
(* how the UTF-8 decoder and the batcher cut it, is data.  The commands    *)
(* are synchronous Tauri commands, which one thread serves; the module     *)
(* leaves open how many callers there are, and what it says of two also    *)
(* holds of one.                                                           *)
(***************************************************************************)
EXTENDS Naturals, FiniteSets

CONSTANTS Ptys,         \* bound: ids SessionStore::insert hands out
          Callers,      \* threads that run commands
          ChannelSize,  \* sync_channel::<PtyOutputMessage>(32)
          MaxOutput,    \* bound: chunks one child writes
          MayFail,      \* may a thread not start, a read or a write fail
          Nobody        \* no caller, no session

ASSUME BoundsAssumption ==
    /\ ChannelSize \in Nat \ {0}
    /\ MaxOutput \in Nat
    /\ MayFail \in BOOLEAN
    /\ Nobody \notin Ptys \cup Callers
    /\ {"output", "shutdown"} \cap (Callers \cup {Nobody}) = {}

VARIABLES
    app,        \* "running", "leaving" (shutdown_pty_sessions) or "gone"
    drained,    \* sessions shutdown_pty_sessions took and has still to reap
    store,      \* ids in SessionStore
    pc,         \* pc[c]: where caller c is in its command
    arg,        \* arg[c]: the session of that command
    launched,   \* launched[s]: times the tool's command line was written
    writer,     \* writer[s]: caller holding the writer mutex
    lock,       \* lock[s]: who holds the child mutex
    reader,     \* reader[s]: the reader, in its slot or in its thread
    queued,     \* queued[s]: Data messages in the channel
    last,       \* last[s]: the Done message, once it is sent
    output,     \* output[s]: where the output thread is
    pending,    \* pending[s]: chunks in the batcher
    shown,      \* shown[s]: chunks emitted as pty-data
    reports,    \* reports[s]: pty-exit events emitted
    child,      \* child[s]: the process
    killed,     \* sessions whose child was sent a kill
    tty,        \* tty[s]: some process has the slave side open
    written,    \* written[s]: chunks written to the terminal so far
    unread      \* unread[s]: those still in the kernel's PTY buffer

calls   == <<pc, arg>>
stream  == <<queued, last, pending, shown, reports>>
process == <<child, killed, tty, written, unread>>
ptyVars == <<app, drained, store, calls, launched, writer, lock, reader,
             output, stream, process>>

PtyInit ==
    /\ app = "running"
    /\ drained = {}
    /\ store = {}
    /\ pc = [c \in Callers |-> "idle"]
    /\ arg = [c \in Callers |-> Nobody]
    /\ launched = [s \in Ptys |-> 0]
    /\ writer = [s \in Ptys |-> Nobody]
    /\ lock = [s \in Ptys |-> Nobody]
    /\ reader = [s \in Ptys |-> "none"]
    /\ queued = [s \in Ptys |-> 0]
    /\ last = [s \in Ptys |-> "none"]
    /\ output = [s \in Ptys |-> "none"]
    /\ pending = [s \in Ptys |-> 0]
    /\ shown = [s \in Ptys |-> 0]
    /\ reports = [s \in Ptys |-> 0]
    /\ child = [s \in Ptys |-> "none"]
    /\ killed = {}
    /\ tty = [s \in Ptys |-> FALSE]
    /\ written = [s \in Ptys |-> 0]
    /\ unread = [s \in Ptys |-> 0]

-----------------------------------------------------------------------------
(* The child process, and whatever else has its terminal open.             *)

ChildWrites(s) ==
    /\ tty[s]
    /\ written[s] < MaxOutput
    /\ written' = [written EXCEPT ![s] = @ + 1]
    /\ unread' = [unread EXCEPT ![s] = @ + 1]
    /\ UNCHANGED <<app, drained, store, calls, launched, writer, lock,
                   reader, output, stream, child, killed, tty>>

\* It exits, by itself or because it was killed.
ChildExits(s) ==
    /\ child[s] = "running"
    /\ child' = [child EXCEPT ![s] = "dead"]
    /\ UNCHANGED <<app, drained, store, calls, launched, writer, lock,
                   reader, output, stream, killed, tty, written, unread>>

\* The last file descriptor of the slave side is closed; a child may close
\* its own and live on, and a process it started may keep one.
TtyCloses(s) ==
    /\ tty[s]
    /\ tty' = [tty EXCEPT ![s] = FALSE]
    /\ UNCHANGED <<app, drained, store, calls, launched, writer, lock,
                   reader, output, stream, child, killed, written, unread>>

-----------------------------------------------------------------------------
(* Commands.  A caller that is idle waits for the next one.                *)

Go(c, to) == pc' = [pc EXCEPT ![c] = to]
Begin(c, to, s) == Go(c, to) /\ arg' = [arg EXCEPT ![c] = s]
Return(c) == Go(c, "idle") /\ arg' = [arg EXCEPT ![c] = Nobody]

Ready(c) == app = "running" /\ pc[c] = "idle"
At(c, where) == app = "running" /\ pc[c] = where

\* pty_spawn: the child and, in the same command, its entry in the registry.
Spawn(c, s) ==
    /\ Ready(c)
    /\ child[s] = "none"
    /\ child' = [child EXCEPT ![s] = "running"]
    /\ tty' = [tty EXCEPT ![s] = TRUE]
    /\ reader' = [reader EXCEPT ![s] = "slot"]
    /\ store' = store \cup {s}
    /\ UNCHANGED <<app, drained, calls, launched, writer, lock, output,
                   stream, killed, written, unread>>

\* pty_attach that rejects its tool or metadata returns before it looks at the
\* session: it changes nothing here, and what the window does is TerminalTabs.
Attach(c, s) ==
    /\ Ready(c)
    /\ s \in store
    /\ Begin(c, "take", s)
    /\ UNCHANGED <<app, drained, store, launched, writer, lock, reader,
                   output, stream, process>>

\* A slip: the reader is looked at and cloned, not taken.
TakeAgain(c) ==
    LET s == arg[c] IN
    /\ At(c, "take")
    /\ reader' = [reader EXCEPT ![s] = "taken"]
    /\ Go(c, "launch")
    /\ UNCHANGED <<app, drained, store, arg, launched, writer, lock,
                   output, stream, process>>

\* take_once: a repeated attach returns Ok and does nothing.
Take(c) ==
    LET s == arg[c] IN
    /\ At(c, "take")
    /\ \/ /\ reader[s] = "slot"
          /\ reader' = [reader EXCEPT ![s] = "taken"]
          /\ Go(c, "launch") /\ UNCHANGED arg
       \/ /\ reader[s] /= "slot"
          /\ Return(c) /\ UNCHANGED reader
    /\ UNCHANGED <<app, drained, store, launched, writer, lock,
                   output, stream, process>>

\* The initial input of a local tool tab; the writer mutex is held meanwhile.
Launch(c) ==
    LET s == arg[c] IN
    /\ At(c, "launch")
    /\ writer[s] = Nobody
    /\ \/ launched' = [launched EXCEPT ![s] = @ + 1]
       \/ UNCHANGED launched
    /\ Go(c, "output")
    /\ UNCHANGED <<app, drained, store, arg, writer, lock, reader, output,
                   stream, process>>

StartOutput(c) ==
    LET s == arg[c] IN
    /\ At(c, "output")
    /\ output' = [output EXCEPT ![s] = "receiving"]
    /\ Go(c, "reader")
    /\ UNCHANGED <<app, drained, store, arg, launched, writer, lock, reader,
                   stream, process>>

StartReader(c) ==
    LET s == arg[c] IN
    /\ At(c, "reader")
    /\ reader' = [reader EXCEPT ![s] = "reading"]
    /\ Return(c)
    /\ UNCHANGED <<app, drained, store, launched, writer, lock, output,
                   stream, process>>

\* The write, or one of the two threads, fails: finish_pty_session kills.
\* The reader is dropped, and with it the sender of the channel.
AttachAborts(c) ==
    LET s == arg[c] IN
    /\ MayFail
    /\ app = "running" /\ pc[c] \in {"launch", "output", "reader"}
    /\ pc[c] = "launch" => writer[s] = Nobody
    /\ reader' = [reader EXCEPT ![s] = "gone"]
    /\ Go(c, "remove")
    /\ UNCHANGED <<app, drained, store, arg, launched, writer, lock, output,
                   stream, process>>

\* pty_write and pty_remote_switch: they may block in the kernel.
Write(c, s) ==
    /\ Ready(c)
    /\ s \in store
    /\ writer[s] = Nobody
    /\ writer' = [writer EXCEPT ![s] = c]
    /\ Begin(c, "write", s)
    /\ UNCHANGED <<app, drained, store, launched, lock, reader, output,
                   stream, process>>

WriteReturns(c) ==
    /\ At(c, "write")
    /\ writer' = [writer EXCEPT ![arg[c]] = Nobody]
    /\ Return(c)
    /\ UNCHANGED <<app, drained, store, launched, lock, reader, output,
                   stream, process>>

\* pty_kill.
Kill(c, s) ==
    /\ Ready(c)
    /\ child[s] /= "none"
    /\ Begin(c, "remove", s)
    /\ UNCHANGED <<app, drained, store, launched, writer, lock, reader,
                   output, stream, process>>

-----------------------------------------------------------------------------
(* finish_pty_session, with kill_first, in a caller.                       *)

\* A slip: the session is looked up and stays in the registry.
CallerFindsOnly(c) ==
    /\ At(c, "remove")
    /\ IF arg[c] \in store THEN Go(c, "lock") /\ UNCHANGED arg
                              ELSE Return(c)
    /\ UNCHANGED <<app, drained, store, launched, writer, lock, reader,
                   output, stream, process>>

CallerRemoves(c) ==
    /\ At(c, "remove")
    /\ IF arg[c] \in store THEN Go(c, "lock") /\ UNCHANGED arg
                              ELSE Return(c)
    /\ store' = store \ {arg[c]}
    /\ UNCHANGED <<app, drained, launched, writer, lock, reader, output,
                   stream, process>>

CallerKills(c) ==
    LET s == arg[c] IN
    /\ At(c, "lock")
    /\ lock[s] = Nobody
    /\ lock' = [lock EXCEPT ![s] = c]
    /\ killed' = killed \cup {s}
    /\ Go(c, "wait")
    /\ UNCHANGED <<app, drained, store, arg, launched, writer, reader,
                   output, stream, child, tty, written, unread>>

\* A slip: the command returns after the kill and nobody waits.
CallerDoesNotWait(c) ==
    LET s == arg[c] IN
    /\ At(c, "wait")
    /\ lock' = [lock EXCEPT ![s] = Nobody]
    /\ Return(c)
    /\ UNCHANGED <<app, drained, store, launched, writer, reader, output,
                   stream, process>>

CallerReaps(c) ==
    LET s == arg[c] IN
    /\ At(c, "wait")
    /\ child[s] = "dead"
    /\ child' = [child EXCEPT ![s] = "reaped"]
    /\ lock' = [lock EXCEPT ![s] = Nobody]
    /\ Return(c)
    /\ UNCHANGED <<app, drained, store, launched, writer, reader, output,
                   stream, killed, tty, written, unread>>

-----------------------------------------------------------------------------
(* RunEvent::ExitRequested: shutdown_pty_sessions, then the process ends.  *)

Exit ==
    /\ app = "running"
    /\ \A c \in Callers : pc[c] = "idle"
    /\ app' = "leaving"
    /\ drained' = store
    /\ store' = {}
    /\ UNCHANGED <<calls, launched, writer, lock, reader, output, stream,
                   process>>

ShutdownKills(s) ==
    /\ app = "leaving"
    /\ s \in drained
    /\ \A r \in drained : lock[r] /= "shutdown"
    /\ lock[s] = Nobody
    /\ lock' = [lock EXCEPT ![s] = "shutdown"]
    /\ killed' = killed \cup {s}
    /\ UNCHANGED <<app, drained, store, calls, launched, writer, reader,
                   output, stream, child, tty, written, unread>>

ShutdownReaps(s) ==
    /\ app = "leaving"
    /\ lock[s] = "shutdown"
    /\ child[s] = "dead"
    /\ child' = [child EXCEPT ![s] = "reaped"]
    /\ lock' = [lock EXCEPT ![s] = Nobody]
    /\ drained' = drained \ {s}
    /\ UNCHANGED <<app, store, calls, launched, writer, reader, output,
                   stream, killed, tty, written, unread>>

Leave ==
    /\ app = "leaving"
    /\ drained = {}
    /\ app' = "gone"
    /\ UNCHANGED <<drained, store, calls, launched, writer, lock, reader,
                   output, stream, process>>

-----------------------------------------------------------------------------
(* Thread pty-reader.                                                      *)

\* A slip: one message more than the channel holds.
RoomForOneMore(s) == queued[s] <= ChannelSize

Room(s) == queued[s] < ChannelSize

Read(s) ==
    /\ app /= "gone"
    /\ reader[s] = "reading"
    /\ unread[s] > 0
    /\ unread' = [unread EXCEPT ![s] = @ - 1]
    /\ reader' = [reader EXCEPT ![s] = "sending"]
    /\ UNCHANGED <<app, drained, store, calls, launched, writer, lock,
                   output, stream, child, killed, tty, written>>

\* The bounded channel blocks a reader that is faster than the window.
Send(s) ==
    /\ app /= "gone"
    /\ reader[s] = "sending"
    /\ Room(s)
    /\ queued' = [queued EXCEPT ![s] = @ + 1]
    /\ reader' = [reader EXCEPT ![s] = "reading"]
    /\ UNCHANGED <<app, drained, store, calls, launched, writer, lock,
                   output, last, pending, shown, reports, process>>

ReadEnds(s) ==
    /\ app /= "gone"
    /\ reader[s] = "reading"
    /\ \/ unread[s] = 0 /\ ~ tty[s] /\ reader' = [reader EXCEPT ![s] = "ending"]
       \/ MayFail /\ reader' = [reader EXCEPT ![s] = "failing"]
    /\ UNCHANGED <<app, drained, store, calls, launched, writer, lock,
                   output, stream, process>>

SendDone(s) ==
    /\ app /= "gone"
    /\ reader[s] \in {"ending", "failing"}
    /\ Room(s)
    /\ last' = [last EXCEPT ![s] =
                  IF reader[s] = "ending" THEN "eof" ELSE "error"]
    /\ reader' = [reader EXCEPT ![s] = "gone"]
    /\ UNCHANGED <<app, drained, store, calls, launched, writer, lock,
                   output, queued, pending, shown, reports, process>>

-----------------------------------------------------------------------------
(* Thread pty-output.                                                      *)

\* PtyOutputBatcher::push: the chunk joins the batch, which is emitted as a
\* whole if it is full or due.
Push(held, sent) ==
    {[pending |-> held + 1, shown |-> sent], [pending |-> 0, shown |-> sent + held + 1]}

\* A data message goes through decoder and batcher.
Receive(s) ==
    /\ app /= "gone"
    /\ output[s] = "receiving"
    /\ queued[s] > 0
    /\ queued' = [queued EXCEPT ![s] = @ - 1]
    /\ \E batch \in Push(pending[s], shown[s]) :
          /\ pending' = [pending EXCEPT ![s] = batch.pending]
          /\ shown' = [shown EXCEPT ![s] = batch.shown]
    /\ UNCHANGED <<app, drained, store, calls, launched, writer, lock,
                   reader, output, last, reports, process>>

\* A slip: the batch is emitted and kept.
FlushKeeps(s) ==
    /\ app /= "gone"
    /\ output[s] = "receiving"
    /\ queued[s] = 0 /\ pending[s] > 0
    /\ shown' = [shown EXCEPT ![s] = @ + pending[s]]
    /\ UNCHANGED <<app, drained, store, calls, launched, writer, lock,
                   reader, output, queued, last, pending, reports, process>>

\* recv_timeout: 16 ms without a message.
Flush(s) ==
    /\ app /= "gone"
    /\ output[s] = "receiving"
    /\ queued[s] = 0 /\ pending[s] > 0
    /\ pending' = [pending EXCEPT ![s] = 0]
    /\ shown' = [shown EXCEPT ![s] = @ + pending[s]]
    /\ UNCHANGED <<app, drained, store, calls, launched, writer, lock,
                   reader, output, queued, last, reports, process>>

\* A slip: the loop is left without the last flush.
StreamEndsUnflushed(s) ==
    /\ app /= "gone"
    /\ output[s] = "receiving"
    /\ queued[s] = 0
    /\ reader[s] = "gone"
    /\ output' = [output EXCEPT ![s] = "remove"]
    /\ UNCHANGED <<app, drained, store, calls, launched, writer, lock,
                   reader, stream, process>>

\* Done, or every sender is gone; the tail of the batch is emitted.
StreamEnds(s) ==
    /\ app /= "gone"
    /\ output[s] = "receiving"
    /\ queued[s] = 0
    /\ reader[s] = "gone"
    /\ pending' = [pending EXCEPT ![s] = 0]
    /\ shown' = [shown EXCEPT ![s] = @ + pending[s]]
    /\ output' = [output EXCEPT ![s] = "remove"]
    /\ UNCHANGED <<app, drained, store, calls, launched, writer, lock,
                   reader, queued, last, reports, process>>

\* A slip: the session stays in the registry while its child is waited for.
OutputFindsOnly(s) ==
    /\ app /= "gone"
    /\ output[s] = "remove"
    /\ output' = [output EXCEPT ![s] = IF s \in store THEN "lock" ELSE "report"]
    /\ UNCHANGED <<app, drained, store, calls, launched, writer, lock,
                   reader, stream, process>>

\* finish_pty_session(sessions, id, read_error).
OutputRemoves(s) ==
    /\ app /= "gone"
    /\ output[s] = "remove"
    /\ output' = [output EXCEPT ![s] = IF s \in store THEN "lock" ELSE "report"]
    /\ store' = store \ {s}
    /\ UNCHANGED <<app, drained, calls, launched, writer, lock, reader,
                   stream, process>>

OutputLocks(s) ==
    /\ app /= "gone"
    /\ output[s] = "lock"
    /\ lock[s] = Nobody
    /\ lock' = [lock EXCEPT ![s] = "output"]
    /\ killed' = IF last[s] = "error" THEN killed \cup {s} ELSE killed
    /\ output' = [output EXCEPT ![s] = "wait"]
    /\ UNCHANGED <<app, drained, store, calls, launched, writer, reader,
                   stream, child, tty, written, unread>>

OutputReaps(s) ==
    /\ app /= "gone"
    /\ output[s] = "wait"
    /\ child[s] = "dead"
    /\ child' = [child EXCEPT ![s] = "reaped"]
    /\ lock' = [lock EXCEPT ![s] = Nobody]
    /\ output' = [output EXCEPT ![s] = "report"]
    /\ UNCHANGED <<app, drained, store, calls, launched, writer, reader,
                   stream, killed, tty, written, unread>>

Report(s) ==
    /\ app /= "gone"
    /\ output[s] = "report"
    /\ reports' = [reports EXCEPT ![s] = @ + 1]
    /\ output' = [output EXCEPT ![s] = "gone"]
    /\ UNCHANGED <<app, drained, store, calls, launched, writer, lock,
                   reader, queued, last, pending, shown, process>>

-----------------------------------------------------------------------------
Child(s) == ChildWrites(s) \/ ChildExits(s) \/ TtyCloses(s)

Request(c) ==
    \E s \in Ptys :
       \/ Spawn(c, s) \/ Attach(c, s) \/ Write(c, s) \/ Kill(c, s)

\* What a caller does until its command returns; a write may block.
Command(c) ==
    \/ Take(c) \/ Launch(c) \/ StartOutput(c) \/ StartReader(c)
    \/ AttachAborts(c)
    \/ CallerRemoves(c) \/ CallerKills(c) \/ CallerReaps(c)

Shutdown ==
    \/ Leave
    \/ \E s \in Ptys : ShutdownKills(s) \/ ShutdownReaps(s)

Reader(s) == Read(s) \/ Send(s) \/ ReadEnds(s) \/ SendDone(s)

Output(s) ==
    \/ Receive(s) \/ Flush(s) \/ StreamEnds(s)
    \/ OutputRemoves(s) \/ OutputLocks(s) \/ OutputReaps(s) \/ Report(s)

PtyNext ==
    \/ \E s \in Ptys : Child(s) \/ Reader(s) \/ Output(s)
    \/ \E c \in Callers : Request(c) \/ Command(c) \/ WriteReturns(c)
    \/ Exit \/ Shutdown

\* Threads run; a killed process dies.  Nothing else is owed: a child need
\* not exit, a user need not close, a write need not return.
PtyFairness ==
    /\ \A s \in Ptys :
          /\ WF_ptyVars(Reader(s))
          /\ WF_ptyVars(Output(s))
          /\ WF_ptyVars(s \in killed /\ ChildExits(s))
    /\ \A c \in Callers : WF_ptyVars(Command(c))
    /\ WF_ptyVars(Shutdown)

PtySpec == PtyInit /\ [][PtyNext]_ptyVars /\ PtyFairness

-----------------------------------------------------------------------------
(* Properties.                                                             *)

\* Every variable has the shape of what it stands for.
PtyTypeOK ==
    /\ app \in {"running", "leaving", "gone"}
    /\ drained \subseteq Ptys
    /\ store \subseteq Ptys
    /\ pc \in [Callers -> {"idle", "take", "launch", "output", "reader",
                           "write", "remove", "lock", "wait"}]
    /\ arg \in [Callers -> Ptys \cup {Nobody}]
    /\ \A c \in Callers : pc[c] /= "idle" => arg[c] /= Nobody
    /\ launched \in [Ptys -> Nat]
    /\ writer \in [Ptys -> Callers \cup {Nobody}]
    /\ lock \in [Ptys -> Callers \cup {"output", "shutdown", Nobody}]
    /\ reader \in [Ptys -> {"none", "slot", "taken", "reading", "sending",
                                "ending", "failing", "gone"}]
    /\ queued \in [Ptys -> 0 .. ChannelSize]
    /\ last \in [Ptys -> {"none", "eof", "error"}]
    /\ output \in [Ptys -> {"none", "receiving", "remove", "lock", "wait",
                                "report", "gone"}]
    /\ pending \in [Ptys -> Nat]
    /\ shown \in [Ptys -> Nat]
    /\ reports \in [Ptys -> Nat]
    /\ child \in [Ptys -> {"none", "running", "dead", "reaped"}]
    /\ killed \subseteq Ptys
    /\ tty \in [Ptys -> BOOLEAN]
    /\ written \in [Ptys -> 0 .. MaxOutput]
    /\ unread \in [Ptys -> Nat]

\* Who took session s out of the registry and has still to wait for it.
Owners(s) ==
    {c \in Callers : pc[c] \in {"lock", "wait"} /\ arg[c] = s}
    \cup (IF output[s] \in {"lock", "wait"} THEN {"output"} ELSE {})
    \cup (IF s \in drained THEN {"shutdown"} ELSE {})

\* A child that was not waited for is either in the registry, where a command
\* can find it, or has exactly one owner that will wait for it; whichever of
\* end of file, pty_kill, failed attach and application exit came first.
OneOwner ==
    \A s \in Ptys :
        /\ child[s] \in {"running", "dead"} /\ app /= "gone" =>
              Cardinality(Owners(s)) = (IF s \in store THEN 0 ELSE 1)
        /\ child[s] = "reaped" => s \notin store

InTransit(s) ==
    (IF reader[s] = "sending" THEN 1 ELSE 0) + queued[s] + pending[s]

\* No chunk is lost or shown twice between the PTY and the window.
OutputAccounted ==
    \A s \in Ptys : written[s] = unread[s] + InTransit(s) + shown[s]

\* pty-exit is emitted at most once, after the last pty-data: what was read
\* was shown by then, and all that was written unless the read failed.
ExitIsLast ==
    \A s \in Ptys :
        /\ reports[s] <= 1
        /\ reports[s] = 1 => /\ InTransit(s) = 0
                           /\ output[s] = "gone" /\ reader[s] = "gone"

\* The tool's command line is written once, however often the bridge calls
\* pty_attach, and before the first output is read.
LaunchedOnce ==
    \A s \in Ptys :
        /\ launched[s] <= 1
        /\ reader[s] = "slot" => launched[s] = 0 /\ shown[s] = 0

\* A command other than a blocked write returns, and application exit, which
\* kills and waits for whatever was registered, ends: no lock order, full
\* channel or waiting thread holds the window's thread forever.
CommandsReturn ==
    /\ app = "leaving" ~> app = "gone"
    /\ \A c \in Callers :
          pc[c] \notin {"idle", "write"} ~>
              pc[c] = "idle" \/ app = "gone"
              \/ (pc[c] = "launch" /\ writer[arg[c]] /= Nobody)

\* No session is left half way: a child that was sent a kill is waited for,
\* so that close, a failed attach and a read error leave no zombie while the
\* application runs; and the window of an attached session whose process ended,
\* and whose terminal nobody else has open, is told so.
SessionsEnd ==
    \A s \in Ptys :
        /\ s \in killed ~> child[s] = "reaped" \/ app = "gone"
        /\ output[s] /= "none" /\ child[s] \in {"dead", "reaped"} /\ ~ tty[s] ~>
              reports[s] = 1 \/ app = "gone"
=============================================================================
