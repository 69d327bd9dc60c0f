---------------------------- MODULE SessionTrash ----------------------------
(***************************************************************************)
(* The recovery area of the session cleanup: session_cleanup.rs and the    *)
(* files it moves between a tool's session directory and the batches of    *)
(* ~/.sessionatlas/session-trash.                                          *)
(*                                                                         *)
(* Three parties touch the files and none of them locks out the others:    *)
(* the tools, which create, append to and delete their sessions; a running *)
(* SessionAtlas; and a second SessionAtlas, since SESSION_CLEANUP_LOCK is  *)
(* a mutex of one process.  A file is an object (its inode), so that a     *)
(* session recreated under an old name is told from the one that was moved *)
(* away.  Which candidates the analysis calls cleanable is data here.  The *)
(* link and containment checks of the paths are left out: no party of this *)
(* module replaces a directory.                                            *)
(***************************************************************************)
EXTENDS Naturals, FiniteSets

CONSTANTS Apps,       \* running SessionAtlas processes
          Files,      \* paths of session files below an approved root
          Objs,       \* bound: files ever created
          Batches,    \* bound: batch directories ever created
          MaxWrites,  \* bound: appends to one file
          None,       \* no object, no file, no batch, no snapshot
          MaxFaults   \* bound: failing file operations, killed applications

ASSUME BoundsAssumption ==
    /\ MaxWrites \in Nat
    /\ MaxFaults \in Nat
    /\ None \notin Objs \cup Files \cup Batches

VARIABLES
    src,        \* src[f]: the object at path f, or None
    trash,      \* trash[b][f]: the object moved from f into batch b
    manifest,   \* manifest[b]: what manifest.json of batch b holds
    dirs,       \* batch directories that were created
    stamp,      \* stamp[o]: length and mtime of an object
    made,       \* objects created so far
    cache,      \* snapshot in session-cleanup-cache-v1.json
    seen,       \* seen[a]: snapshot the window of application a shows
    job,        \* job[a]: the cleanup command holding the lock in a
    faults,     \* failures and kills so far
    deleted,    \* history: objects their tool deleted
    late,       \* history: applications whose checked path was touched since
    damaged     \* history: batches a failure left incomplete

files   == <<src, trash, stamp, made, deleted>>
vars    == <<files, manifest, dirs, cache, seen, job, faults, late, damaged>>

Idle == [op |-> "none", batch |-> None, todo |-> {}, done |-> {},
         at |-> None, phase |-> "idle"]

\* manifest.json is absent, cut short, or lists the moved files.
NoManifest == [kind |-> "absent", entries |-> {}]
Torn       == [kind |-> "torn",   entries |-> {}]
Whole(S)   == [kind |-> "whole",  entries |-> S]

Fingerprint(o) == IF o = None THEN None ELSE <<o, stamp[o]>>

\* collect_inventory: size and mtime of every session file.
Inventory == [f \in Files |-> Fingerprint(src[f])]

\* The applications that checked path f and have not renamed yet.
Waiting(f, others) == {a \in others : job[a].at = f}

\* Bound: appends and failures happen while one application is in use, and a
\* second one comes into use while there were none.
Alone(a) == \A b \in Apps \ {a} : seen[b] = None /\ job[b] = Idle
OneInUse == \E a \in Apps : Alone(a)
ComesIntoUse(a) ==
    \/ Alone(a)
    \/ faults = 0 /\ UNCHANGED faults /\ \A o \in Objs : stamp[o] = 0

\* An operation of the file system fails, or it does for the stated reason.
Fault == OneInUse /\ faults < MaxFaults /\ faults' = faults + 1
FaultUnless(reason) == Fault \/ (reason /\ UNCHANGED faults)

Init ==
    /\ src = [f \in Files |-> None]
    /\ trash = [b \in Batches |-> [f \in Files |-> None]]
    /\ manifest = [b \in Batches |-> NoManifest]
    /\ dirs = {}
    /\ stamp = [o \in Objs |-> 0]
    /\ made = {}
    /\ cache = None
    /\ seen = [a \in Apps |-> None]
    /\ job = [a \in Apps |-> Idle]
    /\ faults = 0
    /\ deleted = {}
    /\ late = {}
    /\ damaged = {}

-----------------------------------------------------------------------------
(* The tools.                                                              *)

ToolCreates(f, o) ==
    /\ src[f] = None
    /\ o \notin made
    /\ src' = [src EXCEPT ![f] = o]
    /\ made' = made \cup {o}
    /\ late' = late \cup Waiting(f, Apps)
    /\ UNCHANGED <<trash, stamp, deleted, manifest, dirs, cache, seen, job,
                   faults, damaged>>

ToolAppends(f) ==
    /\ src[f] /= None
    /\ stamp[src[f]] < MaxWrites
    /\ OneInUse
    /\ stamp' = [stamp EXCEPT ![src[f]] = @ + 1]
    /\ late' = late \cup Waiting(f, Apps)
    /\ UNCHANGED <<src, trash, made, deleted, manifest, dirs, cache, seen, job,
                   faults, damaged>>

ToolDeletes(f) ==
    /\ src[f] /= None
    /\ src' = [src EXCEPT ![f] = None]
    /\ deleted' = deleted \cup {src[f]}
    /\ late' = late \cup Waiting(f, Apps)
    /\ UNCHANGED <<trash, stamp, made, manifest, dirs, cache, seen, job,
                   faults, damaged>>

-----------------------------------------------------------------------------
(* Commands.                                                               *)

\* analyze_sessions; a cache that cannot be saved is not reported.
Analyze(a) ==
    /\ job[a] = Idle
    /\ ComesIntoUse(a)
    /\ seen' = [seen EXCEPT ![a] = Inventory]
    /\ \/ cache' = Inventory /\ UNCHANGED faults
       \/ Fault /\ UNCHANGED cache
    /\ UNCHANGED <<files, manifest, dirs, job, late, damaged>>

\* quarantine_sessions, down to the creation of the batch directory.
StartQuarantine(a, S, b) ==
    /\ job[a] = Idle
    /\ seen[a] /= None
    /\ cache = seen[a]
    /\ Inventory = cache
    /\ S /= {} /\ \A f \in S : cache[f] /= None
    /\ b \notin dirs
    /\ dirs' = dirs \cup {b}
    /\ job' = [job EXCEPT ![a] = [Idle EXCEPT !.op = "quarantine", !.batch = b,
                                              !.todo = S, !.phase = "check"]]
    /\ UNCHANGED <<files, manifest, cache, seen, faults, late, damaged>>

\* restore_session_trash, down to the last check of the whole manifest.
StartRestore(a, b) ==
    /\ job[a] = Idle
    /\ ComesIntoUse(a)
    /\ manifest[b].kind = "whole"
    /\ \A f \in manifest[b].entries : src[f] = None /\ trash[b][f] /= None
    /\ job' = [job EXCEPT ![a] = [Idle EXCEPT !.op = "restore", !.batch = b,
                                              !.todo = manifest[b].entries,
                                              !.phase = "check"]]
    /\ UNCHANGED <<files, manifest, dirs, cache, seen, faults, late, damaged>>

-----------------------------------------------------------------------------
(* Moving the files of a batch one by one.                                 *)

\* The endpoints of a move into the batch, or back to the tool's directory.
CanGoIn(b, f)  == src[f] /= None /\ trash[b][f] = None
CanGoOut(b, f) == src[f] = None /\ trash[b][f] /= None

GoIn(b, f) ==
    /\ src' = [src EXCEPT ![f] = None]
    /\ trash' = [trash EXCEPT ![b][f] = src[f]]

\* A slip: the file is copied out of the batch and not removed from it.
CopyOut(b, f) ==
    /\ src' = [src EXCEPT ![f] = trash[b][f]]
    /\ UNCHANGED trash

GoOut(b, f) ==
    /\ src' = [src EXCEPT ![f] = trash[b][f]]
    /\ trash' = [trash EXCEPT ![b][f] = None]

\* A slip: the fingerprint is not compared again before the rename.
PassesAnyVersion(a, f) ==
    IF job[a].op = "quarantine" THEN CanGoIn(job[a].batch, f)
                                ELSE CanGoOut(job[a].batch, f)

\* What is checked again immediately before each rename.
Passes(a, f) ==
    IF job[a].op = "quarantine"
    THEN /\ CanGoIn(job[a].batch, f)
         /\ Fingerprint(src[f]) = seen[a][f]
    ELSE CanGoOut(job[a].batch, f)

\* A slip: the error is returned without the rollback.
CheckNoRollback(a, f) ==
    /\ job[a].phase = "check"
    /\ f \in job[a].todo
    /\ job' = [job EXCEPT ![a] =
                 IF Passes(a, f) THEN [@ EXCEPT !.at = f, !.phase = "move"]
                                 ELSE Idle]
    /\ late' = late \ {a}
    /\ UNCHANGED <<files, manifest, dirs, cache, seen, faults, damaged>>

Check(a, f) ==
    /\ job[a].phase = "check"
    /\ f \in job[a].todo
    /\ job' = [job EXCEPT ![a] =
                 IF Passes(a, f) THEN [@ EXCEPT !.at = f, !.phase = "move"]
                                 ELSE [@ EXCEPT !.phase = "undo"]]
    /\ late' = late \ {a}
    /\ UNCHANGED <<files, manifest, dirs, cache, seen, faults, damaged>>

\* A rename replaces whatever is at its destination by then.
Rename(a, in) ==
    LET f == job[a].at
        b == job[a].batch
    IN
    /\ IF in THEN src[f] /= None /\ GoIn(b, f)
             ELSE trash[b][f] /= None /\ GoOut(b, f)
    /\ late' = (late \ {a}) \cup Waiting(f, Apps \ {a})
    /\ UNCHANGED <<stamp, made, deleted, manifest, dirs, cache, seen, faults,
                   damaged>>

Move(a) ==
    /\ job[a].phase = "move"
    /\ Rename(a, job[a].op = "quarantine")
    /\ job' = [job EXCEPT ![a].todo = @ \ {job[a].at},
                           ![a].done = @ \cup {job[a].at},
                           ![a].at = None, ![a].phase = "check"]

\* The file has left its place, or the rename itself fails.
MoveFails(a) ==
    LET f == job[a].at IN
    /\ job[a].phase = "move"
    /\ FaultUnless(IF job[a].op = "quarantine" THEN src[f] = None
                   ELSE trash[job[a].batch][f] = None)
    /\ job' = [job EXCEPT ![a].at = None, ![a].phase = "undo"]
    /\ late' = late \ {a}
    /\ UNCHANGED <<files, manifest, dirs, cache, seen, damaged>>

-----------------------------------------------------------------------------
(* All files moved: the batch is completed.                                *)

AllMoved(a, op) ==
    job[a].op = op /\ job[a].phase = "check" /\ job[a].todo = {}

\* open_private_create_new and write_all.
WriteManifest(a) ==
    /\ AllMoved(a, "quarantine")
    /\ manifest' = [manifest EXCEPT ![job[a].batch] = Torn]
    /\ job' = [job EXCEPT ![a].phase = "sync"]
    /\ UNCHANGED <<files, dirs, cache, seen, faults, late, damaged>>

SyncManifest(a) ==
    /\ job[a].phase = "sync"
    /\ manifest' = [manifest EXCEPT ![job[a].batch] = Whole(job[a].done)]
    /\ job' = [job EXCEPT ![a] = Idle]
    /\ UNCHANGED <<files, dirs, cache, seen, faults, late, damaged>>

\* The file could not be created, or not be written to its end: what was
\* written stays there.
ManifestFails(a) ==
    /\ Fault
    /\ AllMoved(a, "quarantine") \/ job[a].phase = "sync"
    /\ job' = [job EXCEPT ![a].phase = "undo"]
    /\ UNCHANGED <<files, manifest, dirs, cache, seen, late, damaged>>

\* sync_all fails although everything was written: the manifest of a batch
\* whose files are about to be moved back stays readable.
SyncFails(a) ==
    /\ Fault
    /\ job[a].phase = "sync"
    /\ manifest' = [manifest EXCEPT ![job[a].batch] = Whole(job[a].done)]
    /\ damaged' = damaged \cup {job[a].batch}
    /\ job' = [job EXCEPT ![a].phase = "undo"]
    /\ UNCHANGED <<files, dirs, cache, seen, late>>

\* A restored batch loses its manifest and, if it is empty, its directory.
RemoveManifest(a) ==
    /\ AllMoved(a, "restore")
    /\ manifest[job[a].batch] /= NoManifest
    /\ manifest' = [manifest EXCEPT ![job[a].batch] = NoManifest]
    /\ job' = [job EXCEPT ![a] = Idle]
    /\ UNCHANGED <<files, dirs, cache, seen, faults, late, damaged>>

RemoveManifestFails(a) ==
    /\ AllMoved(a, "restore")
    /\ FaultUnless(manifest[job[a].batch] = NoManifest)
    /\ job' = [job EXCEPT ![a].phase = "undo"]
    /\ UNCHANGED <<files, manifest, dirs, cache, seen, late, damaged>>

-----------------------------------------------------------------------------
(* rollback_moves and rollback_restores: every file that was moved goes    *)
(* back if its endpoints allow it, and is skipped silently if they do not. *)

\* A slip: rollback_restores does not look at what is at the destination.
PassesBackAnywhere(a, f) ==
    IF job[a].op = "quarantine" THEN trash[job[a].batch][f] /= None
                                ELSE src[f] /= None

PassesBack(a, f) ==
    IF job[a].op = "quarantine" THEN CanGoOut(job[a].batch, f)
                                ELSE CanGoIn(job[a].batch, f)

Skip(a, f) ==
    /\ job' = [job EXCEPT ![a].done = @ \ {f}, ![a].at = None,
                           ![a].phase = "undo"]
    /\ damaged' = damaged \cup {job[a].batch}
    /\ late' = late \ {a}
    /\ UNCHANGED <<files, manifest, dirs, cache, seen>>

CheckBack(a, f) ==
    /\ job[a].phase = "undo"
    /\ f \in job[a].done
    /\ IF PassesBack(a, f)
       THEN /\ job' = [job EXCEPT ![a] = [@ EXCEPT !.at = f, !.phase = "unmove"]]
            /\ late' = late \ {a}
            /\ UNCHANGED <<files, manifest, dirs, cache, seen, faults, damaged>>
       ELSE Skip(a, f) /\ UNCHANGED faults

MoveBack(a) ==
    /\ job[a].phase = "unmove"
    /\ Rename(a, job[a].op = "restore")
    /\ job' = [job EXCEPT ![a].done = @ \ {job[a].at}, ![a].at = None,
                           ![a].phase = "undo"]

MoveBackFails(a) ==
    LET f == job[a].at IN
    /\ job[a].phase = "unmove"
    /\ FaultUnless(IF job[a].op = "restore" THEN src[f] = None
                   ELSE trash[job[a].batch][f] = None)
    /\ Skip(a, f)

\* The error reaches the window, the lock is free.
Undone(a) ==
    /\ job[a].phase = "undo"
    /\ job[a].done = {}
    /\ job' = [job EXCEPT ![a] = Idle]
    /\ UNCHANGED <<files, manifest, dirs, cache, seen, faults, late, damaged>>

\* The application is killed and started again; nothing looks for what it
\* left behind.
Crash(a) ==
    /\ job[a] /= Idle
    /\ Fault
    /\ job' = [job EXCEPT ![a] = Idle]
    /\ seen' = [seen EXCEPT ![a] = None]
    /\ damaged' = damaged \cup (IF job[a].done = {} THEN {} ELSE {job[a].batch})
    /\ late' = late \ {a}
    /\ UNCHANGED <<files, manifest, dirs, cache>>

-----------------------------------------------------------------------------
Tool ==
    \E f \in Files :
       \/ \E o \in Objs : ToolCreates(f, o)
       \/ ToolAppends(f)
       \/ ToolDeletes(f)

App(a) ==
    \/ Analyze(a)
    \/ \E S \in SUBSET Files, b \in Batches : StartQuarantine(a, S, b)
    \/ \E b \in Batches : StartRestore(a, b)
    \/ \E f \in Files : Check(a, f) \/ CheckBack(a, f)
    \/ Move(a) \/ MoveFails(a)
    \/ WriteManifest(a) \/ SyncManifest(a) \/ ManifestFails(a) \/ SyncFails(a)
    \/ RemoveManifest(a) \/ RemoveManifestFails(a)
    \/ MoveBack(a) \/ MoveBackFails(a) \/ Undone(a)
    \/ Crash(a)

Next == Tool \/ \E a \in Apps : App(a)

Spec == Init /\ [][Next]_vars

-----------------------------------------------------------------------------
(* Properties.                                                             *)

Snapshots == [Files -> {None} \cup (Objs \X (0 .. MaxWrites))] \cup {None}

\* Every variable has the shape of what it stands for; a command is at a file
\* between its check and its rename only, and has not moved what it has to do.
TypeOK ==
    /\ src \in [Files -> Objs \cup {None}]
    /\ trash \in [Batches -> [Files -> Objs \cup {None}]]
    /\ manifest \in [Batches -> [kind : {"absent", "torn", "whole"},
                                 entries : SUBSET Files]]
    /\ dirs \subseteq Batches
    /\ stamp \in [Objs -> 0 .. MaxWrites]
    /\ made \subseteq Objs /\ deleted \subseteq made
    /\ cache \in Snapshots
    /\ seen \in [Apps -> Snapshots]
    /\ job \in [Apps -> [op : {"none", "quarantine", "restore"},
                         batch : Batches \cup {None},
                         todo : SUBSET Files, done : SUBSET Files,
                         at : Files \cup {None},
                         phase : {"idle", "check", "move", "sync", "undo",
                                  "unmove"}]]
    /\ faults \in 0 .. MaxFaults
    /\ \A a \in Apps :
          /\ job[a].phase = "idle" <=> job[a] = Idle
          /\ job[a].at /= None <=> job[a].phase \in {"move", "unmove"}
          /\ job[a].todo \cap job[a].done = {}
    /\ late \subseteq Apps
    /\ damaged \subseteq dirs

Kept == {src[f] : f \in Files}
Trashed == {trash[b][f] : b \in Batches, f \in Files}
Placed == (Kept \cup Trashed) \ {None}

\* A session is never in two places: what a batch holds is not at the same
\* time in the tool's directory, in another batch or under another name.
OnePlace ==
    /\ TypeOK
    /\ \A f, g \in Files : src[f] = src[g] /\ src[f] /= None => f = g
    /\ Kept \cap Trashed \subseteq {None}
    /\ \A b, c \in Batches, f, g \in Files :
          trash[b][f] = trash[c][g] /\ trash[b][f] /= None => b = c /\ f = g

\* "Cleanup never permanently deletes a session": a session leaves the disk
\* only when its tool deletes it, or when someone put it under a path after
\* the check and before the rename of a move to that path.
LostOnlyInTheWindow ==
    [][\A o \in Placed \ Placed' :
          \/ o \in deleted'
          \/ \E a \in late : job[a].at /= None /\ job'[a] /= job[a]]_vars

\* A session that a quarantine takes is the version its user was shown, or
\* was touched between the last check and the rename.
TakenAsShown ==
    [][\A a \in Apps : Move(a) /\ job[a].op = "quarantine" /\ a \notin late =>
          Fingerprint(src[job[a].at]) = seen[a][job[a].at]]_vars

Busy(b) == \E a \in Apps : job[a].batch = b
Held(b) == {f \in Files : trash[b][f] /= None}

\* quarantine_sessions and restore_session_trash are all or nothing, also
\* after a failure and its rollback: outside an operation a batch holds the
\* files its manifest lists, and without a readable manifest it is empty.
\* The batches of a killed application, of a rollback step that was refused
\* and of a manifest that was written but not synced are excepted.
AllOrNothing ==
    \A b \in Batches \ damaged : ~ Busy(b) => Held(b) = manifest[b].entries

\* "selected files move to SessionAtlas recovery and can be restored": what
\* is in the recovery area is listed there, in a batch that has all its files.
CleanedCanBeRestored ==
    \A b \in Batches : ~ Busy(b) => Held(b) = manifest[b].entries
=============================================================================
