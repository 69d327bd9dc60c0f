------------------------- MODULE SessionTrash_proofs -------------------------
(***************************************************************************)
(* The recovery area for every set of applications, files and batches, and *)
(* any number of failures.  Three facts carry the argument: a batch belongs*)
(* to the one quarantine that created it until its manifest is whole, and  *)
(* afterwards only to restores; whoever touches a path marks the commands  *)
(* that have checked it and not renamed yet (late); and while a batch is   *)
(* restored, each file its manifest lists is in the batch or in the hands  *)
(* of exactly one restore.                                                 *)
(***************************************************************************)
EXTENDS SessionTrash, TLAPS

-----------------------------------------------------------------------------
(* The inductive invariant.                                                *)

Working(a)        == job[a].phase /= "idle"
Quarantining(a, b) == Working(a) /\ job[a].op = "quarantine" /\ job[a].batch = b
Restoring(a, b)    == Working(a) /\ job[a].op = "restore" /\ job[a].batch = b

JobType == [op : {"none", "quarantine", "restore"}, batch : Batches \cup {None},
            todo : SUBSET Files, done : SUBSET Files, at : Files \cup {None},
            phase : {"idle", "check", "move", "sync", "undo", "unmove"}]

\* A command k has an operation, one of the batches made that were created,
\* and is at a file it has still to move, or to move back.
WholeJob(k, created) ==
    /\ k \in JobType
    /\ k.phase = "idle" <=> k = Idle
    /\ k.at /= None <=> k.phase \in {"move", "unmove"}
    /\ k.todo \cap k.done = {}
    /\ k.phase /= "idle" => k.op /= "none" /\ k.batch \in created
    /\ k.phase = "move" => k.at \in k.todo
    /\ k.phase = "unmove" => k.at \in k.done
    /\ k.phase = "sync" => k.op = "quarantine"

JobsAreWhole ==
    /\ job \in [Apps -> JobType]
    /\ \A a \in Apps : WholeJob(job[a], dirs)

\* A batch that was not created is empty, and no object is anywhere before it
\* is made.
NothingBeforeItsTime ==
    /\ \A b \in Batches \ dirs :
          manifest[b] = NoManifest /\ \A f \in Files : trash[b][f] = None
    /\ \A f \in Files : src[f] \in made \cup {None}
    /\ \A b \in Batches, f \in Files : trash[b][f] \in made \cup {None}

\* What a command checked holds until its rename, unless it was marked.
CheckedStill ==
    \A a \in Apps \ late :
        /\ job[a].phase = "move" => Passes(a, job[a].at)
        /\ job[a].phase = "unmove" => PassesBack(a, job[a].at)

\* The batch of a quarantine: nobody else works in it, it has no readable
\* manifest, and what was moved is what it holds.
OwnedByQuarantine(a, b) ==
    /\ \A c \in Apps \ {a} : job[c].batch /= b
    /\ manifest[b].kind /= "whole"
    /\ Held(b) = job[a].done

\* The files listed for b are held there, or one restore has moved them.
InHands(b) == {f \in Files : \E a \in Apps : Restoring(a, b) /\ f \in job[a].done}

SharedByRestores(b) ==
    /\ manifest[b].entries = Held(b) \cup InHands(b)
    /\ \A a \in Apps : Restoring(a, b) =>
          /\ Held(b) \cap job[a].done = {}
          /\ \A c \in Apps \ {a} :
                Restoring(c, b) => job[c].done \cap job[a].done = {}
          /\ job[a].phase \in {"check", "move"} =>
                manifest[b].entries \subseteq job[a].todo \cup job[a].done

Accounted(b) ==
    /\ \A a \in Apps : Quarantining(a, b) => OwnedByQuarantine(a, b)
    /\ (\A a \in Apps : ~ Quarantining(a, b)) => SharedByRestores(b)

BatchesAccounted == \A b \in Batches \ damaged : Accounted(b)

\* Only a whole manifest lists files.
ManifestsList ==
    \A b \in Batches : manifest[b].kind /= "whole" => manifest[b].entries = {}

IInv ==
    /\ OnePlace
    /\ JobsAreWhole
    /\ NothingBeforeItsTime
    /\ ManifestsList
    /\ CheckedStill
    /\ BatchesAccounted

-----------------------------------------------------------------------------
LEMMA InitInv == BoundsAssumption => (Init => IInv)
<1> SUFFICES ASSUME BoundsAssumption, Init PROVE IInv
  OBVIOUS
<1>1. TypeOK
  BY DEF BoundsAssumption, Init, TypeOK, Idle, NoManifest, Snapshots
<1>2. OnePlace
  BY <1>1 DEF Init, OnePlace, Kept, Trashed
<1>3. JobsAreWhole
  BY DEF Init, JobsAreWhole, WholeJob, JobType, Idle
<1>4. CheckedStill
  BY DEF Init, CheckedStill, Idle
<1>5. NothingBeforeItsTime /\ ManifestsList
  BY DEF Init, NothingBeforeItsTime, ManifestsList, NoManifest
<1>6. BatchesAccounted
  BY DEF Init, BatchesAccounted, Accounted, SharedByRestores, Quarantining,
         Restoring, Working, Held, InHands, Idle, NoManifest
<1> QED BY <1>2, <1>3, <1>4, <1>5, <1>6 DEF IInv

-----------------------------------------------------------------------------
(* Commands stay whole: an action changes the command of one application.  *)

LEMMA IdleIsWhole == \A created : WholeJob(Idle, created)
BY DEF WholeJob, Idle, JobType

LEMMA OneJobChanges ==
  ASSUME JobsAreWhole, NEW a \in Apps, NEW k, dirs \subseteq dirs',
         job' = [job EXCEPT ![a] = k], WholeJob(k, dirs')
  PROVE  JobsAreWhole'
<1>1. job' \in [Apps -> JobType]
  BY DEF JobsAreWhole, WholeJob
<1>2. ASSUME NEW c \in Apps PROVE WholeJob(job'[c], dirs')
  <2>1. CASE c = a
    BY <2>1 DEF JobsAreWhole
  <2>2. CASE c /= a
    <3>1. job'[c] = job[c] /\ WholeJob(job[c], dirs)
      BY <2>2 DEF JobsAreWhole
    <3> QED BY <3>1 DEF WholeJob
  <2> QED BY <2>1, <2>2
<1> QED BY <1>1, <1>2 DEF JobsAreWhole

LEMMA JobsStep ==
  ASSUME BoundsAssumption, IInv, [Next]_vars
  PROVE  JobsAreWhole'
<1> USE DEF IInv, BoundsAssumption
<1>1. ASSUME NEW a \in Apps, NEW S \in SUBSET Files, NEW b \in Batches,
             StartQuarantine(a, S, b)
      PROVE  JobsAreWhole'
  <2> DEFINE k == [Idle EXCEPT !.op = "quarantine", !.batch = b,
                              !.todo = S, !.phase = "check"]
  <2>1. WholeJob(job[a], dirs) /\ job[a] \in JobType
    BY DEF JobsAreWhole
  <2>2. WholeJob(k, dirs')
    BY <1>1, <2>1, IdleIsWhole DEF StartQuarantine, Idle, WholeJob, JobType
  <2>3. job' = [job EXCEPT ![a] = k] /\ dirs \subseteq dirs'
    BY <1>1 DEF StartQuarantine, Idle
  <2> QED BY <2>2, <2>3, OneJobChanges
<1>2. ASSUME NEW a \in Apps, NEW b \in Batches, StartRestore(a, b)
      PROVE  JobsAreWhole'
  <2> DEFINE k == [Idle EXCEPT !.op = "restore", !.batch = b,
                              !.todo = manifest[b].entries, !.phase = "check"]
  <2>1. WholeJob(job[a], dirs) /\ job[a] \in JobType
    BY DEF JobsAreWhole
  <2>2. WholeJob(k, dirs')
    <3>1. b \in dirs
      BY <1>2 DEF StartRestore, NothingBeforeItsTime, NoManifest
    <3>2. manifest[b].entries \in SUBSET Files
      BY DEF OnePlace, TypeOK
    <3> QED BY <1>2, <3>1, <3>2 DEF StartRestore, Idle, WholeJob, JobType
  <2>3. job' = [job EXCEPT ![a] = k] /\ dirs \subseteq dirs'
    BY <1>2 DEF StartRestore
  <2> QED BY <2>2, <2>3, OneJobChanges
<1>3. ASSUME NEW a \in Apps, NEW f \in Files, Check(a, f)
      PROVE  JobsAreWhole'
  <2> DEFINE k == IF Passes(a, f) THEN [job[a] EXCEPT !.at = f, !.phase = "move"]
                 ELSE [job[a] EXCEPT !.phase = "undo"]
  <2>1. WholeJob(job[a], dirs) /\ job[a] \in JobType
    BY DEF JobsAreWhole
  <2>2. WholeJob(k, dirs')
    BY <1>3, <2>1, IdleIsWhole DEF Check, WholeJob, JobType
  <2>3. job' = [job EXCEPT ![a] = k] /\ dirs \subseteq dirs'
    BY <1>3 DEF Check
  <2> QED BY <2>2, <2>3, OneJobChanges
<1>4. ASSUME NEW a \in Apps, NEW f \in Files, CheckBack(a, f)
      PROVE  JobsAreWhole'
  <2> DEFINE k == IF PassesBack(a, f) THEN [job[a] EXCEPT !.at = f, !.phase = "unmove"]
                 ELSE [job[a] EXCEPT !.done = @ \ {f}, !.at = None, !.phase = "undo"]
  <2>1. WholeJob(job[a], dirs) /\ job[a] \in JobType
    BY DEF JobsAreWhole
  <2>2. WholeJob(k, dirs')
    BY <1>4, <2>1, IdleIsWhole DEF CheckBack, Skip, WholeJob, JobType
  <2>3. job' = [job EXCEPT ![a] = k] /\ dirs \subseteq dirs'
    BY <1>4 DEF CheckBack, Skip
  <2> QED BY <2>2, <2>3, OneJobChanges
<1>5. ASSUME NEW a \in Apps, Move(a)
      PROVE  JobsAreWhole'
  <2> DEFINE k == [job[a] EXCEPT !.todo = @ \ {job[a].at}, !.done = @ \cup {job[a].at},
                            !.at = None, !.phase = "check"]
  <2>1. WholeJob(job[a], dirs) /\ job[a] \in JobType
    BY DEF JobsAreWhole
  <2>2. WholeJob(k, dirs')
    BY <1>5, <2>1, IdleIsWhole DEF Move, Rename, WholeJob, JobType
  <2>3. job' = [job EXCEPT ![a] = k] /\ dirs \subseteq dirs'
    BY <1>5 DEF Move, Rename
  <2> QED BY <2>2, <2>3, OneJobChanges
<1>6. ASSUME NEW a \in Apps, MoveFails(a)
      PROVE  JobsAreWhole'
  <2> DEFINE k == [job[a] EXCEPT !.at = None, !.phase = "undo"]
  <2>1. WholeJob(job[a], dirs) /\ job[a] \in JobType
    BY DEF JobsAreWhole
  <2>2. WholeJob(k, dirs')
    BY <1>6, <2>1, IdleIsWhole DEF MoveFails, WholeJob, JobType
  <2>3. job' = [job EXCEPT ![a] = k] /\ dirs \subseteq dirs'
    BY <1>6 DEF MoveFails
  <2> QED BY <2>2, <2>3, OneJobChanges
<1>7. ASSUME NEW a \in Apps, WriteManifest(a)
      PROVE  JobsAreWhole'
  <2> DEFINE k == [job[a] EXCEPT !.phase = "sync"]
  <2>1. WholeJob(job[a], dirs) /\ job[a] \in JobType
    BY DEF JobsAreWhole
  <2>2. WholeJob(k, dirs')
    BY <1>7, <2>1, IdleIsWhole DEF WriteManifest, AllMoved, WholeJob, JobType
  <2>3. job' = [job EXCEPT ![a] = k] /\ dirs \subseteq dirs'
    BY <1>7 DEF WriteManifest, AllMoved
  <2> QED BY <2>2, <2>3, OneJobChanges
<1>8. ASSUME NEW a \in Apps, SyncManifest(a)
      PROVE  JobsAreWhole'
  <2> DEFINE k == Idle
  <2>1. WholeJob(job[a], dirs) /\ job[a] \in JobType
    BY DEF JobsAreWhole
  <2>2. WholeJob(k, dirs')
    BY <1>8, <2>1, IdleIsWhole DEF SyncManifest, WholeJob, JobType
  <2>3. job' = [job EXCEPT ![a] = k] /\ dirs \subseteq dirs'
    BY <1>8 DEF SyncManifest
  <2> QED BY <2>2, <2>3, OneJobChanges
<1>9. ASSUME NEW a \in Apps, ManifestFails(a)
      PROVE  JobsAreWhole'
  <2> DEFINE k == [job[a] EXCEPT !.phase = "undo"]
  <2>1. WholeJob(job[a], dirs) /\ job[a] \in JobType
    BY DEF JobsAreWhole
  <2>2. WholeJob(k, dirs')
    BY <1>9, <2>1, IdleIsWhole DEF ManifestFails, AllMoved, WholeJob, JobType
  <2>3. job' = [job EXCEPT ![a] = k] /\ dirs \subseteq dirs'
    BY <1>9 DEF ManifestFails, AllMoved
  <2> QED BY <2>2, <2>3, OneJobChanges
<1>10. ASSUME NEW a \in Apps, SyncFails(a)
      PROVE  JobsAreWhole'
  <2> DEFINE k == [job[a] EXCEPT !.phase = "undo"]
  <2>1. WholeJob(job[a], dirs) /\ job[a] \in JobType
    BY DEF JobsAreWhole
  <2>2. WholeJob(k, dirs')
    BY <1>10, <2>1, IdleIsWhole DEF SyncFails, WholeJob, JobType
  <2>3. job' = [job EXCEPT ![a] = k] /\ dirs \subseteq dirs'
    BY <1>10 DEF SyncFails
  <2> QED BY <2>2, <2>3, OneJobChanges
<1>11. ASSUME NEW a \in Apps, RemoveManifest(a)
      PROVE  JobsAreWhole'
  <2> DEFINE k == Idle
  <2>1. WholeJob(job[a], dirs) /\ job[a] \in JobType
    BY DEF JobsAreWhole
  <2>2. WholeJob(k, dirs')
    BY <1>11, <2>1, IdleIsWhole DEF RemoveManifest, WholeJob, JobType
  <2>3. job' = [job EXCEPT ![a] = k] /\ dirs \subseteq dirs'
    BY <1>11 DEF RemoveManifest
  <2> QED BY <2>2, <2>3, OneJobChanges
<1>12. ASSUME NEW a \in Apps, RemoveManifestFails(a)
      PROVE  JobsAreWhole'
  <2> DEFINE k == [job[a] EXCEPT !.phase = "undo"]
  <2>1. WholeJob(job[a], dirs) /\ job[a] \in JobType
    BY DEF JobsAreWhole
  <2>2. WholeJob(k, dirs')
    BY <1>12, <2>1, IdleIsWhole
    DEF RemoveManifestFails, AllMoved, WholeJob, JobType
  <2>3. job' = [job EXCEPT ![a] = k] /\ dirs \subseteq dirs'
    BY <1>12 DEF RemoveManifestFails, AllMoved
  <2> QED BY <2>2, <2>3, OneJobChanges
<1>13. ASSUME NEW a \in Apps, MoveBack(a)
      PROVE  JobsAreWhole'
  <2> DEFINE k == [job[a] EXCEPT !.done = @ \ {job[a].at}, !.at = None, !.phase = "undo"]
  <2>1. WholeJob(job[a], dirs) /\ job[a] \in JobType
    BY DEF JobsAreWhole
  <2>2. WholeJob(k, dirs')
    BY <1>13, <2>1, IdleIsWhole DEF MoveBack, Rename, WholeJob, JobType
  <2>3. job' = [job EXCEPT ![a] = k] /\ dirs \subseteq dirs'
    BY <1>13 DEF MoveBack, Rename
  <2> QED BY <2>2, <2>3, OneJobChanges
<1>14. ASSUME NEW a \in Apps, MoveBackFails(a)
      PROVE  JobsAreWhole'
  <2> DEFINE k == [job[a] EXCEPT !.done = @ \ {job[a].at}, !.at = None, !.phase = "undo"]
  <2>1. WholeJob(job[a], dirs) /\ job[a] \in JobType
    BY DEF JobsAreWhole
  <2>2. WholeJob(k, dirs')
    BY <1>14, <2>1, IdleIsWhole DEF MoveBackFails, Skip, WholeJob, JobType
  <2>3. job' = [job EXCEPT ![a] = k] /\ dirs \subseteq dirs'
    BY <1>14 DEF MoveBackFails, Skip
  <2> QED BY <2>2, <2>3, OneJobChanges
<1>15. ASSUME NEW a \in Apps, Undone(a)
      PROVE  JobsAreWhole'
  <2> DEFINE k == Idle
  <2>1. WholeJob(job[a], dirs) /\ job[a] \in JobType
    BY DEF JobsAreWhole
  <2>2. WholeJob(k, dirs')
    BY <1>15, <2>1, IdleIsWhole DEF Undone, WholeJob, JobType
  <2>3. job' = [job EXCEPT ![a] = k] /\ dirs \subseteq dirs'
    BY <1>15 DEF Undone
  <2> QED BY <2>2, <2>3, OneJobChanges
<1>16. ASSUME NEW a \in Apps, Crash(a)
      PROVE  JobsAreWhole'
  <2> DEFINE k == Idle
  <2>1. WholeJob(job[a], dirs) /\ job[a] \in JobType
    BY DEF JobsAreWhole
  <2>2. WholeJob(k, dirs')
    BY <1>16, <2>1, IdleIsWhole DEF Crash, WholeJob, JobType
  <2>3. job' = [job EXCEPT ![a] = k] /\ dirs \subseteq dirs'
    BY <1>16 DEF Crash
  <2> QED BY <2>2, <2>3, OneJobChanges
<1>17. CASE UNCHANGED <<job, dirs>>
  BY <1>17 DEF JobsAreWhole
<1> QED
  BY <1>1, <1>2, <1>3, <1>4, <1>5, <1>6, <1>7, <1>8, <1>9, <1>10, <1>11,
     <1>12, <1>13, <1>14, <1>15, <1>16, <1>17
  DEF Next, Tool, App, vars, files, ToolCreates, ToolAppends, ToolDeletes, Analyze

-----------------------------------------------------------------------------
(* Every action, by itself, keeps the types.                               *)

\* A rename is of the file a command is at, into or out of its batch.
LEMMA RenameMoves ==
  ASSUME BoundsAssumption, TypeOK, JobsAreWhole, NEW a \in Apps,
         job[a].phase \in {"move", "unmove"}, NEW in \in BOOLEAN, Rename(a, in)
  PROVE  /\ job[a].at \in Files /\ job[a].batch \in dirs
         /\ in => /\ src[job[a].at] \in Objs
                  /\ src' = [src EXCEPT ![job[a].at] = None]
                  /\ trash' = [trash EXCEPT ![job[a].batch][job[a].at] =
                                               src[job[a].at]]
         /\ ~in => /\ trash[job[a].batch][job[a].at] \in Objs
                   /\ src' = [src EXCEPT ![job[a].at] =
                                            trash[job[a].batch][job[a].at]]
                   /\ trash' = [trash EXCEPT ![job[a].batch][job[a].at] = None]
         /\ src' \in [Files -> Objs \cup {None}]
         /\ trash' \in [Batches -> [Files -> Objs \cup {None}]]
<1>1. job[a].at \in Files /\ job[a].batch \in dirs
  BY DEF JobsAreWhole, WholeJob, JobType
<1>2. job[a].batch \in Batches
  BY <1>1 DEF TypeOK
<1>3. CASE in
  <2>1. src[job[a].at] /= None /\ GoIn(job[a].batch, job[a].at)
    BY <1>3 DEF Rename
  <2> QED BY <1>1, <1>2, <1>3, <2>1 DEF GoIn, TypeOK
<1>4. CASE ~in
  <2>1. trash[job[a].batch][job[a].at] /= None /\ GoOut(job[a].batch, job[a].at)
    BY <1>4 DEF Rename
  <2> QED BY <1>1, <1>2, <1>4, <2>1 DEF GoOut, TypeOK
<1> QED BY <1>1, <1>3, <1>4

\* Seen from the places: those of one file change.
LEMMA OnlyOneFileMoves ==
  ASSUME BoundsAssumption, TypeOK, JobsAreWhole, NEW a \in Apps,
         job[a].phase \in {"move", "unmove"}, NEW in \in BOOLEAN, Rename(a, in)
  PROVE  LET f == job[a].at
             b == job[a].batch
             Leaves(x, y) ==
                /\ \A g \in Files : src'[g] = IF g = f THEN x ELSE src[g]
                /\ \A c \in Batches, g \in Files :
                      trash'[c][g] = IF c = b /\ g = f THEN y ELSE trash[c][g]
         IN  (in => Leaves(None, src[f])) /\ (~in => Leaves(trash[b][f], None))
<1> DEFINE f == job[a].at
           b == job[a].batch
           Leaves(x, y) ==
                /\ \A g \in Files : src'[g] = IF g = f THEN x ELSE src[g]
                /\ \A c \in Batches, g \in Files :
                      trash'[c][g] = IF c = b /\ g = f THEN y ELSE trash[c][g]
<1>1. f \in Files /\ b \in Batches
  BY ZenonT(40), RenameMoves DEF TypeOK
<1>2. /\ src \in [Files -> Objs \cup {None}]
      /\ trash \in [Batches -> [Files -> Objs \cup {None}]]
  BY DEF TypeOK
<1>3. ASSUME NEW x, NEW y, src' = [src EXCEPT ![f] = x],
             trash' = [trash EXCEPT ![b][f] = y]
      PROVE  Leaves(x, y)
  <2> HIDE DEF f, b
  <2> QED BY <1>1, <1>2, <1>3
<1>4. ASSUME in PROVE Leaves(None, src[f])
  <2>1. /\ src' = [src EXCEPT ![f] = None]
        /\ trash' = [trash EXCEPT ![b][f] = src[f]]
    BY <1>4, RenameMoves
  <2> HIDE DEF f, b, Leaves
  <2> QED BY <1>3, <2>1
<1>5. ASSUME ~in PROVE Leaves(trash[b][f], None)
  <2>1. /\ src' = [src EXCEPT ![f] = trash[b][f]]
        /\ trash' = [trash EXCEPT ![b][f] = None]
    BY <1>5, RenameMoves
  <2> HIDE DEF f, b, Leaves
  <2> QED BY <1>3, <2>1
<1> QED BY <1>4, <1>5

LEMMA InventoryType == ASSUME TypeOK PROVE Inventory \in Snapshots
BY DEF TypeOK, Inventory, Fingerprint, Snapshots

LEMMA TypeStep ==
  ASSUME BoundsAssumption, IInv, [Next]_vars
  PROVE  TypeOK'
<1> DEFINE Rest ==
             /\ src \in [Files -> Objs \cup {None}]
             /\ trash \in [Batches -> [Files -> Objs \cup {None}]]
             /\ manifest \in [Batches -> [kind : {"absent", "torn", "whole"},
                                          entries : SUBSET Files]]
             /\ dirs \subseteq Batches
             /\ stamp \in [Objs -> 0 .. MaxWrites]
             /\ made \subseteq Objs /\ deleted \subseteq made
             /\ cache \in Snapshots
             /\ seen \in [Apps -> Snapshots]
             /\ faults \in 0 .. MaxFaults
             /\ late \subseteq Apps
             /\ damaged \subseteq dirs
<1>1. /\ TypeOK /\ Rest
      /\ \A a \in Apps : WholeJob(job[a], dirs) /\ job[a] \in JobType
      /\ \A f \in Files : src[f] \in made \cup {None}
      /\ None \in Snapshots /\ Inventory \in Snapshots
  <2>1. TypeOK
    BY DEF IInv, OnePlace
  <2>2. Rest
    BY <2>1 DEF TypeOK
  <2> QED BY <2>1, <2>2, InventoryType
          DEF IInv, JobsAreWhole, NothingBeforeItsTime, Snapshots
<1>2. ASSUME Rest' PROVE TypeOK'
  <2>1. JobsAreWhole'
    BY JobsStep
  <2> QED BY <1>2, <2>1 DEF TypeOK, JobsAreWhole, WholeJob, JobType
<1> USE DEF BoundsAssumption, JobType
<1>3. ASSUME NEW f \in Files, NEW o \in Objs, ToolCreates(f, o) PROVE Rest'
  BY <1>1, <1>3 DEF ToolCreates, Waiting, files
<1>4. ASSUME NEW f \in Files, ToolAppends(f) PROVE Rest'
  BY <1>1, <1>4 DEF ToolAppends, Waiting, files
<1>5. ASSUME NEW f \in Files, ToolDeletes(f) PROVE Rest'
  BY <1>1, <1>5 DEF ToolDeletes, Waiting, files
<1>6. ASSUME NEW a \in Apps, Analyze(a) PROVE Rest'
  BY <1>1, <1>6 DEF Analyze, ComesIntoUse, Fault, files
<1>7. ASSUME NEW a \in Apps, NEW S \in SUBSET Files, NEW b \in Batches,
             StartQuarantine(a, S, b)
      PROVE  Rest'
  BY <1>1, <1>7 DEF StartQuarantine, files
<1>8. ASSUME NEW a \in Apps, NEW b \in Batches, StartRestore(a, b)
      PROVE  Rest'
  BY <1>1, <1>8 DEF StartRestore, ComesIntoUse, files
<1>9. ASSUME NEW a \in Apps, NEW f \in Files, Check(a, f) PROVE Rest'
  BY <1>1, <1>9 DEF Check, files
<1>10. ASSUME NEW a \in Apps, NEW f \in Files, CheckBack(a, f) PROVE Rest'
  BY <1>1, <1>10 DEF CheckBack, Skip, WholeJob, files
<1>11. ASSUME NEW a \in Apps, Move(a) PROVE Rest'
  <2>1. /\ src' \in [Files -> Objs \cup {None}]
        /\ trash' \in [Batches -> [Files -> Objs \cup {None}]]
    BY <1>1, <1>11, RenameMoves DEF Move, IInv
  <2> QED BY <1>1, <1>11, <2>1 DEF Move, Rename, Waiting
<1>12. ASSUME NEW a \in Apps, MoveFails(a) PROVE Rest'
  BY <1>1, <1>12 DEF MoveFails, FaultUnless, Fault, files
<1>13. ASSUME NEW a \in Apps, WriteManifest(a) PROVE Rest'
  BY <1>1, <1>13 DEF WriteManifest, Torn, files
<1>14. ASSUME NEW a \in Apps, SyncManifest(a) PROVE Rest'
  BY <1>1, <1>14 DEF SyncManifest, Whole, files
<1>15. ASSUME NEW a \in Apps, ManifestFails(a) PROVE Rest'
  BY <1>1, <1>15 DEF ManifestFails, Fault, files
<1>16. ASSUME NEW a \in Apps, SyncFails(a) PROVE Rest'
  BY <1>1, <1>16 DEF SyncFails, Fault, Whole, WholeJob, files
<1>17. ASSUME NEW a \in Apps, RemoveManifest(a) PROVE Rest'
  BY <1>1, <1>17 DEF RemoveManifest, NoManifest, files
<1>18. ASSUME NEW a \in Apps, RemoveManifestFails(a) PROVE Rest'
  BY <1>1, <1>18 DEF RemoveManifestFails, FaultUnless, Fault, files
<1>19. ASSUME NEW a \in Apps, MoveBack(a) PROVE Rest'
  <2>1. /\ src' \in [Files -> Objs \cup {None}]
        /\ trash' \in [Batches -> [Files -> Objs \cup {None}]]
    BY <1>1, <1>19, RenameMoves DEF MoveBack, IInv
  <2> QED BY <1>1, <1>19, <2>1 DEF MoveBack, Rename, Waiting
<1>20. ASSUME NEW a \in Apps, MoveBackFails(a) PROVE Rest'
  BY <1>1, <1>20 DEF MoveBackFails, Skip, FaultUnless, Fault, WholeJob, files
<1>21. ASSUME NEW a \in Apps, Undone(a) PROVE Rest'
  BY <1>1, <1>21 DEF Undone, files
<1>22. ASSUME NEW a \in Apps, Crash(a) PROVE Rest'
  <2>1. job[a].batch \in dirs
    BY <1>1, <1>22 DEF Crash, WholeJob
  <2>2. damaged' \subseteq dirs'
    BY <1>1, <1>22, <2>1 DEF Crash
  <2>3. seen' \in [Apps -> Snapshots] /\ faults' \in 0 .. MaxFaults
    BY <1>1, <1>22 DEF Crash, Fault
  <2>4. late' \subseteq Apps /\ UNCHANGED <<files, manifest, dirs, cache>>
    BY <1>1, <1>22 DEF Crash
  <2> QED BY <1>1, <2>2, <2>3, <2>4 DEF files
<1>23. CASE UNCHANGED vars
  BY <1>1, <1>2, <1>23 DEF vars, files
<1> HIDE DEF Rest
<1> QED BY <1>2, <1>3, <1>4, <1>5, <1>6, <1>7, <1>8, <1>9, <1>10, <1>11,
           <1>12, <1>13, <1>14, <1>15, <1>16, <1>17, <1>18, <1>19, <1>20,
           <1>21, <1>22, <1>23
        DEF Next, Tool, App

-----------------------------------------------------------------------------
(* A session is in one place.                                              *)

\* Only these steps move an object.
LEMMA WhoMoves ==
  ASSUME [Next]_vars
  PROVE  \/ UNCHANGED <<src, trash, made>>
         \/ \E f \in Files, o \in Objs : ToolCreates(f, o)
         \/ \E f \in Files : ToolDeletes(f)
         \/ \E a \in Apps : Move(a) \/ MoveBack(a)
<1>1. CASE Tool
  BY <1>1 DEF Tool, ToolAppends
<1>2. ASSUME NEW a \in Apps, App(a), ~ Move(a), ~ MoveBack(a)
      PROVE  UNCHANGED <<src, trash, made>>
  BY <1>2 DEF App, files, Analyze, StartQuarantine, StartRestore, Check,
              CheckBack, Skip, MoveFails, WriteManifest, SyncManifest,
              ManifestFails, SyncFails, RemoveManifest, RemoveManifestFails,
              MoveBackFails, Undone, Crash
<1>3. CASE UNCHANGED vars
  BY <1>3 DEF vars, files
<1> QED BY <1>1, <1>2, <1>3 DEF Next

LEMMA WhoRenames ==
  ASSUME NEW a \in Apps, Move(a) \/ MoveBack(a)
  PROVE  \E in \in BOOLEAN :
            job[a].phase \in {"move", "unmove"} /\ Rename(a, in)
<1>1. /\ (job[a].op = "quarantine") \in BOOLEAN
      /\ (job[a].op = "restore") \in BOOLEAN
  OBVIOUS
<1> QED BY <1>1 DEF Move, MoveBack

\* OnePlace, said of the places themselves.
Apart(place, batches) ==
    /\ \A f, g \in Files : place[f] = place[g] /\ place[f] /= None => f = g
    /\ \A f, g \in Files, b \in Batches :
          place[f] = batches[b][g] => place[f] = None
    /\ \A b, c \in Batches, f, g \in Files :
          batches[b][f] = batches[c][g] /\ batches[b][f] /= None
             => b = c /\ f = g

LEMMA OnePlaceIsApart == TypeOK => (OnePlace <=> Apart(src, trash))
BY DEF OnePlace, Apart, Kept, Trashed

LEMMA OnePlaceStep ==
  ASSUME BoundsAssumption, IInv, [Next]_vars
  PROVE  OnePlace'
<1>1. TypeOK /\ Apart(src, trash) /\ JobsAreWhole
  BY OnePlaceIsApart DEF IInv, OnePlace
<1>2. /\ \A f \in Files : src[f] \in made \cup {None}
      /\ \A b \in Batches, f \in Files : trash[b][f] \in made \cup {None}
  BY DEF IInv, NothingBeforeItsTime
<1>3. Apart(src', trash')
  <2>1. CASE UNCHANGED <<src, trash>>
    BY <1>1, <2>1
  <2>2. ASSUME NEW f \in Files, NEW o \in Objs, ToolCreates(f, o)
        PROVE  Apart(src', trash')
    <3>1. /\ o \notin made /\ o /= None
          /\ src' = [src EXCEPT ![f] = o] /\ trash' = trash
      BY <2>2 DEF ToolCreates, BoundsAssumption
    <3> QED BY <1>1, <1>2, <3>1 DEF Apart, TypeOK
  <2>3. ASSUME NEW f \in Files, ToolDeletes(f) PROVE Apart(src', trash')
    BY <1>1, <2>3 DEF ToolDeletes, Apart, TypeOK
  <2>4. ASSUME NEW a \in Apps, NEW in \in BOOLEAN,
               job[a].phase \in {"move", "unmove"}, Rename(a, in)
        PROVE  Apart(src', trash')
    <3> DEFINE f == job[a].at
               b == job[a].batch
    <3>1. f \in Files /\ b \in dirs
      BY <1>1, <2>4, RenameMoves
    <3>2. b \in Batches
      BY <1>1, <3>1 DEF TypeOK
    <3> HIDE DEF f, b
    <3>3. CASE in
      <4>1. /\ \A g \in Files : src'[g] = IF g = f THEN None ELSE src[g]
            /\ \A c \in Batches, g \in Files :
                  trash'[c][g] = IF c = b /\ g = f THEN src[f] ELSE trash[c][g]
        BY <1>1, <2>4, <3>3, OnlyOneFileMoves DEF f, b
      <4> QED BY <1>1, <3>1, <3>2, <4>1 DEF Apart
    <3>4. CASE ~in
      <4>1. /\ \A g \in Files : src'[g] = IF g = f THEN trash[b][f] ELSE src[g]
            /\ \A c \in Batches, g \in Files :
                  trash'[c][g] = IF c = b /\ g = f THEN None ELSE trash[c][g]
        BY <1>1, <2>4, <3>4, OnlyOneFileMoves DEF f, b
      <4> QED BY <1>1, <3>1, <3>2, <4>1 DEF Apart
    <3> QED BY <3>3, <3>4
  <2> QED BY <2>1, <2>2, <2>3, <2>4, WhoMoves, WhoRenames
<1>4. TypeOK'
  BY TypeStep
<1>5. TypeOK' => (OnePlace' <=> Apart(src', trash'))
  BY DEF OnePlace, Apart, Kept, Trashed
<1> QED BY <1>3, <1>4, <1>5

-----------------------------------------------------------------------------
(* Batches and objects come into being before they are used.               *)

LEMMA WhoWritesManifests ==
  ASSUME JobsAreWhole, [Next]_vars
  PROVE  /\ dirs \subseteq dirs' /\ made \subseteq made'
         /\ \/ manifest' = manifest
            \/ \E a \in Apps : \E m \in {NoManifest, Torn, Whole(job[a].done)} :
                  /\ job[a].batch \in dirs
                  /\ manifest' = [manifest EXCEPT ![job[a].batch] = m]
<1>1. ASSUME NEW a \in Apps,
             \/ WriteManifest(a) \/ SyncManifest(a)
             \/ SyncFails(a) \/ RemoveManifest(a)
      PROVE  /\ job[a].batch \in dirs
             /\ \E m \in {NoManifest, Torn, Whole(job[a].done)} :
                   manifest' = [manifest EXCEPT ![job[a].batch] = m]
             /\ dirs' = dirs /\ made' = made
  BY <1>1 DEF WriteManifest, SyncManifest, SyncFails, RemoveManifest, AllMoved,
              JobsAreWhole, WholeJob, files
<1>2. ASSUME NEW a \in Apps, App(a),
             ~ WriteManifest(a), ~ SyncManifest(a),
             ~ SyncFails(a), ~ RemoveManifest(a)
      PROVE  manifest' = manifest /\ dirs \subseteq dirs' /\ made' = made
  BY <1>2 DEF App, files, Analyze, StartQuarantine, StartRestore, Check,
              CheckBack, Skip, Move, MoveFails, Rename, ManifestFails,
              RemoveManifestFails, MoveBack, MoveBackFails, Undone, Crash
<1>3. CASE Tool
  BY <1>3 DEF Tool, ToolCreates, ToolAppends, ToolDeletes
<1>4. CASE UNCHANGED vars
  BY <1>4 DEF vars, files
<1> QED BY <1>1, <1>2, <1>3, <1>4 DEF Next

\* Where the manifests, the batches and the objects made can go in a step.
LEMMA ManifestsKeepKind ==
  ASSUME TypeOK, JobsAreWhole, [Next]_vars, NEW b \in Batches
  PROVE  \/ manifest'[b] = manifest[b]
         \/ b \in dirs /\ (manifest'[b].kind /= "whole" => manifest'[b].entries = {})
<1>1. CASE manifest' = manifest
  BY <1>1
<1>2. ASSUME NEW a \in Apps, NEW m \in {NoManifest, Torn, Whole(job[a].done)},
             job[a].batch \in dirs,
             manifest' = [manifest EXCEPT ![job[a].batch] = m]
      PROVE  \/ manifest'[b] = manifest[b]
             \/ /\ b \in dirs
                /\ manifest'[b].kind /= "whole" => manifest'[b].entries = {}
  <2>1. m.kind /= "whole" => m.entries = {}
    BY <1>2 DEF NoManifest, Torn, Whole
  <2>2. manifest'[b] = IF b = job[a].batch THEN m ELSE manifest[b]
    BY <1>2 DEF TypeOK
  <2> QED BY <1>2, <2>1, <2>2
<1> QED BY <1>1, <1>2, WhoWritesManifests

LEMMA BeforeStep ==
  ASSUME BoundsAssumption, IInv, [Next]_vars
  PROVE  NothingBeforeItsTime' /\ ManifestsList'
<1>1. TypeOK /\ TypeOK' /\ JobsAreWhole /\ NothingBeforeItsTime /\ ManifestsList
  BY TypeStep DEF IInv, OnePlace
<1>2. /\ dirs \subseteq dirs' /\ made \subseteq made'
      /\ \A b \in Batches : \/ manifest'[b] = manifest[b]
                            \/ /\ b \in dirs
                               /\ manifest'[b].kind /= "whole" =>
                                     manifest'[b].entries = {}
  BY <1>1, WhoWritesManifests, ManifestsKeepKind
<1>3. ManifestsList'
  BY <1>1, <1>2 DEF ManifestsList
<1> DEFINE Goal == /\ \A f \in Files : src'[f] \in made' \cup {None}
                   /\ \A b \in Batches, f \in Files :
                         /\ trash'[b][f] \in made' \cup {None}
                         /\ b \notin dirs => trash'[b][f] = trash[b][f]
<1>4. Goal
  <2>1. CASE UNCHANGED <<src, trash, made>>
    BY <1>1, <2>1 DEF NothingBeforeItsTime
  <2>2. ASSUME NEW f \in Files, NEW o \in Objs, ToolCreates(f, o) PROVE Goal
    BY <1>1, <2>2 DEF ToolCreates, NothingBeforeItsTime, TypeOK
  <2>3. ASSUME NEW f \in Files, ToolDeletes(f) PROVE Goal
    BY <1>1, <2>3 DEF ToolDeletes, NothingBeforeItsTime, TypeOK
  <2>4. ASSUME NEW a \in Apps, NEW in \in BOOLEAN,
               job[a].phase \in {"move", "unmove"}, Rename(a, in)
        PROVE  Goal
    <3> DEFINE f == job[a].at
               b == job[a].batch
    <3>1. f \in Files /\ b \in dirs /\ made' = made
      BY <1>1, <2>4, RenameMoves DEF Rename
    <3>2. b \in Batches
      BY <1>1, <3>1 DEF TypeOK
    <3> HIDE DEF f, b
    <3>3. src[f] \in made \cup {None} /\ trash[b][f] \in made \cup {None}
      BY <1>1, <3>1, <3>2 DEF NothingBeforeItsTime
    <3>4. CASE in
      <4>1. /\ \A g \in Files : src'[g] = IF g = f THEN None ELSE src[g]
            /\ \A c \in Batches, g \in Files :
                  trash'[c][g] = IF c = b /\ g = f THEN src[f] ELSE trash[c][g]
        BY <1>1, <2>4, <3>4, OnlyOneFileMoves DEF f, b
      <4> QED BY <1>1, <3>1, <3>3, <4>1 DEF NothingBeforeItsTime
    <3>5. CASE ~in
      <4>1. /\ \A g \in Files : src'[g] = IF g = f THEN trash[b][f] ELSE src[g]
            /\ \A c \in Batches, g \in Files :
                  trash'[c][g] = IF c = b /\ g = f THEN None ELSE trash[c][g]
        BY <1>1, <2>4, <3>5, OnlyOneFileMoves DEF f, b
      <4> QED BY <1>1, <3>1, <3>3, <4>1 DEF NothingBeforeItsTime
    <3> QED BY <3>4, <3>5
  <2> HIDE DEF Goal
  <2> QED BY <2>1, <2>2, <2>3, <2>4, WhoMoves, WhoRenames
<1>5. NothingBeforeItsTime'
  BY <1>1, <1>2, <1>4 DEF NothingBeforeItsTime
<1> QED BY <1>3, <1>5

-----------------------------------------------------------------------------
(* What was checked holds until the rename, or the command is marked.      *)

\* A step of c leaves the command and the window of another application alone.
LEMMA AppMindsItself ==
  ASSUME JobsAreWhole, seen \in [Apps -> Snapshots], NEW c \in Apps, App(c)
  PROVE  /\ stamp' = stamp
         /\ \A a \in Apps \ {c} : /\ job'[a] = job[a] /\ seen'[a] = seen[a]
                                  /\ a \notin late' => a \notin late
<1>1. job \in [Apps -> JobType]
  BY DEF JobsAreWhole
<1>2. CASE Analyze(c) \/ Crash(c)
  BY <1>1, <1>2 DEF Analyze, Crash, files
<1>3. CASE \/ \E S \in SUBSET Files, b \in Batches : StartQuarantine(c, S, b)
           \/ \E b \in Batches : StartRestore(c, b)
  BY <1>1, <1>3 DEF StartQuarantine, StartRestore, files
<1>4. CASE \E f \in Files : Check(c, f) \/ CheckBack(c, f)
  BY <1>1, <1>4 DEF Check, CheckBack, Skip, files
<1>5. CASE Move(c) \/ MoveBack(c)
  BY <1>1, <1>5 DEF Move, MoveBack, Rename
<1>6. CASE MoveFails(c) \/ MoveBackFails(c) \/ Undone(c)
  BY <1>1, <1>6 DEF MoveFails, MoveBackFails, Skip, Undone, files
<1>7. CASE \/ WriteManifest(c) \/ SyncManifest(c) \/ ManifestFails(c)
           \/ SyncFails(c) \/ RemoveManifest(c) \/ RemoveManifestFails(c)
  BY <1>1, <1>7 DEF WriteManifest, SyncManifest, ManifestFails, SyncFails,
                    RemoveManifest, RemoveManifestFails, files
<1> QED BY <1>2, <1>3, <1>4, <1>5, <1>6, <1>7 DEF App

\* Only a check puts a command at a file.
LEMMA WhoIsAtAFile ==
  ASSUME JobsAreWhole, NEW a \in Apps, App(a),
         job'[a].phase \in {"move", "unmove"}
  PROVE  \E f \in Files : Check(a, f) \/ CheckBack(a, f)
<1>1. job \in [Apps -> JobType] /\ WholeJob(job[a], dirs)
  BY DEF JobsAreWhole
<1>2. CASE Analyze(a)
  BY <1>1, <1>2 DEF Analyze, Idle, files
<1>3. CASE \/ \E S \in SUBSET Files, b \in Batches : StartQuarantine(a, S, b)
           \/ \E b \in Batches : StartRestore(a, b)
  BY ZenonT(40), <1>1, <1>3 DEF StartQuarantine, StartRestore, Idle
<1>4. CASE Move(a) \/ MoveBack(a)
  BY <1>1, <1>4 DEF Move, MoveBack, JobType
<1>5. CASE MoveFails(a) \/ MoveBackFails(a)
  BY <1>1, <1>5 DEF MoveFails, MoveBackFails, Skip, JobType
<1>6. CASE \/ WriteManifest(a) \/ SyncManifest(a) \/ ManifestFails(a)
           \/ SyncFails(a) \/ RemoveManifest(a) \/ RemoveManifestFails(a)
           \/ Undone(a) \/ Crash(a)
  BY <1>1, <1>6 DEF WriteManifest, SyncManifest, ManifestFails, SyncFails, Idle,
                    RemoveManifest, RemoveManifestFails, Undone, Crash, JobType
<1> QED BY <1>2, <1>3, <1>4, <1>5, <1>6 DEF App

\* What touches the file a command is at without being its own rename marks it.
LEMMA UnmarkedIsUntouched ==
  ASSUME BoundsAssumption, IInv, [Next]_vars, NEW a \in Apps, ~ App(a),
         job[a].phase \in {"move", "unmove"}, a \notin late'
  PROVE  /\ a \notin late /\ job'[a] = job[a] /\ seen'[a] = seen[a]
         /\ src'[job[a].at] = src[job[a].at]
         /\ trash'[job[a].batch][job[a].at] = trash[job[a].batch][job[a].at]
         /\ src[job[a].at] /= None =>
               stamp'[src[job[a].at]] = stamp[src[job[a].at]]
<1> DEFINE f == job[a].at
           b == job[a].batch
           Same == /\ src'[f] = src[f] /\ trash'[b][f] = trash[b][f]
                   /\ src[f] /= None => stamp'[src[f]] = stamp[src[f]]
           Mine == a \notin late /\ job'[a] = job[a] /\ seen'[a] = seen[a]
<1>1. /\ TypeOK /\ Apart(src, trash) /\ JobsAreWhole
      /\ seen \in [Apps -> Snapshots] /\ src \in [Files -> Objs \cup {None}]
      /\ trash \in [Batches -> [Files -> Objs \cup {None}]]
      /\ stamp \in [Objs -> 0 .. MaxWrites]
  BY OnePlaceIsApart DEF IInv, OnePlace, TypeOK
<1>2. f \in Files /\ b \in Batches
  BY <1>1 DEF JobsAreWhole, WholeJob, TypeOK, JobType
<1>3. ASSUME NEW g \in Files, NEW o \in Objs, ToolCreates(g, o)
      PROVE  Mine /\ Same
  <2>1. a \in Waiting(g, Apps) <=> g = f
    BY DEF Waiting
  <2> QED BY <1>1, <1>2, <1>3, <2>1 DEF ToolCreates
<1>4. ASSUME NEW g \in Files, ToolAppends(g) PROVE Mine /\ Same
  <2>1. a \in Waiting(g, Apps) <=> g = f
    BY DEF Waiting
  <2>2. a \notin late /\ g /= f /\ src[g] /= None
    BY <1>4, <2>1 DEF ToolAppends
  <2>3. src[f] /= None => src[f] /= src[g]
    BY <1>1, <1>2, <2>2 DEF Apart
  <2>4. src[f] /= None => src[f] \in Objs
    BY <1>1, <1>2
  <2> HIDE DEF f, b
  <2> QED BY <1>1, <1>2, <1>4, <2>2, <2>3, <2>4 DEF ToolAppends
<1>5. ASSUME NEW g \in Files, ToolDeletes(g) PROVE Mine /\ Same
  <2>1. a \in Waiting(g, Apps) <=> g = f
    BY DEF Waiting
  <2> QED BY <1>1, <1>2, <1>5, <2>1 DEF ToolDeletes
<1>6. ASSUME NEW c \in Apps, App(c) PROVE Mine /\ Same
  <2>1. Mine /\ stamp' = stamp
    BY <1>1, <1>6, AppMindsItself
  <2>2. src'[f] = src[f] /\ trash'[b][f] = trash[b][f]
    <3>1. CASE UNCHANGED <<src, trash>>
      BY <3>1
    <3>2. ASSUME NEW in \in BOOLEAN, job[c].phase \in {"move", "unmove"},
                 Rename(c, in)
          PROVE  src'[f] = src[f] /\ trash'[b][f] = trash[b][f]
      <4>1. job[c].at /= f
        BY <1>6, <3>2 DEF Rename, Waiting
      <4>2. /\ \A g \in Files : g /= job[c].at => src'[g] = src[g]
            /\ \A d \in Batches, g \in Files :
                  g /= job[c].at => trash'[d][g] = trash[d][g]
        BY <1>1, <3>2, OnlyOneFileMoves
      <4> QED BY <1>2, <4>1, <4>2
    <3>3. \/ UNCHANGED <<src, trash>>
          \/ \E in \in BOOLEAN : /\ job[c].phase \in {"move", "unmove"}
                                 /\ Rename(c, in)
      <4>1. ~ Move(c) /\ ~ MoveBack(c) => UNCHANGED <<src, trash>>
        BY <1>6 DEF App, files, Analyze, StartQuarantine, StartRestore, Check,
              CheckBack, Skip, MoveFails, WriteManifest, SyncManifest,
              ManifestFails, SyncFails, RemoveManifest, RemoveManifestFails,
              MoveBackFails, Undone, Crash
      <4>2. /\ (job[c].op = "quarantine") \in BOOLEAN
            /\ (job[c].op = "restore") \in BOOLEAN
        OBVIOUS
      <4> QED BY <4>1, <4>2 DEF Move, MoveBack
    <3> QED BY <3>1, <3>2, <3>3
  <2> QED BY <2>1, <2>2
<1>7. CASE UNCHANGED vars
  BY <1>7 DEF vars, files
<1> HIDE DEF Mine, Same
<1>8. Mine /\ Same
  BY <1>3, <1>4, <1>5, <1>6, <1>7 DEF Next, Tool, Mine, Same, vars, files
<1> QED BY <1>8 DEF Mine, Same

LEMMA CheckedStep ==
  ASSUME BoundsAssumption, IInv, [Next]_vars
  PROVE  CheckedStill'
<1> SUFFICES ASSUME NEW a \in Apps, a \notin late',
                    job'[a].phase \in {"move", "unmove"}
             PROVE  /\ job'[a].phase = "move" => Passes(a, job[a].at)'
                    /\ job'[a].phase = "unmove" => PassesBack(a, job[a].at)'
  BY DEF CheckedStill
<1>1. JobsAreWhole /\ job \in [Apps -> JobType]
  BY DEF IInv, JobsAreWhole
<1>2. ASSUME NEW f \in Files, Check(a, f)
      PROVE  job'[a].phase = "move" /\ Passes(a, job[a].at)'
  <2>1. /\ UNCHANGED <<src, trash, stamp, seen>>
        /\ job'[a] = IF Passes(a, f)
                     THEN [job[a] EXCEPT !.at = f, !.phase = "move"]
                     ELSE [job[a] EXCEPT !.phase = "undo"]
    BY <1>1, <1>2 DEF Check, files
  <2>2. Passes(a, f) /\ job'[a] = [job[a] EXCEPT !.at = f, !.phase = "move"]
    BY <1>1, <2>1 DEF JobType
  <2>3. /\ job'[a].at = f /\ job'[a].op = job[a].op /\ job'[a].phase = "move"
        /\ job'[a].batch = job[a].batch
    BY <1>1, <2>2 DEF JobType
  <2> QED BY <2>1, <2>2, <2>3 DEF Passes, CanGoIn, CanGoOut, Fingerprint
<1>3. ASSUME NEW f \in Files, CheckBack(a, f)
      PROVE  job'[a].phase = "unmove" /\ PassesBack(a, job[a].at)'
  <2>1. PassesBack(a, f)
    BY <1>1, <1>3 DEF CheckBack, Skip, JobType
  <2>2. /\ UNCHANGED <<src, trash>>
        /\ job'[a] = [job[a] EXCEPT !.at = f, !.phase = "unmove"]
    BY <1>1, <1>3, <2>1 DEF CheckBack, files
  <2>3. /\ job'[a].at = f /\ job'[a].op = job[a].op /\ job'[a].phase = "unmove"
        /\ job'[a].batch = job[a].batch
    BY <1>1, <2>2 DEF JobType
  <2> QED BY <2>1, <2>2, <2>3 DEF PassesBack, CanGoIn, CanGoOut
<1>4. CASE App(a)
  BY <1>1, <1>2, <1>3, <1>4, WhoIsAtAFile
<1>5. CASE ~ App(a)
  <2>1. job'[a] = job[a]
    <3>1. CASE Tool \/ UNCHANGED vars
      BY <3>1 DEF Tool, ToolCreates, ToolAppends, ToolDeletes, vars
    <3>2. ASSUME NEW c \in Apps, App(c) PROVE job'[a] = job[a]
      BY <1>1, <1>5, <3>2, AppMindsItself DEF IInv, OnePlace, TypeOK
    <3> QED BY <3>1, <3>2 DEF Next
  <2>2. /\ a \notin late /\ seen'[a] = seen[a]
        /\ src'[job[a].at] = src[job[a].at]
        /\ trash'[job[a].batch][job[a].at] = trash[job[a].batch][job[a].at]
        /\ src[job[a].at] /= None =>
              stamp'[src[job[a].at]] = stamp[src[job[a].at]]
    BY <1>5, <2>1, UnmarkedIsUntouched
  <2>3. /\ job[a].phase = "move" => Passes(a, job[a].at)
        /\ job[a].phase = "unmove" => PassesBack(a, job[a].at)
    BY <2>2 DEF IInv, CheckedStill
  <2> QED BY <2>1, <2>2, <2>3
          DEF Passes, PassesBack, CanGoIn, CanGoOut, Fingerprint
<1> QED BY <1>4, <1>5

-----------------------------------------------------------------------------
(* The files of every batch are accounted for.                             *)

LEMMA HeldMoves ==
  ASSUME BoundsAssumption, TypeOK, JobsAreWhole, NEW a \in Apps,
         job[a].phase \in {"move", "unmove"}, NEW in \in BOOLEAN, Rename(a, in),
         NEW f, f = job[a].at, NEW b, b = job[a].batch
  PROVE  /\ f \in Files /\ b \in Batches
         /\ in => Held(b)' = Held(b) \cup {f}
         /\ ~in => f \in Held(b) /\ Held(b)' = Held(b) \ {f}
         /\ \A c \in Batches \ {b} : Held(c)' = Held(c)
<1>1. f \in Files /\ b \in Batches
  BY ZenonT(40), RenameMoves DEF TypeOK
<1>2. None \notin Objs
  BY DEF BoundsAssumption
<1>3. ASSUME in PROVE /\ Held(b)' = Held(b) \cup {f}
                      /\ \A c \in Batches \ {b} : Held(c)' = Held(c)
  <2>1. \A c \in Batches, g \in Files :
           trash'[c][g] = IF c = b /\ g = f THEN src[f] ELSE trash[c][g]
    <3>1. \A c \in Batches, g \in Files :
             trash'[c][g] = IF c = job[a].batch /\ g = job[a].at
                            THEN src[job[a].at] ELSE trash[c][g]
      BY <1>3, OnlyOneFileMoves
    <3> QED BY <3>1
  <2>2. src[f] /= None
    <3>1. src[job[a].at] \in Objs
      BY <1>3, RenameMoves
    <3> QED BY <1>2, <3>1
  <2> QED BY <1>1, <2>1, <2>2 DEF Held
<1>4. ASSUME ~in PROVE /\ f \in Held(b) /\ Held(b)' = Held(b) \ {f}
                       /\ \A c \in Batches \ {b} : Held(c)' = Held(c)
  <2>1. \A c \in Batches, g \in Files :
           trash'[c][g] = IF c = b /\ g = f THEN None ELSE trash[c][g]
    BY <1>4, OnlyOneFileMoves
  <2>2. trash[b][f] /= None
    BY ZenonT(40), <1>2, <1>4, RenameMoves
  <2> QED BY <1>1, <2>1, <2>2 DEF Held
<1> QED BY <1>1, <1>3, <1>4

\* A batch nobody reaches for stays accounted for.
LEMMA LeftAlone ==
  ASSUME NEW b \in Batches, Accounted(b), b /= None,
         manifest'[b] = manifest[b], Held(b)' = Held(b),
         \A c \in Apps : \/ job'[c] = job[c]
                         \/ job[c].batch /= b /\ job'[c].batch /= b
  PROVE  Accounted(b)'
<1>1. \A c \in Apps : /\ Quarantining(c, b)' <=> Quarantining(c, b)
                      /\ Restoring(c, b)' <=> Restoring(c, b)
                      /\ job'[c].batch = b <=> job[c].batch = b
                      /\ job[c].batch = b => job'[c] = job[c]
  BY DEF Quarantining, Restoring, Working
<1>2. \A c \in Apps : Quarantining(c, b) \/ Restoring(c, b) => job[c].batch = b
  BY DEF Quarantining, Restoring
<1>3. InHands(b)' = InHands(b)
  BY <1>1, <1>2 DEF InHands
<1>4. \A c \in Apps : Quarantining(c, b) /\ OwnedByQuarantine(c, b)
                         => OwnedByQuarantine(c, b)'
  BY <1>1, <1>2 DEF OwnedByQuarantine
<1>5. SharedByRestores(b) => SharedByRestores(b)'
  BY <1>1, <1>2, <1>3 DEF SharedByRestores
<1> QED BY <1>1, <1>4, <1>5 DEF Accounted

\* The quarantine of b goes on, or starts with a batch of its own.
LEMMA QuarantineGoesOn ==
  ASSUME NEW a \in Apps, NEW b \in Batches,
         \A c \in Apps \ {a} : job'[c] = job[c] /\ job[c].batch /= b,
         Quarantining(a, b)', manifest'[b].kind /= "whole",
         Held(b)' = job'[a].done
  PROVE  Accounted(b)'
<1>1. \A c \in Apps : Quarantining(c, b)' => c = a
  BY DEF Quarantining
<1>2. OwnedByQuarantine(a, b)'
  BY DEF OwnedByQuarantine
<1> QED BY <1>1, <1>2 DEF Accounted

\* A restore of b goes on: files go from the batch into its hands or back.
LEMMA RestoreGoesOn ==
  ASSUME NEW a \in Apps, NEW b \in Batches, Accounted(b),
         \A c \in Apps \ {a} : job'[c] = job[c],
         Restoring(a, b), Restoring(a, b)', manifest'[b] = manifest[b],
         Held(b)' \cup job'[a].done = Held(b) \cup job[a].done,
         Held(b)' \cap job'[a].done = {},
         job[a].done \subseteq Files, job'[a].done \subseteq Files,
         job'[a].phase \in {"check", "move"} =>
            /\ job[a].phase \in {"check", "move"}
            /\ job'[a].todo \cup job'[a].done = job[a].todo \cup job[a].done
  PROVE  Accounted(b)'
<1>1. \A c \in Apps : ~ Quarantining(c, b)
  BY DEF Accounted, OwnedByQuarantine, Quarantining, Restoring
<1>2. SharedByRestores(b)
  BY <1>1 DEF Accounted
<1>3. \A c \in Apps : ~ Quarantining(c, b)'
  BY <1>1 DEF Quarantining, Restoring, Working
<1>4. \A c \in Apps \ {a} : Restoring(c, b)' <=> Restoring(c, b)
  BY DEF Restoring, Working
<1>5. Held(b)' \cup InHands(b)' = Held(b) \cup InHands(b)
  <2> DEFINE Others == {f \in Files : \E c \in Apps \ {a} :
                                         Restoring(c, b) /\ f \in job[c].done}
  <2>1. InHands(b) = Others \cup job[a].done
    BY DEF InHands
  <2>2. InHands(b)' = Others \cup job'[a].done
    BY <1>4 DEF InHands
  <2> HIDE DEF Others
  <2> QED BY <2>1, <2>2
<1>6. ASSUME NEW c \in Apps \ {a}, Restoring(c, b)
      PROVE  /\ Held(b)' \cap job'[c].done = {}
             /\ job'[a].done \cap job'[c].done = {}
  <2>1. /\ Held(b) \cap job[c].done = {}
        /\ job[a].done \cap job[c].done = {}
    BY <1>2, <1>6 DEF SharedByRestores
  <2> QED BY <2>1
<1>7. ASSUME NEW c \in Apps, Restoring(c, b)'
      PROVE  /\ Held(b)' \cap job'[c].done = {}
             /\ \A d \in Apps \ {c} :
                   Restoring(d, b)' => job'[d].done \cap job'[c].done = {}
             /\ job'[c].phase \in {"check", "move"} =>
                   manifest'[b].entries \subseteq job'[c].todo \cup job'[c].done
  <2>1. CASE c = a
    BY <1>2, <1>4, <1>6, <2>1 DEF SharedByRestores
  <2>2. CASE c /= a
    <3>1. Restoring(c, b) /\ job'[c] = job[c]
      BY <1>4, <1>7, <2>2
    <3>2. ASSUME NEW d \in Apps \ {c}, Restoring(d, b)'
          PROVE  job'[d].done \cap job'[c].done = {}
      <4>1. CASE d = a
        BY <1>6, <3>1, <2>2, <4>1
      <4>2. CASE d /= a
        BY <1>2, <1>4, <3>1, <3>2, <4>2 DEF SharedByRestores
      <4> QED BY <4>1, <4>2
    <3> QED BY <1>2, <1>6, <2>2, <3>1, <3>2 DEF SharedByRestores
  <2> QED BY <2>1, <2>2
<1>8. SharedByRestores(b)'
  BY <1>2, <1>5, <1>7 DEF SharedByRestores
<1> QED BY <1>3, <1>8 DEF Accounted

\* A command that holds nothing of its batch may stop.
LEMMA StopsEmptyHanded ==
  ASSUME NEW a \in Apps, NEW b \in Batches, b /= None, Accounted(b),
         ManifestsList, \A c \in Apps \ {a} : job'[c] = job[c],
         Quarantining(a, b) \/ Restoring(a, b), job[a].done = {},
         job'[a] = Idle, manifest'[b] = manifest[b], Held(b)' = Held(b)
  PROVE  Accounted(b)'
<1>1. ~ Quarantining(a, b)' /\ ~ Restoring(a, b)'
  BY DEF Quarantining, Restoring, Idle
<1>2. \A c \in Apps \ {a} : /\ Quarantining(c, b)' <=> Quarantining(c, b)
                            /\ Restoring(c, b)' <=> Restoring(c, b)
  BY DEF Quarantining, Restoring, Working
<1>3. CASE Quarantining(a, b)
  <2>1. \A c \in Apps : ~ Quarantining(c, b)' /\ ~ Restoring(c, b)'
    BY <1>1, <1>2, <1>3
    DEF Accounted, OwnedByQuarantine, Quarantining, Restoring
  <2>2. Held(b) = {} /\ manifest[b].entries = {}
    BY <1>3 DEF Accounted, OwnedByQuarantine, ManifestsList
  <2>3. InHands(b)' = {}
    BY <2>1 DEF InHands
  <2> QED BY <2>1, <2>2, <2>3 DEF Accounted, SharedByRestores
<1>4. CASE Restoring(a, b)
  <2>1. \A c \in Apps : ~ Quarantining(c, b)
    BY <1>4 DEF Accounted, OwnedByQuarantine, Quarantining, Restoring
  <2>2. SharedByRestores(b)
    BY <2>1 DEF Accounted
  <2>3. InHands(b)' = InHands(b)
    BY <1>1, <1>2 DEF InHands
  <2>4. SharedByRestores(b)'
    BY <1>1, <1>2, <2>2, <2>3 DEF SharedByRestores
  <2> QED BY <1>1, <1>2, <2>1, <2>4 DEF Accounted
<1> QED BY <1>3, <1>4

\* An application works in the batch of its command only.
LEMMA OwnBatchOnly ==
  ASSUME BoundsAssumption, TypeOK, JobsAreWhole, NEW a \in Apps, App(a),
         NEW b \in Batches, b /= job[a].batch
  PROVE  manifest'[b] = manifest[b] /\ Held(b)' = Held(b)
<1>1. manifest \in [Batches -> [kind : {"absent", "torn", "whole"},
                                entries : SUBSET Files]]
  BY DEF TypeOK
<1>2. CASE Move(a)
  <2>1. (job[a].op = "quarantine") \in BOOLEAN
    OBVIOUS
  <2>2. Held(b)' = Held(b)
    BY <1>2, <2>1, HeldMoves DEF Move
  <2> QED BY <1>2, <2>2 DEF Move, Rename
<1>3. CASE MoveBack(a)
  <2>1. (job[a].op = "restore") \in BOOLEAN
    OBVIOUS
  <2>2. Held(b)' = Held(b)
    BY <1>3, <2>1, HeldMoves DEF MoveBack
  <2> QED BY <1>3, <2>2 DEF MoveBack, Rename
<1>4. CASE WriteManifest(a) \/ SyncManifest(a) \/ SyncFails(a) \/ RemoveManifest(a)
  <2>1. trash' = trash /\ manifest'[b] = manifest[b]
    BY <1>1, <1>4 DEF WriteManifest, SyncManifest, SyncFails, RemoveManifest,
                      files
  <2> QED BY <2>1 DEF Held
<1>5. CASE /\ ~ Move(a) /\ ~ MoveBack(a) /\ ~ WriteManifest(a)
           /\ ~ SyncManifest(a) /\ ~ SyncFails(a) /\ ~ RemoveManifest(a)
  <2>1. UNCHANGED <<trash, manifest>>
    BY <1>5 DEF App, files, Analyze, StartQuarantine, StartRestore, Check,
                CheckBack, Skip, MoveFails, ManifestFails,
                RemoveManifestFails, MoveBackFails, Undone, Crash
  <2> QED BY <2>1 DEF Held
<1> QED BY <1>2, <1>3, <1>4, <1>5

\* The steps of an application in the batch of its command.
LEMMA OwnBatchStep ==
  ASSUME BoundsAssumption, IInv, NEW a \in Apps, App(a),
         NEW b \in Batches, b = job[a].batch, b \notin damaged', Accounted(b)
  PROVE  Accounted(b)'
<1>1. /\ TypeOK /\ JobsAreWhole /\ job \in [Apps -> JobType] /\ ManifestsList
      /\ WholeJob(job[a], dirs) /\ job[a].done \subseteq Files
      /\ manifest \in [Batches -> [kind : {"absent", "torn", "whole"},
                                   entries : SUBSET Files]]
  BY DEF IInv, OnePlace, JobsAreWhole, TypeOK, JobType
<1>2. b /= None
  BY DEF BoundsAssumption
<1>3. \A c \in Apps \ {a} : job'[c] = job[c]
  BY <1>1, AppMindsItself DEF IInv, OnePlace, TypeOK
<1>4. Quarantining(a, b) \/ Restoring(a, b)
  BY <1>1, <1>2 DEF WholeJob, JobType, Idle, Quarantining, Restoring, Working
<1>5. Quarantining(a, b) =>
         /\ \A c \in Apps \ {a} : job'[c] = job[c] /\ job[c].batch /= b
         /\ manifest[b].kind /= "whole" /\ Held(b) = job[a].done
  BY <1>3 DEF Accounted, OwnedByQuarantine
\* The command goes on with the same operation and the same files moved.
<1>6. ASSUME job'[a].op = job[a].op, job'[a].batch = b, job'[a].phase /= "idle",
             job'[a].done = job[a].done, job'[a].todo = job[a].todo,
             job'[a].phase \in {"check", "move"} => job[a].phase \in {"check", "move"},
             \/ manifest'[b] = manifest[b]
             \/ job[a].op = "quarantine" /\ manifest'[b].kind /= "whole",
             Held(b)' = Held(b)
      PROVE  Accounted(b)'
  <2>1. CASE Quarantining(a, b)
    <3>1. Quarantining(a, b)' /\ manifest'[b].kind /= "whole"
      BY <1>5, <1>6, <2>1 DEF Quarantining, Working
    <3> QED BY <1>5, <1>6, <2>1, <3>1, QuarantineGoesOn
  <2>2. CASE Restoring(a, b)
    <3>1. Restoring(a, b)' /\ manifest'[b] = manifest[b]
      BY <1>6, <2>2 DEF Restoring, Working
    <3>2. Held(b) \cap job[a].done = {}
      <4>1. \A c \in Apps : ~ Quarantining(c, b)
        BY <2>2 DEF Accounted, OwnedByQuarantine, Quarantining, Restoring
      <4> QED BY <2>2, <4>1 DEF Accounted, SharedByRestores
    <3> QED BY <1>1, <1>3, <1>6, <2>2, <3>1, <3>2, RestoreGoesOn
  <2> QED BY <1>4, <2>1, <2>2
<1>7. CASE Analyze(a) \/ (\E S \in SUBSET Files, c \in Batches : StartQuarantine(a, S, c))
           \/ (\E c \in Batches : StartRestore(a, c))
  <2>1. job[a] = Idle
    BY <1>7 DEF Analyze, StartQuarantine, StartRestore
  <2> QED BY <1>2, <2>1 DEF Idle
<1>8. ASSUME NEW f \in Files, Check(a, f) PROVE Accounted(b)'
  <2>1. UNCHANGED <<trash, manifest>>
    BY <1>8 DEF Check, files
  <2>2. /\ job'[a].op = job[a].op /\ job'[a].batch = b
        /\ job'[a].phase /= "idle" /\ job[a].phase = "check"
        /\ job'[a].done = job[a].done /\ job'[a].todo = job[a].todo
    BY <1>1, <1>8 DEF Check, JobType
  <2> QED BY <1>6, <2>1, <2>2 DEF Held
<1>9. ASSUME NEW f \in Files, CheckBack(a, f) PROVE Accounted(b)'
  <2>1. UNCHANGED <<trash, manifest>>
    BY <1>9 DEF CheckBack, Skip, files
  <2>2. job' = [job EXCEPT ![a] = [@ EXCEPT !.at = f, !.phase = "unmove"]]
    BY <1>9 DEF CheckBack, Skip
  <2>3. /\ job'[a].op = job[a].op /\ job'[a].batch = b
        /\ job'[a].phase = "unmove"
        /\ job'[a].done = job[a].done /\ job'[a].todo = job[a].todo
    BY <1>1, <2>2 DEF JobType
  <2> QED BY <1>6, <2>1, <2>3 DEF Held
<1>10. CASE Move(a)
  <2> DEFINE f == job[a].at
  <2>1. /\ job'[a].op = job[a].op /\ job'[a].batch = b
        /\ job'[a].phase = "check" /\ job[a].phase = "move"
        /\ job'[a].done = job[a].done \cup {f}
        /\ job'[a].todo = job[a].todo \ {f}
        /\ f \in job[a].todo /\ f \notin job[a].done /\ f \in Files
        /\ manifest' = manifest
    BY <1>1, <1>10 DEF Move, Rename, WholeJob, JobType
  <2> DEFINE in == job[a].op = "quarantine"
  <2>2. in \in BOOLEAN /\ Rename(a, in)
    BY <1>10 DEF Move
  <2> HIDE DEF in
  <2>3. /\ in => Held(b)' = Held(b) \cup {job[a].at}
        /\ ~in => /\ job[a].at \in Held(b)
                  /\ Held(b)' = Held(b) \ {job[a].at}
    <3>1. job[a].phase \in {"move", "unmove"}
      BY <2>1
    <3> QED BY SMTT(30), <1>1, <2>2, <3>1, HeldMoves
  <2>4. in <=> job[a].op = "quarantine"
    BY DEF in
  <2>5. CASE Quarantining(a, b)
    <3>1. Held(b)' = Held(b) \cup {f}
      BY <2>5, <2>3, <2>4 DEF Quarantining
    <3>2. Quarantining(a, b)'
      BY <2>1, <2>5 DEF Quarantining, Working
    <3> QED BY <1>5, <2>1, <2>5, <3>1, <3>2, QuarantineGoesOn
  <2>6. CASE Restoring(a, b)
    <3>1. f \in Held(b) /\ Held(b)' = Held(b) \ {f}
      BY <2>6, <2>3, <2>4 DEF Restoring
    <3>2. Restoring(a, b)'
      BY <2>1, <2>6 DEF Restoring, Working
    <3>3. Held(b) \cap job[a].done = {}
      <4>1. \A c \in Apps : ~ Quarantining(c, b)
        BY <2>6 DEF Accounted, OwnedByQuarantine, Quarantining, Restoring
      <4> QED BY <2>6, <4>1 DEF Accounted, SharedByRestores
    <3> HIDE DEF f
    <3>4. /\ Held(b)' \cup job'[a].done = Held(b) \cup job[a].done
          /\ Held(b)' \cap job'[a].done = {}
          /\ job'[a].todo \cup job'[a].done = job[a].todo \cup job[a].done
          /\ job'[a].done \subseteq Files
      BY <1>1, <2>1, <3>1, <3>3
    <3> QED BY <1>1, <1>3, <2>1, <2>6, <3>2, <3>4, RestoreGoesOn
  <2> QED BY <1>4, <2>5, <2>6
<1>11. CASE MoveBack(a)
  <2> DEFINE f == job[a].at
  <2>1. /\ job'[a].op = job[a].op /\ job'[a].batch = b
        /\ job'[a].phase = "undo" /\ job[a].phase = "unmove"
        /\ job'[a].done = job[a].done \ {f}
        /\ f \in job[a].done /\ f \in Files
        /\ manifest' = manifest
    BY <1>1, <1>11 DEF MoveBack, Rename, WholeJob, JobType
  <2> DEFINE in == job[a].op = "restore"
  <2>2. in \in BOOLEAN /\ Rename(a, in)
    BY <1>11 DEF MoveBack
  <2> HIDE DEF in
  <2>3. /\ in => Held(b)' = Held(b) \cup {job[a].at}
        /\ ~in => /\ job[a].at \in Held(b)
                  /\ Held(b)' = Held(b) \ {job[a].at}
    <3>1. job[a].phase \in {"move", "unmove"}
      BY <2>1
    <3> QED BY SMTT(30), <1>1, <2>2, <3>1, HeldMoves
  <2>4. in <=> job[a].op = "restore"
    BY DEF in
  <2>5. CASE Quarantining(a, b)
    <3>1. Held(b)' = Held(b) \ {f}
      BY <2>5, <2>3, <2>4 DEF Quarantining
    <3>2. Quarantining(a, b)'
      BY <2>1, <2>5 DEF Quarantining, Working
    <3> QED BY <1>5, <2>1, <2>5, <3>1, <3>2, QuarantineGoesOn
  <2>6. CASE Restoring(a, b)
    <3>1. Held(b)' = Held(b) \cup {f}
      BY <2>6, <2>3, <2>4 DEF Restoring
    <3>2. Restoring(a, b)'
      BY <2>1, <2>6 DEF Restoring, Working
    <3>3. Held(b) \cap job[a].done = {}
      <4>1. \A c \in Apps : ~ Quarantining(c, b)
        BY <2>6 DEF Accounted, OwnedByQuarantine, Quarantining, Restoring
      <4> QED BY <2>6, <4>1 DEF Accounted, SharedByRestores
    <3> HIDE DEF f
    <3>4. /\ Held(b)' \cup job'[a].done = Held(b) \cup job[a].done
          /\ Held(b)' \cap job'[a].done = {}
          /\ job'[a].done \subseteq Files
      BY <1>1, <2>1, <3>1, <3>3
    <3> QED BY <1>1, <1>3, <2>1, <2>6, <3>2, <3>4, RestoreGoesOn
  <2> QED BY <1>4, <2>5, <2>6
<1>12. CASE MoveFails(a)
  <2>1. UNCHANGED <<trash, manifest>>
    BY <1>12 DEF MoveFails, files
  <2>2. /\ job'[a].op = job[a].op /\ job'[a].batch = b
        /\ job'[a].phase = "undo"
        /\ job'[a].done = job[a].done /\ job'[a].todo = job[a].todo
    BY <1>1, <1>12 DEF MoveFails, JobType
  <2> QED BY <1>6, <2>1, <2>2 DEF Held
<1>13. CASE ManifestFails(a) \/ RemoveManifestFails(a)
  <2>1. UNCHANGED <<trash, manifest>>
    BY <1>13 DEF ManifestFails, RemoveManifestFails, files
  <2>2. /\ job'[a].op = job[a].op /\ job'[a].batch = b
        /\ job'[a].phase = "undo"
        /\ job'[a].done = job[a].done /\ job'[a].todo = job[a].todo
    BY <1>1, <1>13 DEF ManifestFails, RemoveManifestFails, JobType
  <2> QED BY <1>6, <2>1, <2>2 DEF Held
<1>14. CASE WriteManifest(a)
  <2>1. trash' = trash /\ manifest'[b].kind /= "whole"
    BY <1>1, <1>14 DEF WriteManifest, Torn, files
  <2>2. /\ job'[a].op = job[a].op /\ job'[a].batch = b
        /\ job'[a].phase = "sync" /\ job[a].op = "quarantine"
        /\ job'[a].done = job[a].done /\ job'[a].todo = job[a].todo
    BY <1>1, <1>14 DEF WriteManifest, AllMoved, JobType
  <2> QED BY <1>6, <2>1, <2>2 DEF Held
<1>15. CASE SyncManifest(a)
  <2>1. /\ trash' = trash /\ manifest'[b].entries = job[a].done /\ job'[a] = Idle
        /\ Quarantining(a, b)
    BY <1>1, <1>4, <1>15 DEF SyncManifest, Whole, files, WholeJob, Quarantining,
                             Restoring
  <2>2. \A c \in Apps : job'[c].batch /= b
    BY <1>2, <1>5, <2>1 DEF Idle
  <2>3. Held(b)' = manifest'[b].entries
    BY <1>5, <2>1 DEF Held
  <2> QED BY <2>2, <2>3 DEF Accounted, SharedByRestores, InHands, Quarantining,
                            Restoring
<1>16. CASE SyncFails(a)
  BY <1>16 DEF SyncFails
<1>17. CASE RemoveManifest(a)
  <2>1. /\ trash' = trash /\ manifest'[b].entries = {} /\ job'[a] = Idle
        /\ Restoring(a, b) /\ job[a].phase = "check" /\ job[a].todo = {}
    BY <1>1, <1>4, <1>17 DEF RemoveManifest, AllMoved, NoManifest, files,
                             Quarantining, Restoring
  <2>2. \A c \in Apps : ~ Quarantining(c, b)
    BY <2>1 DEF Accounted, OwnedByQuarantine, Quarantining, Restoring
  <2>3. SharedByRestores(b)
    BY <2>2 DEF Accounted
  <2>4. Held(b) = {}
    BY <2>1, <2>3 DEF SharedByRestores
  <2>5. ASSUME NEW c \in Apps \ {a}, Restoring(c, b) PROVE job[c].done = {}
    <3>1. job[c].done \subseteq Files
      BY <1>1 DEF JobType
    <3>2. job[c].done \subseteq manifest[b].entries
      BY <2>3, <2>5, <3>1 DEF SharedByRestores, InHands
    <3> QED BY <2>1, <2>3, <2>5, <3>2 DEF SharedByRestores
  <2>6. /\ \A c \in Apps \ {a} : Restoring(c, b)' <=> Restoring(c, b)
        /\ ~ Restoring(a, b)' /\ \A c \in Apps : ~ Quarantining(c, b)'
    BY <1>3, <2>1, <2>2 DEF Restoring, Quarantining, Working, Idle
  <2>7. Held(b)' = {} /\ InHands(b)' = {}
    BY <1>3, <2>1, <2>4, <2>5, <2>6 DEF Held, InHands
  <2>8. SharedByRestores(b)'
    BY <1>3, <2>1, <2>5, <2>6, <2>7 DEF SharedByRestores
  <2> QED BY <2>6, <2>8 DEF Accounted
<1>18. CASE MoveBackFails(a)
  BY <1>18 DEF MoveBackFails, Skip
<1>19. CASE Undone(a) \/ Crash(a)
  <2>1. /\ UNCHANGED <<trash, manifest>> /\ job'[a] = Idle /\ job[a].done = {}
    BY <1>1, <1>19 DEF Undone, Crash, files
  <2> QED BY <1>1, <1>2, <1>3, <1>4, <2>1, StopsEmptyHanded DEF Held
<1> QED BY <1>7, <1>8, <1>9, <1>10, <1>11, <1>12, <1>13, <1>14, <1>15, <1>16,
           <1>17, <1>18, <1>19 DEF App

LEMMA BatchesStep ==
  ASSUME BoundsAssumption, IInv, [Next]_vars
  PROVE  BatchesAccounted'
<1>1. /\ TypeOK /\ JobsAreWhole /\ job \in [Apps -> JobType]
      /\ NothingBeforeItsTime /\ ManifestsList
      /\ \A c \in Apps : WholeJob(job[c], dirs)
  BY DEF IInv, OnePlace, JobsAreWhole
<1>2. damaged \subseteq damaged'
  <2>1. CASE Tool \/ UNCHANGED vars
    BY <2>1 DEF Tool, ToolCreates, ToolAppends, ToolDeletes, vars
  <2>2. ASSUME NEW a \in Apps, App(a) PROVE damaged \subseteq damaged'
    BY <2>2 DEF App, Analyze, StartQuarantine, StartRestore, Check, CheckBack,
         Skip, Move, MoveFails, Rename, WriteManifest, SyncManifest,
         ManifestFails, SyncFails, RemoveManifest, RemoveManifestFails,
         MoveBack, MoveBackFails, Undone, Crash
  <2> QED BY <2>1, <2>2 DEF Next
<1> SUFFICES ASSUME NEW b \in Batches, b \notin damaged'
             PROVE  Accounted(b)'
  BY DEF BatchesAccounted
<1>3. Accounted(b) /\ b /= None
  BY <1>2 DEF IInv, BatchesAccounted, BoundsAssumption
<1>4. CASE Tool \/ UNCHANGED vars
  <2>1. manifest' = manifest /\ trash' = trash /\ job' = job
    BY <1>4 DEF Tool, ToolCreates, ToolAppends, ToolDeletes, vars, files
  <2> QED BY <1>3, <2>1, LeftAlone DEF Held
<1>5. ASSUME NEW a \in Apps, App(a) PROVE Accounted(b)'
  <2>1. CASE b = job[a].batch
    BY <1>3, <1>5, <2>1, OwnBatchStep
  <2>2. CASE b /= job[a].batch /\ job'[a].batch /= b
    <3>1. \A c \in Apps \ {a} : job'[c] = job[c]
      BY <1>1, <1>5, AppMindsItself DEF TypeOK
    <3>2. manifest'[b] = manifest[b] /\ Held(b)' = Held(b)
      BY <1>1, <1>5, <2>2, OwnBatchOnly
    <3> QED BY <1>3, <2>2, <3>1, <3>2, LeftAlone
  <2>3. CASE b /= job[a].batch /\ job'[a].batch = b
    <3>1. /\ \A c \in Apps \ {a} : job'[c] = job[c]
          /\ manifest'[b] = manifest[b] /\ Held(b)' = Held(b)
      BY <1>1, <1>5, <2>3, AppMindsItself, OwnBatchOnly DEF TypeOK
    <3>2. \/ \E S \in SUBSET Files : StartQuarantine(a, S, b)
          \/ StartRestore(a, b)
      <4>1. ASSUME NEW S \in SUBSET Files, NEW c \in Batches, StartQuarantine(a, S, c)
            PROVE  c = b
        BY <1>1, <2>3, <4>1 DEF StartQuarantine, Idle
      <4>2. ASSUME NEW c \in Batches, StartRestore(a, c) PROVE c = b
        BY <1>1, <2>3, <4>2 DEF StartRestore, Idle
      <4>3. CASE \/ Analyze(a) \/ (\E f \in Files : Check(a, f) \/ CheckBack(a, f))
                 \/ Move(a) \/ MoveFails(a) \/ WriteManifest(a)
                 \/ SyncManifest(a) \/ ManifestFails(a) \/ SyncFails(a)
                 \/ RemoveManifest(a) \/ RemoveManifestFails(a) \/ MoveBack(a)
                 \/ MoveBackFails(a) \/ Undone(a) \/ Crash(a)
        <5> DEFINE Own == job'[a].batch \in {job[a].batch, None}
        <5>1. ASSUME Analyze(a) PROVE Own
          BY <5>1 DEF Analyze
        <5>2. ASSUME NEW f \in Files, Check(a, f) \/ CheckBack(a, f)
              PROVE  Own
          <6>1. CASE Check(a, f)
            <7>1. job'[a] \in {[job[a] EXCEPT !.at = f, !.phase = "move"],
                               [job[a] EXCEPT !.phase = "undo"]}
              BY <1>1, <6>1 DEF Check
            <7> QED BY <1>1, <7>1 DEF JobType
          <6>2. CASE CheckBack(a, f)
            <7>1. job'[a] \in {[job[a] EXCEPT !.at = f, !.phase = "unmove"],
                               [job[a] EXCEPT !.done = @ \ {f}, !.at = None,
                                              !.phase = "undo"]}
              BY <1>1, <6>2 DEF CheckBack, Skip
            <7> QED BY <1>1, <7>1 DEF JobType
          <6> QED BY <5>2, <6>1, <6>2
        <5>3. ASSUME Move(a) \/ MoveFails(a) \/ MoveBack(a) \/ MoveBackFails(a)
              PROVE  Own
          BY <1>1, <5>3
          DEF Move, MoveFails, MoveBack, MoveBackFails, Skip, JobType
        <5>4. ASSUME \/ WriteManifest(a) \/ ManifestFails(a) \/ SyncFails(a)
                     \/ RemoveManifestFails(a)
              PROVE  Own
          <6>1. \E p : job' = [job EXCEPT ![a].phase = p]
            BY <5>4 DEF WriteManifest, ManifestFails, SyncFails,
                        RemoveManifestFails
          <6> QED BY <1>1, <6>1 DEF JobType
        <5>5. ASSUME \/ SyncManifest(a) \/ RemoveManifest(a) \/ Undone(a)
                     \/ Crash(a)
              PROVE  Own
          <6>1. job'[a] = Idle
            BY <1>1, <5>5 DEF SyncManifest, RemoveManifest, Undone, Crash
          <6> QED BY <6>1 DEF Idle
        <5>6. Own
          BY <4>3, <5>1, <5>2, <5>3, <5>4, <5>5
        <5> QED BY <1>3, <2>3, <5>6
      <4> QED BY <1>5, <4>1, <4>2, <4>3 DEF App
    <3>3. ASSUME NEW S \in SUBSET Files, StartQuarantine(a, S, b)
          PROVE  Accounted(b)'
      <4>1. b \notin dirs /\ Held(b) = {} /\ manifest[b].kind /= "whole"
        BY <1>1, <3>3
        DEF StartQuarantine, NothingBeforeItsTime, Held, NoManifest
      <4>2. \A c \in Apps : job[c].batch /= b
        BY <1>1, <1>3, <4>1 DEF WholeJob, Idle
      <4>3. /\ job'[a].op = "quarantine" /\ job'[a].batch = b
            /\ job'[a].phase = "check" /\ job'[a].done = {}
        BY <1>1, <3>3 DEF StartQuarantine, Idle
      <4>4. Quarantining(a, b)'
        BY <4>3 DEF Quarantining, Working
      <4> QED BY ZenonT(40), <3>1, <4>1, <4>2, <4>3, <4>4, QuarantineGoesOn
    <3>4. CASE StartRestore(a, b)
      <4>1. /\ job'[a].op = "restore" /\ job'[a].batch = b /\ job'[a].done = {}
            /\ job'[a].phase = "check" /\ job'[a].todo = manifest[b].entries
            /\ job[a] = Idle /\ manifest[b].kind = "whole"
        BY <1>1, <3>4 DEF StartRestore, Idle
      <4>2. \A c \in Apps : ~ Quarantining(c, b)
        BY <1>3, <4>1 DEF Accounted, OwnedByQuarantine
      <4>3. SharedByRestores(b)
        BY <1>3, <4>2 DEF Accounted
      <4>4. /\ \A c \in Apps \ {a} : Restoring(c, b)' <=> Restoring(c, b)
            /\ ~ Restoring(a, b) /\ \A c \in Apps : ~ Quarantining(c, b)'
        BY <3>1, <4>1, <4>2 DEF Restoring, Quarantining, Working, Idle
      <4>5. InHands(b)' = InHands(b)
        BY <3>1, <4>1, <4>4 DEF InHands
      <4>6. SharedByRestores(b)'
        BY <3>1, <4>1, <4>3, <4>4, <4>5 DEF SharedByRestores
      <4> QED BY <4>4, <4>6 DEF Accounted
    <3> QED BY <3>2, <3>3, <3>4
  <2> QED BY <2>1, <2>2, <2>3
<1> QED BY <1>4, <1>5 DEF Next

LEMMA InvStep == BoundsAssumption /\ IInv /\ [Next]_vars => IInv'
BY OnePlaceStep, JobsStep, BeforeStep, CheckedStep, BatchesStep DEF IInv

-----------------------------------------------------------------------------
(* Every variable keeps the shape of what it stands for, for every number  *)
(* of applications, files, batches and failures.                           *)
THEOREM TypeCorrect == Spec => []TypeOK
<1>1. Init => IInv
  BY InitInv, BoundsAssumption
<1>2. IInv /\ [Next]_vars => IInv'
  BY InvStep, BoundsAssumption
<1>3. IInv => TypeOK
  BY DEF IInv, OnePlace
<1> QED BY <1>1, <1>2, <1>3, PTL DEF Spec

(* A session is never in two places, whatever the tools do between the     *)
(* checks and the renames of any number of cleanups and restores           *)
(* (session_cleanup.rs, quarantine_sessions and restore_session_trash).    *)
THEOREM SessionsInOnePlace == Spec => []OnePlace
<1>1. Init => IInv
  BY InitInv, BoundsAssumption
<1>2. IInv /\ [Next]_vars => IInv'
  BY InvStep, BoundsAssumption
<1>3. IInv => OnePlace
  BY DEF IInv
<1> QED BY <1>1, <1>2, <1>3, PTL DEF Spec

(* A batch no failure left incomplete holds, when nobody works in it, what *)
(* its manifest lists: the rollbacks of quarantine_sessions and            *)
(* restore_session_trash undo every file that was moved, and two restores  *)
(* of one batch share its files instead of losing some.                    *)
THEOREM BatchesAllOrNothing == Spec => []AllOrNothing
<1>1. Init => IInv
  BY InitInv, BoundsAssumption
<1>2. IInv /\ [Next]_vars => IInv'
  BY InvStep, BoundsAssumption
<1>3. IInv => AllOrNothing
  <2> SUFFICES ASSUME IInv, NEW b \in Batches \ damaged, ~ Busy(b)
               PROVE  Held(b) = manifest[b].entries
    BY DEF AllOrNothing
  <2>1. \A a \in Apps : ~ Quarantining(a, b) /\ ~ Restoring(a, b)
    BY DEF Busy, Quarantining, Restoring
  <2>2. SharedByRestores(b) /\ InHands(b) = {}
    BY <2>1 DEF IInv, BatchesAccounted, Accounted, InHands
  <2> QED BY <2>2 DEF SharedByRestores
<1> QED BY <1>1, <1>2, <1>3, PTL DEF Spec

(* What a quarantine takes is the version its user was shown, unless it    *)
(* was touched between the last check and the rename: the fingerprint is   *)
(* compared again for every file (session_cleanup.rs, quarantine_sessions).*)
THEOREM QuarantineTakesWhatWasShown == Spec => TakenAsShown
<1>1. Init => IInv
  BY InitInv, BoundsAssumption
<1>2. IInv /\ [Next]_vars => IInv'
  BY InvStep, BoundsAssumption
<1>3. IInv => \A a \in Apps :
                Move(a) /\ job[a].op = "quarantine" /\ a \notin late =>
                   Fingerprint(src[job[a].at]) = seen[a][job[a].at]
  BY DEF IInv, CheckedStill, Move, Passes
<1>4. IInv /\ [Next]_vars =>
         [\A a \in Apps : Move(a) /\ job[a].op = "quarantine" /\ a \notin late =>
            Fingerprint(src[job[a].at]) = seen[a][job[a].at]]_vars
  BY <1>3
<1> QED BY <1>1, <1>2, <1>4, PTL DEF Spec, TakenAsShown

(* A session leaves the disk only when its tool deletes it, or when        *)
(* someone put it under a path between the check and the rename of a move  *)
(* to that path: no cleanup, restore, rollback, failure or kill removes    *)
(* one (session_cleanup.rs, session_rename).                               *)
THEOREM NothingElseIsLost == Spec => LostOnlyInTheWindow
<1> DEFINE Excused(o) ==
             \/ o \in deleted'
             \/ \E a \in late : job[a].at /= None /\ job'[a] /= job[a]
<1>1. Init => IInv
  BY InitInv, BoundsAssumption
<1>2. IInv /\ [Next]_vars => IInv'
  BY InvStep, BoundsAssumption
<1>3. ASSUME IInv, [Next]_vars, NEW o \in Placed \ Placed' PROVE Excused(o)
  <2>1. /\ TypeOK /\ JobsAreWhole /\ job \in [Apps -> JobType]
        /\ src \in [Files -> Objs \cup {None}]
        /\ trash \in [Batches -> [Files -> Objs \cup {None}]]
    BY <1>3 DEF IInv, OnePlace, TypeOK, JobsAreWhole
  <2>2. /\ o /= None
        /\ \/ \E f \in Files : src[f] = o
           \/ \E b \in Batches, f \in Files : trash[b][f] = o
    BY <1>3 DEF Placed, Kept, Trashed
  <2>3. /\ \A f \in Files : src'[f] /= o
        /\ \A b \in Batches, f \in Files : trash'[b][f] /= o
    BY <1>3, <2>2 DEF Placed, Kept, Trashed
  <2>4. CASE UNCHANGED <<src, trash, made>>
    BY <2>2, <2>3, <2>4
  <2>5. ASSUME NEW f \in Files, NEW p \in Objs, ToolCreates(f, p)
        PROVE  Excused(o)
    BY <2>1, <2>2, <2>3, <2>5 DEF ToolCreates
  <2>6. ASSUME NEW f \in Files, ToolDeletes(f) PROVE Excused(o)
    <3>1. o = src[f]
      BY <2>1, <2>2, <2>3, <2>6 DEF ToolDeletes
    <3> QED BY <2>6, <3>1 DEF ToolDeletes
  <2>7. ASSUME NEW a \in Apps, Move(a) \/ MoveBack(a) PROVE a \in late
    <3> DEFINE f == job[a].at
               b == job[a].batch
    <3>1. PICK in \in BOOLEAN :
             /\ job[a].phase \in {"move", "unmove"} /\ Rename(a, in)
             /\ in <=> (job[a].op = IF Move(a) THEN "quarantine" ELSE "restore")
      BY <2>7 DEF Move, MoveBack
    <3>2. /\ f \in Files /\ b \in Batches
          /\ job[a].op \in {"quarantine", "restore"}
      BY <2>1, <3>1, RenameMoves, BoundsAssumption
      DEF TypeOK, JobsAreWhole, WholeJob, JobType
    <3>3. CASE in
      <4>1. /\ \A g \in Files : src'[g] = IF g = f THEN None ELSE src[g]
            /\ \A c \in Batches, g \in Files :
                  trash'[c][g] = IF c = b /\ g = f THEN src[f] ELSE trash[c][g]
        BY <2>1, <3>1, <3>3, OnlyOneFileMoves, BoundsAssumption
      <4>2. trash[b][f] = o
        <5> HIDE DEF f, b
        <5> QED BY <2>2, <2>3, <3>2, <4>1
      <4>3. a \notin late => CanGoIn(b, f)
        <5>1. CASE Move(a)
          BY <1>3, <3>1, <3>3, <5>1 DEF IInv, CheckedStill, Passes, Move
        <5>2. CASE ~ Move(a) /\ MoveBack(a)
          BY <1>3, <3>1, <3>2, <3>3, <5>2
             DEF IInv, CheckedStill, PassesBack, MoveBack
        <5> QED BY <2>7, <5>1, <5>2
      <4> QED BY <2>2, <4>2, <4>3 DEF CanGoIn
    <3>4. CASE ~in
      <4>1. /\ \A g \in Files : src'[g] = IF g = f THEN trash[b][f] ELSE src[g]
            /\ \A c \in Batches, g \in Files :
                  trash'[c][g] = IF c = b /\ g = f THEN None ELSE trash[c][g]
        BY <2>1, <3>1, <3>4, OnlyOneFileMoves, BoundsAssumption
      <4>2. src[f] = o
        <5> HIDE DEF f, b
        <5> QED BY <2>2, <2>3, <3>2, <4>1
      <4>3. a \notin late => CanGoOut(b, f)
        <5>1. CASE Move(a)
          BY <1>3, <3>1, <3>4, <5>1 DEF IInv, CheckedStill, Passes, Move
        <5>2. CASE ~ Move(a) /\ MoveBack(a)
          BY <1>3, <3>1, <3>2, <3>4, <5>2
             DEF IInv, CheckedStill, PassesBack, MoveBack
        <5> QED BY <2>7, <5>1, <5>2
      <4> QED BY <2>2, <4>2, <4>3 DEF CanGoOut
    <3> QED BY <3>3, <3>4
  <2>8. ASSUME NEW a \in Apps, Move(a) \/ MoveBack(a) PROVE Excused(o)
    <3>1. job[a].at /= None /\ job'[a].at = None
      <4>1. job[a].phase \in {"move", "unmove"} /\ WholeJob(job[a], dirs)
        BY <2>1, <2>8 DEF Move, MoveBack, JobsAreWhole
      <4> QED BY <2>1, <2>8, <4>1 DEF Move, MoveBack, WholeJob, JobType
    <3> QED BY <2>7, <2>8, <3>1
  <2> QED BY <1>3, <2>4, <2>5, <2>6, <2>8, WhoMoves
<1>4. IInv /\ [Next]_vars => [\A o \in Placed \ Placed' : Excused(o)]_vars
  BY <1>3
<1> QED BY <1>1, <1>2, <1>4, PTL DEF Spec, LostOnlyInTheWindow
=============================================================================
