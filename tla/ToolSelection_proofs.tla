------------------------ MODULE ToolSelection_proofs ------------------------
(***************************************************************************)
(* The selection of tools and what is found of them, for every set of      *)
(* commands, adapters, servers and versions, with and without the commands *)
(* of ToolUpdates beside.                                                  *)
(*                                                                         *)
(* The active version of an adapter is installed, and no change of         *)
(* config.json overwrites another.  Both rest on the lock: the command     *)
(* that is about to commit holds it, and what it has read is the config    *)
(* that is there (LockGuards); and on manifests never being removed, so    *)
(* that the version a command switches to is still there when it commits   *)
(* (CommandsAreSound).  A failed change is undone because a command that   *)
(* nobody disturbed still sees the selection it began with, but for the    *)
(* tool it changes (Memory).                                               *)
(*                                                                         *)
(* What an upgrade or a check tells is true because what a command was     *)
(* told by the registry is never newer than what the registry has          *)
(* (UpdatesWell), whatever else happens while it works; and a call of the  *)
(* upgrader ends clean because of what it may be in each stage             *)
(* (CallsWell).                                                            *)
(***************************************************************************)
EXTENDS ToolUpdates, WellFoundedInduction, TLAPS

-----------------------------------------------------------------------------
(* The inductive invariant.                                                *)

Configs ==
    [explicit : BOOLEAN, enabled : SUBSET Ids, active : [Ids -> Nat],
     settings : SUBSET Settings]

AnyId == CHOOSE i \in Ids : TRUE

Stages == {"idle", "install", "select", "persist", "lock", "commit", "probe"}

Commands ==
    [stage : Stages, op : {"none", "set", "switch", "setting"}, at : Machines,
     id : Ids \cup {AnyId}, on : BOOLEAN, version : Nat, setting : SUBSET Settings,
     undo : BOOLEAN, default : SUBSET Ids, before : SUBSET Ids, alone : BOOLEAN]

Running == [command : Commands, read : Configs]

TypeInv ==
    /\ config \in Configs
    /\ imported \in [Ids -> SUBSET (1 .. MaxVersion)]
    /\ job \in [Jobs -> Running]

LockGuards ==
    \A j \in Jobs : At(j, "commit") => lock = j /\ job[j].read = config

\* What a command may be in a stage, of the versions installed.
SoundIn(c) ==
    /\ c.stage \in {"install", "select", "probe"} => c.op = "set"
    /\ c.stage = "persist" => c.op = "switch" /\ c.version \in 1 .. MaxVersion
    /\ c.stage \in {"lock", "commit"} =>
          /\ c.op # "none"
          /\ c.op = "switch" => c.version \in Versions(c.id)
    /\ c.op \in {"set", "switch"} => c.id \in Ids

CommandsAreSound == \A j \in Jobs : SoundIn(Cmd(j))

IInv == TypeInv /\ LockGuards /\ CommandsAreSound /\ ActiveVersionIsInstalled

-----------------------------------------------------------------------------
(* Lemmas about the operators of the model.                                *)

\* A nonempty bounded set of naturals has its Max in it.
LEMMA MaxIsMember ==
  ASSUME NEW N \in Nat, NEW S \in SUBSET (0 .. N), S # {}
  PROVE  Max(S) \in S
<1> DEFINE Bounds == {n \in Nat : \A y \in S : y <= n}
<1>1. N \in Bounds
  OBVIOUS
<1>2. PICK n \in Bounds : \A b \in Bounds : n <= b
  <2> DEFINE less == OpToRel(<, Nat)
  <2>1. Bounds \subseteq Nat /\ Bounds # {}
    BY <1>1
  <2>2. IsWellFoundedOn(less, Nat)
    BY NatLessThanWellFounded
  <2>3. \A x, y \in Nat : y < x => <<y, x>> \in less
    BY DEF OpToRel
  <2> HIDE DEF Bounds, less
  <2>4. PICK n \in Bounds : \A b \in Bounds : ~ (<<b, n>> \in less)
    BY <2>1, <2>2, WFMin
  <2>5. ASSUME NEW b \in Bounds PROVE n <= b
    <3>1. n \in Nat /\ b \in Nat
      BY <2>1
    <3>2. ~ (b < n)
      BY <3>1, <2>3, <2>4
    <3> QED BY <3>1, <3>2
  <2> QED BY <2>5
<1>3. n \in S
  <2> SUFFICES ASSUME n \notin S PROVE FALSE
    OBVIOUS
  <2>1. PICK y \in S : TRUE
    OBVIOUS
  <2>2. n - 1 \in Bounds
    BY <2>1, <1>2
  <2> QED BY <2>2, <1>2
<1>4. \A y \in S : n >= y
  BY <1>2
<1> QED BY <1>3, <1>4 DEF Max

LEMMA VersionsBounded ==
  ASSUME SelectionAssumption, TypeInv, NEW id \in Ids
  PROVE  Versions(id) \in SUBSET (0 .. MaxVersion + 1)
BY DEF SelectionAssumption, TypeInv, Versions

\* The newest version, and the newest of the older ones, are versions.
LEMMA PickedVersions ==
  ASSUME SelectionAssumption, TypeInv, NEW id \in Ids
  PROVE  /\ id \in Registered => Newest(id) \in Versions(id)
         /\ Older(id) # {} => Max(Older(id)) \in Versions(id)
<1>1. MaxVersion + 1 \in Nat
  BY DEF SelectionAssumption
<1>2. Older(id) \in SUBSET Versions(id)
  BY DEF Older
<1>3. ASSUME id \in Registered PROVE Newest(id) \in Versions(id)
  BY <1>1, <1>3, VersionsBounded, MaxIsMember DEF Registered, Newest
<1>4. ASSUME Older(id) # {} PROVE Max(Older(id)) \in Versions(id)
  <2>1. Older(id) \in SUBSET (0 .. MaxVersion + 1)
    BY <1>2, VersionsBounded
  <2>2. Max(Older(id)) \in Older(id)
    BY <1>1, <1>4, <2>1, MaxIsMember
  <2> QED BY <2>2, <1>2
<1> QED BY <1>3, <1>4

LEMMA IdleType ==
  Idle \in Commands /\ NoConfig \in Configs /\ Idle.stage = "idle" /\ Idle.op = "none"
<1>1. Idle \in Commands
  <2>1. Local \in Machines
    BY DEF Machines
  <2>2. Idle = [stage |-> "idle", op |-> "none", at |-> Local, id |-> AnyId,
                on |-> FALSE, version |-> 0, setting |-> {}, undo |-> FALSE,
                default |-> {}, before |-> {}, alone |-> TRUE]
    BY DEF Idle, AnyId, Unset
  <2> QED BY <2>1, <2>2 DEF Commands, Stages
<1>2. NoConfig \in Configs
  BY DEF NoConfig, Configs, Unset
<1> QED BY <1>1, <1>2 DEF Idle

\* Disturbing commands changes nothing of them but that they ran alone.
Same(a, b) ==
    /\ a.read = b.read
    /\ a.command.stage = b.command.stage
    /\ a.command.op = b.command.op
    /\ a.command.id = b.command.id
    /\ a.command.version = b.command.version

LEMMA DisturbedKeeps ==
  ASSUME NEW jobs \in [Jobs -> Running], NEW j
  PROVE  /\ Disturbed(jobs, j) \in [Jobs -> Running]
         /\ \A k \in Jobs : Same(Disturbed(jobs, j)[k], jobs[k])
<1> SUFFICES ASSUME NEW k \in Jobs
             PROVE  Disturbed(jobs, j)[k] \in Running /\ Same(Disturbed(jobs, j)[k], jobs[k])
  BY DEF Disturbed
<1>1. jobs[k] \in Running /\ jobs[k].command \in Commands
  BY DEF Running
<1>2. Disturbed(jobs, j)[k] = jobs[k]
        \/ Disturbed(jobs, j)[k] = [jobs[k] EXCEPT !.command.alone = FALSE]
  BY DEF Disturbed
<1>3. CASE Disturbed(jobs, j)[k] = jobs[k]
  BY <1>1, <1>3 DEF Same
<1>4. CASE Disturbed(jobs, j)[k] = [jobs[k] EXCEPT !.command.alone = FALSE]
  <2> DEFINE c == jobs[k].command
             d == [c EXCEPT !.alone = FALSE]
  <2>1. c \in Commands /\ jobs[k].read \in Configs
    BY <1>1 DEF Running
  <2>2. d \in Commands /\ d.stage = c.stage /\ d.op = c.op /\ d.id = c.id
           /\ d.version = c.version
    BY <2>1 DEF Commands
  <2>3. Disturbed(jobs, j)[k] = [command |-> d, read |-> jobs[k].read]
    BY <1>1, <1>4 DEF Running
  <2> HIDE DEF d
  <2> QED BY <2>1, <2>2, <2>3 DEF Same, Running
<1> QED BY <1>2, <1>3, <1>4

\* Manifests are only added, so versions only grow.
LEMMA VersionsGrow ==
  ASSUME \A id \in Ids : imported[id] \subseteq imported'[id], NEW id \in Ids
  PROVE  Versions(id) \subseteq Versions(id)'
BY DEF Versions

-----------------------------------------------------------------------------
(* What an action has to do to keep the invariant: it changes one command, *)
(* that is sound afterwards, and the config only as the holder of the lock.*)

LEMMA Keeps ==
  ASSUME SelectionAssumption, IInv, NEW j,
         imported' \in [Ids -> SUBSET (1 .. MaxVersion)],
         \A id \in Ids : imported[id] \subseteq imported'[id],
         config' \in Configs,
         \/ config' = config
         \/ /\ j \in Jobs /\ At(j, "commit")
            /\ \A id \in Ids : config'.active[id] \in {Unset} \cup Versions(id),
         job' \in [Jobs -> Running],
         \A k \in Jobs \ {j} : Same(job'[k], job[k]),
         j \in Jobs => SoundIn(Cmd(j))',
         j \in Jobs /\ At(j, "commit")' => lock' = j /\ job'[j].read = config',
         lock' = lock \/ lock = j \/ lock = NoJob
  PROVE  IInv'
<1> USE DEF IInv, TypeInv
<1>1. TypeInv'
  OBVIOUS
<1>2. LockGuards'
  <2> SUFFICES ASSUME NEW k \in Jobs, At(k, "commit")'
               PROVE  lock' = k /\ job'[k].read = config'
    BY DEF LockGuards
  <2>1. CASE k = j
    BY <2>1
  <2>2. CASE k # j
    <3>1. At(k, "commit") /\ job'[k].read = job[k].read
      BY <2>2 DEF At, Cmd, Same
    <3>2. lock = k /\ job[k].read = config
      BY <3>1 DEF LockGuards
    <3>3. lock' = lock
      BY <3>2, <2>2 DEF SelectionAssumption
    <3>4. config' = config
      BY <3>2, <2>2 DEF LockGuards
    <3> QED BY <3>1, <3>2, <3>3, <3>4
  <2> QED BY <2>1, <2>2
<1>3. CommandsAreSound'
  <2> SUFFICES ASSUME NEW k \in Jobs PROVE SoundIn(Cmd(k))'
    BY DEF CommandsAreSound
  <2>1. CASE k = j
    BY <2>1
  <2>2. CASE k # j
    <3>1. SoundIn(Cmd(k))
      BY DEF CommandsAreSound
    <3>2. Same(job'[k], job[k])
      BY <2>2
    <3> QED BY <3>1, <3>2, VersionsGrow DEF SoundIn, Cmd, Same
  <2> QED BY <2>1, <2>2
<1>4. ActiveVersionIsInstalled'
  <2> SUFFICES ASSUME NEW id \in Ids
               PROVE  config'.active[id] \in {Unset} \cup Versions(id)'
    BY DEF ActiveVersionIsInstalled
  <2>1. config'.active[id] \in {Unset} \cup Versions(id)
    BY DEF ActiveVersionIsInstalled
  <2> QED BY <2>1, VersionsGrow
<1> QED BY <1>1, <1>2, <1>3, <1>4

LEMMA InitInv == SelectionAssumption => (Init => IInv)
<1> SUFFICES ASSUME SelectionAssumption, Init PROVE IInv
  OBVIOUS
<1>1. TypeInv
  BY IdleType DEF Init, TypeInv, Running
<1>2. \A j \in Jobs : Cmd(j) = Idle
  BY DEF Init, Cmd
<1>3. LockGuards /\ CommandsAreSound
  BY <1>2, IdleType DEF LockGuards, At, CommandsAreSound, SoundIn
<1>4. ActiveVersionIsInstalled
  BY DEF Init, NoConfig, ActiveVersionIsInstalled
<1> QED BY <1>1, <1>3, <1>4 DEF IInv

\* A command begins or goes on and the files stay as they are.
LEMMA CommandMoves ==
  ASSUME SelectionAssumption, IInv, NEW j \in Jobs, NEW c \in Commands,
         job' = [job EXCEPT ![j].command = c],
         UNCHANGED <<config, imported>>,
         SoundIn(c), c.stage # "commit",
         lock' = lock \/ lock = j \/ lock = NoJob
  PROVE  IInv'
<1>1. job[j] \in Running /\ job \in [Jobs -> Running]
  BY DEF IInv, TypeInv
<1>2. [job[j] EXCEPT !.command = c] \in Running
        /\ [job[j] EXCEPT !.command = c].command = c
  BY <1>1 DEF Running
<1>3. job' \in [Jobs -> Running] /\ job'[j].command = c
        /\ \A k \in Jobs \ {j} : Same(job'[k], job[k])
  BY <1>1, <1>2 DEF Same
<1>4. SoundIn(Cmd(j))' /\ ~ At(j, "commit")'
  BY <1>3 DEF SoundIn, Cmd, At, Versions
<1>5. config' \in Configs /\ imported' \in [Ids -> SUBSET (1 .. MaxVersion)]
  BY DEF IInv, TypeInv
<1> QED BY <1>3, <1>4, <1>5, Keeps

LEMMA CommandEnds ==
  ASSUME SelectionAssumption, IInv, NEW j \in Jobs,
         job' = Ended(j), UNCHANGED <<config, imported>>,
         lock' = lock \/ lock = j
  PROVE  IInv'
<1>1. job \in [Jobs -> Running]
  BY DEF IInv, TypeInv
<1>2. job' \in [Jobs -> Running] /\ job'[j].command = Idle
        /\ \A k \in Jobs \ {j} : Same(job'[k], job[k])
  BY <1>1, IdleType DEF Ended, Running, Same
<1>3. SoundIn(Cmd(j))' /\ ~ At(j, "commit")'
  BY <1>2, IdleType DEF SoundIn, Cmd, At
<1>4. config' \in Configs /\ imported' \in [Ids -> SUBSET (1 .. MaxVersion)]
  BY DEF IInv, TypeInv
<1> QED BY <1>2, <1>3, <1>4, Keeps

-----------------------------------------------------------------------------
(* The actions.                                                            *)

LEMMA StartsKeep ==
  ASSUME SelectionAssumption, IInv, NEW j \in Jobs, CommandStarts(j)
  PROVE  IInv'
<1> DEFINE Started(c) == /\ c \in Commands /\ SoundIn(c) /\ c.stage # "commit"
                         /\ job' = [job EXCEPT ![j].command = c]
                         /\ UNCHANGED <<config, imported, lock>>
<1>1. ASSUME NEW id \in Ids, NEW m \in Machines, StartInstall(j, m, id)
      PROVE  \E c : Started(c)
  <2> DEFINE c == [Idle EXCEPT !.stage = "install", !.op = "set", !.at = m,
                               !.id = id, !.on = TRUE, !.before = Selection(m)]
  <2>1. Selection(m) \in SUBSET Ids
    BY DEF Selection, Registered
  <2>2. c \in Commands /\ c.stage = "install" /\ c.op = "set" /\ c.id = id
    BY <2>1, IdleType DEF Commands, Stages
  <2>3. job' = [job EXCEPT ![j].command = c] /\ UNCHANGED <<config, imported, lock>>
    BY <1>1 DEF StartInstall, Begins, stored
  <2> HIDE DEF c
  <2>4. Started(c)
    BY <2>2, <2>3 DEF SoundIn
  <2> QED BY <2>4
<1>2. ASSUME NEW id \in Ids, NEW m \in Machines, NEW on \in BOOLEAN,
             StartSet(j, m, id, on)
      PROVE  \E c : Started(c)
  <2> DEFINE c == [Idle EXCEPT !.stage = "select", !.op = "set", !.at = m,
                               !.id = id, !.on = on, !.before = Selection(m)]
  <2>1. Selection(m) \in SUBSET Ids
    BY DEF Selection, Registered
  <2>2. c \in Commands /\ c.stage = "select" /\ c.op = "set" /\ c.id = id
    BY <2>1, IdleType DEF Commands, Stages
  <2>3. job' = [job EXCEPT ![j].command = c] /\ UNCHANGED <<config, imported, lock>>
    BY <1>2 DEF StartSet, Begins, stored
  <2> HIDE DEF c
  <2>4. Started(c)
    BY <2>2, <2>3 DEF SoundIn
  <2> QED BY <2>4
<1>3. ASSUME NEW id \in Ids, NEW v \in 1 .. MaxVersion, StartImport(j, id, v)
      PROVE  \E c : Started(c)
  <2> DEFINE c == [Idle EXCEPT !.stage = "persist", !.op = "switch", !.id = id,
                               !.version = v]
  <2>0. v \in Nat
    BY DEF SelectionAssumption
  <2>1. c \in Commands /\ c.stage = "persist" /\ c.op = "switch" /\ c.id = id
          /\ c.version = v
    BY <2>0, IdleType DEF Commands, Stages
  <2>2. job' = [job EXCEPT ![j].command = c] /\ UNCHANGED <<config, imported, lock>>
    BY <1>3 DEF StartImport, Begins, stored
  <2> HIDE DEF c
  <2>3. Started(c)
    BY <2>1, <2>2 DEF SoundIn
  <2> QED BY <2>3
<1>4. ASSUME NEW id \in Ids, NEW v \in Versions(id), v \in Nat,
             Begins(j, [Idle EXCEPT !.stage = "lock", !.op = "switch", !.id = id,
                                    !.version = v])
      PROVE  \E c : Started(c)
  <2> DEFINE c == [Idle EXCEPT !.stage = "lock", !.op = "switch", !.id = id,
                               !.version = v]
  <2>1. c \in Commands /\ c.stage = "lock" /\ c.op = "switch" /\ c.id = id
          /\ c.version = v
    BY <1>4, IdleType DEF Commands, Stages
  <2>2. job' = [job EXCEPT ![j].command = c] /\ UNCHANGED <<config, imported, lock>>
    BY <1>4 DEF Begins, stored
  <2> HIDE DEF c
  <2>3. Started(c)
    BY <2>1, <2>2 DEF SoundIn
  <2> QED BY <2>3
<1>5. ASSUME NEW id \in Ids PROVE \A v \in Versions(id) : v \in Nat
  BY VersionsBounded DEF IInv, SelectionAssumption
<1>6. ASSUME NEW id \in Ids, StartActivate(j, id) PROVE \E c : Started(c)
  BY <1>4, <1>5, <1>6, PickedVersions DEF StartActivate, IInv
<1>7. ASSUME NEW id \in Ids, StartRollback(j, id) PROVE \E c : Started(c)
  BY <1>4, <1>5, <1>7, PickedVersions DEF StartRollback, IInv
<1>8. ASSUME NEW s \in Settings, StartSetting(j, s) PROVE \E c : Started(c)
  <2> DEFINE c == [Idle EXCEPT !.stage = "lock", !.op = "setting", !.setting = {s}]
  <2>1. c \in Commands /\ c.stage = "lock" /\ c.op = "setting"
    BY IdleType DEF Commands, Stages
  <2>2. job' = [job EXCEPT ![j].command = c] /\ UNCHANGED <<config, imported, lock>>
    BY <1>8 DEF StartSetting, Begins, stored
  <2> HIDE DEF c
  <2>3. Started(c)
    BY <2>1, <2>2 DEF SoundIn
  <2> QED BY <2>3
<1>9. PICK c : Started(c)
  BY <1>1, <1>2, <1>3, <1>6, <1>7, <1>8 DEF CommandStarts
<1> QED BY <1>9, CommandMoves

\* A command at work: what it is, and what it becomes in another stage.
LEMMA GoingOn ==
  ASSUME IInv, NEW j \in Jobs
  PROVE  /\ Cmd(j) \in Commands /\ SoundIn(Cmd(j)) /\ job[j].read \in Configs
         /\ \A t \in Stages :
               LET c == [Cmd(j) EXCEPT !.stage = t]
               IN /\ c \in Commands /\ c.stage = t /\ c.op = Cmd(j).op
                  /\ c.id = Cmd(j).id /\ c.version = Cmd(j).version
                  /\ GoesTo(j, t) = [job EXCEPT ![j].command = c]
<1>1. job \in [Jobs -> Running] /\ SoundIn(Cmd(j))
  BY DEF IInv, TypeInv, CommandsAreSound
<1>2. Cmd(j) \in Commands /\ job[j].read \in Configs
  BY <1>1 DEF Running, Cmd
<1>3. ASSUME NEW t \in Stages
      PROVE  LET c == [Cmd(j) EXCEPT !.stage = t]
             IN /\ c \in Commands /\ c.stage = t /\ c.op = Cmd(j).op
                /\ c.id = Cmd(j).id /\ c.version = Cmd(j).version
  BY <1>2 DEF Commands
<1>4. ASSUME NEW t \in Stages
      PROVE  GoesTo(j, t) = [job EXCEPT ![j].command = [Cmd(j) EXCEPT !.stage = t]]
  BY DEF GoesTo, Cmd
<1> QED BY <1>1, <1>2, <1>3, <1>4

\* The end of a change of the selection: on to the probe, or out.
LEMMA AfterIsRunning ==
  ASSUME IInv, NEW j \in Jobs
  PROVE  LET a == AfterSelection(j)
         IN /\ a \in [Jobs -> Running]
            /\ \A k \in Jobs \ {j} : a[k] = job[k]
            /\ SoundIn(a[j].command) /\ a[j].command.stage # "commit"
<1> DEFINE a == AfterSelection(j)
<1>1. job \in [Jobs -> Running]
  BY DEF IInv, TypeInv
<1>2. CASE Cmd(j).op = "set" /\ ~ Cmd(j).undo
  <2> DEFINE c == [Cmd(j) EXCEPT !.stage = "probe"]
  <2>1. a = [job EXCEPT ![j].command = c] /\ c \in Commands /\ c.stage = "probe"
          /\ c.op = "set" /\ c.id \in Ids
    BY <1>2, GoingOn DEF AfterSelection, Stages, SoundIn
  <2> HIDE DEF c
  <2>2. SoundIn(c)
    BY <2>1 DEF SoundIn
  <2>3. a \in [Jobs -> Running] /\ a[j].command = c
          /\ \A k \in Jobs \ {j} : a[k] = job[k]
    BY <1>1, <2>1 DEF Running
  <2> QED BY <2>1, <2>2, <2>3
<1>3. CASE ~ (Cmd(j).op = "set" /\ ~ Cmd(j).undo)
  <2>1. a = [job EXCEPT ![j] = [command |-> Idle, read |-> NoConfig]]
    BY <1>3 DEF AfterSelection, Ended
  <2>2. a \in [Jobs -> Running] /\ a[j].command = Idle
          /\ \A k \in Jobs \ {j} : a[k] = job[k]
    BY <1>1, <2>1, IdleType DEF Running
  <2>3. SoundIn(Idle)
    BY IdleType DEF SoundIn
  <2> QED BY <2>2, <2>3, IdleType
<1> QED BY <1>2, <1>3

LEMMA RunningExcept ==
  ASSUME NEW r \in Running, NEW x \in Configs
  PROVE  [r EXCEPT !.command.stage = "commit", !.read = x] =
            [command |-> [r.command EXCEPT !.stage = "commit"], read |-> x]
<1> DEFINE one == [r EXCEPT !.command.stage = "commit"]
<1>1. DOMAIN r = {"command", "read"}
  BY DEF Running
<1>2. one.command = [r.command EXCEPT !.stage = "commit"] /\ DOMAIN one = {"command", "read"}
  BY <1>1
<1>3. [one EXCEPT !.read = x] = [command |-> one.command, read |-> x]
  <2> HIDE DEF one
  <2> QED BY <1>2
<1> QED BY <1>2, <1>3

LEMMA LockKeeps ==
  ASSUME SelectionAssumption, IInv, NEW j \in Jobs, Lock(j)
  PROVE  IInv'
<1> DEFINE c == [Cmd(j) EXCEPT !.stage = "commit"]
<1>1. job \in [Jobs -> Running] /\ config \in Configs
        /\ imported \in [Ids -> SUBSET (1 .. MaxVersion)]
  BY DEF IInv, TypeInv
<1>2. c \in Commands /\ c.stage = "commit" /\ c.op = Cmd(j).op /\ c.id = Cmd(j).id
        /\ c.version = Cmd(j).version
  BY GoingOn DEF Stages
<1>3. /\ job'[j] = [command |-> c, read |-> config]
      /\ job' = [job EXCEPT ![j] = job'[j]]
  <2>2. job'[j] = [job[j] EXCEPT !.command.stage = "commit", !.read = config]
          /\ job' = [job EXCEPT ![j] = job'[j]]
    BY <1>1 DEF Lock
  <2>3. [job[j] EXCEPT !.command.stage = "commit", !.read = config] =
           [command |-> c, read |-> config]
    <3>1. job[j] \in Running /\ config \in Configs
      BY <1>1
    <3> QED BY <3>1, RunningExcept DEF Cmd
  <2> QED BY <2>2, <2>3
<1> HIDE DEF c
<1>4. job' \in [Jobs -> Running] /\ job'[j].command = c /\ job'[j].read = config
        /\ \A k \in Jobs \ {j} : Same(job'[k], job[k])
  BY <1>1, <1>2, <1>3 DEF Running, Same
<1>5. SoundIn(Cmd(j)) /\ Cmd(j).stage = "lock"
  BY GoingOn DEF Lock, At
<1>6. config' = config /\ imported' = imported /\ lock' = j /\ lock = NoJob
  BY DEF Lock, stored
<1>7. SoundIn(Cmd(j))'
  <2>1. Cmd(j)' = c /\ \A id \in Ids : Versions(id)' = Versions(id)
    BY <1>4, <1>6 DEF Cmd, Versions
  <2> QED BY <2>1, <1>2, <1>5 DEF SoundIn
<1> QED BY <1>1, <1>4, <1>6, <1>7, Keeps

LEMMA CommitKeeps ==
  ASSUME SelectionAssumption, IInv, NEW j \in Jobs, Commit(j)
  PROVE  IInv'
<1> DEFINE c == Cmd(j)
           a == AfterSelection(j)
<1>1. /\ c \in Commands /\ SoundIn(c) /\ c.stage = "commit"
      /\ job[j].read = config /\ config \in Configs /\ lock = j
      /\ imported' = imported /\ imported \in [Ids -> SUBSET (1 .. MaxVersion)]
      /\ config' = Mutated(c, config)
  BY GoingOn DEF Commit, At, IInv, TypeInv, LockGuards
<1>2. c.op \in {"set", "switch", "setting"}
  BY <1>1 DEF SoundIn, Commands
<1>3. config' \in Configs
        /\ \A id \in Ids : config'.active[id] \in {Unset} \cup Versions(id)
  <2>1. \A id \in Ids : config.active[id] \in {Unset} \cup Versions(id)
    BY DEF IInv, ActiveVersionIsInstalled
  <2>2. CASE c.op = "set"
    <3>1. c.id \in Ids
      BY <1>1, <2>2 DEF SoundIn
    <3>2. SelectedIds(config, c.default) \in SUBSET Ids
      BY <1>1 DEF SelectedIds, Commands, Configs
    <3> DEFINE ids == (SelectedIds(config, c.default) \ {c.id})
                        \cup (IF c.on THEN {c.id} ELSE {})
    <3>3. config' = [config EXCEPT !.explicit = TRUE, !.enabled = ids]
      BY <1>1, <2>2 DEF Mutated
    <3>4. ids \in SUBSET Ids
      BY <3>1, <3>2
    <3> HIDE DEF c, ids
    <3>5. config' \in Configs /\ config'.active = config.active
      BY <1>1, <3>3, <3>4 DEF Configs
    <3> QED BY <3>5, <2>1
  <2>3. CASE c.op = "switch"
    <3>1. c.id \in Ids /\ c.version \in Versions(c.id) /\ c.version \in Nat
      BY <1>1, <2>3 DEF SoundIn, Commands
    <3>2. config' = [config EXCEPT !.active[c.id] = c.version]
      BY <1>1, <2>3 DEF Mutated
    <3>3. config' \in Configs /\ config'.active = [config.active EXCEPT ![c.id] = c.version]
      BY <1>1, <3>1, <3>2 DEF Configs
    <3> QED BY <1>1, <3>1, <3>3, <2>1 DEF Configs
  <2>4. CASE c.op = "setting"
    <3> DEFINE more == config.settings \cup c.setting
    <3>1. config' = [config EXCEPT !.settings = more]
      BY <1>1, <2>4 DEF Mutated
    <3>2. c.setting \in SUBSET Settings
      BY <1>1 DEF Commands
    <3> HIDE DEF c
    <3>3. more \in SUBSET Settings
      BY <1>1, <3>2 DEF Configs
    <3> HIDE DEF more
    <3>4. config' \in Configs /\ config'.active = config.active
      BY <1>1, <3>1, <3>3 DEF Configs
    <3> QED BY <3>4, <2>1
  <2> QED BY <1>2, <2>2, <2>3, <2>4
<1>4. /\ a \in [Jobs -> Running]
      /\ \A k \in Jobs \ {j} : a[k] = job[k]
      /\ SoundIn(a[j].command) /\ a[j].command.stage # "commit"
  BY AfterIsRunning
<1>5. job' = Disturbed(a, j)
  BY DEF Commit
<1> HIDE DEF a, c
<1>6. job' \in [Jobs -> Running] /\ \A k \in Jobs : Same(job'[k], a[k])
  BY <1>4, <1>5, DisturbedKeeps
<1>7. \A k \in Jobs \ {j} : Same(job'[k], job[k])
  BY <1>4, <1>6
<1>8. SoundIn(Cmd(j))' /\ ~ At(j, "commit")'
  <2>1. \A id \in Ids : Versions(id)' = Versions(id)
    BY <1>1 DEF Versions
  <2> QED BY <2>1, <1>4, <1>6 DEF SoundIn, Same, Cmd, At
<1>9. At(j, "commit") /\ lock' = NoJob
  BY DEF Commit
<1> QED BY <1>1, <1>3, <1>6, <1>7, <1>8, <1>9, Keeps

LEMMA SelectRemoteKeeps ==
  ASSUME SelectionAssumption, IInv, NEW j \in Jobs, SelectRemote(j)
  PROVE  IInv'
<1> DEFINE a == AfterSelection(j)
<1>1. /\ a \in [Jobs -> Running]
      /\ \A k \in Jobs \ {j} : a[k] = job[k]
      /\ SoundIn(a[j].command) /\ a[j].command.stage # "commit"
  BY AfterIsRunning
<1>2. job' = Disturbed(a, j) /\ UNCHANGED <<config, imported, lock>>
  BY DEF SelectRemote
<1>3. config \in Configs /\ imported \in [Ids -> SUBSET (1 .. MaxVersion)]
  BY DEF IInv, TypeInv
<1> HIDE DEF a
<1>4. job' \in [Jobs -> Running] /\ \A k \in Jobs : Same(job'[k], a[k])
  BY <1>1, <1>2, DisturbedKeeps
<1>5. \A k \in Jobs \ {j} : Same(job'[k], job[k])
  BY <1>1, <1>4
<1>6. SoundIn(Cmd(j))' /\ ~ At(j, "commit")'
  <2>1. \A id \in Ids : Versions(id)' = Versions(id)
    BY <1>2 DEF Versions
  <2> QED BY <2>1, <1>1, <1>4 DEF SoundIn, Same, Cmd, At
<1> QED BY <1>2, <1>3, <1>4, <1>5, <1>6, Keeps

LEMMA PersistKeeps ==
  ASSUME SelectionAssumption, IInv, NEW j \in Jobs, Persist(j)
  PROVE  IInv'
<1> DEFINE c == [Cmd(j) EXCEPT !.stage = "lock"]
           a == GoesTo(j, "lock")
<1>1. /\ SoundIn(Cmd(j)) /\ Cmd(j).stage = "persist"
      /\ c \in Commands /\ c.stage = "lock" /\ c.op = Cmd(j).op /\ c.id = Cmd(j).id
      /\ c.version = Cmd(j).version
      /\ a = [job EXCEPT ![j].command = c]
  BY GoingOn DEF Persist, At, Stages
<1>2. /\ config \in Configs /\ imported \in [Ids -> SUBSET (1 .. MaxVersion)]
      /\ job \in [Jobs -> Running]
  BY DEF IInv, TypeInv
<1>3. /\ c.op = "switch" /\ c.id \in Ids /\ c.version \in 1 .. MaxVersion
      /\ imported' = [imported EXCEPT ![c.id] = @ \cup {c.version}]
      /\ UNCHANGED <<config, lock>> /\ job' = Disturbed(a, j)
  BY <1>1 DEF Persist, SoundIn
<1> HIDE DEF a, c
<1>4. PICK id \in Ids, v \in 1 .. MaxVersion :
         c.id = id /\ c.version = v /\ imported' = [imported EXCEPT ![id] = @ \cup {v}]
  BY <1>3
<1>5. /\ imported' \in [Ids -> SUBSET (1 .. MaxVersion)]
      /\ \A i \in Ids : imported[i] \subseteq imported'[i]
      /\ v \in imported'[id]
  BY <1>2, <1>4
<1>6. v \in Versions(id)'
  BY <1>5 DEF Versions
<1>7. a \in [Jobs -> Running] /\ a[j].command = c
        /\ \A k \in Jobs \ {j} : a[k] = job[k]
  BY <1>1, <1>2 DEF Running
<1>8. job' \in [Jobs -> Running] /\ \A k \in Jobs : Same(job'[k], a[k])
  BY <1>3, <1>7, DisturbedKeeps
<1>9. \A k \in Jobs \ {j} : Same(job'[k], job[k])
  BY <1>7, <1>8
<1>10. SoundIn(Cmd(j))' /\ ~ At(j, "commit")'
  <2>1. /\ job'[j].command.stage = "lock" /\ job'[j].command.op = "switch"
        /\ job'[j].command.id = id /\ job'[j].command.version = v
    <3>1. Same(job'[j], a[j])
      BY <1>8
    <3>2. /\ a[j].command.stage = "lock" /\ a[j].command.op = "switch"
          /\ a[j].command.id = id /\ a[j].command.version = v
      BY <1>1, <1>3, <1>4, <1>7
    <3> QED BY <3>1, <3>2 DEF Same
  <2>2. Cmd(j)' = job'[j].command
    BY DEF Cmd
  <2>3. v \in Versions(Cmd(j).id)'
    BY <2>1, <2>2, <1>6 DEF Versions
  <2> QED BY <2>1, <2>2, <2>3 DEF SoundIn, At
<1> QED BY <1>2, <1>3, <1>5, <1>8, <1>9, <1>10, Keeps

LEMMA GoesOnKeeps ==
  ASSUME SelectionAssumption, IInv, NEW j \in Jobs, CommandGoesOn(j)
  PROVE  IInv'
<1>1. CASE Lock(j)
  BY <1>1, LockKeeps
<1>2. CASE Commit(j)
  BY <1>2, CommitKeeps
<1>3. CASE UpdateFails(j)
  BY <1>3, CommandEnds DEF UpdateFails, stored, SelectionAssumption
<1>4. CASE InstallerSucceeds(j)
  <2> DEFINE c == [Cmd(j) EXCEPT !.stage = "select"]
  <2>1. c \in Commands /\ c.stage = "select" /\ c.op = Cmd(j).op /\ c.id = Cmd(j).id
          /\ GoesTo(j, "select") = [job EXCEPT ![j].command = c]
    BY GoingOn DEF Stages
  <2>2. SoundIn(Cmd(j)) /\ Cmd(j).stage = "install"
    BY <1>4, GoingOn DEF InstallerSucceeds, At
  <2>3. job' = [job EXCEPT ![j].command = c] /\ UNCHANGED <<config, imported, lock>>
    BY <1>4, <2>1 DEF InstallerSucceeds, stored
  <2> HIDE DEF c
  <2>4. SoundIn(c)
    BY <2>1, <2>2 DEF SoundIn
  <2> QED BY <2>1, <2>3, <2>4, CommandMoves
<1>5. CASE InstallerFails(j) \/ ProbeSucceeds(j) \/ PersistFails(j)
  BY <1>5, CommandEnds DEF InstallerFails, ProbeSucceeds, PersistFails, stored
<1>6. CASE SelectLocal(j)
  <2> DEFINE c == [[Cmd(j) EXCEPT !.stage = "lock"] EXCEPT !.default = Bundled]
  <2>1. SoundIn(Cmd(j)) /\ Cmd(j).stage = "select" /\ Cmd(j) \in Commands
    BY <1>6, GoingOn DEF SelectLocal, At
  <2>2. Bundled \in SUBSET Ids
    BY DEF Bundled, Registered
  <2>3. c \in Commands /\ c.stage = "lock" /\ c.op = Cmd(j).op /\ c.id = Cmd(j).id
    BY <2>1, <2>2 DEF Commands, Stages
  <2>4. job' = [job EXCEPT ![j].command = c] /\ UNCHANGED <<config, imported, lock>>
    <3>1. job \in [Jobs -> Running]
      BY DEF IInv, TypeInv
    <3>2. [job EXCEPT ![j].command.stage = "lock", ![j].command.default = Bundled]
            = [job EXCEPT ![j].command = c]
      BY <3>1 DEF Cmd
    <3> QED BY <1>6, <3>2 DEF SelectLocal, stored
  <2> HIDE DEF c
  <2>5. SoundIn(c)
    BY <2>1, <2>3 DEF SoundIn
  <2> QED BY <2>3, <2>4, <2>5, CommandMoves
<1>7. CASE SelectRemote(j)
  BY <1>7, SelectRemoteKeeps
<1>8. CASE ProbeFails(j)
  <2> DEFINE on == Cmd(j).id \in Cmd(j).before
             c  == [[[Cmd(j) EXCEPT !.stage = "select"] EXCEPT !.undo = TRUE]
                     EXCEPT !.on = on]
  <2>1. SoundIn(Cmd(j)) /\ Cmd(j).stage = "probe" /\ Cmd(j) \in Commands
    BY <1>8, GoingOn DEF ProbeFails, At
  <2>2. c \in Commands /\ c.stage = "select" /\ c.op = Cmd(j).op /\ c.id = Cmd(j).id
    <3>1. on \in BOOLEAN
      OBVIOUS
    <3> HIDE DEF on
    <3> QED BY <2>1, <3>1 DEF Commands, Stages
  <2>3. job' = [job EXCEPT ![j].command = c] /\ UNCHANGED <<config, imported, lock>>
    <3>1. job \in [Jobs -> Running]
      BY DEF IInv, TypeInv
    <3>2. [job EXCEPT ![j].command.stage = "select",
                      ![j].command.undo = TRUE,
                      ![j].command.on = Cmd(j).id \in Cmd(j).before]
            = [job EXCEPT ![j].command = c]
      BY <3>1 DEF Cmd
    <3> QED BY <1>8, <3>2 DEF ProbeFails, stored
  <2> HIDE DEF c
  <2>4. SoundIn(c)
    BY <2>1, <2>2 DEF SoundIn
  <2> QED BY <2>2, <2>3, <2>4, CommandMoves
<1>9. CASE Persist(j)
  BY <1>9, PersistKeeps
<1> QED BY <1>1, <1>2, <1>3, <1>4, <1>5, <1>6, <1>7, <1>8, <1>9 DEF CommandGoesOn

LEMMA DeleteServerKeeps ==
  ASSUME SelectionAssumption, IInv, NEW s \in Servers, DeleteServer(s)
  PROVE  IInv'
<1>1. /\ job \in [Jobs -> Running] /\ config \in Configs
      /\ imported \in [Ids -> SUBSET (1 .. MaxVersion)]
  BY DEF IInv, TypeInv
<1>2. job' = Disturbed(job, NoJob) /\ UNCHANGED <<config, imported, lock>>
  BY DEF DeleteServer
<1>3. job' \in [Jobs -> Running] /\ \A k \in Jobs : Same(job'[k], job[k])
  BY <1>1, <1>2, DisturbedKeeps
<1> QED BY <1>1, <1>2, <1>3, Keeps DEF SelectionAssumption

LEMMA StutterKeeps ==
  ASSUME SelectionAssumption, IInv, UNCHANGED <<config, imported, lock, job>>
  PROVE  IInv'
<1>2. /\ job \in [Jobs -> Running] /\ config \in Configs
      /\ imported \in [Ids -> SUBSET (1 .. MaxVersion)]
      /\ \A k \in Jobs : Same(job'[k], job[k])
  BY DEF IInv, TypeInv, Same
<1> QED BY <1>2, Keeps DEF SelectionAssumption

LEMMA NextKeeps ==
  ASSUME SelectionAssumption, IInv, [Next]_vars
  PROVE  IInv'
<1>1. ASSUME NEW j \in Jobs, CommandStarts(j) \/ CommandGoesOn(j) PROVE IInv'
  BY <1>1, StartsKeep, GoesOnKeeps
<1>2. ASSUME NEW j \in Jobs, Killed(j) PROVE IInv'
  BY <1>2, CommandEnds DEF Killed, stored, SelectionAssumption
<1>3. ASSUME NEW s \in Servers, DeleteServer(s) PROVE IInv'
  BY <1>3, DeleteServerKeeps
<1>4. CASE UNCHANGED vars
  BY <1>4, StutterKeeps DEF vars, stored
<1> QED BY <1>1, <1>2, <1>3, <1>4 DEF Next

-----------------------------------------------------------------------------
(* What a command that changes a selection remembers of the one before.    *)

\* Until it is over and unless another came between, the selection of its
\* machine is the one before but for the tool it changes.
Remembers(c) ==
    /\ c.stage = "idle" => c.op # "set"
    /\ c.undo => c.op = "set"
    /\ c.op = "set" =>
          /\ c.before \subseteq Registered
          /\ c.stage \in {"lock", "commit"} => c.at = Local
          /\ c.undo => (c.on <=> c.id \in c.before)
          /\ c.alone => \A x \in Ids \ {c.id} : x \in Selection(c.at) <=> x \in c.before
          /\ c.alone /\ c.stage \in {"lock", "commit"} /\ ~ config.explicit =>
                c.default = Bundled

PrefsType == prefs \in [Servers -> [Ids -> {"default", "on", "off"}]]

Memory == PrefsType /\ \A j \in Jobs : Remembers(Cmd(j))

\* A command that works by itself.
LEMMA MemoryOfOne ==
  ASSUME IInv, Memory, NEW j \in Jobs, UNCHANGED <<config, imported, prefs>>,
         \A k \in Jobs \ {j} : job'[k] = job[k],
         Remembers(job'[j].command)
  PROVE  Memory'
<1>1. UNCHANGED <<Registered, Bundled>> /\ \A m : UNCHANGED Selection(m)
  BY DEF Registered, Bundled, BundledIsActive, Active, Versions, Selection
<1>2. ASSUME NEW k \in Jobs PROVE Remembers(job'[k].command)
  BY <1>2 DEF Memory, Cmd
<1>3. ASSUME NEW k \in Jobs PROVE Remembers(Cmd(k))'
  BY <1>1, <1>2 DEF Remembers, Cmd
<1> QED BY <1>3 DEF Memory, PrefsType

\* A command that disturbs the others.
LEMMA MemoryOfAll ==
  ASSUME IInv, Memory, NEW j, NEW a \in [Jobs -> Running], job' = Disturbed(a, j),
         \A id \in Ids : imported[id] \subseteq imported'[id],
         \A k \in Jobs \ {j} : a[k] = job[k],
         j \in Jobs => Remembers(Cmd(j))',
         PrefsType'
  PROVE  Memory'
<1>1. Registered \subseteq Registered'
  BY VersionsGrow DEF Registered
<1>2. ASSUME NEW k \in Jobs \ {j} PROVE Remembers(Cmd(k))'
  <2>1. Remembers(Cmd(k)) /\ job[k] \in Running /\ a[k] = job[k]
    BY <1>2 DEF Memory, IInv, TypeInv
  <2>2. CASE job[k].command.stage = "idle"
    <3>1. Cmd(k)' = Cmd(k)
      BY <2>1, <2>2 DEF Disturbed, Cmd
    <3>2. Cmd(k).op # "set" /\ ~ Cmd(k).undo
      BY <2>1, <2>2 DEF Remembers, Cmd
    <3> QED BY <3>1, <3>2 DEF Remembers
  <2>3. CASE job[k].command.stage # "idle"
    <3>1. Cmd(k)' = [Cmd(k) EXCEPT !.alone = FALSE]
      BY <2>1, <2>3 DEF Disturbed, Cmd, Running
    <3> DEFINE d == [Cmd(k) EXCEPT !.alone = FALSE]
    <3>2. /\ d.stage = Cmd(k).stage /\ d.op = Cmd(k).op /\ d.before = Cmd(k).before
          /\ d.at = Cmd(k).at /\ d.undo = Cmd(k).undo /\ d.on = Cmd(k).on
          /\ d.id = Cmd(k).id /\ ~ d.alone
      BY <2>1 DEF Cmd, Running, Commands
    <3> HIDE DEF d
    <3>3. Cmd(k)' = d
      BY <3>1 DEF d
    <3> QED BY <1>1, <2>1, <3>2, <3>3 DEF Remembers
  <2> QED BY <2>2, <2>3
<1> QED BY <1>2 DEF Memory

LEMMA IdleRemembers == Idle.op = "none" /\ ~ Idle.undo /\ \A c : c = Idle => Remembers(c)
BY DEF Idle, Remembers

LEMMA InitMemory == SelectionAssumption => (Init => Memory)
<1> SUFFICES ASSUME SelectionAssumption, Init PROVE Memory
  OBVIOUS
<1>1. \A j \in Jobs : Cmd(j) = Idle
  BY DEF Init, Cmd
<1>2. Remembers(Idle)
  BY IdleRemembers
<1>3. PrefsType
  BY DEF Init, PrefsType
<1> QED BY <1>1, <1>2, <1>3 DEF Memory

LEMMA StartsRemember ==
  ASSUME IInv, Memory, NEW j \in Jobs, CommandStarts(j)
  PROVE  Memory'
<1> DEFINE Started(c) == Remembers(c) /\ Begins(j, c)
<1>1. ASSUME NEW id \in Ids, NEW m \in Machines, StartInstall(j, m, id)
      PROVE  \E c : Started(c)
  <2> DEFINE c == [Idle EXCEPT !.stage = "install", !.op = "set", !.at = m,
                               !.id = id, !.on = TRUE, !.before = Selection(m)]
  <2>1. /\ c.stage = "install" /\ c.op = "set" /\ c.at = m
        /\ c.before = Selection(m) /\ ~ c.undo
    BY DEF Idle
  <2>2. Begins(j, c)
    BY <1>1 DEF StartInstall
  <2> HIDE DEF c
  <2>3. Remembers(c)
    BY <2>1 DEF Remembers, Selection
  <2> QED BY <2>2, <2>3
<1>2. ASSUME NEW id \in Ids, NEW m \in Machines, NEW on \in BOOLEAN,
             StartSet(j, m, id, on)
      PROVE  \E c : Started(c)
  <2> DEFINE c == [Idle EXCEPT !.stage = "select", !.op = "set", !.at = m,
                               !.id = id, !.on = on, !.before = Selection(m)]
  <2>1. /\ c.stage = "select" /\ c.op = "set" /\ c.at = m
        /\ c.before = Selection(m) /\ ~ c.undo
    BY DEF Idle
  <2>2. Begins(j, c)
    BY <1>2 DEF StartSet
  <2> HIDE DEF c
  <2>3. Remembers(c)
    BY <2>1 DEF Remembers, Selection
  <2> QED BY <2>2, <2>3
<1>3. ASSUME NEW id \in Ids,
             \/ StartActivate(j, id) \/ StartRollback(j, id)
             \/ \E v \in 1 .. MaxVersion : StartImport(j, id, v)
      PROVE  \E c : c.op # "set" /\ ~ c.undo /\ Begins(j, c)
  <2>1. CASE StartActivate(j, id)
    <3> DEFINE c == [Idle EXCEPT !.stage = "lock", !.op = "switch", !.id = id,
                                 !.version = Newest(id)]
    <3>1. c.op = "switch" /\ ~ c.undo
      BY DEF Idle
    <3> QED BY <2>1, <3>1 DEF StartActivate
  <2>2. CASE StartRollback(j, id)
    <3> DEFINE c == [Idle EXCEPT !.stage = "lock", !.op = "switch", !.id = id,
                                 !.version = Max(Older(id))]
    <3>1. c.op = "switch" /\ ~ c.undo
      BY DEF Idle
    <3> QED BY <2>2, <3>1 DEF StartRollback
  <2>3. ASSUME NEW v \in 1 .. MaxVersion, StartImport(j, id, v)
        PROVE  \E c : c.op # "set" /\ ~ c.undo /\ Begins(j, c)
    <3> DEFINE c == [Idle EXCEPT !.stage = "persist", !.op = "switch", !.id = id,
                                 !.version = v]
    <3>1. c.op = "switch" /\ ~ c.undo
      BY DEF Idle
    <3> QED BY <2>3, <3>1 DEF StartImport
  <2> QED BY <1>3, <2>1, <2>2, <2>3
<1>4. ASSUME NEW s \in Settings, StartSetting(j, s)
      PROVE  \E c : c.op # "set" /\ ~ c.undo /\ Begins(j, c)
  <2> DEFINE c == [Idle EXCEPT !.stage = "lock", !.op = "setting", !.setting = {s}]
  <2>1. c.op = "setting" /\ ~ c.undo
    BY DEF Idle
  <2> QED BY <1>4, <2>1 DEF StartSetting
<1>5. \A c : c.op # "set" /\ ~ c.undo => Remembers(c)
  BY DEF Remembers
<1>6. PICK c : Started(c)
  BY <1>1, <1>2, <1>3, <1>4, <1>5 DEF CommandStarts
<1>7. job \in [Jobs -> Running]
  BY DEF IInv, TypeInv
<1>8. job'[j].command = c /\ \A k \in Jobs \ {j} : job'[k] = job[k]
  BY <1>6, <1>7 DEF Begins, Running
<1> QED BY <1>6, <1>8, MemoryOfOne DEF Begins, stored

\* A change of the local selection leaves every other tool as it was.
LEMMA CommitRemembers ==
  ASSUME SelectionAssumption, IInv, Memory, NEW j \in Jobs, Commit(j)
  PROVE  /\ Memory'
         /\ Cmd(j).op = "set" =>
               /\ Cmd(j).at = Local /\ Cmd(j).id \in Ids
               /\ \A x \in Ids \ {Cmd(j).id} : Cmd(j).alone =>
                     (x \in Selection(Local)' <=> x \in Cmd(j).before)
               /\ Cmd(j).id \in Selection(Local)' <=> Cmd(j).on /\ Cmd(j).id \in Registered
<1> DEFINE c == Cmd(j)
           a == AfterSelection(j)
<1>1. /\ c \in Commands /\ SoundIn(c) /\ c.stage = "commit" /\ Remembers(c)
      /\ config \in Configs /\ imported' = imported /\ prefs' = prefs
      /\ config' = Mutated(c, config)
  BY GoingOn DEF Commit, At, IInv, TypeInv, LockGuards, Memory
<1>2. Registered' = Registered
  BY <1>1 DEF Registered, Versions
<1>3. ASSUME c.op = "set"
      PROVE  /\ c.at = Local /\ c.id \in Ids /\ config'.explicit
             /\ \A x \in Ids \ {c.id} : c.alone =>
                   (x \in Selection(Local)' <=> x \in c.before)
             /\ c.id \in Selection(Local)' <=> c.on /\ c.id \in Registered
  <2> DEFINE ids == (SelectedIds(config, c.default) \ {c.id})
                      \cup (IF c.on THEN {c.id} ELSE {})
  <2>1. c.at = Local /\ c.id \in Ids
    BY <1>1, <1>3 DEF Remembers, SoundIn
  <2>2. config' = [config EXCEPT !.explicit = TRUE, !.enabled = ids]
    BY <1>1, <1>3 DEF Mutated
  <2> HIDE DEF c, ids
  <2>3. config'.explicit /\ config'.enabled = ids
    BY <1>1, <2>2 DEF Configs
  <2>4. Selection(Local)' = {id \in Registered : id \in ids}
    BY <1>2, <2>3 DEF Selection
  <2>5. ASSUME NEW x \in Ids \ {c.id}, c.alone
        PROVE  x \in Selection(Local)' <=> x \in c.before
    <3>1. x \in Selection(Local) <=> x \in c.before
      BY <1>1, <1>3, <2>1, <2>5 DEF Remembers
    <3>2. x \in ids <=> x \in SelectedIds(config, c.default)
      BY DEF ids
    <3>3. ~ config.explicit => c.default = Bundled
      BY <1>1, <1>3, <2>5 DEF Remembers
    <3>4. x \in Selection(Local) <=>
            x \in Registered /\ x \in SelectedIds(config, c.default)
      BY <3>3 DEF Selection, SelectedIds, Bundled
    <3> QED BY <2>4, <3>1, <3>2, <3>4
  <2>6. c.id \in Selection(Local)' <=> c.on /\ c.id \in Registered
    BY <2>4 DEF ids
  <2> QED BY <2>1, <2>3, <2>5, <2>6
<1>4. /\ a \in [Jobs -> Running]
      /\ \A k \in Jobs \ {j} : a[k] = job[k]
      /\ job' = Disturbed(a, j)
  BY AfterIsRunning DEF Commit
<1>5. job'[j] = a[j]
  BY <1>4 DEF Disturbed
<1>6. Remembers(Cmd(j))'
  <2>1. CASE c.op = "set" /\ ~ c.undo
    <3> DEFINE d == [c EXCEPT !.stage = "probe"]
    <3>1. /\ d.stage = "probe" /\ d.op = "set" /\ d.at = c.at /\ d.id = c.id
          /\ d.before = c.before /\ d.alone = c.alone /\ ~ d.undo
      BY <1>1, <2>1 DEF Commands
    <3>2. job \in [Jobs -> Running]
      BY DEF IInv, TypeInv
    <3>3. a = [job EXCEPT ![j].command = d]
      BY <2>1, GoingOn DEF AfterSelection, Stages
    <3> HIDE DEF d
    <3>4. Cmd(j)' = d
      BY <1>5, <3>2, <3>3 DEF Cmd, Running
    <3> HIDE DEF c
    <3> QED BY <1>1, <1>2, <1>3, <2>1, <3>1, <3>4 DEF Remembers
  <2>2. CASE ~ (c.op = "set" /\ ~ c.undo)
    <3>1. Cmd(j)' = Idle
      BY <1>5, <2>2 DEF AfterSelection, Ended, IInv, TypeInv, Cmd
    <3> QED BY <3>1, IdleRemembers DEF Remembers
  <2> QED BY <2>1, <2>2
<1>7. PrefsType' /\ \A id \in Ids : imported[id] \subseteq imported'[id]
  BY <1>1 DEF PrefsType, Memory
<1>8. Memory'
  <2> HIDE DEF a, c
  <2> QED BY <1>4, <1>6, <1>7, MemoryOfAll
<1> QED BY <1>3, <1>8

\* So does a change of the preferences of a server.
LEMMA SelectRemoteRemembers ==
  ASSUME SelectionAssumption, IInv, Memory, NEW j \in Jobs, SelectRemote(j),
         NEW m, m = Cmd(j).at
  PROVE  /\ Memory'
         /\ Cmd(j).id \in Ids /\ Cmd(j).op = "set"
         /\ \A x \in Ids \ {Cmd(j).id} : Cmd(j).alone =>
               (x \in Selection(m)' <=> x \in Cmd(j).before)
         /\ Cmd(j).id \in Selection(m)' <=> Cmd(j).on /\ Cmd(j).id \in Registered
<1> DEFINE c == Cmd(j)
           a == AfterSelection(j)
           word == IF c.on THEN "on" ELSE "off"
<1>1. /\ c \in Commands /\ SoundIn(c) /\ c.stage = "select" /\ Remembers(c)
      /\ config' = config /\ imported' = imported /\ m # Local
      /\ prefs' = [prefs EXCEPT ![m][c.id] = word]
      /\ PrefsType
  BY GoingOn DEF SelectRemote, At, Memory
<1>2. Registered' = Registered /\ Bundled' = Bundled
  BY <1>1 DEF Registered, Bundled, BundledIsActive, Active, Versions
<1>3. c.op = "set" /\ c.id \in Ids /\ m \in Servers
  BY <1>1 DEF SoundIn, Commands, Machines
<1>4. word \in {"on", "off"} /\ (word = "on" <=> c.on)
  OBVIOUS
<1>5. PrefsType' /\ prefs'[m][c.id] = word
        /\ \A x \in Ids \ {c.id} : prefs'[m][x] = prefs[m][x]
  <2> HIDE DEF c, word
  <2> QED BY <1>1, <1>3, <1>4 DEF PrefsType
<1>6. ASSUME NEW x \in Ids \ {c.id}, c.alone
      PROVE  x \in Selection(m)' <=> x \in c.before
  <2>1. x \in Selection(m) <=> x \in c.before
    BY <1>1, <1>3, <1>6 DEF Remembers
  <2> HIDE DEF c, word
  <2> QED BY <1>1, <1>2, <1>5, <2>1 DEF Selection
<1>7. c.id \in Selection(m)' <=> c.on /\ c.id \in Registered
  <2> HIDE DEF c, word
  <2> QED BY <1>1, <1>2, <1>3, <1>4, <1>5 DEF Selection
<1>8. /\ a \in [Jobs -> Running]
      /\ \A k \in Jobs \ {j} : a[k] = job[k]
      /\ job' = Disturbed(a, j)
  BY AfterIsRunning DEF SelectRemote
<1>9. job'[j] = a[j]
  BY <1>8 DEF Disturbed
<1>10. Remembers(Cmd(j))'
  <2>1. CASE ~ c.undo
    <3> DEFINE d == [c EXCEPT !.stage = "probe"]
    <3>1. /\ d.stage = "probe" /\ d.op = "set" /\ d.at = m /\ d.id = c.id
          /\ d.before = c.before /\ d.alone = c.alone /\ ~ d.undo
      BY <1>1, <1>3, <2>1 DEF Commands
    <3>2. job \in [Jobs -> Running]
      BY DEF IInv, TypeInv
    <3>3. a = [job EXCEPT ![j].command = d]
      BY <1>3, <2>1, GoingOn DEF AfterSelection, Stages
    <3> HIDE DEF d
    <3>4. Cmd(j)' = d
      BY <1>9, <3>2, <3>3 DEF Cmd, Running
    <3> HIDE DEF c
    <3> QED BY <1>1, <1>2, <1>3, <1>6, <2>1, <3>1, <3>4 DEF Remembers
  <2>2. CASE c.undo
    <3>1. Cmd(j)' = Idle
      BY <1>9, <2>2 DEF AfterSelection, Ended, IInv, TypeInv, Cmd
    <3> QED BY <3>1, IdleRemembers DEF Remembers
  <2> QED BY <2>1, <2>2
<1>11. \A id \in Ids : imported[id] \subseteq imported'[id]
  BY <1>1
<1>12. Memory'
  <2> HIDE DEF a, c
  <2> QED BY <1>5, <1>8, <1>10, <1>11, MemoryOfAll
<1> QED BY <1>3, <1>6, <1>7, <1>12

LEMMA PersistRemembers ==
  ASSUME SelectionAssumption, IInv, Memory, NEW j \in Jobs, Persist(j)
  PROVE  Memory'
<1> DEFINE a == GoesTo(j, "lock")
<1>1. /\ Cmd(j).op = "switch" /\ ~ Cmd(j).undo
      /\ Cmd(j) \in Commands /\ job \in [Jobs -> Running]
  BY GoingOn DEF Persist, At, SoundIn, IInv, TypeInv, Memory, Remembers
<1>2. /\ imported' = [imported EXCEPT ![Cmd(j).id] = @ \cup {Cmd(j).version}]
      /\ prefs' = prefs /\ job' = Disturbed(a, j)
  BY DEF Persist
<1>3. \A id \in Ids : imported[id] \subseteq imported'[id]
  BY <1>2 DEF IInv, TypeInv
<1>4. a \in [Jobs -> Running] /\ a[j].command.op = "switch" /\ ~ a[j].command.undo
        /\ \A k \in Jobs \ {j} : a[k] = job[k]
  BY <1>1 DEF GoesTo, Cmd, Running, Commands, Stages
<1>5. Remembers(Cmd(j))'
  <2>1. job'[j] = a[j]
    BY <1>2, <1>4 DEF Disturbed
  <2> QED BY <1>4, <2>1 DEF Remembers, Cmd
<1>6. PrefsType'
  BY <1>2 DEF Memory, PrefsType
<1> HIDE DEF a
<1> QED BY <1>2, <1>3, <1>4, <1>5, <1>6, MemoryOfAll

LEMMA DeleteServerRemembers ==
  ASSUME SelectionAssumption, IInv, Memory, NEW s \in Servers, DeleteServer(s)
  PROVE  Memory'
<1>1. /\ imported' = imported /\ job' = Disturbed(job, NoJob)
      /\ prefs' = [prefs EXCEPT ![s] = [id \in Ids |-> "default"]]
      /\ job \in [Jobs -> Running] /\ NoJob \notin Jobs
  BY DEF DeleteServer, IInv, TypeInv, SelectionAssumption
<1>2. PrefsType'
  BY <1>1 DEF Memory, PrefsType
<1> QED BY <1>1, <1>2, MemoryOfAll

\* A command that goes from stage to stage.
LEMMA OneRemembers ==
  ASSUME IInv, Memory, NEW j \in Jobs, UNCHANGED <<config, imported, prefs>>,
         \/ job' = Ended(j)
         \/ \E r \in Configs, t \in Stages \ {"idle", "lock"} :
               /\ t = "commit" => Cmd(j).stage = "lock"
               /\ Cmd(j).stage # "idle"
               /\ job' = [job EXCEPT ![j] = [command |-> [Cmd(j) EXCEPT !.stage = t],
                                            read |-> r]]
  PROVE  Memory'
<1>1. /\ job \in [Jobs -> Running] /\ Cmd(j) \in Commands /\ Remembers(Cmd(j))
      /\ Cmd(j) = job[j].command
  BY GoingOn DEF IInv, TypeInv, Memory, Cmd
<1>2. CASE job' = Ended(j)
  <2>1. job'[j].command = Idle /\ \A k \in Jobs \ {j} : job'[k] = job[k]
    BY <1>1, <1>2 DEF Ended
  <2> QED BY <2>1, IdleRemembers, MemoryOfOne
<1>3. ASSUME NEW r \in Configs, NEW t \in Stages \ {"idle", "lock"},
             t = "commit" => Cmd(j).stage = "lock",
             Cmd(j).stage # "idle",
             job' = [job EXCEPT ![j] = [command |-> [Cmd(j) EXCEPT !.stage = t],
                                        read |-> r]]
      PROVE  Memory'
  <2> DEFINE d == [Cmd(j) EXCEPT !.stage = t]
  <2>1. job'[j].command = d /\ \A k \in Jobs \ {j} : job'[k] = job[k]
    BY <1>1, <1>3
  <2>2. /\ d.stage = t /\ d.op = Cmd(j).op /\ d.before = Cmd(j).before
        /\ d.at = Cmd(j).at /\ d.undo = Cmd(j).undo /\ d.on = Cmd(j).on
        /\ d.id = Cmd(j).id /\ d.alone = Cmd(j).alone /\ d.default = Cmd(j).default
    BY <1>1 DEF Commands
  <2> HIDE DEF d
  <2>3. Remembers(d)
    BY <1>1, <1>3, <2>2 DEF Remembers
  <2> QED BY <2>1, <2>3, MemoryOfOne
<1> QED BY <1>2, <1>3

LEMMA GoesOnRemembers ==
  ASSUME SelectionAssumption, IInv, Memory, NEW j \in Jobs, CommandGoesOn(j)
  PROVE  Memory'
<1>1. /\ job \in [Jobs -> Running] /\ Cmd(j) \in Commands /\ Remembers(Cmd(j))
      /\ job[j].read \in Configs /\ config \in Configs /\ Cmd(j) = job[j].command
  BY GoingOn DEF IInv, TypeInv, Memory, Cmd
<1>2. CASE Lock(j)
  <2>1. /\ Cmd(j).stage = "lock" /\ UNCHANGED <<config, imported, prefs>>
        /\ job' = [job EXCEPT ![j] = [command |-> [Cmd(j) EXCEPT !.stage = "commit"],
                                     read |-> config]]
    <3>1. [job[j] EXCEPT !.command.stage = "commit", !.read = config] =
             [command |-> [Cmd(j) EXCEPT !.stage = "commit"], read |-> config]
      BY <1>1, RunningExcept
    <3>2. job' = [job EXCEPT ![j] = [job[j] EXCEPT !.command.stage = "commit",
                                                  !.read = config]]
      BY <1>1, <1>2 DEF Lock
    <3> QED BY <1>2, <3>1, <3>2 DEF Lock, At, stored
  <2> QED BY <1>1, <2>1, OneRemembers DEF Stages
<1>3. CASE Commit(j)
  BY <1>3, CommitRemembers
<1>4. CASE UpdateFails(j) \/ InstallerFails(j) \/ ProbeSucceeds(j) \/ PersistFails(j)
  BY <1>4, OneRemembers DEF UpdateFails, InstallerFails, ProbeSucceeds, PersistFails, stored
<1>5. CASE InstallerSucceeds(j)
  <2>1. /\ Cmd(j).stage = "install" /\ UNCHANGED <<config, imported, prefs>>
        /\ job' = [job EXCEPT ![j].command.stage = "select"]
    BY <1>5 DEF InstallerSucceeds, At, stored, GoesTo
  <2>2. [job EXCEPT ![j].command.stage = "select"]
          = [job EXCEPT ![j] = [command |-> [Cmd(j) EXCEPT !.stage = "select"],
                               read |-> job[j].read]]
    <3> DEFINE r == [job[j] EXCEPT !.command.stage = "select"]
    <3>1. r = [command |-> [Cmd(j) EXCEPT !.stage = "select"], read |-> job[j].read]
      BY <1>1 DEF Running
    <3>2. [job EXCEPT ![j].command.stage = "select"] = [job EXCEPT ![j] = r]
      BY <1>1
    <3> QED BY <3>1, <3>2
  <2> QED BY <1>1, <2>1, <2>2, OneRemembers DEF Stages
<1>6. CASE SelectLocal(j)
  <2> DEFINE d == [[Cmd(j) EXCEPT !.stage = "lock"] EXCEPT !.default = Bundled]
  <2>1. /\ Cmd(j).stage = "select" /\ Cmd(j).at = Local
        /\ UNCHANGED <<config, imported, prefs>>
        /\ job' = [job EXCEPT ![j].command.stage = "lock", ![j].command.default = Bundled]
    BY <1>6 DEF SelectLocal, At, stored
  <2>2. job'[j].command = d /\ \A k \in Jobs \ {j} : job'[k] = job[k]
    BY <1>1, <2>1 DEF Running
  <2>3. /\ d.stage = "lock" /\ d.op = Cmd(j).op /\ d.before = Cmd(j).before
        /\ d.at = Cmd(j).at /\ d.undo = Cmd(j).undo /\ d.on = Cmd(j).on
        /\ d.id = Cmd(j).id /\ d.alone = Cmd(j).alone /\ d.default = Bundled
    BY <1>1 DEF Commands
  <2> HIDE DEF d
  <2>4. Remembers(d)
    BY <1>1, <2>1, <2>3 DEF Remembers
  <2> QED BY <2>1, <2>2, <2>4, MemoryOfOne
<1>7. CASE SelectRemote(j)
  BY <1>7, SelectRemoteRemembers
<1>8. CASE ProbeFails(j)
  <2> DEFINE on == Cmd(j).id \in Cmd(j).before
             d  == [[[Cmd(j) EXCEPT !.stage = "select"] EXCEPT !.undo = TRUE]
                     EXCEPT !.on = on]
  <2>1. /\ Cmd(j).stage = "probe" /\ UNCHANGED <<config, imported, prefs>>
        /\ job' = [job EXCEPT ![j].command.stage = "select",
                              ![j].command.undo = TRUE,
                              ![j].command.on = on]
    BY <1>8 DEF ProbeFails, At, stored
  <2> HIDE DEF on
  <2>2. job'[j].command = d /\ \A k \in Jobs \ {j} : job'[k] = job[k]
    BY <1>1, <2>1 DEF Running
  <2>3. /\ d.stage = "select" /\ d.op = Cmd(j).op /\ d.before = Cmd(j).before
        /\ d.at = Cmd(j).at /\ d.on = on
        /\ d.id = Cmd(j).id /\ d.alone = Cmd(j).alone
    BY <1>1 DEF Commands
  <2> HIDE DEF d
  <2>4. d.op = "set"
    BY <2>1, <2>3, GoingOn DEF SoundIn
  <2>5. Remembers(d)
    BY <1>1, <2>1, <2>3, <2>4 DEF Remembers, on
  <2> QED BY <2>1, <2>2, <2>5, MemoryOfOne
<1>9. CASE Persist(j)
  BY <1>9, PersistRemembers
<1> QED BY <1>2, <1>3, <1>4, <1>5, <1>6, <1>7, <1>8, <1>9 DEF CommandGoesOn

LEMMA StutterRemembers ==
  ASSUME IInv, Memory, UNCHANGED <<config, imported, prefs, job>>
  PROVE  Memory'
<1>1. UNCHANGED <<Registered, Bundled>> /\ \A m : UNCHANGED Selection(m)
  BY DEF Registered, Bundled, BundledIsActive, Active, Versions, Selection
<1>2. ASSUME NEW k \in Jobs PROVE Remembers(Cmd(k))'
  <2>1. Remembers(Cmd(k)) /\ Cmd(k)' = Cmd(k)
    BY DEF Memory, Cmd
  <2> QED BY <1>1, <2>1 DEF Remembers
<1> QED BY <1>2 DEF Memory, PrefsType

LEMMA NextRemembers ==
  ASSUME SelectionAssumption, IInv, Memory, [Next]_vars
  PROVE  Memory'
<1>1. ASSUME NEW j \in Jobs, CommandStarts(j) \/ CommandGoesOn(j) PROVE Memory'
  BY <1>1, StartsRemember, GoesOnRemembers
<1>2. ASSUME NEW j \in Jobs, Killed(j) PROVE Memory'
  BY <1>2, OneRemembers DEF Killed, stored
<1>3. ASSUME NEW s \in Servers, DeleteServer(s) PROVE Memory'
  BY <1>3, DeleteServerRemembers
<1>4. CASE UNCHANGED vars
  BY <1>4, StutterRemembers DEF vars, stored
<1> QED BY <1>1, <1>2, <1>3, <1>4 DEF Next

\* The commands of ToolUpdates leave all this alone.
LEMMA UpdatesKeep ==
  ASSUME SelectionAssumption, IInv, Memory, [UpdatesNext]_<<vars, updates>>
  PROVE  IInv' /\ Memory'
<1>1. CASE SelectionGoesOn
  <2>1. Next
    BY <1>1 DEF SelectionGoesOn, Next
  <2> QED BY <2>1, NextKeeps, NextRemembers
<1>2. CASE UNCHANGED <<config, imported, prefs, lock, job>>
  BY <1>2, StutterKeeps, StutterRemembers
<1>3. ASSUME NEW j \in Jobs,
             \/ \E op \in {"probe", "check", "upgrade"}, m \in Machines, id \in Ids :
                   StartUpdate(j, op, m, id)
             \/ StartProbe(j) \/ Detect(j) \/ Query(j) \/ QuestionFails(j)
             \/ UpgraderRuns(j) \/ UpgraderSucceeds(j) \/ UpgraderBreaks(j)
             \/ UpgraderReturns(j) \/ UpdateKilled(j)
      PROVE  UNCHANGED <<config, imported, prefs, lock, job>>
  BY <1>3 DEF StartUpdate, StartProbe, Detect, Query, QuestionFails, UpgraderRuns,
     UpgraderSucceeds, UpgraderBreaks, UpgraderReturns, UpdateKilled, vars, stored
<1>4. ASSUME WorldChanges \/ UNCHANGED <<vars, updates>>
      PROVE  UNCHANGED <<config, imported, prefs, lock, job>>
  BY <1>4 DEF WorldChanges, vars, stored
<1> QED BY <1>1, <1>2, <1>3, <1>4 DEF UpdatesNext

-----------------------------------------------------------------------------
(* The upgrader's call, whichever step of it fails.                        *)

Calls ==
    [stage : {"idle", "create", "spawn", "poll", "terminate", "read", "done"},
     files : SUBSET Runner!Streams, stuck : BOOLEAN,
     child : {"none", "running", "exited", "reaped"},
     success : BOOLEAN, heirs : BOOLEAN,
     size : [Runner!Streams -> Nat], own : [Runner!Streams -> Nat],
     read : [Runner!Streams -> Nat], error : BOOLEAN]

\* A file only grows: what the child has left in it is still there.
Holds(k) == \A s \in Runner!Streams : k.own[s] <= k.size[s]

CleanEnd(k) ==
    /\ k.child \in {"none", "reaped"}
    /\ k.files # {} => k.stuck /\ k.error
    /\ ~ k.error => \A s \in Runner!Streams : k.read[s] \in k.own[s] .. Limit

\* What a call may be in a stage.
WellIn(k) ==
    /\ k.stage \in {"idle", "create"} => k.files = {}
    /\ k.stage \in {"idle", "create", "spawn"} => k.child = "none"
    /\ k.stage = "poll" => k.child \in {"running", "exited"}
    /\ k.child = "exited" => Holds(k)
    /\ k.stage = "read" => k.child = "reaped" /\ Holds(k)
    /\ k.stage = "terminate" => k.error
    /\ k.stage = "done" => CleanEnd(k)

CallsWell == call \in [Jobs -> Calls] /\ \A j \in Jobs : WellIn(call[j])

LEMMA NoCallWell ==
  Runner!NoCall \in Calls /\ WellIn(Runner!NoCall)
BY DEF Runner!NoCall, Runner!Nothing, Runner!Streams, Calls, WellIn

LEMMA FailedWell ==
  ASSUME NEW k \in Calls
  PROVE  /\ Runner!Failed(k) \in Calls /\ Runner!Failed(k).error
         /\ Holds(Runner!Failed(k))
         /\ Runner!Failed(k).child = k.child /\ Runner!Failed(k).files = k.files
<1> DEFINE zero == Runner!Nothing
           f == [k EXCEPT !.error = TRUE, !.heirs = FALSE, !.size = zero,
                          !.own = zero, !.read = zero]
<1>1. zero \in [Runner!Streams -> Nat] /\ \A s \in Runner!Streams : zero[s] <= zero[s]
  BY DEF Runner!Nothing
<1>2. Runner!Failed(k) = f
  BY DEF Runner!Failed
<1> HIDE DEF zero
<1>3. /\ f \in Calls /\ f.error /\ f.own = zero /\ f.size = zero
      /\ f.child = k.child /\ f.files = k.files
  BY <1>1 DEF Calls
<1> HIDE DEF f
<1> QED BY <1>1, <1>2, <1>3 DEF Holds

\* After cleanup_output_files the call is over, and clean.
LEMMA CleanedUpWell ==
  ASSUME NEW k \in Calls, NEW left \in SUBSET Runner!Streams,
         k.child \in {"none", "reaped"},
         ~ k.error => \A s \in Runner!Streams : k.read[s] \in k.own[s] .. Limit
  PROVE  Runner!CleanedUp(k, left) \in Calls /\ WellIn(Runner!CleanedUp(k, left))
<1>1. CASE left = {}
  <2> DEFINE d == [k EXCEPT !.stage = "done", !.files = {}]
  <2>1. /\ d \in Calls /\ d.stage = "done" /\ d.files = {} /\ d.child = k.child
        /\ d.error = k.error /\ d.read = k.read /\ d.own = k.own
    BY DEF Calls
  <2>2. Runner!CleanedUp(k, left) = d
    BY <1>1 DEF Runner!CleanedUp
  <2> HIDE DEF d
  <2> QED BY <2>1, <2>2 DEF WellIn, CleanEnd
<1>2. CASE left # {}
  <2> DEFINE f == Runner!Failed(k)
             d == [f EXCEPT !.stage = "done", !.files = left, !.stuck = TRUE]
  <2>1. f \in Calls /\ f.error /\ f.child = k.child
    BY FailedWell
  <2> HIDE DEF f
  <2>2. d \in Calls /\ d.stage = "done" /\ d.stuck /\ d.error /\ d.child = k.child
    BY <2>1 DEF Calls
  <2>3. Runner!CleanedUp(k, left) = d
    BY <1>2 DEF Runner!CleanedUp, f
  <2> HIDE DEF d
  <2> QED BY <2>2, <2>3 DEF WellIn, CleanEnd
<1> QED BY <1>1, <1>2

LEMMA LesserIsMin ==
  ASSUME NEW a \in Int, NEW b \in Int, a <= b
  PROVE  Min({a, b}) = a
BY DEF Min

\* One call goes on and the others stay as they are.
LEMMA CallGoesOn ==
  ASSUME CallsWell, NEW j \in Jobs, NEW k \in Calls, WellIn(k), Runner!Becomes(j, k)
  PROVE  CallsWell'
BY DEF CallsWell, Runner!Becomes

LEMMA StepsWell ==
  ASSUME UpdatesAssumption, CallsWell, NEW j \in Jobs, Runner!RunnerSteps(j)
  PROVE  CallsWell'
<1> DEFINE k == call[j]
<1>1. k \in Calls /\ WellIn(k) /\ Limit \in Nat
  BY DEF CallsWell, UpdatesAssumption
<1>2. \E d \in Calls : WellIn(d) /\ Runner!Becomes(j, d)
  <2>1. CASE Runner!CreateFiles(j)
    <3>1. k.stage = "create"
      BY <2>1 DEF Runner!CreateFiles, Runner!In
    <3>2. CASE Runner!Becomes(j, [k EXCEPT !.stage = "spawn", !.files = Runner!Streams])
      <4> DEFINE d == [k EXCEPT !.stage = "spawn", !.files = Runner!Streams]
      <4>1. d \in Calls /\ d.stage = "spawn" /\ d.child = k.child
        BY <1>1 DEF Calls
      <4> HIDE DEF k, d
      <4>2. WellIn(d)
        BY <1>1, <3>1, <4>1 DEF WellIn
      <4> QED BY <3>2, <4>1, <4>2 DEF d
    <3>3. ASSUME NEW left \in SUBSET {"stdout"},
                 Runner!Becomes(j, Runner!CleanedUp(Runner!Failed(k), left))
          PROVE  \E d \in Calls : WellIn(d) /\ Runner!Becomes(j, d)
      <4> HIDE DEF k
      <4>1. left \in SUBSET Runner!Streams
        BY DEF Runner!Streams
      <4>2. /\ Runner!Failed(k) \in Calls /\ Runner!Failed(k).error
            /\ Runner!Failed(k).child = "none"
        BY <1>1, <3>1, FailedWell DEF WellIn
      <4> QED BY <3>3, <4>1, <4>2, CleanedUpWell
    <3> QED BY <2>1, <3>2, <3>3 DEF Runner!CreateFiles
  <2>2. CASE Runner!Spawn(j)
    <3> DEFINE d == [k EXCEPT !.stage = "poll", !.child = "running"]
    <3>1. Runner!Becomes(j, d)
      BY <2>2 DEF Runner!Spawn
    <3>2. d \in Calls /\ d.stage = "poll" /\ d.child = "running"
      BY <1>1 DEF Calls
    <3> HIDE DEF k, d
    <3>3. WellIn(d)
      BY <3>2 DEF WellIn
    <3> QED BY <3>1, <3>2, <3>3
  <2>3. CASE Runner!SpawnFails(j)
    <3>1. PICK left \in SUBSET k.files :
             k.stage = "spawn" /\ Runner!Becomes(j, Runner!CleanedUp(Runner!Failed(k), left))
      BY <2>3 DEF Runner!SpawnFails, Runner!In
    <3> HIDE DEF k
    <3>2. left \in SUBSET Runner!Streams
      BY <1>1 DEF Calls
    <3>3. /\ Runner!Failed(k) \in Calls /\ Runner!Failed(k).error
          /\ Runner!Failed(k).child = "none"
      BY <1>1, <3>1, FailedWell DEF WellIn
    <3> QED BY <3>1, <3>2, <3>3, CleanedUpWell
  <2>4. CASE Runner!PollFindsExit(j)
    <3> DEFINE r == [k EXCEPT !.child = "reaped"]
    <3>1. /\ k.child = "exited"
          /\ \/ Runner!Becomes(j, [Runner!Failed(r) EXCEPT !.stage = "terminate"])
             \/ Runner!Becomes(j, [r EXCEPT !.stage = "read"])
      BY <2>4 DEF Runner!PollFindsExit
    <3>2. r \in Calls /\ r.child = "reaped" /\ r.own = k.own /\ r.size = k.size
      BY <1>1 DEF Calls
    <3> HIDE DEF k, r
    <3>3. Holds(r)
      BY <1>1, <3>1, <3>2 DEF WellIn, Holds
    <3>4. CASE Runner!Becomes(j, [Runner!Failed(r) EXCEPT !.stage = "terminate"])
      <4> DEFINE f == Runner!Failed(r)
                 d == [f EXCEPT !.stage = "terminate"]
      <4>1. f \in Calls /\ f.error /\ f.child = "reaped"
        BY <3>2, FailedWell
      <4> HIDE DEF f
      <4>2. d \in Calls /\ d.stage = "terminate" /\ d.error /\ d.child = "reaped"
        BY <4>1 DEF Calls
      <4>3. Runner!Becomes(j, d)
        BY <3>4 DEF f
      <4> HIDE DEF d
      <4> QED BY <4>2, <4>3 DEF WellIn
    <3>5. CASE Runner!Becomes(j, [r EXCEPT !.stage = "read"])
      <4> DEFINE d == [r EXCEPT !.stage = "read"]
      <4>1. /\ d \in Calls /\ d.stage = "read" /\ d.child = "reaped"
            /\ d.own = r.own /\ d.size = r.size
        BY <3>2 DEF Calls
      <4> HIDE DEF d
      <4>2. WellIn(d)
        BY <3>3, <4>1 DEF WellIn, Holds
      <4> QED BY <3>5, <4>1, <4>2 DEF d
    <3> QED BY <3>1, <3>4, <3>5
  <2>5. CASE Runner!PollGivesUp(j)
    <3> DEFINE f == Runner!Failed(k)
               d == [f EXCEPT !.stage = "terminate"]
    <3>1. Runner!Becomes(j, d) /\ k.stage = "poll"
      BY <2>5 DEF Runner!PollGivesUp, Runner!In
    <3>2. f \in Calls /\ f.error /\ f.child \in {"running", "exited"} /\ Holds(f)
      BY <1>1, <3>1, FailedWell DEF WellIn
    <3> HIDE DEF k, f
    <3>3. /\ d \in Calls /\ d.stage = "terminate" /\ d.error /\ d.child = f.child
          /\ d.own = f.own /\ d.size = f.size
      BY <3>2 DEF Calls
    <3> HIDE DEF d
    <3> QED BY <3>1, <3>2, <3>3 DEF WellIn, Holds
  <2>6. CASE Runner!Terminate(j)
    <3> DEFINE r == [k EXCEPT !.child = "reaped"]
    <3>1. PICK left \in SUBSET k.files :
             k.stage = "terminate" /\ Runner!Becomes(j, Runner!CleanedUp(r, left))
      BY <2>6 DEF Runner!Terminate, Runner!In
    <3>2. r \in Calls /\ r.child = "reaped" /\ r.error = k.error
      BY <1>1 DEF Calls
    <3> HIDE DEF k, r
    <3>3. r.error /\ left \in SUBSET Runner!Streams
      BY <1>1, <3>1, <3>2 DEF WellIn, Calls
    <3> QED BY <3>1, <3>2, <3>3, CleanedUpWell
  <2>7. CASE Runner!Read(j)
    <3>1. PICK left \in SUBSET k.files :
             /\ k.stage = "read"
             /\ \/ /\ ~ Runner!Oversized(k.size)
                   /\ Runner!Becomes(j, Runner!CleanedUp([k EXCEPT !.read =
                         [s \in Runner!Streams |-> Min({k.size[s], Limit + 1})]], left))
                \/ Runner!Becomes(j, Runner!CleanedUp(Runner!Failed(k), left))
      BY <2>7 DEF Runner!Read, Runner!In, Min, Runner!Min
    <3>2. left \in SUBSET Runner!Streams /\ k.child = "reaped" /\ Holds(k)
      BY <1>1, <3>1 DEF WellIn, Calls
    <3>3. CASE /\ ~ Runner!Oversized(k.size)
               /\ Runner!Becomes(j, Runner!CleanedUp([k EXCEPT !.read =
                     [s \in Runner!Streams |-> Min({k.size[s], Limit + 1})]], left))
      <4> DEFINE all == [s \in Runner!Streams |-> Min({k.size[s], Limit + 1})]
                 r   == [k EXCEPT !.read = all]
      <4>1. ASSUME NEW s \in Runner!Streams
            PROVE  all[s] = k.size[s] /\ k.size[s] \in Nat /\ k.size[s] <= Limit
        <5>1. k.size[s] \in Nat /\ k.size[s] <= Limit
          BY <1>1, <3>3 DEF Calls, Runner!Oversized
        <5>2. Min({k.size[s], Limit + 1}) = k.size[s]
          BY <1>1, <5>1, LesserIsMin
        <5> QED BY <5>1, <5>2
      <4> HIDE DEF k
      <4>2. all = k.size
        BY <1>1, <4>1 DEF Calls
      <4>3. r \in Calls /\ r.child = k.child /\ r.read = k.size /\ r.own = k.own
        <5>1. r = [k EXCEPT !.read = k.size]
          BY <4>2
        <5> QED BY <1>1, <5>1 DEF Calls
      <4> HIDE DEF all, r
      <4>4. \A s \in Runner!Streams : r.read[s] \in r.own[s] .. Limit
        BY <1>1, <3>2, <4>1, <4>3 DEF Holds, Calls
      <4>5. Runner!Becomes(j, Runner!CleanedUp(r, left))
        BY <3>3 DEF all, r
      <4> QED BY <3>2, <4>3, <4>4, <4>5, CleanedUpWell
    <3>4. CASE Runner!Becomes(j, Runner!CleanedUp(Runner!Failed(k), left))
      <4> HIDE DEF k
      <4>1. /\ Runner!Failed(k) \in Calls /\ Runner!Failed(k).error
            /\ Runner!Failed(k).child = "reaped"
        BY <1>1, <3>2, FailedWell
      <4> QED BY <3>2, <3>4, <4>1, CleanedUpWell
    <3> QED BY <3>1, <3>3, <3>4
  <2>8. ASSUME NEW s \in Runner!Streams, Runner!Writes(j, s)
        PROVE  \E d \in Calls : WellIn(d) /\ Runner!Becomes(j, d)
    <3> DEFINE more == [k.size EXCEPT ![s] = @ + 1]
               d    == [k EXCEPT !.size = more]
    <3>1. /\ k.stage \in {"poll", "read"}
          /\ Runner!Becomes(j, [k EXCEPT !.size[s] = @ + 1])
      BY <2>8 DEF Runner!Writes
    <3> HIDE DEF k
    <3>2. more \in [Runner!Streams -> Nat] /\ \A t \in Runner!Streams : k.size[t] <= more[t]
      BY <1>1 DEF Calls
    <3>3. [k EXCEPT !.size[s] = @ + 1] = d
      BY <1>1 DEF Calls
    <3> HIDE DEF more
    <3>4. /\ d \in Calls /\ d.stage = k.stage /\ d.child = k.child
          /\ d.own = k.own /\ d.size = more /\ d.error = k.error /\ d.files = k.files
      BY <1>1, <3>2 DEF Calls
    <3>5. Runner!Becomes(j, d)
      BY <3>1, <3>3
    <3> HIDE DEF d
    <3>6. Holds(k) => Holds(d)
      BY <1>1, <3>2, <3>4 DEF Holds, Calls
    <3> QED BY <1>1, <3>1, <3>4, <3>5, <3>6 DEF WellIn
  <2> QED BY <2>1, <2>2, <2>3, <2>4, <2>5, <2>6, <2>7, <2>8 DEF Runner!RunnerSteps
<1> QED BY <1>2, CallGoesOn

\* The child may exit while it is polled, and before it is killed.
LEMMA ExitsWell ==
  ASSUME CallsWell, NEW j \in Jobs, NEW success \in BOOLEAN, Runner!Exits(j, success)
  PROVE  CallsWell'
<1> DEFINE k == call[j]
<1>1. k \in Calls /\ WellIn(k)
  BY DEF CallsWell
<1>2. PICK heirs \in BOOLEAN :
         /\ k.child = "running"
         /\ Runner!Becomes(j, [k EXCEPT !.child = "exited", !.success = success,
                                        !.own = k.size,
                                        !.heirs = heirs /\ k.stage = "poll"])
  BY DEF Runner!Exits
<1> DEFINE open == heirs /\ k.stage = "poll"
           d == [k EXCEPT !.child = "exited", !.success = success,
                          !.own = k.size, !.heirs = open]
<1>3. open \in BOOLEAN /\ Runner!Becomes(j, d)
  BY <1>2
<1> HIDE DEF k, open
<1>4. /\ d \in Calls /\ d.child = "exited" /\ d.own = k.size /\ d.size = k.size
      /\ d.stage = k.stage /\ d.error = k.error
  BY <1>1, <1>3 DEF Calls
<1> HIDE DEF d
<1>5. k.stage \in {"poll", "terminate"}
  BY <1>1, <1>2 DEF WellIn, CleanEnd, Calls
<1>6. Holds(d)
  BY <1>1, <1>4 DEF Holds, Calls
<1>7. WellIn(d)
  BY <1>1, <1>4, <1>5, <1>6 DEF WellIn
<1> QED BY <1>3, <1>4, <1>7, CallGoesOn

-----------------------------------------------------------------------------
(* Probes, checks and upgrades.                                            *)

Capabilities ==
    [installed : BOOLEAN, version : Int, enabled : BOOLEAN, checked : BOOLEAN,
     latest : Int, failed : BOOLEAN, available : BOOLEAN]

Asked ==
    [stage : {"idle", "read", "detect", "query", "run"},
     op : {"none", "probe", "check", "upgrade"}, at : Machines,
     id : Ids \cup {AnyId}, chosen : SUBSET Ids, before : [Ids -> Capabilities],
     verify : BOOLEAN]

\* What a command may know in a stage, with the registry at rel: a version it
\* was told there may be old, but never newer.
AskedWell(u, rel) ==
    /\ u.stage # "idle" => u.op # "none"
    /\ u.verify => u.op = "upgrade"
    /\ u.stage = "query" => u.op \in {"check", "upgrade"}
    /\ u.stage = "run" => u.op = "upgrade"
    /\ u.op = "upgrade" => u.id \in Ids
    /\ \A id \in Ids : u.before[id].latest # Unset => u.before[id].latest <= rel[id]
    /\ u.stage = "query" => \A id \in Ids : /\ ~ u.before[id].available
                                            /\ u.before[id].enabled => id \in u.chosen

WorldWell ==
    /\ tool \in [Machines -> [Ids -> Int]]
    /\ package \in [Machines -> [Ids -> Int]]
    /\ release \in [Ids -> Int]
    /\ orphans \subseteq Machines \X Ids

UpdatesWell ==
    /\ WorldWell
    /\ CallsWell
    /\ update \in [Jobs -> Asked]
    /\ \A j \in Jobs : /\ AskedWell(update[j], release)
                       /\ update[j].stage # "run" => call[j] = Runner!NoCall

AnswersWell == UpgradeIsVerified /\ AnswersTellTheMachine

LEMMA NoAnswerWell ==
  ASSUME answer' = NoAnswer
  PROVE  AnswersWell'
BY DEF AnswersWell, UpgradeIsVerified, AnswersTellTheMachine, NoAnswer, NoCapability

LEMMA NoUpdateWell ==
  ASSUME NEW rel
  PROVE  NoUpdate \in Asked /\ AskedWell(NoUpdate, rel) /\ NoUpdate.stage = "idle"
<1> DEFINE none == [id \in Ids |-> NoCapability]
<1>1. none \in [Ids -> Capabilities] /\ \A id \in Ids : none[id].latest = Unset
  BY DEF NoCapability, Capabilities, Unset
<1>2. NoUpdate = [stage |-> "idle", op |-> "none", at |-> Local, id |-> AnyId,
                  chosen |-> {}, before |-> none, verify |-> FALSE]
  BY DEF NoUpdate, AnyId
<1>3. Local \in Machines
  BY DEF Machines
<1> HIDE DEF none
<1> QED BY <1>1, <1>2, <1>3 DEF Asked, AskedWell

\* A command goes on while the registry stays as it is.
LEMMA UpdateGoesOn ==
  ASSUME UpdatesWell, NEW j \in Jobs, NEW u \in Asked,
         AskedWell(u, release), update' = [update EXCEPT ![j] = u],
         WorldWell', release' = release, CallsWell',
         \A k \in Jobs \ {j} : call'[k] = call[k],
         u.stage # "run" => call'[j] = Runner!NoCall
  PROVE  UpdatesWell'
<1>1. update' \in [Jobs -> Asked] /\ update'[j] = u
        /\ \A k \in Jobs \ {j} : update'[k] = update[k]
  BY DEF UpdatesWell
<1>2. ASSUME NEW k \in Jobs
      PROVE  /\ AskedWell(update'[k], release')
             /\ update'[k].stage # "run" => call'[k] = Runner!NoCall
  BY <1>1 DEF UpdatesWell
<1> QED BY <1>1, <1>2 DEF UpdatesWell

\* The same, but that nothing is run and the machine does not change.
LEMMA QuestionGoesOn ==
  ASSUME UpdatesWell, NEW j \in Jobs, NEW u \in Asked,
         AskedWell(u, release), update' = [update EXCEPT ![j] = u],
         UNCHANGED <<machine, call>>,
         u.stage # "run", update[j].stage # "run"
  PROVE  UpdatesWell'
<1>1. WorldWell' /\ release' = release /\ CallsWell'
  BY DEF UpdatesWell, WorldWell, machine, CallsWell
<1>2. call' = call /\ call[j] = Runner!NoCall
  BY DEF UpdatesWell
<1> QED BY <1>1, <1>2, UpdateGoesOn

-----------------------------------------------------------------------------
(* detect: what is found of the tools that were looked for.                *)

Looked(j, reply) ==
    [id \in Ids |-> IF id \in Of(j).chosen
                    THEN Capability(j, id, reply.told, reply.source[id])
                    ELSE NoCapability]

Heard(reply) == {id \in reply.told : reply.source[id] = "command"}

Seen(found, version, able) ==
    [NoCapability EXCEPT !.installed = found, !.version = version, !.enabled = able]

LEMMA SeenType ==
  ASSUME NEW found \in BOOLEAN, NEW seen \in Int, NEW able \in BOOLEAN
  PROVE  LET c == Seen(found, seen, able)
         IN /\ c \in Capabilities /\ c.installed = found /\ c.version = seen
            /\ ~ c.checked /\ ~ c.available /\ c.latest = Unset
<1>1. NoCapability \in Capabilities
  BY DEF NoCapability, Capabilities, Unset
<1>2. ~ NoCapability.checked /\ ~ NoCapability.available /\ NoCapability.latest = Unset
  BY DEF NoCapability
<1> QED BY <1>1, <1>2 DEF Capabilities, Seen

LEMMA CapabilityTells ==
  ASSUME WorldWell, NEW j \in Jobs, update[j] \in Asked, NEW id \in Ids, NEW told,
         NEW source \in Sources
  PROVE  LET c == Capability(j, id, told, source)
             m == update[j].at
         IN /\ c \in Capabilities
            /\ ~ c.checked /\ ~ c.available /\ c.latest = Unset
            /\ c.installed <=> id \in told /\ id \in onPath[m]
            /\ c.version # Unset => c.installed
            /\ c.installed /\ source = "command" => c.version = tool[m][id]
<1> DEFINE m == update[j].at
           found  == id \in told /\ id \in onPath[m]
           picked == IF m = Local THEN Of(j).chosen ELSE Selection(m)
           seen   == IF found THEN Version(m, id, source) ELSE Unset
           able   == found /\ id \in picked /\ Supports(m, id)
           c == Seen(found, seen, able)
<1>1. Capability(j, id, told, source) = c
  BY DEF Capability, Of, Seen
<1>2. found \in BOOLEAN /\ able \in BOOLEAN
  OBVIOUS
<1>3. m \in Machines
  BY DEF Asked
<1>4. /\ seen \in Int /\ (seen # Unset => found)
      /\ found /\ source = "command" => seen = tool[m][id]
  <2> HIDE DEF m, found
  <2> QED BY <1>2, <1>3 DEF Version, Sources, WorldWell, Unset
<1> HIDE DEF found, able, seen
<1>5. /\ c \in Capabilities /\ c.installed = found /\ c.version = seen
      /\ ~ c.checked /\ ~ c.available /\ c.latest = Unset
  <2>1. found \in BOOLEAN /\ seen \in Int /\ able \in BOOLEAN
    BY <1>2, <1>4
  <2> QED BY <2>1, SeenType, Zenon
<1> HIDE DEF c
<1> QED BY <1>1, <1>4, <1>5 DEF found

LEMMA LookedTells ==
  ASSUME UpdatesWell, NEW j \in Jobs,
         NEW reply \in Replies(update[j].at, update[j].chosen),
         Complete(update[j].chosen, reply.told)
  PROVE  /\ Looked(j, reply) \in [Ids -> Capabilities]
         /\ Heard(reply) \subseteq update[j].chosen
         /\ \A id \in Ids :
               LET c == Looked(j, reply)[id]
                   m == update[j].at
               IN /\ ~ c.checked /\ ~ c.available /\ c.latest = Unset
                  /\ id \in update[j].chosen => (c.installed <=> id \in onPath[m])
                  /\ id \notin update[j].chosen => ~ c.installed /\ ~ c.enabled
                  /\ c.version # Unset => c.installed
                  /\ c.installed /\ id \in Heard(reply) => c.version = tool[m][id]
<1> DEFINE u == update[j]
           m == u.at
<1>1. u \in Asked /\ WorldWell
  BY DEF UpdatesWell
<1>2. reply.told \subseteq u.chosen /\ reply.source \in [u.chosen -> Sources]
        /\ u.chosen \subseteq reply.told
  BY DEF Replies, Complete
<1>3. ASSUME NEW id \in Ids
      PROVE  LET c == Looked(j, reply)[id]
             IN /\ c \in Capabilities
                /\ ~ c.checked /\ ~ c.available /\ c.latest = Unset
                /\ id \in u.chosen => (c.installed <=> id \in onPath[m])
                /\ id \notin u.chosen => ~ c.installed /\ ~ c.enabled
                /\ c.version # Unset => c.installed
                /\ c.installed /\ id \in Heard(reply) => c.version = tool[m][id]
  <2>1. CASE id \in u.chosen
    <3> DEFINE c == Capability(j, id, reply.told, reply.source[id])
    <3>1. Looked(j, reply)[id] = c
      BY <2>1 DEF Looked, Of
    <3>2. reply.source[id] \in Sources /\ id \in reply.told
      BY <1>2, <2>1
    <3>3. /\ c \in Capabilities
          /\ ~ c.checked /\ ~ c.available /\ c.latest = Unset
          /\ c.installed <=> id \in reply.told /\ id \in onPath[m]
          /\ c.version # Unset => c.installed
          /\ c.installed /\ reply.source[id] = "command" => c.version = tool[m][id]
      BY <1>1, <3>2, CapabilityTells
    <3> HIDE DEF c
    <3> QED BY <2>1, <3>1, <3>2, <3>3 DEF Heard
  <2>2. CASE id \notin u.chosen
    <3>1. Looked(j, reply)[id] = NoCapability
      BY <2>2 DEF Looked, Of
    <3> QED BY <2>2, <3>1 DEF NoCapability, Capabilities, Unset
  <2> QED BY <2>1, <2>2
<1>4. Looked(j, reply) \in [Ids -> Capabilities]
  BY <1>3 DEF Looked
<1>5. Heard(reply) \subseteq u.chosen
  BY <1>2 DEF Heard
<1> QED BY <1>3, <1>4, <1>5

LEMMA CheckTells ==
  ASSUME NEW c \in Capabilities, NEW latest \in Int, NEW failed \in BOOLEAN
  PROVE  LET d == WithCheck(c, latest, failed)
         IN /\ d \in Capabilities
            /\ d.installed = c.installed /\ d.version = c.version
            /\ d.enabled = c.enabled /\ d.latest = latest
            /\ d.available => c.version # Unset /\ latest # Unset /\ latest > c.version
<1> DEFINE wrong == failed \/ c.version = Unset \/ latest = Unset
           newer == ~wrong /\ latest > c.version
           d == [c EXCEPT !.checked = TRUE, !.latest = latest, !.failed = wrong,
                          !.available = newer]
<1>1. WithCheck(c, latest, failed) = d
  BY DEF WithCheck
<1>2. wrong \in BOOLEAN /\ newer \in BOOLEAN
  OBVIOUS
<1>3. newer => c.version # Unset /\ latest # Unset /\ latest > c.version
  OBVIOUS
<1> HIDE DEF wrong, newer
<1>4. /\ d \in Capabilities /\ d.installed = c.installed /\ d.version = c.version
      /\ d.enabled = c.enabled /\ d.latest = latest /\ d.available = newer
  BY <1>2 DEF Capabilities
<1> HIDE DEF d
<1> QED BY <1>1, <1>3, <1>4

\* An answer of what was just found, or of that with an earlier check.
LEMMA DetectKeeps ==
  ASSUME UpdatesWell, NEW j \in Jobs, Detect(j)
  PROVE  UpdatesWell' /\ AnswersWell'
<1> DEFINE u == update[j]
           m == u.at
<1>1. /\ u \in Asked /\ u.stage = "detect" /\ AskedWell(u, release)
      /\ WorldWell /\ update \in [Jobs -> Asked]
  BY DEF UpdatesWell, Detect, Stage
<1>2. PICK reply \in Replies(m, u.chosen) :
         /\ Complete(u.chosen, reply.told)
         /\ IF u.verify
            THEN /\ Verified(j, Looked(j, reply))
                 /\ Answered(j, Preserved(Looked(j, reply), u.before), Heard(reply))
            ELSE IF u.op = "probe" THEN Answered(j, Looked(j, reply), Heard(reply))
            ELSE /\ update' = [update EXCEPT ![j].stage = "query",
                                             ![j].before = Looked(j, reply)]
                 /\ answer' = NoAnswer
  BY DEF Detect, Looked, Heard, Of
<1> DEFINE tools == Looked(j, reply)
<1>3. /\ tools \in [Ids -> Capabilities] /\ Heard(reply) \subseteq u.chosen
      /\ \A id \in Ids :
            /\ ~ tools[id].checked /\ ~ tools[id].available /\ tools[id].latest = Unset
            /\ id \in u.chosen => (tools[id].installed <=> id \in onPath[m])
            /\ id \notin u.chosen => ~ tools[id].installed /\ ~ tools[id].enabled
            /\ tools[id].version # Unset => tools[id].installed
            /\ tools[id].installed /\ id \in Heard(reply) =>
                  tools[id].version = tool[m][id]
  BY <1>2, LookedTells
<1>4. UNCHANGED <<onPath, tool, release, machine, call>>
  BY DEF Detect, vars, machine
<1> HIDE DEF tools
<1>5. CASE u.verify
  <2> DEFINE all == Preserved(tools, u.before)
  <2>1. /\ Verified(j, tools) /\ Answered(j, all, Heard(reply))
    BY <1>2, <1>5 DEF tools
  <2>2. /\ answer' = [op |-> u.op, at |-> m, id |-> u.id, chosen |-> u.chosen,
                      expected |-> u.before[u.id].latest,
                      heard |-> Heard(reply), tools |-> all]
        /\ update' = [update EXCEPT ![j] = NoUpdate]
    BY <1>5, <2>1 DEF Answered, Of, Expected
  <2>3. u.op = "upgrade" /\ u.id \in Ids
    BY <1>1, <1>5 DEF AskedWell
  <2>4. /\ tools[u.id].version # Unset
        /\ ~ (u.before[u.id].latest > tools[u.id].version)
    BY <2>1 DEF Verified, Expected, Of
  <2>5. \A id \in Ids : u.before[id] \in Capabilities /\ tools[id] \in Capabilities
    BY <1>1, <1>3 DEF Asked
  <2>6. \A id \in Ids :
           /\ all[id].installed = tools[id].installed
           /\ all[id].enabled = tools[id].enabled
           /\ all[id].available =>
                 /\ all[id].version = tools[id].version /\ all[id].version # Unset
                 /\ all[id].latest = u.before[id].latest
                 /\ all[id].latest # Unset /\ all[id].latest > all[id].version
    <3> SUFFICES ASSUME NEW id \in Ids
                 PROVE  /\ all[id].installed = tools[id].installed
                        /\ all[id].enabled = tools[id].enabled
                        /\ all[id].available =>
                              /\ all[id].version = tools[id].version
                              /\ all[id].version # Unset
                              /\ all[id].latest = u.before[id].latest
                              /\ all[id].latest # Unset
                              /\ all[id].latest > all[id].version
      OBVIOUS
    <3>1. u.before[id].latest \in Int /\ u.before[id].failed \in BOOLEAN
      BY <2>5 DEF Capabilities
    <3>2. CASE u.before[id].checked
      <4>1. all[id] = WithCheck(tools[id], u.before[id].latest, u.before[id].failed)
        BY <3>2 DEF Preserved
      <4> HIDE DEF all, u
      <4> QED BY <2>5, <3>1, <4>1, CheckTells
    <3>3. CASE ~ u.before[id].checked
      <4>1. all[id] = tools[id]
        BY <3>3 DEF Preserved
      <4> QED BY <1>3, <4>1
    <3> QED BY <3>2, <3>3
  <2> HIDE DEF all
  <2>7. UpdatesWell'
    BY <1>1, <1>4, <2>2, NoUpdateWell, QuestionGoesOn
  <2>8. u.id \in u.chosen /\ u.id \in onPath[m]
    BY <1>3, <2>3, <2>4
  <2>9. UpgradeIsVerified'
    <3>1. u.id \in Heard(reply) => tool[m][u.id] >= u.before[u.id].latest
      <4>1. u.before[u.id].latest \in Int /\ tools[u.id].version \in Int
        BY <2>3, <2>5 DEF Capabilities
      <4> QED BY <1>3, <2>3, <2>4, <4>1
    <3>2. ~ all[u.id].available
      <4>1. u.before[u.id].latest \in Int /\ tools[u.id].version \in Int
        BY <2>3, <2>5 DEF Capabilities
      <4> QED BY <2>3, <2>4, <2>6, <4>1
    <3> HIDE DEF u
    <3> QED BY <1>4, <2>2, <2>8, <3>1, <3>2 DEF UpgradeIsVerified, m
  <2>10. AnswersTellTheMachine'
    <3> SUFFICES ASSUME NEW id \in Ids
                 PROVE  /\ id \in u.chosen => (all[id].installed <=> id \in onPath[m])
                        /\ all[id].enabled => id \in u.chosen
                        /\ all[id].available =>
                              /\ all[id].installed /\ all[id].version < all[id].latest
                              /\ all[id].latest <= release[id]
      BY <1>4, <2>2 DEF AnswersTellTheMachine
    <3>1. all[id].available => all[id].installed /\ all[id].version < all[id].latest
      <4>1. u.before[id].latest \in Int /\ tools[id].version \in Int
        BY <2>5 DEF Capabilities
      <4> QED BY <1>3, <2>6, <4>1
    <3>2. all[id].available => all[id].latest <= release[id]
      BY <1>1, <2>6 DEF AskedWell
    <3> QED BY <1>3, <2>6, <3>1, <3>2
  <2> QED BY <2>7, <2>9, <2>10 DEF AnswersWell
<1>6. CASE ~ u.verify /\ u.op = "probe"
  <2>1. Answered(j, tools, Heard(reply))
    BY <1>2, <1>6 DEF tools
  <2>2. /\ answer' = [op |-> "probe", at |-> m, id |-> u.id, chosen |-> u.chosen,
                      expected |-> Unset, heard |-> Heard(reply), tools |-> tools]
        /\ update' = [update EXCEPT ![j] = NoUpdate]
    BY <1>6, <2>1 DEF Answered, Of
  <2>3. UpdatesWell'
    BY <1>1, <1>4, <2>2, NoUpdateWell, QuestionGoesOn
  <2>4. UpgradeIsVerified'
    BY <2>2 DEF UpgradeIsVerified
  <2>5. AnswersTellTheMachine'
    BY <1>3, <1>4, <2>2 DEF AnswersTellTheMachine
  <2> QED BY <2>3, <2>4, <2>5 DEF AnswersWell
<1>7. CASE ~ u.verify /\ u.op # "probe"
  <2> DEFINE v == [u EXCEPT !.stage = "query", !.before = tools]
  <2>1. update' = [update EXCEPT ![j].stage = "query", ![j].before = tools]
          /\ answer' = NoAnswer
    BY <1>2, <1>7 DEF tools
  <2>2. update' = [update EXCEPT ![j] = v]
    BY <1>1, <2>1
  <2>3. /\ v \in Asked /\ v.stage = "query" /\ v.op = u.op /\ v.verify = u.verify
        /\ v.id = u.id /\ v.chosen = u.chosen /\ v.before = tools
    BY <1>1, <1>3 DEF Asked
  <2>4. u.op \in {"check", "upgrade"}
    BY <1>1, <1>7 DEF Asked, AskedWell
  <2> HIDE DEF u, v
  <2>5. AskedWell(v, release)
    BY <1>1, <1>3, <1>7, <2>3, <2>4 DEF AskedWell
  <2>6. UpdatesWell'
    BY <1>1, <1>4, <2>2, <2>3, <2>5, QuestionGoesOn DEF u
  <2> QED BY <2>1, <2>6, NoAnswerWell
<1> QED BY <1>5, <1>6, <1>7

\* An answer of what the registry says now, or the decision to upgrade.
LEMMA QueryKeeps ==
  ASSUME UpdatesWell, NEW j \in Jobs, Query(j)
  PROVE  UpdatesWell' /\ AnswersWell'
<1> DEFINE u == update[j]
           m == u.at
<1>1. /\ u \in Asked /\ u.stage = "query" /\ AskedWell(u, release)
      /\ WorldWell /\ update \in [Jobs -> Asked] /\ call[j] = Runner!NoCall
  BY DEF UpdatesWell, Query, Stage
<1>2. PICK failed \in SUBSET {id \in Ids : u.before[id].installed} :
         IF u.op = "check"
         THEN Answered(j, WithChecks(u.before, failed), {}) /\ UNCHANGED call
         ELSE /\ update' = [update EXCEPT ![j].stage = "run",
                                         ![j].before = WithChecks(u.before, failed)]
              /\ Runner!Call(j)
              /\ answer' = NoAnswer
  BY DEF Query, Of
<1> DEFINE tools == WithChecks(u.before, failed)
<1>3. UNCHANGED <<vars, machine>> /\ release' = release
  BY DEF Query, machine
<1>4. \A id \in Ids :
         /\ tools[id] \in Capabilities
         /\ tools[id].enabled => id \in u.chosen
         /\ tools[id].latest # Unset => tools[id].latest <= release[id]
         /\ tools[id].available =>
               /\ tools[id].installed /\ tools[id].version < tools[id].latest
               /\ tools[id].latest # Unset
  <2> SUFFICES ASSUME NEW id \in Ids
               PROVE  /\ tools[id] \in Capabilities
                      /\ tools[id].enabled => id \in u.chosen
                      /\ tools[id].latest # Unset => tools[id].latest <= release[id]
                      /\ tools[id].available =>
                            /\ tools[id].installed /\ tools[id].version < tools[id].latest
                            /\ tools[id].latest # Unset
    OBVIOUS
  <2> DEFINE c == u.before[id]
             latest == LatestVersion(id, failed)
  <2>1. /\ c \in Capabilities /\ ~ c.available /\ (c.enabled => id \in u.chosen)
        /\ c.latest # Unset => c.latest <= release[id]
    BY <1>1 DEF Asked, AskedWell
  <2>2. latest \in Int /\ (latest # Unset => latest = release[id]) /\ release[id] \in Int
    BY <1>1 DEF LatestVersion, WorldWell, Unset
  <2>3. CASE c.installed
    <3>1. tools[id] = WithCheck(c, latest, id \in failed)
      BY <2>3 DEF WithChecks
    <3>2. PICK lost \in BOOLEAN : tools[id] = WithCheck(c, latest, lost)
      <4> HIDE DEF tools, c, latest
      <4>1. (id \in failed) \in BOOLEAN
        OBVIOUS
      <4> QED BY <3>1, <4>1
    <3> HIDE DEF tools, c, latest
    <3>3. /\ tools[id] \in Capabilities
          /\ tools[id].installed = c.installed /\ tools[id].version = c.version
          /\ tools[id].enabled = c.enabled /\ tools[id].latest = latest
          /\ tools[id].available => latest > c.version /\ latest # Unset
      BY <2>1, <2>2, <3>2, CheckTells
    <3>4. c.version \in Int
      BY <2>1 DEF Capabilities
    <3> QED BY <2>1, <2>2, <2>3, <3>3, <3>4
  <2>4. CASE ~ c.installed
    <3>1. tools[id] = c
      BY <2>4 DEF WithChecks
    <3> QED BY <2>1, <3>1
  <2> QED BY <2>3, <2>4
<1>5. tools \in [Ids -> Capabilities]
  BY <1>4 DEF WithChecks
<1> HIDE DEF tools
<1>6. CASE u.op = "check"
  <2>1. Answered(j, tools, {}) /\ UNCHANGED call
    BY <1>2, <1>6 DEF tools
  <2>2. /\ answer'.op = "check" /\ answer'.at = m /\ answer'.chosen = u.chosen
        /\ answer'.tools = tools
        /\ update' = [update EXCEPT ![j] = NoUpdate]
    BY <1>6, <2>1 DEF Answered, Of
  <2>3. UpdatesWell'
    BY <1>1, <1>3, <2>1, <2>2, NoUpdateWell, QuestionGoesOn
  <2>4. UpgradeIsVerified'
    BY <2>2 DEF UpgradeIsVerified
  <2>5. AnswersTellTheMachine'
    <3> SUFFICES ASSUME NEW id \in Ids
                 PROVE  /\ tools[id].enabled => id \in u.chosen
                        /\ tools[id].available =>
                              /\ tools[id].installed
                              /\ tools[id].version < tools[id].latest
                              /\ tools[id].latest <= release[id]
      BY <1>3, <2>2 DEF AnswersTellTheMachine
    <3> QED BY <1>4
  <2> QED BY <2>3, <2>4, <2>5 DEF AnswersWell
<1>7. CASE u.op # "check"
  <2> DEFINE v == [u EXCEPT !.stage = "run", !.before = tools]
  <2>1. /\ update' = [update EXCEPT ![j].stage = "run", ![j].before = tools]
        /\ Runner!Call(j) /\ answer' = NoAnswer
    BY <1>2, <1>7 DEF tools
  <2>2. update' = [update EXCEPT ![j] = v]
    BY <1>1, <2>1
  <2>3. /\ v \in Asked /\ v.stage = "run" /\ v.op = u.op /\ v.verify = u.verify
        /\ v.id = u.id /\ v.chosen = u.chosen /\ v.before = tools
    BY <1>1, <1>5 DEF Asked
  <2>4. u.op = "upgrade"
    BY <1>1, <1>7 DEF Asked, AskedWell
  <2>5. CallsWell' /\ \A k \in Jobs \ {j} : call'[k] = call[k]
    <3> DEFINE d == [Runner!NoCall EXCEPT !.stage = "create"]
    <3>1. Runner!Becomes(j, d)
      BY <2>1 DEF Runner!Call
    <3>2. d \in Calls /\ WellIn(d)
      BY DEF Runner!NoCall, Runner!Nothing, Runner!Streams, Calls, WellIn
    <3> HIDE DEF d
    <3>3. CallsWell
      BY DEF UpdatesWell
    <3>4. CallsWell'
      BY <3>1, <3>2, <3>3, CallGoesOn
    <3> QED BY <3>1, <3>3, <3>4 DEF Runner!Becomes, CallsWell
  <2>6. WorldWell'
    BY <1>1, <1>3 DEF WorldWell, machine
  <2> HIDE DEF u, v
  <2>7. AskedWell(v, release)
    BY <1>1, <1>4, <2>3, <2>4 DEF AskedWell
  <2>8. UpdatesWell'
    BY <1>3, <2>2, <2>3, <2>5, <2>6, <2>7, UpdateGoesOn
  <2> QED BY <2>1, <2>8, NoAnswerWell
<1> QED BY <1>6, <1>7

\* What the window and the upgrader do besides.
LEMMA QuestionKeeps ==
  ASSUME UpdatesWell, NEW j \in Jobs,
         \/ StartProbe(j) \/ QuestionFails(j)
         \/ \E op \in {"probe", "check", "upgrade"}, m \in Machines, id \in Ids :
               StartUpdate(j, op, m, id)
  PROVE  UpdatesWell' /\ AnswersWell'
<1> DEFINE u == update[j]
<1>1. u \in Asked /\ AskedWell(u, release) /\ update \in [Jobs -> Asked]
  BY DEF UpdatesWell
<1>2. CASE StartProbe(j)
  <2> DEFINE ids == {id \in Selection(u.at) : Supports(u.at, id)}
             v   == [u EXCEPT !.stage = "detect", !.chosen = ids]
  <2>1. /\ u.stage = "read" /\ answer' = NoAnswer /\ UNCHANGED <<machine, call>>
        /\ update' = [update EXCEPT ![j].stage = "detect", ![j].chosen = ids]
    BY <1>2 DEF StartProbe, Stage, Of
  <2>2. ids \in SUBSET Ids
    BY DEF Selection, Registered
  <2> HIDE DEF ids
  <2>3. update' = [update EXCEPT ![j] = v]
    BY <1>1, <2>1
  <2>4. /\ v \in Asked /\ v.stage = "detect" /\ v.op = u.op /\ v.verify = u.verify
        /\ v.id = u.id /\ v.before = u.before
    BY <1>1, <2>2 DEF Asked
  <2> HIDE DEF u, v
  <2>5. AskedWell(v, release)
    BY <1>1, <2>1, <2>4 DEF AskedWell
  <2>6. UpdatesWell'
    BY <2>1, <2>3, <2>4, <2>5, QuestionGoesOn DEF u
  <2> QED BY <2>1, <2>6, NoAnswerWell
<1>3. CASE QuestionFails(j)
  <2>1. /\ u.stage # "run" /\ answer' = NoAnswer /\ UNCHANGED <<machine, call>>
        /\ update' = [update EXCEPT ![j] = NoUpdate]
    BY <1>3 DEF QuestionFails, Of
  <2> QED BY <2>1, NoUpdateWell, QuestionGoesOn, NoAnswerWell
<1>4. ASSUME NEW op \in {"probe", "check", "upgrade"}, NEW m \in Machines, NEW id \in Ids,
             StartUpdate(j, op, m, id)
      PROVE  UpdatesWell' /\ AnswersWell'
  <2> DEFINE v == [NoUpdate EXCEPT !.stage = "read", !.op = op, !.at = m, !.id = id]
  <2>1. /\ u.stage = "idle" /\ answer' = NoAnswer /\ UNCHANGED <<machine, call>>
        /\ update' = [update EXCEPT ![j] = v]
    BY <1>4 DEF StartUpdate, Stage
  <2>2. NoUpdate \in Asked /\ AskedWell(NoUpdate, release) /\ ~ NoUpdate.verify
    BY NoUpdateWell DEF NoUpdate
  <2>3. /\ v \in Asked /\ v.stage = "read" /\ v.op = op /\ ~ v.verify
        /\ v.id = id /\ v.before = NoUpdate.before
    BY <2>2 DEF Asked
  <2> HIDE DEF v
  <2>4. AskedWell(v, release)
    BY <2>2, <2>3 DEF AskedWell
  <2> QED BY <2>1, <2>3, <2>4, QuestionGoesOn, NoAnswerWell
<1> QED BY <1>2, <1>3, <1>4

LEMMA CallOfOne ==
  ASSUME NEW j \in Jobs, CallsWell, NEW k, Runner!Becomes(j, k)
  PROVE  call'[j] = k /\ \A i \in Jobs \ {j} : call'[i] = call[i]
BY DEF CallsWell, Runner!Becomes

LEMMA OthersKeepTheirCall ==
  ASSUME NEW j \in Jobs, CallsWell,
         \/ Runner!RunnerSteps(j) \/ Runner!Return(j)
         \/ \E success \in BOOLEAN : Runner!Exits(j, success)
  PROVE  \A i \in Jobs \ {j} : call'[i] = call[i]
<1>1. \E k : Runner!Becomes(j, k)
  BY DEF Runner!RunnerSteps, Runner!CreateFiles, Runner!Spawn, Runner!SpawnFails,
     Runner!PollFindsExit, Runner!PollGivesUp, Runner!Terminate, Runner!Read,
     Runner!Writes, Runner!Return, Runner!Exits
<1> QED BY <1>1, CallOfOne

\* The machine of an upgrader, as it changes.
LEMMA WorldGrows ==
  ASSUME WorldWell, NEW m \in Machines, NEW id \in Ids, Upgraded(m, id),
         release' = release, orphans' \subseteq orphans
  PROVE  WorldWell'
<1>1. release[id] \in Int
  BY DEF WorldWell
<1> QED BY <1>1 DEF WorldWell, Upgraded

LEMMA UpgraderKeeps ==
  ASSUME UpdatesAssumption, UpdatesWell, NEW j \in Jobs,
         \/ UpgraderRuns(j) \/ UpgraderSucceeds(j) \/ UpgraderBreaks(j)
         \/ UpgraderReturns(j) \/ UpdateKilled(j)
  PROVE  UpdatesWell' /\ AnswersWell'
<1> DEFINE u == update[j]
           o == <<u.at, u.id>>
<1>1. /\ u \in Asked /\ AskedWell(u, release) /\ update \in [Jobs -> Asked]
      /\ WorldWell /\ CallsWell /\ call \in [Jobs -> Calls]
      /\ u.stage # "run" => call[j] = Runner!NoCall
      /\ update = [update EXCEPT ![j] = u]
  BY DEF UpdatesWell, CallsWell
<1>2. u.stage = "run" => u.id \in Ids /\ u.at \in Machines /\ u.op = "upgrade"
  BY <1>1 DEF AskedWell, Asked
<1>3. u.stage = "run" => o \in Machines \X Ids
  BY <1>2
<1>4. answer' = NoAnswer
  BY DEF UpgraderRuns, UpgraderSucceeds, UpgraderBreaks, UpgraderReturns, UpdateKilled
<1>5. CASE UpgraderRuns(j)
  <2>1. /\ u.stage = "run" /\ Runner!RunnerSteps(j)
        /\ orphans' \subseteq orphans \cup {o}
        /\ UNCHANGED <<tool, package, release, update>>
    BY <1>5 DEF UpgraderRuns, Stage, Of
  <2>2. WorldWell'
    BY <1>1, <1>3, <2>1 DEF WorldWell
  <2>3. CallsWell' /\ \A k \in Jobs \ {j} : call'[k] = call[k]
    BY <1>1, <2>1, StepsWell, OthersKeepTheirCall
  <2>4. update' = [update EXCEPT ![j] = u]
    BY <1>1, <2>1
  <2> QED BY <1>1, <1>4, <2>1, <2>2, <2>3, <2>4, UpdateGoesOn, NoAnswerWell
<1>6. CASE UpgraderSucceeds(j)
  <2>1. /\ u.stage = "run" /\ Runner!Exits(j, TRUE) /\ Upgraded(u.at, u.id)
        /\ UNCHANGED <<release, orphans, update>>
    BY <1>6 DEF UpgraderSucceeds, Stage, Of
  <2>2. WorldWell'
    BY <1>1, <1>2, <2>1, WorldGrows
  <2>3. CallsWell' /\ \A k \in Jobs \ {j} : call'[k] = call[k]
    BY <1>1, <2>1, ExitsWell, OthersKeepTheirCall
  <2>4. update' = [update EXCEPT ![j] = u]
    BY <1>1, <2>1
  <2> QED BY <1>1, <1>4, <2>1, <2>2, <2>3, <2>4, UpdateGoesOn, NoAnswerWell
<1>7. CASE UpgraderBreaks(j)
  <2>1. /\ u.stage = "run" /\ Runner!Exits(j, FALSE)
        /\ UNCHANGED <<tool, package, release, orphans, update>>
    BY <1>7 DEF UpgraderBreaks, Stage, machine
  <2>2. WorldWell'
    BY <1>1, <2>1 DEF WorldWell
  <2>3. CallsWell' /\ \A k \in Jobs \ {j} : call'[k] = call[k]
    BY <1>1, <2>1, ExitsWell, OthersKeepTheirCall
  <2>4. update' = [update EXCEPT ![j] = u]
    BY <1>1, <2>1
  <2> QED BY <1>1, <1>4, <2>1, <2>2, <2>3, <2>4, UpdateGoesOn, NoAnswerWell
<1>8. CASE UpgraderReturns(j)
  <2> DEFINE again == [u EXCEPT !.stage = "read", !.verify = TRUE]
  <2>1. /\ u.stage = "run" /\ Runner!Becomes(j, Runner!NoCall)
        /\ UNCHANGED <<tool, package, release, orphans>>
        /\ \/ update' = [update EXCEPT ![j] = again]
           \/ update' = [update EXCEPT ![j] = NoUpdate]
    BY <1>8 DEF UpgraderReturns, Stage, machine, Runner!Return
  <2>2. WorldWell'
    BY <1>1, <2>1 DEF WorldWell
  <2>3. /\ CallsWell' /\ call'[j] = Runner!NoCall
        /\ \A k \in Jobs \ {j} : call'[k] = call[k]
    BY <1>1, <2>1, NoCallWell, CallGoesOn, CallOfOne
  <2>4. /\ again \in Asked /\ again.stage = "read" /\ again.op = "upgrade"
        /\ again.id = u.id /\ again.before = u.before
    BY <1>1, <1>2, <2>1 DEF Asked
  <2> HIDE DEF again, u
  <2>5. AskedWell(again, release)
    BY <1>1, <1>2, <2>1, <2>4 DEF AskedWell
  <2>6. UpdatesWell'
    BY <2>1, <2>2, <2>3, <2>4, <2>5, NoUpdateWell, UpdateGoesOn
  <2> QED BY <1>4, <2>6, NoAnswerWell
<1>9. CASE UpdateKilled(j)
  <2>1. /\ orphans' = IF call[j].child = "running" THEN orphans \cup {o} ELSE orphans
        /\ UNCHANGED <<tool, package, release>>
        /\ update' = [update EXCEPT ![j] = NoUpdate]
        /\ Runner!Becomes(j, Runner!NoCall)
    BY <1>9 DEF UpdateKilled, Of, Runner!Becomes
  <2>2. call[j].child = "running" => u.stage = "run"
    BY <1>1 DEF Runner!NoCall
  <2>3. WorldWell'
    BY <1>1, <1>3, <2>1, <2>2 DEF WorldWell
  <2>4. /\ CallsWell' /\ call'[j] = Runner!NoCall
        /\ \A k \in Jobs \ {j} : call'[k] = call[k]
    BY <1>1, <2>1, NoCallWell, CallGoesOn, CallOfOne
  <2>5. UpdatesWell'
    BY <2>1, <2>3, <2>4, NoUpdateWell, UpdateGoesOn
  <2> QED BY <1>4, <2>5, NoAnswerWell
<1> QED BY <1>5, <1>6, <1>7, <1>8, <1>9

\* The registry only goes on.
LEMMA WorldKeeps ==
  ASSUME UpdatesAssumption, UpdatesWell, WorldChanges
  PROVE  UpdatesWell' /\ AnswersWell'
<1>1. answer' = NoAnswer /\ UNCHANGED <<update, call>>
  BY DEF WorldChanges
<1>2. WorldWell /\ release \in [Ids -> Int]
  BY DEF UpdatesWell, WorldWell
<1>3. WorldWell' /\ \A id \in Ids : release[id] <= release'[id]
  <2>1. ASSUME NEW id \in Packaged, release' = [release EXCEPT ![id] = @ + 1],
               UNCHANGED <<tool, package, orphans>>
        PROVE  WorldWell' /\ \A i \in Ids : release[i] <= release'[i]
    <3>1. id \in Ids /\ release[id] \in Int
      BY <1>2 DEF UpdatesAssumption
    <3>2. release' \in [Ids -> Int] /\ \A i \in Ids : release[i] <= release'[i]
      BY <1>2, <2>1, <3>1
    <3> QED BY <1>2, <2>1, <3>2 DEF WorldWell
  <2>2. ASSUME NEW o \in orphans, Upgraded(o[1], o[2]), orphans' = orphans \ {o},
               UNCHANGED release
        PROVE  WorldWell' /\ \A i \in Ids : release[i] <= release'[i]
    <3>1. o[1] \in Machines /\ o[2] \in Ids
      BY <1>2 DEF WorldWell
    <3>2. WorldWell'
      BY <1>2, <2>2, <3>1, WorldGrows
    <3> QED BY <1>2, <2>2, <3>2
  <2> QED BY <2>1, <2>2 DEF WorldChanges
<1>4. ASSUME NEW j \in Jobs PROVE AskedWell(update[j], release')
  <2>1. AskedWell(update[j], release) /\ update[j] \in Asked
    BY DEF UpdatesWell
  <2>2. \A id \in Ids : /\ update[j].before[id].latest \in Int
                        /\ release[id] \in Int /\ release'[id] \in Int
    BY <1>2, <1>3, <2>1 DEF Asked, Capabilities, WorldWell
  <2>3. \A id \in Ids : update[j].before[id].latest # Unset =>
                           update[j].before[id].latest <= release'[id]
    BY <1>3, <2>1, <2>2 DEF AskedWell
  <2> QED BY <2>1, <2>3 DEF AskedWell
<1>5. UpdatesWell'
  BY <1>1, <1>3, <1>4 DEF UpdatesWell, CallsWell
<1> QED BY <1>1, <1>5, NoAnswerWell

LEMMA SelectionKeepsUpdates ==
  ASSUME UpdatesWell, SelectionGoesOn
  PROVE  UpdatesWell' /\ AnswersWell'
<1>1. /\ answer' = NoAnswer /\ UNCHANGED <<package, release, orphans, update, call>>
      /\ tool' = [m \in Machines |-> [id \in Ids |->
                     IF id \in onPath'[m] \ onPath[m] THEN release[id] ELSE tool[m][id]]]
  BY DEF SelectionGoesOn
<1>2. tool' \in [Machines -> [Ids -> Int]]
  BY <1>1 DEF UpdatesWell, WorldWell
<1>3. WorldWell'
  BY <1>1, <1>2 DEF UpdatesWell, WorldWell
<1>4. UpdatesWell'
  BY <1>1, <1>3 DEF UpdatesWell, CallsWell
<1> QED BY <1>1, <1>4, NoAnswerWell

LEMMA InitUpdates ==
  ASSUME UpdatesAssumption, UpdatesInit
  PROVE  UpdatesWell /\ AnswersWell
<1>1. WorldWell
  BY DEF UpdatesInit, WorldWell, UpdatesAssumption, Unset
<1>2. CallsWell /\ \A j \in Jobs : call[j] = Runner!NoCall
  BY NoCallWell DEF UpdatesInit, Runner!RunnerInit, CallsWell
<1>3. update \in [Jobs -> Asked] /\ \A j \in Jobs : AskedWell(update[j], release)
  BY NoUpdateWell DEF UpdatesInit
<1>4. AnswersWell
  BY DEF UpdatesInit, AnswersWell, UpgradeIsVerified, AnswersTellTheMachine, NoAnswer,
     NoCapability
<1> QED BY <1>1, <1>2, <1>3, <1>4 DEF UpdatesWell

LEMMA UpdatesStayWell ==
  ASSUME UpdatesAssumption, UpdatesWell, AnswersWell, [UpdatesNext]_<<vars, updates>>
  PROVE  UpdatesWell' /\ AnswersWell'
<1>1. CASE UNCHANGED <<vars, updates>>
  <2>1. UNCHANGED <<onPath, tool, package, release, orphans, update, answer, call>>
          /\ UNCHANGED <<config, imported, prefs, servers>>
    BY <1>1 DEF vars, stored, updates, machine
  <2>2. UpdatesWell'
    BY <2>1 DEF UpdatesWell, WorldWell, CallsWell
  <2>3. UpgradeIsVerified'
    BY <2>1 DEF AnswersWell, UpgradeIsVerified
  <2>4. AnswersTellTheMachine'
    BY <2>1 DEF AnswersWell, AnswersTellTheMachine, LaunchAllowed, Selection, Bundled,
       Registered, BundledIsActive, Active, Versions
  <2> QED BY <2>2, <2>3, <2>4 DEF AnswersWell
<1>2. CASE UpdatesNext
  BY <1>2, SelectionKeepsUpdates, QuestionKeeps, DetectKeeps, QueryKeeps, UpgraderKeeps,
     WorldKeeps DEF UpdatesNext
<1> QED BY <1>1, <1>2

-----------------------------------------------------------------------------
(* The theorems.                                                           *)

LEMMA Invariance == Spec \/ UpdatesSpec => [](IInv /\ Memory)
<1>1. Init => IInv /\ Memory
  BY SelectionAssumption, InitInv, InitMemory
<1>2. UpdatesInit => IInv /\ Memory
  BY <1>1 DEF UpdatesInit
<1>3. IInv /\ Memory /\ [Next]_vars => (IInv /\ Memory)'
  BY SelectionAssumption, NextKeeps, NextRemembers
<1>4. IInv /\ Memory /\ [UpdatesNext]_<<vars, updates>> => (IInv /\ Memory)'
  BY SelectionAssumption, UpdatesKeep
<1> QED BY <1>1, <1>2, <1>3, <1>4, PTL DEF Spec, UpdatesSpec

\* The version that the config asks for has a manifest, however commands of
\* the window and of the CLI interleave, fail and are killed.
THEOREM ActiveVersionStaysInstalled ==
  Spec \/ UpdatesSpec => []ActiveVersionIsInstalled
<1>1. IInv => ActiveVersionIsInstalled
  BY DEF IInv
<1> QED BY <1>1, Invariance, PTL

\* config::update: a commit keeps all that it was not asked to change, since
\* what it has read under the lock is the config it overwrites.
THEOREM UpdatesAreKept == Spec \/ UpdatesSpec => NoUpdateIsLost
<1> DEFINE Kept ==
      \A j \in Jobs : Commit(j) =>
          /\ config.settings \subseteq config'.settings
          /\ \A id \in Ids \ {Cmd(j).id} :
                /\ config'.active[id] = config.active[id]
                /\ config.explicit => (id \in config'.enabled <=> id \in config.enabled)
          /\ config.explicit => config'.explicit
          /\ Cmd(j).op = "set" => config'.active = config.active
          /\ Cmd(j).op /= "set" => config'.enabled = config.enabled
<1>1. ASSUME IInv PROVE Kept
  <2> SUFFICES ASSUME NEW j \in Jobs, Commit(j)
               PROVE  /\ config.settings \subseteq config'.settings
                      /\ \A id \in Ids \ {Cmd(j).id} :
                            /\ config'.active[id] = config.active[id]
                            /\ config.explicit => (id \in config'.enabled <=> id \in config.enabled)
                      /\ config.explicit => config'.explicit
                      /\ Cmd(j).op = "set" => config'.active = config.active
                      /\ Cmd(j).op /= "set" => config'.enabled = config.enabled
    OBVIOUS
  <2> DEFINE c == Cmd(j)
  <2>1. /\ c \in Commands /\ SoundIn(c) /\ c.stage = "commit"
        /\ config \in Configs /\ config' = Mutated(c, config)
    BY <1>1, GoingOn DEF Commit, At, IInv, TypeInv, LockGuards
  <2>2. c.op \in {"set", "switch", "setting"}
    BY <2>1 DEF SoundIn, Commands
  <2> HIDE DEF c
  <2>3. CASE c.op = "set"
    <3>1. config' = [config EXCEPT !.explicit = TRUE,
                        !.enabled = (SelectedIds(config, c.default) \ {c.id})
                                      \cup (IF c.on THEN {c.id} ELSE {})]
      BY <2>1, <2>3 DEF Mutated
    <3>2. /\ config'.settings = config.settings /\ config'.active = config.active
          /\ config'.explicit
          /\ config'.enabled = (SelectedIds(config, c.default) \ {c.id})
                                 \cup (IF c.on THEN {c.id} ELSE {})
      BY <2>1, <3>1 DEF Configs
    <3>3. \A id \in Ids \ {c.id} :
             config.explicit => (id \in config'.enabled <=> id \in config.enabled)
      BY <3>2 DEF SelectedIds
    <3> QED BY <2>3, <3>2, <3>3 DEF c
  <2>4. CASE c.op = "switch"
    <3>1. config' = [config EXCEPT !.active[c.id] = c.version]
      BY <2>1, <2>4 DEF Mutated
    <3>2. /\ config'.settings = config.settings /\ config'.explicit = config.explicit
          /\ config'.enabled = config.enabled
          /\ config'.active = [config.active EXCEPT ![c.id] = c.version]
      BY <2>1, <3>1 DEF Configs
    <3>3. \A id \in Ids \ {c.id} : config'.active[id] = config.active[id]
      BY <2>1, <3>2 DEF Configs
    <3> QED BY <2>4, <3>2, <3>3 DEF c
  <2>5. CASE c.op = "setting"
    <3> DEFINE more == config.settings \cup c.setting
    <3>1. config' = [config EXCEPT !.settings = more]
      BY <2>1, <2>5 DEF Mutated
    <3>2. config.settings \subseteq more
      OBVIOUS
    <3> HIDE DEF more
    <3>3. /\ config'.settings = more /\ config'.explicit = config.explicit
          /\ config'.enabled = config.enabled /\ config'.active = config.active
      BY <2>1, <3>1 DEF Configs
    <3> QED BY <2>5, <3>2, <3>3 DEF c
  <2> QED BY <2>2, <2>3, <2>4, <2>5
<1>2. IInv => [Kept]_vars
  BY <1>1
<1>3. [][Kept]_vars <=> NoUpdateIsLost
  BY PTL DEF NoUpdateIsLost
<1> QED BY <1>2, <1>3, Invariance, PTL
\* set_tui_enabled and install_tui: when the tool is not found afterwards, the
\* selection of the machine becomes what it was before, unless another command
\* came between.
THEOREM FailedChangesAreUndone == Spec \/ UpdatesSpec => FailedChangeIsUndone
<1> DEFINE Undone ==
      \A j \in Jobs, m \in Machines :
          /\ Cmd(j).undo /\ Cmd(j).alone /\ Cmd(j).at = m
          /\ Commit(j) \/ SelectRemote(j)
          => Selection(m)' = Cmd(j).before
<1>1. ASSUME IInv, Memory PROVE Undone
  <2> SUFFICES ASSUME NEW j \in Jobs, NEW m \in Machines,
                      Cmd(j).undo, Cmd(j).alone, Cmd(j).at = m,
                      Commit(j) \/ SelectRemote(j)
               PROVE  Selection(m)' = Cmd(j).before
    OBVIOUS
  <2>1. /\ Cmd(j).op = "set" /\ Cmd(j).before \subseteq Registered
        /\ Cmd(j).on <=> Cmd(j).id \in Cmd(j).before
    BY <1>1 DEF Memory, Remembers
  <2>2. /\ \A x \in Ids \ {Cmd(j).id} : x \in Selection(m)' <=> x \in Cmd(j).before
        /\ Cmd(j).id \in Selection(m)' <=> Cmd(j).on /\ Cmd(j).id \in Registered
    <3>1. CASE Commit(j)
      BY <1>1, <2>1, <3>1, SelectionAssumption, CommitRemembers
    <3>2. CASE SelectRemote(j)
      BY <1>1, <3>2, SelectionAssumption, SelectRemoteRemembers
    <3> QED BY <3>1, <3>2
  <2>3. Cmd(j).before \subseteq Ids /\ Selection(m)' \subseteq Ids
    BY <2>1 DEF Registered, Selection
  <2> QED BY <2>1, <2>2, <2>3
<1>2. IInv /\ Memory => [Undone]_vars
  BY <1>1
<1>3. [][Undone]_vars <=> FailedChangeIsUndone
  BY PTL DEF FailedChangeIsUndone
<1> QED BY <1>2, <1>3, Invariance, PTL
LEMMA UpdatesInvariance == UpdatesSpec => [](UpdatesWell /\ AnswersWell)
<1>1. UpdatesInit => UpdatesWell /\ AnswersWell
  BY UpdatesAssumption, InitUpdates
<1>2. UpdatesWell /\ AnswersWell /\ [UpdatesNext]_<<vars, updates>>
        => (UpdatesWell /\ AnswersWell)'
  BY UpdatesAssumption, UpdatesStayWell
<1> QED BY <1>1, <1>2, PTL DEF UpdatesSpec

\* upgrade_tui: an upgrade that is reported done has left on the machine at
\* least the version it was decided on for, whatever the registry and other
\* commands did meanwhile.
THEOREM UpgradesAreVerified == UpdatesSpec => []UpgradeIsVerified
<1>1. UpdatesWell /\ AnswersWell => UpgradeIsVerified
  BY DEF AnswersWell
<1> QED BY <1>1, UpdatesInvariance, PTL

\* probe_tui_capabilities and check_tui_updates: an answer says what is on the
\* machine, and offers nothing that is not newer and in the registry.
THEOREM AnswersAreTrue == UpdatesSpec => []AnswersTellTheMachine
<1>1. UpdatesWell /\ AnswersWell => AnswersTellTheMachine
  BY DEF AnswersWell
<1> QED BY <1>1, UpdatesInvariance, PTL

\* output_with_timeout_limited: no child and no file is left when a call is
\* over, and one without an error has read all that the child wrote.
THEOREM CallsAreClean == UpdatesSpec => []CallsEndClean
<1>1. UpdatesWell /\ AnswersWell => CallsEndClean
  BY DEF UpdatesWell, CallsWell, WellIn, CleanEnd, CallsEndClean, Runner!CallsEndClean,
     Runner!In
<1> QED BY <1>1, UpdatesInvariance, PTL
=============================================================================
