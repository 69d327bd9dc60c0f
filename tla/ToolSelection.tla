---------------------------- MODULE ToolSelection ----------------------------
(***************************************************************************)
(* Which AI tools are used on which machine, and by which version of their *)
(* adapter: config.json (the selection of this machine, the active version *)
(* of every adapter, settings of the CLI), the adapter manifests installed *)
(* below ~/.sessionatlas/adapters, and the machine_tui_preferences of the  *)
(* servers in prefs.db.                                                    *)
(*                                                                         *)
(* The commands that change them run on blocking threads of the window, and*)
(* as CLI processes: they read the config and the manifests, run installers*)
(* and probes for minutes, and change config.json under a lock file.  Each *)
(* can be killed, with the process it is in, between two steps.            *)
(*                                                                         *)
(* Versions are numbers, 1 the one that is compiled in.  The contents of a *)
(* manifest are left out: that an import finds the version installed with  *)
(* other contents is one of the ways it fails.                             *)
(***************************************************************************)
EXTENDS Integers, FiniteSets, FiniteSetsExt

CONSTANTS Jobs,         \* threads and processes that run a command
          NoJob,
          Official,     \* ids with a manifest that is compiled in
          Extensions,   \* other ids there are manifests of
          Servers,
          Settings,     \* what the CLI sets: keys of custom tools, the terminal
          MaxVersion,   \* bound: versions
          MaxCommands   \* bound: commands ever started

Ids      == Official \cup Extensions
Local    == "local"
Machines == {Local} \cup Servers
Unset    == 0

ASSUME SelectionAssumption ==
    /\ NoJob \notin Jobs
    /\ Official \cap Extensions = {}
    /\ Local \notin Servers
    /\ MaxVersion \in Nat
    /\ MaxCommands \in Nat

VARIABLES
    config,     \* config.json
    lock,       \* holder of config.json.lock, or NoJob
    imported,   \* imported[id]: versions with a manifest on disk
    prefs,      \* prefs[s][id]: "default", "on" or "off"
    servers,    \* remote_servers
    onPath,     \* onPath[m]: tools whose command is found on m
    job,        \* job[j]: the command that j runs
    started     \* commands started

stored == <<config, imported, prefs, servers>>
vars   == <<stored, lock, onPath, job, started>>

-----------------------------------------------------------------------------
(* The registry: AdapterRegistry::from_candidates.                         *)

Versions(id) == imported[id] \cup (IF id \in Official THEN {1} ELSE {})
Registered   == {id \in Ids : Versions(id) /= {}}

\* The version asked for if it is installed, else the one compiled in, else
\* the newest.
Active(id) ==
    IF config.active[id] \in Versions(id) THEN config.active[id]
    ELSE IF id \in Official THEN 1
    ELSE Max(Versions(id))

Newest(id) == Max(Versions(id))
Older(id)  == {v \in Versions(id) : v < Active(id)}

\* AdapterSource::Bundled: a manifest on disk never hides one of its version.
BundledIsActive(id) == id \in Official /\ Active(id) = 1
Bundled == {id \in Registered : BundledIsActive(id)}

\* A slip: a config that names no adapters is one that selects none.
SelectedIdsNone(c, default) == c.enabled

\* selected_adapter_ids, of a config and the ids taken if it names none.
SelectedIds(c, default) == IF c.explicit THEN c.enabled ELSE default

\* adapter_selected, of every adapter.
Selection(m) ==
    IF m = Local
    THEN {id \in Registered : IF config.explicit THEN id \in config.enabled
                              ELSE id \in Bundled}
    ELSE {id \in Registered : \/ prefs[m][id] = "on"
                              \/ prefs[m][id] = "default" /\ id \in Bundled}

-----------------------------------------------------------------------------
Idle ==
    [stage |-> "idle", op |-> "none", at |-> Local, id |-> CHOOSE i \in Ids : TRUE,
     on |-> FALSE, version |-> Unset, setting |-> {}, undo |-> FALSE,
     default |-> {}, before |-> {}, alone |-> TRUE]

NoConfig ==
    [explicit |-> FALSE, enabled |-> {}, active |-> [id \in Ids |-> Unset],
     settings |-> {}]

Init ==
    /\ config = NoConfig        \* a missing file reads as this
    /\ lock = NoJob
    /\ imported = [id \in Ids |-> {}]
    /\ prefs = [s \in Servers |-> [id \in Ids |-> "default"]]
    /\ servers = Servers
    /\ onPath \in {[m \in Machines |-> {}], [m \in Machines |-> Ids]}
    /\ job = [j \in Jobs |-> [command |-> Idle, read |-> NoConfig]]
    /\ started = 0

Cmd(j) == job[j].command
At(j, stage) == Cmd(j).stage = stage

\* Every other command that runs has been interfered with.
Disturbed(jobs, j) ==
    [k \in Jobs |-> IF k = j \/ jobs[k].command.stage = "idle" THEN jobs[k]
                    ELSE [jobs[k] EXCEPT !.command.alone = FALSE]]

Begins(j, c) ==
    /\ At(j, "idle")
    /\ started < MaxCommands
    /\ started' = started + 1
    /\ job' = [job EXCEPT ![j].command = c]
    /\ UNCHANGED <<stored, lock, onPath>>

GoesTo(j, stage) == [job EXCEPT ![j].command.stage = stage]
Ended(j) == [job EXCEPT ![j] = [command |-> Idle, read |-> NoConfig]]

(* Commands read config and registry and make sure that they can be done.  *)

\* set_tui_enabled.
StartSet(j, m, id, on) ==
    /\ id \in Registered
    /\ on /\ m = Local => id \in onPath[Local]
    /\ Begins(j, [Idle EXCEPT !.stage = "select", !.op = "set", !.at = m,
                              !.id = id, !.on = on, !.before = Selection(m)])

\* install_tui.
StartInstall(j, m, id) ==
    /\ id \in Registered
    /\ Begins(j, [Idle EXCEPT !.stage = "install", !.op = "set", !.at = m,
                              !.id = id, !.on = TRUE, !.before = Selection(m)])

\* install_tui_adapter: install_manifest_upgrade_file takes newer ones only.
StartImport(j, id, v) ==
    /\ id \in Registered => v > Active(id)
    /\ Begins(j, [Idle EXCEPT !.stage = "persist", !.op = "switch", !.id = id,
                              !.version = v])

\* activate_tui_adapter_update.
StartActivate(j, id) ==
    /\ id \in Registered
    /\ Newest(id) > Active(id)
    /\ Begins(j, [Idle EXCEPT !.stage = "lock", !.op = "switch", !.id = id,
                              !.version = Newest(id)])

\* rollback_tui_adapter.
StartRollback(j, id) ==
    /\ id \in Registered
    /\ Older(id) /= {}
    /\ Begins(j, [Idle EXCEPT !.stage = "lock", !.op = "switch", !.id = id,
                              !.version = Max(Older(id))])

\* sessionatlas config add-tool and set-default-terminal.
StartSetting(j, s) ==
    Begins(j, [Idle EXCEPT !.stage = "lock", !.op = "setting", !.setting = {s}])

-----------------------------------------------------------------------------
(* config::update: the lock, the latest config, the mutation, the rename.  *)

\* A slip: the lock file is opened and not locked.
LockShared(j) ==
    /\ At(j, "lock")
    /\ lock' = j
    /\ job' = [job EXCEPT ![j].command.stage = "commit", ![j].read = config]
    /\ UNCHANGED <<stored, onPath, started>>

Lock(j) ==
    /\ At(j, "lock")
    /\ lock = NoJob
    /\ lock' = j
    /\ job' = [job EXCEPT ![j].command.stage = "commit", ![j].read = config]
    /\ UNCHANGED <<stored, onPath, started>>

\* The closures that the commands give to update.
Mutated(c, read) ==
    CASE c.op = "set" ->
           [read EXCEPT !.explicit = TRUE,
                        !.enabled = (SelectedIds(read, c.default) \ {c.id})
                                      \cup (IF c.on THEN {c.id} ELSE {})]
      [] c.op = "switch"  -> [read EXCEPT !.active[c.id] = c.version]
      [] c.op = "setting" -> [read EXCEPT !.settings = @ \cup c.setting]

AfterSelection(j) ==
    IF Cmd(j).op = "set" /\ ~Cmd(j).undo THEN GoesTo(j, "probe") ELSE Ended(j)

Commit(j) ==
    /\ At(j, "commit")
    /\ config' = Mutated(Cmd(j), job[j].read)
    /\ lock' = NoJob
    /\ job' = Disturbed(AfterSelection(j), j)
    /\ UNCHANGED <<imported, prefs, servers, onPath, started>>

\* Busy, or the temporary file cannot be written or renamed.
UpdateFails(j) ==
    /\ At(j, "lock") \/ At(j, "commit")
    /\ lock' = IF lock = j THEN NoJob ELSE lock
    /\ job' = Ended(j)
    /\ UNCHANGED <<stored, onPath, started>>

-----------------------------------------------------------------------------
(* set_tui_enabled and install_tui.                                        *)

InstallerSucceeds(j) ==
    /\ At(j, "install")
    /\ Cmd(j).at \in {Local} \cup servers
    /\ \E found \in {{}, {Cmd(j).id}} :
          onPath' = [onPath EXCEPT ![Cmd(j).at] = @ \cup found]
    /\ job' = GoesTo(j, "select")
    /\ UNCHANGED <<stored, lock, started>>

InstallerFails(j) ==
    /\ At(j, "install")
    /\ job' = Ended(j)
    /\ UNCHANGED <<stored, lock, onPath, started>>

\* write_local_adapter_selection reads the registry before update locks.
SelectLocal(j) ==
    /\ At(j, "select")
    /\ Cmd(j).at = Local
    /\ job' = [job EXCEPT ![j].command.stage = "lock", ![j].command.default = Bundled]
    /\ UNCHANGED <<stored, lock, onPath, started>>

\* write_tui_preference, which does not ask for the server.
SelectRemote(j) ==
    /\ At(j, "select")
    /\ Cmd(j).at /= Local
    /\ prefs' = [prefs EXCEPT ![Cmd(j).at][Cmd(j).id] =
                    IF Cmd(j).on THEN "on" ELSE "off"]
    /\ job' = Disturbed(AfterSelection(j), j)
    /\ UNCHANGED <<config, imported, servers, lock, onPath, started>>

\* Only what is selected is looked for.
Detected(m, id) == id \in onPath[m] /\ id \in Selection(m)

ProbeSucceeds(j) ==
    /\ At(j, "probe")
    /\ Cmd(j).at \in {Local} \cup servers
    /\ Cmd(j).on => Detected(Cmd(j).at, Cmd(j).id)
    /\ job' = Ended(j)
    /\ UNCHANGED <<stored, lock, onPath, started>>

\* The probe ends with an error, also that the server is gone, or does not
\* find what was to be switched on: the earlier selection is written back.
ProbeFails(j) ==
    /\ At(j, "probe")
    /\ job' = [job EXCEPT ![j].command.stage = "select",
                          ![j].command.undo = TRUE,
                          ![j].command.on = Cmd(j).id \in Cmd(j).before]
    /\ UNCHANGED <<stored, lock, onPath, started>>

-----------------------------------------------------------------------------
(* install_tui_adapter: persist_manifest_document, then update.            *)

Persist(j) ==
    /\ At(j, "persist")
    /\ imported' = [imported EXCEPT ![Cmd(j).id] = @ \cup {Cmd(j).version}]
    /\ job' = Disturbed(GoesTo(j, "lock"), j)
    /\ UNCHANGED <<config, prefs, servers, lock, onPath, started>>

\* A slip: the config is changed although the manifest was not written.
PersistFailsUnseen(j) ==
    /\ At(j, "persist")
    /\ job' = GoesTo(j, "lock")
    /\ UNCHANGED <<stored, lock, onPath, started>>

\* Not a safe file, installed with other contents, or not to be written.
PersistFails(j) ==
    /\ At(j, "persist")
    /\ job' = Ended(j)
    /\ UNCHANGED <<stored, lock, onPath, started>>

-----------------------------------------------------------------------------
(* What else happens.                                                      *)

\* The process is killed; the lock goes with it.
Killed(j) ==
    /\ ~At(j, "idle")
    /\ lock' = IF lock = j THEN NoJob ELSE lock
    /\ job' = Ended(j)
    /\ UNCHANGED <<stored, onPath, started>>

\* delete_remote_server.
DeleteServer(s) ==
    /\ s \in servers
    /\ servers' = servers \ {s}
    /\ prefs' = [prefs EXCEPT ![s] = [id \in Ids |-> "default"]]
    /\ job' = Disturbed(job, NoJob)
    /\ UNCHANGED <<config, imported, lock, onPath, started>>

CommandStarts(j) ==
    \/ \E id \in Ids, m \in Machines :
          StartInstall(j, m, id) \/ \E on \in BOOLEAN : StartSet(j, m, id, on)
    \/ \E id \in Ids :
          \/ StartActivate(j, id) \/ StartRollback(j, id)
          \/ \E v \in 1 .. MaxVersion : StartImport(j, id, v)
    \/ \E s \in Settings : StartSetting(j, s)

CommandGoesOn(j) ==
    \/ Lock(j) \/ Commit(j) \/ UpdateFails(j)
    \/ InstallerSucceeds(j) \/ InstallerFails(j)
    \/ SelectLocal(j) \/ SelectRemote(j) \/ ProbeSucceeds(j) \/ ProbeFails(j)
    \/ Persist(j) \/ PersistFails(j)

Next ==
    \/ \E j \in Jobs : CommandStarts(j) \/ CommandGoesOn(j) \/ Killed(j)
    \/ \E s \in Servers : DeleteServer(s)

Spec == Init /\ [][Next]_vars

-----------------------------------------------------------------------------
(* Properties.                                                             *)

\* The version that the config asks for has a manifest, whatever process was
\* killed and whatever write failed on the way.
ActiveVersionIsInstalled ==
    \A id \in Ids : config.active[id] \in {Unset} \cup Versions(id)

\* A change of config.json keeps what every other command has put there since
\* this one read it: other adapters' selections and versions, CLI settings.
NoUpdateIsLost ==
    [][\A j \in Jobs : Commit(j) =>
          /\ config.settings \subseteq config'.settings
          /\ \A id \in Ids \ {Cmd(j).id} :
                /\ config'.active[id] = config.active[id]
                /\ config.explicit => (id \in config'.enabled <=> id \in config.enabled)
          /\ config.explicit => config'.explicit
          /\ Cmd(j).op = "set" => config'.active = config.active
          /\ Cmd(j).op /= "set" => config'.enabled = config.enabled]_vars

\* When a tool that was switched on or off, or installed, is not found or not
\* reached, and no other command came between, every tool of the machine is
\* selected or not as before.
FailedChangeIsUndone ==
    [][\A j \in Jobs, m \in Machines :
          /\ Cmd(j).undo /\ Cmd(j).alone /\ Cmd(j).at = m
          /\ Commit(j) \/ SelectRemote(j)
          => Selection(m)' = Cmd(j).before]_vars
=============================================================================
