----------------------------- MODULE ToolUpdates -----------------------------
(***************************************************************************)
(* What the window finds on a machine: which tools are installed and in    *)
(* which version, whether the registry of their package manager has a      *)
(* newer one, and the upgrade of a tool with its package manager.  These   *)
(* commands share the blocking threads, the config and the preferences of  *)
(* ToolSelection with the commands that change them; while they run the    *)
(* machine changes too.  A remote machine is asked with one script over    *)
(* ssh.                                                                    *)
(*                                                                         *)
(* Versions of tools are numbers.  The upgrader runs in ProcessRunner; the *)
(* programs that only answer a question are one step each.                 *)
(***************************************************************************)
EXTENDS ToolSelection

CONSTANTS Packaged,     \* ids whose manifest names a manager and a package
          Unsupported,  \* <<m, id>>: the manifest of id excludes m
          MaxRelease,   \* bound: versions of tools
          Limit         \* what a program may write, see ProcessRunner

ASSUME UpdatesAssumption ==
    /\ Packaged \subseteq Ids
    /\ Unsupported \subseteq Machines \X Ids
    /\ MaxRelease \in Nat
    /\ Limit \in Nat

VARIABLES
    tool,       \* tool[m][id]: the version of the command on the PATH of m
    package,    \* package[m][id]: the version that the manager lists
    release,    \* release[id]: the newest in the registry
    orphans,    \* <<m, id>>: upgraders that run and that nobody waits for
    update,     \* update[j]: the command of this module that j runs
    answer,     \* what the last step answered to the frontend
    call        \* call[j]: the upgrader, in ProcessRunner

Runner == INSTANCE ProcessRunner WITH Callers <- Jobs

machine == <<tool, package, release, orphans>>
updates == <<machine, update, answer, call>>

-----------------------------------------------------------------------------
NoCapability ==
    [installed |-> FALSE, version |-> Unset, enabled |-> FALSE,
     checked |-> FALSE, latest |-> Unset, failed |-> FALSE, available |-> FALSE]

NoUpdate ==
    [stage |-> "idle", op |-> "none", at |-> Local, id |-> CHOOSE i \in Ids : TRUE,
     chosen |-> {}, before |-> [id \in Ids |-> NoCapability], verify |-> FALSE]

NoAnswer ==
    [op |-> "none", at |-> Local, id |-> CHOOSE i \in Ids : TRUE, chosen |-> {},
     expected |-> Unset, heard |-> {}, tools |-> [id \in Ids |-> NoCapability]]

UpdatesInit ==
    /\ Init
    /\ tool = [m \in Machines |-> [id \in Ids |-> 1]]
    /\ package = [m \in Machines |-> [id \in Ids |-> IF id \in Packaged THEN 1 ELSE Unset]]
    /\ release = [id \in Ids |-> MaxRelease - 1]
    /\ orphans = {}
    /\ update = [j \in Jobs |-> NoUpdate]
    /\ answer = NoAnswer
    /\ Runner!RunnerInit

Stage(j, stage) == update[j].stage = stage
Of(j)           == update[j]

\* adapter_support_error.
Supports(m, id) == <<m, id>> \notin Unsupported

\* ensure_tui_preference_allows, before any launch.
LaunchAllowed(m, id) ==
    /\ id \in Selection(m)
    /\ Supports(m, id)
    /\ m = Local => id \in onPath[m]

Reachable(m) == m \in {Local} \cup servers

-----------------------------------------------------------------------------
(* probe_tui_machine.                                                      *)

\* What is selected and supported is looked for, with the config read first.
StartProbe(j) ==
    /\ Stage(j, "read")
    /\ Reachable(Of(j).at)
    /\ update' = [update EXCEPT
                    ![j].stage = "detect",
                    ![j].chosen = {id \in Selection(Of(j).at) : Supports(Of(j).at, id)}]
    /\ answer' = NoAnswer
    /\ UNCHANGED <<vars, machine, call>>

\* A slip: what is missing is not there.
CompleteUnseen(asked, told) == TRUE

\* validate_remote_probe: a record of every tool that was asked for.
Complete(asked, told) == asked \subseteq told

\* Where a version is from: remote_probe_script, like detect_local, asks the
\* command first and then the manager.
Sources == {"command", "manager", "none"}

\* What is heard of the tools asked for.  parse_remote_probe drops a line that
\* is no record of one, so that over ssh any of them may be missing.
Replies(m, asked) ==
    [told : IF m = Local THEN {asked} ELSE SUBSET asked, source : [asked -> Sources]]

\* detect_local: of a command that does not tell its version, the manager may
\* tell that of the package.
Version(m, id, source) ==
    CASE source = "command" -> tool[m][id]
      [] source = "manager" -> package[m][id]
      [] source = "none"    -> Unset

\* make_tui_capability.  Here the config is still the one read first, while
\* the preferences of a server are read again.
Capability(j, id, told, source) ==
    LET m     == Of(j).at
        found == id \in told /\ id \in onPath[m]
        picked == IF m = Local THEN Of(j).chosen ELSE Selection(m)
    IN  [NoCapability EXCEPT
           !.installed = found,
           !.version = IF found THEN Version(m, id, source) ELSE Unset,
           !.enabled = found /\ id \in picked /\ Supports(m, id)]

\* apply_tui_update_check.
WithCheck(c, latest, failed) ==
    LET wrong == failed \/ c.version = Unset \/ latest = Unset
    IN  [c EXCEPT !.checked = TRUE, !.latest = latest, !.failed = wrong,
                  !.available = ~wrong /\ latest > c.version]

\* A slip: the results of the check are copied as they are.
PreservedAsTheyWere(new, old) ==
    [id \in Ids |-> IF old[id].checked
                    THEN [new[id] EXCEPT !.checked = TRUE, !.latest = old[id].latest,
                                         !.failed = old[id].failed,
                                         !.available = old[id].available]
                    ELSE new[id]]

\* preserve_tui_update_metadata.
Preserved(new, old) ==
    [id \in Ids |-> IF old[id].checked
                    THEN WithCheck(new[id], old[id].latest, old[id].failed)
                    ELSE new[id]]

Expected(j) == Of(j).before[Of(j).id].latest

\* A slip: the exit status is believed.
VerifiedUnseen(j, tools) == TRUE

\* upgrade_tui compares what it finds afterwards with what it announced.
Verified(j, tools) ==
    /\ tools[Of(j).id].version /= Unset
    /\ ~(Expected(j) > tools[Of(j).id].version)

Answered(j, tools, heard) ==
    /\ answer' = [op |-> Of(j).op, at |-> Of(j).at, id |-> Of(j).id,
                  chosen |-> Of(j).chosen,
                  expected |-> IF Of(j).verify THEN Expected(j) ELSE Unset,
                  heard |-> heard, tools |-> tools]
    /\ update' = [update EXCEPT ![j] = NoUpdate]

Detect(j) ==
    /\ Stage(j, "detect")
    /\ \E reply \in Replies(Of(j).at, Of(j).chosen) :
          LET tools == [id \in Ids |->
                  IF id \in Of(j).chosen
                  THEN Capability(j, id, reply.told, reply.source[id])
                  ELSE NoCapability]
              heard == {id \in reply.told : reply.source[id] = "command"}
          IN  /\ Complete(Of(j).chosen, reply.told)
              /\ IF Of(j).verify
                 THEN /\ Verified(j, tools)
                      /\ Answered(j, Preserved(tools, Of(j).before), heard)
                 ELSE IF Of(j).op = "probe" THEN Answered(j, tools, heard)
                 ELSE /\ update' = [update EXCEPT ![j].stage = "query",
                                                  ![j].before = tools]
                      /\ answer' = NoAnswer
    /\ UNCHANGED <<vars, machine, call>>

-----------------------------------------------------------------------------
(* check_tui_machine_updates, and what upgrade_tui makes of it.            *)

\* A remote machine is asked only if something is installed, and if every
\* such tool has a package: remote_update_check_script fails otherwise.
Askable(m, ids) == m = Local \/ (m \in servers /\ ids \subseteq Packaged)

\* run_local_update_check: what the registry of the manager answers.
LatestVersion(id, failed) == IF id \in failed THEN Unset ELSE release[id]

\* The checks that a manager, a registry or a lost record made fail.
WithChecks(tools, failed) ==
    [id \in Ids |-> IF tools[id].installed
                    THEN WithCheck(tools[id], LatestVersion(id, failed), id \in failed)
                    ELSE tools[id]]

Upgradable(c, id) ==
    c.installed /\ ~c.failed /\ c.available /\ id \in Packaged

Query(j) ==
    /\ Stage(j, "query")
    /\ LET installed == {id \in Ids : Of(j).before[id].installed}
       IN  /\ installed /= {} => Askable(Of(j).at, installed)
           /\ \E failed \in SUBSET installed :
                 LET tools == WithChecks(Of(j).before, failed)
                 IN  /\ installed \ Packaged \subseteq failed
                     /\ IF Of(j).op = "check"
                        THEN Answered(j, tools, {}) /\ UNCHANGED call
                        ELSE /\ Upgradable(tools[Of(j).id], Of(j).id)
                             /\ update' = [update EXCEPT ![j].stage = "run",
                                                         ![j].before = tools]
                             /\ Runner!Call(j)
                             /\ answer' = NoAnswer
    /\ UNCHANGED <<vars, machine>>

\* Any question may end with an error; what is not complete, not upgradable
\* or not verified does.
QuestionFails(j) ==
    /\ Of(j).stage \in {"read", "detect", "query"}
    /\ update' = [update EXCEPT ![j] = NoUpdate]
    /\ answer' = NoAnswer
    /\ UNCHANGED <<vars, machine, call>>

-----------------------------------------------------------------------------
(* run_local_upgrade, or the script of remote_upgrade_script over ssh.     *)

\* The package is upgraded to what the registry has now; the command on PATH
\* need not be the one of the package.
Upgraded(m, id) ==
    /\ package' = [package EXCEPT ![m][id] = release[id]]
    /\ \/ tool' = [tool EXCEPT ![m][id] = release[id]]
       \/ UNCHANGED tool

\* Only the child is killed: over ssh, or below a shim of the manager, the
\* upgrade goes on.
UpgraderRuns(j) ==
    /\ Stage(j, "run")
    /\ Runner!RunnerSteps(j)
    /\ orphans' = IF call[j].child = "running" /\ call'[j].child = "reaped"
                  THEN orphans \cup {<<Of(j).at, Of(j).id>>} ELSE orphans
    /\ answer' = NoAnswer
    /\ UNCHANGED <<vars, tool, package, release, update>>

UpgraderSucceeds(j) ==
    /\ Stage(j, "run")
    /\ Reachable(Of(j).at)
    /\ Runner!Exits(j, TRUE)
    /\ Upgraded(Of(j).at, Of(j).id)
    /\ answer' = NoAnswer
    /\ UNCHANGED <<vars, release, orphans, update>>

\* It may have taken the old version away before it failed.
UpgraderBreaks(j) ==
    /\ Stage(j, "run")
    /\ Runner!Exits(j, FALSE)
    /\ \E gone \in {{}, {Of(j).id}} :
          onPath' = [onPath EXCEPT ![Of(j).at] = @ \ gone]
    /\ answer' = NoAnswer
    /\ UNCHANGED <<stored, lock, job, started, machine, update>>

UpgraderReturns(j) ==
    /\ Stage(j, "run")
    /\ Runner!Return(j)
    /\ update' = [update EXCEPT
                    ![j] = IF ~call[j].error /\ call[j].success
                           THEN [@ EXCEPT !.stage = "read", !.verify = TRUE]
                           ELSE NoUpdate]
    /\ answer' = NoAnswer
    /\ UNCHANGED <<vars, machine>>

-----------------------------------------------------------------------------
(* Composition with ToolSelection.                                         *)

\* probe_tui_capabilities, check_tui_updates and upgrade_tui.  A command of
\* this module counts for two among MaxCommands.
StartUpdate(j, op, m, id) ==
    /\ Stage(j, "idle")
    /\ At(j, "idle")
    /\ started + 2 <= MaxCommands
    /\ started' = started + 2
    /\ op = "upgrade" => id \in Registered /\ Supports(m, id) /\ Reachable(m)
    /\ op /= "upgrade" => id = NoUpdate.id
    /\ update' = [update EXCEPT ![j] = [NoUpdate EXCEPT !.stage = "read", !.op = op,
                                                        !.at = m, !.id = id]]
    /\ answer' = NoAnswer
    /\ UNCHANGED <<stored, lock, onPath, job, machine, call>>

UpdateKilled(j) ==
    /\ ~Stage(j, "idle")
    /\ update' = [update EXCEPT ![j] = NoUpdate]
    /\ call' = [call EXCEPT ![j] = Runner!NoCall]
    /\ orphans' = IF call[j].child = "running"
                  THEN orphans \cup {<<Of(j).at, Of(j).id>>} ELSE orphans
    /\ answer' = NoAnswer
    /\ UNCHANGED <<vars, tool, package, release>>

\* The commands of ToolSelection.  What is installed anew is the newest.
SelectionGoesOn ==
    /\ \/ \E j \in Jobs : /\ Stage(j, "idle")
                          /\ CommandStarts(j) \/ CommandGoesOn(j) \/ Killed(j)
       \/ \E s \in Servers : DeleteServer(s)
    /\ tool' = [m \in Machines |-> [id \in Ids |->
                  IF id \in onPath'[m] \ onPath[m] THEN release[id] ELSE tool[m][id]]]
    /\ answer' = NoAnswer
    /\ UNCHANGED <<package, release, orphans, update, call>>

\* The machine changes while a command looks at it.
WorldChanges ==
    /\ \E j \in Jobs : ~Stage(j, "idle")
    /\ \/ \E id \in Packaged :
             /\ release[id] < MaxRelease
             /\ release' = [release EXCEPT ![id] = @ + 1]
             /\ UNCHANGED <<tool, package, orphans>>
       \/ \E o \in orphans :
             /\ Upgraded(o[1], o[2])
             /\ orphans' = orphans \ {o}
             /\ UNCHANGED release
    /\ answer' = NoAnswer
    /\ UNCHANGED <<vars, update, call>>

UpdatesNext ==
    \/ SelectionGoesOn
    \/ \E j \in Jobs :
          \/ \E op \in {"probe", "check", "upgrade"}, m \in Machines, id \in Ids :
                StartUpdate(j, op, m, id)
          \/ StartProbe(j) \/ Detect(j) \/ Query(j) \/ QuestionFails(j)
          \/ UpgraderRuns(j) \/ UpgraderSucceeds(j) \/ UpgraderBreaks(j)
          \/ UpgraderReturns(j) \/ UpdateKilled(j)
    \/ WorldChanges

UpdatesSpec == UpdatesInit /\ [][UpdatesNext]_<<vars, updates>>

-----------------------------------------------------------------------------
(* Properties.                                                             *)

\* An upgrade that is reported done has left on the PATH of the machine at
\* least the version that the registry had when it was decided on, unless the
\* command no longer tells its version; and the tool is not offered again.
\* Whatever the registry, other installers and other commands did meanwhile.
UpgradeIsVerified ==
    answer.op = "upgrade" =>
        /\ answer.id \in onPath[answer.at]
        /\ answer.id \in answer.heard =>
              tool[answer.at][answer.id] >= answer.expected
        /\ ~answer.tools[answer.id].available

\* An answer says what the machine has: what was looked for is shown as
\* installed just when its command is there, what is offered as an update is
\* newer than what is there and in the registry, and what is shown as enabled
\* may be launched, now or when the command read the config.
AnswersTellTheMachine ==
    \A id \in Ids :
        LET c == answer.tools[id]
        IN  /\ id \in answer.chosen =>
                  (answer.op \in {"probe", "upgrade"} =>
                      (c.installed <=> id \in onPath[answer.at]))
            /\ c.enabled => LaunchAllowed(answer.at, id) \/ id \in answer.chosen
            /\ c.available =>
                  c.installed /\ c.version < c.latest /\ c.latest <= release[id]

CallsEndClean == Runner!CallsEndClean
=============================================================================
