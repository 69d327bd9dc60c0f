------------------------------ MODULE Sessions ------------------------------
(***************************************************************************)
(* The life of AI sessions and what SessionAtlas does with them: the tools *)
(* write their session files, scans turn them into the index, the command  *)
(* line and the window resume what the index names, and the cleanup takes  *)
(* away what it finds worthless.  All of them work on the same files at    *)
(* the same time.                                                          *)
(*                                                                         *)
(* A scan is one step here (Rescan has its loop over the files, with the   *)
(* cache; ProjectIndex the statements of the replacement), and so is a     *)
(* quarantine (SessionTrash has its renames).  An analysis for the cleanup *)
(* reads file by file.  The sessions that really took place are kept in    *)
(* talks, which no program reads.                                          *)
(***************************************************************************)
EXTENDS CleanupRules

CONSTANTS
    Names,        \* names of session files: numbers, in their order
    Setups,       \* the tools in use, their dialects and the bounds of a
                  \* behaviour (Init picks one)
    Unsafe,       \* session ids the programs refuse to put on a command line
    Own           \* a directory inside the tools' own data

Directories == Projects \cup {Own}

\* A session that took place.
Talk == [tool : Scanners, project : Directories, parent : Names \cup {None},
         kind : Kinds, last : Nat, whole : BOOLEAN]

\* OpenCode's database always has the times of its sessions.
ASSUME SessionsAssumption ==
    /\ Names \subseteq Nat \ {0} /\ IsFiniteSet(Names) /\ Unsafe \subseteq Names
    /\ Own \notin Projects /\ Names \cap Directories = {}
    /\ \A s \in Setups :
          /\ {s.writes, s.days, s.commands} \subseteq Nat
          /\ s.tools \subseteq Scanners /\ {s.stamped, s.old} \subseteq BOOLEAN
          /\ "opencode" \in s.tools => s.stamped

\* None is none of the values it stands in for.
ASSUME NoneAssumption ==
    /\ None \notin Directories /\ None \notin Nat /\ None \notin Talk
    /\ None \notin FilesOf(Names, Directories)
    /\ None \notin ParsesOf(Names, Directories)

VARIABLES
    setup,     \* how the tools write: tools, installed, stamped, schema, old,
               \* current; what is used: scans or the cleanup; the bounds:
               \* events, writes, days, commands
    today,
    files,     \* name -> session file, or None
    root,      \* tool -> "missing", "open" or "blocked" (unreadable)
    talks,     \* name -> the session that took place, or None
    writes,    \* changes of the files so far
    usages,    \* table tool_usages, as BuildIndex gives it
    projects,  \* table projects: path and id
    recent,    \* the latest row of table sessions
    listing,   \* the project rows the window has read so far, or None
    shown,     \* the usages the window shows
    started,   \* the tool launched last: tool, path and session id
    cache,     \* session-cleanup cache: entries, inventory, candidates
    analysis,  \* the analysis that runs
    offered,   \* the id of the analysis the window shows
    commands,  \* commands given so far
    told       \* history: the session ids the scans reported

source  == <<today, files, root, talks, writes>>
index   == <<usages, projects, recent, told>>
window  == <<listing, shown, started>>
cleanup == <<cache, analysis, offered>>
vars    == <<setup, source, index, window, cleanup, commands>>

Idle    == [at |-> None, phase |-> "idle"]
NoCache == [entries |-> {}, inventory |-> {}, candidates |-> {}]

Init ==
    /\ setup \in Setups
    /\ today = 0 /\ writes = 0 /\ commands = 0
    /\ files = [n \in Names |-> None]
    /\ talks = [n \in Names |-> None]
    /\ root = [t \in setup.tools |-> "missing"]
    /\ usages = {} /\ projects = {} /\ recent = None /\ told = {}
    /\ listing = None /\ shown = {} /\ started = None
    /\ cache = NoCache /\ analysis = Idle /\ offered = None

---------------------------------------------------------------------------
(* The tools and the user.                                                  *)

Record(what, id, cwd, parent, kind) ==
    [what |-> what, whole |-> TRUE, id |-> id, cwd |-> cwd,
     time |-> IF setup.stamped THEN today ELSE None,
     parent |-> parent, kind |-> kind, old |-> setup.old]

Torn(what) ==
    [what |-> what, whole |-> FALSE, id |-> None, cwd |-> None, time |-> None,
     parent |-> None, kind |-> None, old |-> FALSE]

\* The session a file belongs to: a sub-agent of Claude writes its parent's.
SessionOf(n) ==
    IF talks[n].tool = "claude" /\ talks[n].parent /= None
    THEN talks[n].parent ELSE n

\* The record a session starts with, in directory p.
First(n, t, p, parent, kind) ==
    Record(IF t = "claude" THEN "turn" ELSE "session",
           CASE t \in {"kimi", "aider"} -> None
             [] t = "claude" -> IF parent = None THEN n ELSE parent
             [] OTHER -> n,
           p, parent, kind)

\* Kimi, Aider and custom tools keep one record; the others append.
Written(n, record) ==
    IF files[n].tool \in {"kimi", "aider", "custom"} THEN <<record>>
    ELSE Append(files[n].lines, record)

Writes == writes < setup.writes /\ writes' = writes + 1

Create(n, t, p, parent, kind) ==
    /\ talks[n] = None /\ \A m \in Names : m < n => talks[m] /= None
    /\ root[t] /= "blocked"
    /\ Writes
    /\ files' = [files EXCEPT ![n] =
          [tool |-> t, place |-> "active",
           under |-> IF t = "claude" THEN parent ELSE None,
           lines |-> <<First(n, t, p, parent, kind)>>, mtime |-> today]]
    /\ talks' = [talks EXCEPT ![n] =
          [tool |-> t, project |-> p, parent |-> parent, kind |-> kind,
           last |-> today, whole |-> TRUE]]
    /\ root' = [root EXCEPT ![t] = "open"]
    /\ UNCHANGED <<setup, today, index, window, cleanup, commands>>

\* A session begins; `opencode run` starts one without a user.
Begin(n, t, p, kind) ==
    /\ kind = "root" \/ (t = "opencode" /\ kind = "headless")
    /\ t = "aider" => p \in Projects /\ \A m \in Names :
          files[m] /= None => ~(files[m].tool = "aider" /\ files[m].lines[1].cwd = p)
    /\ Create(n, t, p, None, kind)

\* Session m starts a sub-agent.
Delegate(n, m, kind) ==
    /\ files[m] /= None /\ files[m].place = "active"
    /\ LET t == files[m].tool
       IN /\ \/ t = "codex" /\ kind \in {"guardian", "subagent"}
             \/ t = "claude" /\ kind = "subagent" /\ talks[m].parent = None
             \/ t = "opencode" /\ kind = "subagent"
          /\ Create(n, t, talks[m].project, m, kind)

\* File n is written: its session goes on (whole), or the write is cut off.
Writing(n, record, project) ==
    /\ files[n] /= None /\ files[n].place = "active"
    /\ talks[n].whole /\ root[files[n].tool] = "open"
    /\ Writes
    /\ files' = [files EXCEPT ![n].lines = Written(n, record),
                              ![n].mtime = today]
    /\ talks' = [talks EXCEPT
          ![n].project = project,
          ![n].last  = IF record.whole \/ ~setup.stamped THEN today ELSE @,
          ![n].whole = record.whole \/ files[n].tool \notin {"kimi", "custom"}]
    /\ UNCHANGED <<setup, today, root, index, window, cleanup, commands>>

Continue(n, what) ==
    /\ files[n] /= None
    /\ LET t == files[n].tool
           p == talks[n].project
       IN IF t = "codex" \/ (t \in {"opencode", "pi"} /\ what = "turn")
          THEN Writing(n, Record(what, None, None, None, None), p)
          ELSE IF t = "claude"
          THEN Writing(n, Record(what, SessionOf(n), p, None, None), p)
          ELSE what = "turn" /\ Writing(n, First(n, t, p, None, "root"), p)

\* A session goes on in another directory.  Codex resumes it there from
\* then on; Claude goes on from the directory the session was begun in.
Move(n, p) ==
    /\ files[n] /= None /\ talks[n].project /= p
    /\ \/ /\ files[n].tool = "codex"
          /\ Writing(n, First(n, "codex", p, talks[n].parent, talks[n].kind), p)
       \/ /\ files[n].tool = "claude"
          /\ Writing(n, Record("turn", SessionOf(n), p, None, None),
                     talks[n].project)

\* A write is cut off in the middle.
Tear(n, what) ==
    /\ files[n] /= None /\ files[n].tool \notin {"opencode", "aider"}
    /\ files[n].tool = "codex" \/ what = "turn"
    /\ Writing(n, Torn(what), talks[n].project)

Remove(n) ==
    /\ files[n] /= None
    /\ Writes
    /\ files' = [files EXCEPT ![n] = None]
    /\ UNCHANGED <<setup, today, root, talks, index, window, cleanup, commands>>

Archive(n) ==
    /\ files[n] /= None /\ files[n].tool = "codex" /\ files[n].place = "active"
    /\ Writes
    /\ files' = [files EXCEPT ![n].place = "archived"]
    /\ UNCHANGED <<setup, today, root, talks, index, window, cleanup, commands>>

\* The directory of a tool becomes unreadable or readable again, or goes.
Rooted(t, state) ==
    /\ Writes
    /\ root' = [root EXCEPT ![t] = state]
    /\ UNCHANGED <<setup, today, talks, index, window, cleanup, commands>>

Block(t) == root[t] = "open" /\ Rooted(t, "blocked") /\ UNCHANGED files

Unblock(t) == root[t] = "blocked" /\ Rooted(t, "open") /\ UNCHANGED files

Wipe(t) ==
    /\ root[t] = "open" /\ Rooted(t, "missing")
    /\ files' = [n \in Names |-> IF files[n] /= None /\ files[n].tool = t
                                 THEN None ELSE files[n]]

Wait ==
    /\ today < setup.days
    /\ today' = today + 1
    /\ UNCHANGED <<setup, files, root, talks, writes, index, window, cleanup,
                   commands>>

---------------------------------------------------------------------------
(* Scans, and the launches from what they found.                            *)

Commands == commands < setup.commands /\ commands' = commands + 1

OutcomeOf(t) ==
    Outcome(t, root[t], setup.installed, files, setup.schema)

\* The store takes nothing but one usage per project and tool, of tools that
\* were scanned; with none scanned it is not even opened.
ValidSnapshot(found, done) ==
    /\ done /= {}
    /\ \A u \in found :
          /\ u.tool \in done /\ u.path /= None /\ u.count >= 0
          /\ \A v \in found : u.tool = v.tool /\ u.path = v.path => u = v

\* A scan of the tools ts replaces the usages of those that succeed, and
\* projects without a usage go; a project that comes back is a new row.
Scan(ts) ==
    LET done  == {t \in ts : OutcomeOf(t).status = "succeeded"}
        kept  == {u \in usages : u.tool \notin done}
        found == UNION {BuildIndex(t, OutcomeOf(t).found) : t \in done}
        now   == IF ValidSnapshot(found, done) THEN kept \cup found ELSE usages
        paths == {u.path : u \in now}
    IN /\ Commands
       /\ usages' = now
       /\ projects' = {r \in projects : r.path \in paths}
                        \cup [path : paths \ {r.path : r \in projects},
                              id : {commands'}]
       /\ told' = told \cup UNION
             {{[tool |-> t, path |-> o.path, id |-> o.id] :
                  o \in {o \in OutcomeOf(t).found : o.id /= None}} : t \in done}
       /\ UNCHANGED <<setup, source, recent, window, cleanup>>

\* load_usages: what the index holds of directory p.
UsagesAt(p) == {u \in usages : u.path = p}

\* The session the index would resume tool t with in directory p.
LastSession(t, p) ==
    LET mine == {u \in UsagesAt(p) : u.tool = t}
    IN IF mine = {} THEN None ELSE (CHOOSE u \in mine : TRUE).resume

Valid(id) == id /= None /\ id \notin Unsafe

Launched(t, p, id) == started' = [tool |-> t, path |-> p, id |-> id]

\* The launch a later `open --recent` goes back to.
Recorded(t, p, id) == recent' = [tool |-> t, path |-> p, id |-> id]

\* sessionatlas open: an id that is not safe on a command line is left
\* away, and the launch is recorded once it was accepted.
Open(t, p, id) ==
    /\ Commands
    /\ LET resume == IF Valid(id) THEN id ELSE None
       IN /\ Launched(t, p, resume)
          /\ Recorded(t, p, resume)
    /\ UNCHANGED <<setup, source, usages, projects, told, listing, shown, cleanup>>

\* SqliteStore::list_projects, as the picker sees it.
IndexedPaths == {r.path : r \in projects}

\* A directory is named, or picked from the index
\* (resolve_existing_or_fuzzy, select_project_interactively).
Pickable == Projects \cup IndexedPaths

\* In a directory: with the tool the user names, or one the project knows.
OpenProject(t, p) == Open(t, p, LastSession(t, p))

\* Mutant: sessionatlas open resumes the recorded id with any tool.
RecentIdAnyTool(t) == recent.id

\* Where the last launch was: the id it had belongs to its tool alone.
RecentId(t) == IF t = recent.tool THEN recent.id ELSE LastSession(t, recent.path)

\* get_recent_sessions(1).
RecentSessions == {recent} \ {None}

OpenRecent(t) == \E session \in RecentSessions : Open(t, session.path, RecentId(t))

\* The window lists the projects, and then what was used in them.
ListProjects ==
    /\ listing = None
    /\ Commands
    /\ listing' = projects
    /\ UNCHANGED <<setup, source, index, shown, started, cleanup>>

ListUsages ==
    /\ listing /= None
    /\ shown' = {u \in usages : \E r \in listing \cap projects : r.path = u.path}
    /\ listing' = None
    /\ UNCHANGED <<setup, source, index, started, cleanup, commands>>

\* The window launches what it shows, anew or resumed; an id that is not
\* safe is an error here.
LaunchShown(u, id) ==
    /\ u \in shown /\ id \in {u.resume, None} /\ (id = None \/ Valid(id))
    /\ Commands
    /\ Launched(u.tool, u.path, id)
    /\ UNCHANGED <<setup, source, index, listing, shown, cleanup>>

---------------------------------------------------------------------------
(* The cleanup of Codex and Claude sessions.                                *)

CleanedTools == setup.tools \cap {"codex", "claude"}

\* The files of a directory an analysis visits.
InDirectory(dir) ==
    {n \in Names : files[n] /= None /\ files[n].tool = dir.tool
                   /\ files[n].place = dir.place}

\* The file n in directory dir, None when it is not (or no longer) there.
FileAt(n, dir) == IF n \in InDirectory(dir) THEN files[n] ELSE None

\* A position of an analysis: the directory's place in Visited, and a file.
Ahead(at) ==
    {q \in (DOMAIN Visited) \X Names :
        /\ q[1] > at[1] \/ (q[1] = at[1] /\ q[2] > at[2])
        /\ q[2] \in InDirectory(Visited[q[1]])}

Next1(qs) == CHOOSE q \in qs :
    \A r \in qs : q[1] < r[1] \/ (q[1] = r[1] /\ q[2] <= r[2])

Readable == \A t \in CleanedTools : root[t] /= "blocked"

StartAnalysis(shows) ==
    /\ analysis = Idle
    /\ Commands
    /\ analysis' = [at |-> <<1, 0>>, phase |-> "visit", shows |-> shows,
                    now |-> today, began |-> writes, inventory |-> {},
                    entries |-> cache.entries, stat |-> None, parsed |-> None,
                    candidates |-> {}]
    /\ UNCHANGED <<setup, source, index, window, cache, offered>>

\* A directory that cannot be read ends an analysis without a result.
AnalysisFails ==
    /\ analysis.phase = "visit" /\ ~Readable
    /\ analysis' = Idle
    /\ UNCHANGED <<setup, source, index, window, cache, offered, commands>>

\* Mutant: the cache compares the times only.
EntryOfTime(entries, n, dir, fingerprint) ==
    {e \in entries : e.file = n /\ e.dir = dir
                      /\ e.fingerprint.mtime = fingerprint.mtime}

EntryOf(entries, n, dir, fingerprint) ==
    {e \in entries : e.file = n /\ e.dir = dir /\ e.fingerprint = fingerprint}

\* The size and the time of the next file are taken, and the cache is asked.
Stat ==
    /\ analysis.phase = "visit" /\ Readable /\ Ahead(analysis.at) /= {}
    /\ LET q   == Next1(Ahead(analysis.at))
           n   == q[2]
           dir == Visited[q[1]]
           fp  == Fingerprint(files[n])
           hit == EntryOf(analysis.entries, n, dir, fp)
       IN analysis' = [analysis EXCEPT
             !.at = q, !.stat = fp,
             !.inventory = @ \cup {[file |-> n, dir |-> dir, fingerprint |-> fp]},
             !.phase  = IF hit = {} THEN "parse" ELSE "candidate",
             !.parsed = IF hit = {} THEN None ELSE (CHOOSE e \in hit : TRUE).parsed]
    /\ UNCHANGED <<setup, source, index, window, cache, offered, commands>>

At    == analysis.at[2]
AtDir == Visited[analysis.at[1]]

\* What a parse is remembered under: the size and time before it.
EntryFor(parsed) ==
    [file |-> At, dir |-> AtDir, fingerprint |-> analysis.stat, parsed |-> parsed]

\* The file is read as it is by now; one that is gone, or that names no
\* session, is no candidate.
Parse ==
    /\ analysis.phase = "parse"
    /\ LET f      == FileAt(At, AtDir)
           parsed == IF f = None THEN None ELSE ParsedOf(At, f)
       IN analysis' =
             IF parsed = None THEN [analysis EXCEPT !.phase = "visit"]
             ELSE [analysis EXCEPT
                     !.phase = "candidate", !.parsed = parsed,
                     !.entries = {e \in @ : ~(e.file = At /\ e.dir = AtDir)}
                                   \cup {EntryFor(parsed)}]
    /\ UNCHANGED <<setup, source, index, window, cache, offered, commands>>

Consider ==
    /\ analysis.phase = "candidate"
    /\ analysis' = [analysis EXCEPT
          !.phase = "visit", !.parsed = None,
          !.candidates = @ \cup {Candidate(At, AtDir, analysis.parsed,
                                           FileAt(At, AtDir), analysis.now)}]
    /\ UNCHANGED <<setup, source, index, window, cache, offered, commands>>

Snapshot(c) == SnapshotId(c.inventory, c.candidates, setup.current)

\* What the cache is to hold: the candidates, and what is known of the files
\* that are there.
Result ==
    [entries    |-> {e \in analysis.entries :
                        \E i \in analysis.inventory :
                           i.file = e.file /\ i.dir = e.dir},
     inventory  |-> analysis.inventory,
     candidates |-> analysis.candidates]

\* The window shows the analysis, unless another application ran it.  Where
\* the cache cannot be written the old one stays, and nobody is told.
FinishAnalysis(saved) ==
    /\ analysis.phase = "visit" /\ Readable /\ Ahead(analysis.at) = {}
    /\ cache' = IF saved THEN Result ELSE cache
    /\ offered' = IF analysis.shows THEN Snapshot(Result) ELSE offered
    /\ analysis' = Idle
    /\ UNCHANGED <<setup, source, index, window, commands>>

InventoryNow ==
    UNION {{[file |-> n, dir |-> Visited[d], fingerprint |-> Fingerprint(files[n])] :
               n \in InDirectory(Visited[d])} : d \in DOMAIN Visited}

\* Mutant: the quarantine trusts the digest of its own cache.
SameInventoryAssumed == TRUE

SameInventory == InventoryNow = cache.inventory

Selected(keys) == {c \in cache.candidates : c.key \in keys}

\* The user cleans sessions by their keys in the analysis the window shows.
Quarantine(keys) ==
    /\ analysis = Idle /\ offered /= None /\ Readable
    /\ Commands
    /\ Snapshot(cache) = offered
    /\ SameInventory
    /\ Cardinality(Selected(keys)) = Cardinality(keys)
    /\ \A c \in Selected(keys) :
          /\ CanClean(c, cache.candidates, setup.current)
          /\ FileAt(c.file, [tool |-> c.key.tool, place |-> c.key.place]) /= None
          /\ Fingerprint(files[c.file]) = c.fingerprint
    /\ files' = [n \in Names |-> IF \E c \in Selected(keys) : c.file = n
                                 THEN None ELSE files[n]]
    /\ UNCHANGED <<setup, today, root, talks, writes, index, window, cleanup>>

---------------------------------------------------------------------------
May(event) == event \in setup.events

\* The directories a behaviour is about: one project, unless the sessions
\* may be elsewhere, and the tools' own data.
MayBeIn(dir) ==
    IF dir = Own THEN May("own")
    ELSE May("elsewhere") \/ \A n \in Names :
            talks[n] /= None => talks[n].project \in {dir, Own}

Uses ==
    \/ \E n \in Names, t \in setup.tools :
          \/ \E p \in Projects \cup {Own}, kind \in {"root", "headless"} :
                MayBeIn(p) /\ Begin(n, t, p, kind)
    \/ May("delegate") /\ \E n, m \in Names, kind \in {"guardian", "subagent"} :
          Delegate(n, m, kind)
    \/ May("continue") /\ \E n \in Names, what \in {"turn", "call", "done"} :
          Continue(n, what)
    \/ \E n \in Names :
          \/ \E p \in Projects : MayBeIn(p) /\ Move(n, p)
          \/ May("tear") /\ \E what \in {"session", "turn", "done"} : Tear(n, what)
          \/ May("remove") /\ Remove(n)
          \/ May("archive") /\ Archive(n)
    \/ May("root") /\ \E t \in setup.tools : Block(t) \/ Unblock(t) \/ Wipe(t)
    \/ Wait

Scans ==
    \/ \E ts \in SUBSET setup.tools \ {{}} : Scan(ts)
    \/ \E t \in setup.tools : (\E p \in Pickable : OpenProject(t, p)) \/ OpenRecent(t)
    \/ ListProjects
    \/ ListUsages
    \/ \E u \in shown, id \in Names \cup {None} : LaunchShown(u, id)

Cleanup ==
    \/ \E shows \in {TRUE, ~May("another")} : StartAnalysis(shows)
    \/ AnalysisFails
    \/ Stat
    \/ Parse
    \/ Consider
    \/ \E saved \in {TRUE, ~May("unsaved")} : FinishAnalysis(saved)
    \/ \E keys \in SUBSET {c.key : c \in cache.candidates} \ {{}} : Quarantine(keys)

Next ==
    \/ Uses
    \/ setup.use = "scans" /\ Scans
    \/ setup.use = "cleanup" /\ Cleanup

Spec == Init /\ [][Next]_vars

---------------------------------------------------------------------------
(* Properties.                                                              *)

\* The sessions of tool t in directory p that a scan can find.
Found(t, p) ==
    {n \in Names : /\ files[n] /= None /\ files[n].place = "active"
                   /\ talks[n].tool = t /\ talks[n].project = p /\ talks[n].whole}

Resumable(n) ==
    CASE talks[n].tool = "aider" -> FALSE
      [] talks[n].tool = "opencode" ->
           talks[n].parent = None /\ talks[n].kind /= "headless"
      [] OTHER -> TRUE

\* OpenCode's older schemas say too little to tell every auxiliary session.
Exact(t) == t = "opencode" => {"parent", "permission"} \subseteq setup.schema

LastTalk(ns) == Max({talks[n].last : n \in ns})

\* The session to resume: the latest, and of several the one whose id is
\* greatest.
ToResume(ns) ==
    IF ns = {} THEN None
    ELSE Max({SessionOf(n) : n \in {m \in ns : talks[m].last = LastTalk(ns)}})

TellsTheTruth(t, rows) ==
    /\ {u.path : u \in rows} \cap Projects = {p \in Projects : Found(t, p) /= {}}
    /\ \A u \in rows : u.path \in Projects =>
         LET ns    == Found(t, u.path)
             roots == {n \in ns : Resumable(n)}
         IN /\ u.last = LastTalk(ns)
            /\ Exact(t) => /\ u.count = Cardinality({SessionOf(n) : n \in roots})
                           /\ u.resume = ToResume(roots)
            /\ (~Exact(t) /\ "parent" \in setup.schema) =>
                  u.resume \in {None} \cup {n \in ns : talks[n].parent = None}

\* The scanner of t finds its source readable, within the budget and not
\* without any session.
Inspectable(t) ==
    \/ root[t] = "missing" /\ setup.installed
    \/ /\ root[t] = "open" /\ Cardinality(SourceFiles(t, files)) <= Budget
       /\ \/ SourceFiles(t, files) = {}
          \/ t \in {"opencode", "custom"}
          \/ \E p \in Projects : Found(t, p) /= {}

UsagesOf(t, rows) == {u \in rows : u.tool = t}

\* What a scan leaves in the index of a tool it could inspect is what took
\* place: each project the tool was used in and no other, the last use, the
\* number of sessions and the one to resume, however the records of the
\* tool are torn, moved, nested or dated; of any other tool it leaves what
\* was there (build_index, the scanners, docs/scan-contract.md).
RowsTellTheTruth ==
    [][\A ts \in SUBSET setup.tools : Scan(ts) =>
         \A t \in setup.tools :
            IF t \in ts /\ Inspectable(t)
            THEN TellsTheTruth(t, UsagesOf(t, usages'))
            ELSE UsagesOf(t, usages') = UsagesOf(t, usages)]_vars

\* Whatever is launched resumes a session that a scan reported for that
\* very tool and directory: not another tool's, not a recorded launch's
\* elsewhere (sessionatlas open, launch_project, list_projects).
ResumesOnlyReported ==
    \A launch \in {started, recent} \ {None} :
        launch.id /= None => launch \in told

Cleans(n) == files[n] /= None /\ files'[n] = None

\* A session is cleaned only if it is not recent, not the current one, not
\* the latest of its tool in its project, has no sub-agent left and its own
\* parent is still there (quarantine_sessions on what analyze_sessions
\* remembered, while the tools go on writing).
CleaningKeepsWhatIsNeeded ==
    [][\A keys \in SUBSET {c.key : c \in cache.candidates} :
         Quarantine(keys) =>
           \A n \in Names : Cleans(n) =>
             LET talk == talks[n]
                 there(m) == files[m] /= None /\ talks[m].tool = talk.tool
             IN /\ today - talk.last >= Recent
                /\ talk.tool = "codex" => n /= setup.current
                /\ \A m \in Names : there(m) => talks[m].parent /= n
                /\ talk.parent /= None => there(talk.parent)
                /\ talk.parent = None =>
                     \E m \in Names : /\ there(m) /\ talks[m].parent = None
                                      /\ talks[m].project = talk.project
                                      /\ talks[m].last > talk.last]_vars

\* The candidates of an analysis from nothing.
FromNothing(now) ==
    {Candidate(i.file, i.dir, ParsedOf(i.file, files[i.file]), files[i.file], now) :
        i \in {i \in InventoryNow : ParsedOf(i.file, files[i.file]) /= None}}

\* An analysis nothing interferes with says what one without a cache would
\* say, whatever earlier analyses were interrupted by and left in it
\* (parse_or_cached_session).
AnalysisIsFresh ==
    [][((\E saved \in BOOLEAN : FinishAnalysis(saved)) /\ analysis.began = writes)
          => analysis.candidates = FromNothing(analysis.now)]_vars
=============================================================================
