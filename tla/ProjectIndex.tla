---------------------------- MODULE ProjectIndex ----------------------------
(***************************************************************************)
(* The project index: index.db, and the processes that open it for         *)
(* writing.  A process is a run of `sessionatlas scan`, the scan worker of *)
(* the desktop application, or any other CLI command: every one of them    *)
(* opens the database through SqliteStore::new, which rebuilds the search  *)
(* table before the command does its own work.                             *)
(*                                                                         *)
(* A table is a set of rows, a row is a record.  An SQL statement outside  *)
(* a transaction is one action; a transaction is one action whatever its   *)
(* number of statements, because SQLite shows the others none of it until  *)
(* it commits.  A session history is abstracted to one number per tool and *)
(* path, the time of its last activity (0: the tool has no session there). *)
(* It stands for the whole usage row: last_used_at, session_count and      *)
(* last_session_id change together.                                        *)
(***************************************************************************)
EXTENDS Integers, FiniteSets

CONSTANTS Procs,          \* processes and worker threads that open index.db
          Tools,          \* keys of the enabled adapters
          Paths,          \* normalized project paths
          MaxClock,       \* bound: activity outside the program
          MaxCommits,     \* bound: snapshot replacements
          MayInterrupt    \* may a process be killed, or a statement be BUSY

ASSUME BoundsAssumption ==
    /\ MaxClock \in Nat
    /\ MaxCommits \in Nat
    /\ MayInterrupt \in BOOLEAN

ASSUME PathsAssumption == IsFiniteSet(Paths)

VARIABLES
    clock,      \* time of the last activity in any tool
    sources,    \* sources[t][d]: what a scanner of tool t finds for path d
    projects,   \* table projects: rowid, id, path, last_accessed_at
    usages,     \* table tool_usages: project id, tool key, last_used_at
    fts,        \* table projects_fts: rowid and the path it was indexed from
    commits,    \* number of snapshots committed; makes a uuid fresh
    pc,         \* where each process is
    job,        \* what it opened the database for
    want,       \* scanners it has still to run
    found,      \* outcomes of the scanners that succeeded
    todo,       \* rows rebuild_fts has still to index, in rowid order
    disturbed   \* history: openers that saw another writer since FtsClear

tables == <<projects, usages, fts, commits>>
local  == <<pc, job, want, found, todo>>
vars   == <<clock, sources, tables, local, disturbed>>

Stamps == 0 .. MaxClock
Ids    == [path : Paths, born : 1 .. MaxCommits]

NoScan == [t \in {} |-> 0]      \* no outcome yet

-----------------------------------------------------------------------------
(* The statements of replace_tool_snapshots, in the order they run.        *)

MaxRow(prs) == IF prs = {} THEN 0
               ELSE CHOOSE n \in {pr.row : pr \in prs} :
                        \A pr \in prs : pr.row <= n

Indexed(prs) == {pr.path : pr \in prs}

\* The paths the merged snapshot of the outcomes f lists.
SnapshotPaths(f) == {d \in Paths : \E t \in DOMAIN f : f[t][d] > 0}

LatestFound(f, d) ==
    CHOOSE n \in {f[t][d] : t \in DOMAIN f} : \A t \in DOMAIN f : f[t][d] <= n

\* Rowids for the inserted projects: SQLite takes the largest rowid plus one.
RowAssignments(prs, new) ==
    {g \in [new -> MaxRow(prs) + 1 .. MaxRow(prs) + Cardinality(new)] :
        \A d, e \in new : g[d] = g[e] => d = e}

\* upsert_snapshot_project: a path already indexed keeps its row and its id.
UpsertProjects(prs, f, rows, n) ==
    prs \cup {[row |-> rows[d], id |-> [path |-> d, born |-> n],
               path |-> d, last |-> LatestFound(f, d)] : d \in DOMAIN rows}

SnapshotUsages(prs, f) ==
    {[id |-> x[1].id, tool |-> x[2], used |-> f[x[2]][x[1].path]] :
        x \in {y \in prs \X DOMAIN f : f[y[2]][y[1].path] > 0}}

\* USAGE_UPSERT_SQL: the unique index makes (project, tool) the identity.
UpsertUsages(us, snap) ==
    snap \cup {u \in us : \A s \in snap : s.id = u.id => s.tool /= u.tool}

\* A slip: the condition on scanned_tool_keys is forgotten.
DropStaleEverywhere(us, snap, scanned) ==
    {u \in us : \E s \in snap : s.id = u.id /\ s.tool = u.tool}

\* DELETE_STALE_SNAPSHOT_ROWS_SQL, first statement.
DropStaleUsages(us, snap, scanned) ==
    {u \in us : u.tool \in scanned =>
                    \E s \in snap : s.id = u.id /\ s.tool = u.tool}

\* DELETE_STALE_SNAPSHOT_ROWS_SQL, second statement.
DropUnusedProjects(prs, us) == {pr \in prs : \E u \in us : u.id = pr.id}

\* RECOMPUTE_PROJECT_ACTIVITY_SQL: MAX(last_used_at) over the merged usages.
LatestUse(us, id) ==
    CHOOSE n \in {u.used : u \in {v \in us : v.id = id}} :
        \A u \in us : u.id = id => u.used <= n

\* A slip: last_accessed_at stays what the project row was inserted with.
KeepActivity(prs, us) == prs

RecomputeActivity(prs, us) ==
    {[pr EXCEPT !.last = LatestUse(us, pr.id)] : pr \in prs}

FtsOf(prs) == {[row |-> pr.row, path |-> pr.path] : pr \in prs}

\* A slip: the rows are inserted without emptying the table first.
AppendFts(prs) == fts \cup FtsOf(prs)

\* rebuild_fts inside the transaction.
RebuildFts(prs) == FtsOf(prs)

-----------------------------------------------------------------------------
Init ==
    /\ clock = 0
    /\ sources = [t \in Tools |-> [d \in Paths |-> 0]]
    /\ projects = {}
    /\ usages = {}
    /\ fts = {}
    /\ commits = 0
    /\ pc = [p \in Procs |-> "idle"]
    /\ job = [p \in Procs |-> "read"]
    /\ want = [p \in Procs |-> {}]
    /\ found = [p \in Procs |-> NoScan]
    /\ todo = [p \in Procs |-> {}]
    /\ disturbed = {}

(* The tools themselves: a session is used, or its files are deleted.      *)
Activity(t, d) ==
    /\ clock < MaxClock
    /\ clock' = clock + 1
    /\ sources' = [sources EXCEPT ![t][d] = clock + 1]
    /\ UNCHANGED <<tables, local, disturbed>>

Forget(t, d) ==
    /\ sources[t][d] > 0
    /\ sources' = [sources EXCEPT ![t][d] = 0]
    /\ UNCHANGED <<clock, tables, local, disturbed>>

-----------------------------------------------------------------------------
(* A scan.                                                                 *)

\* The command ends, well or badly, and its variables with it.
Finish(p) ==
    /\ pc' = [pc EXCEPT ![p] = "idle"]
    /\ job' = [job EXCEPT ![p] = "read"]
    /\ want' = [want EXCEPT ![p] = {}]
    /\ found' = [found EXCEPT ![p] = NoScan]
    /\ todo' = [todo EXCEPT ![p] = {}]

\* The scanners of every enabled adapter, or the one --tool names.
StartScan(p) ==
    /\ pc[p] = "idle"
    /\ commits < MaxCommits
    /\ \E S \in {Tools} \cup {{t} : t \in Tools} :
          /\ want' = [want EXCEPT ![p] = S]
          /\ pc' = [pc EXCEPT ![p] = "scan"]
          /\ job' = [job EXCEPT ![p] = "scan"]
    /\ UNCHANGED <<clock, sources, tables, found, todo, disturbed>>

\* One scanner returns Succeeded with what the sources hold now.
ScannerSucceeds(p, t) ==
    /\ pc[p] = "scan"
    /\ t \in want[p]
    /\ want' = [want EXCEPT ![p] = @ \ {t}]
    /\ found' = [found EXCEPT ![p] =
                    [u \in DOMAIN @ \cup {t} |->
                        IF u = t THEN sources[t] ELSE @[u]]]
    /\ UNCHANGED <<clock, sources, tables, pc, job, todo, disturbed>>

\* Unavailable, Failed or a panic: the outcome feeds nothing.
ScannerFails(p, t) ==
    /\ pc[p] = "scan"
    /\ t \in want[p]
    /\ want' = [want EXCEPT ![p] = @ \ {t}]
    /\ UNCHANGED <<clock, sources, tables, pc, job, found, todo, disturbed>>

\* No scanner succeeded: an error, and the database is not even opened.
ScanGivesUp(p) ==
    /\ pc[p] = "scan"
    /\ want[p] = {}
    /\ DOMAIN found[p] = {}
    /\ Finish(p)
    /\ UNCHANGED <<clock, sources, tables, disturbed>>

\* A slip: the store is opened although nothing was inspected.
ScanOpensAnyway(p) ==
    /\ pc[p] = "scan"
    /\ want[p] = {}
    /\ pc' = [pc EXCEPT ![p] = "clear"]
    /\ UNCHANGED <<clock, sources, tables, job, want, found, todo, disturbed>>

ScanOpens(p) ==
    /\ pc[p] = "scan"
    /\ want[p] = {}
    /\ DOMAIN found[p] /= {}
    /\ pc' = [pc EXCEPT ![p] = "clear"]
    /\ UNCHANGED <<clock, sources, tables, job, want, found, todo, disturbed>>

\* `list`, `search`, `open`...: the store is opened for what they read.
StartRead(p) ==
    /\ pc[p] = "idle"
    /\ pc' = [pc EXCEPT ![p] = "clear"]
    /\ job' = [job EXCEPT ![p] = "read"]
    /\ UNCHANGED <<clock, sources, tables, want, found, todo, disturbed>>

-----------------------------------------------------------------------------
(* SqliteStore::new ends in rebuild_fts, outside any transaction.          *)

Opening == {"clear", "load", "drop", "insert", "ready"}
Others(p) == {q \in Procs \ {p} : pc[q] \in Opening}

\* The row rebuild_fts is at.
Current(p) == CHOOSE r \in todo[p] : \A s \in todo[p] : r.row <= s.row

\* A slip: rebuild_fts trusts sync_fts_row to replace what is there.
FtsClearNothing(p) ==
    /\ pc[p] = "clear"
    /\ pc' = [pc EXCEPT ![p] = "load"]
    /\ disturbed' = (disturbed \cup Others(p)) \ {p}
    /\ UNCHANGED <<clock, sources, tables, job, want, found, todo>>

FtsClear(p) ==
    /\ pc[p] = "clear"
    /\ fts' = {}
    /\ pc' = [pc EXCEPT ![p] = "load"]
    /\ disturbed' = (disturbed \cup Others(p)) \ {p}
    /\ UNCHANGED <<clock, sources, projects, usages, commits,
                   job, want, found, todo>>

\* SELECT rowid, path FROM projects ORDER BY rowid, collected into a vector.
FtsLoad(p) ==
    /\ pc[p] = "load"
    /\ todo' = [todo EXCEPT ![p] = FtsOf(projects)]
    /\ pc' = [pc EXCEPT ![p] = IF projects = {} THEN "ready" ELSE "drop"]
    /\ UNCHANGED <<clock, sources, tables, job, want, found, disturbed>>

\* sync_fts_row, first statement.
FtsDrop(p) ==
    /\ pc[p] = "drop"
    /\ fts' = {r \in fts : r.row /= Current(p).row}
    /\ pc' = [pc EXCEPT ![p] = "insert"]
    /\ disturbed' = disturbed \cup Others(p)
    /\ UNCHANGED <<clock, sources, projects, usages, commits,
                   job, want, found, todo>>

\* sync_fts_row, second statement.
FtsInsert(p) ==
    /\ pc[p] = "insert"
    /\ \A r \in fts : r.row /= Current(p).row
    /\ fts' = fts \cup {Current(p)}
    /\ todo' = [todo EXCEPT ![p] = @ \ {Current(p)}]
    /\ pc' = [pc EXCEPT ![p] = IF todo[p] = {Current(p)} THEN "ready" ELSE "drop"]
    /\ disturbed' = disturbed \cup Others(p)
    /\ UNCHANGED <<clock, sources, projects, usages, commits,
                   job, want, found>>

\* Another opener inserted the same rowid in between: a constraint error.
FtsInsertFails(p) ==
    /\ pc[p] = "insert"
    /\ \E r \in fts : r.row = Current(p).row
    /\ Finish(p)
    /\ UNCHANGED <<clock, sources, tables, disturbed>>

-----------------------------------------------------------------------------
(* With the store open.                                                    *)

\* replace_tool_snapshots: one transaction.
Replace(p) ==
    LET f    == found[p]
        new  == SnapshotPaths(f) \ Indexed(projects)
    IN
    /\ pc[p] = "ready"
    /\ job[p] = "scan"
    /\ commits < MaxCommits
    /\ \E rows \in RowAssignments(projects, new) :
         LET prs  == UpsertProjects(projects, f, rows, commits + 1)
             snap == SnapshotUsages(prs, f)
             us   == DropStaleUsages(UpsertUsages(usages, snap),
                                     snap, DOMAIN f)
             kept == RecomputeActivity(DropUnusedProjects(prs, us), us)
         IN
         /\ projects' = kept
         /\ usages' = us
         /\ fts' = RebuildFts(kept)
    /\ commits' = commits + 1
    /\ Finish(p)
    /\ disturbed' = disturbed \cup Others(p)
    /\ UNCHANGED <<clock, sources>>

\* The command read what it came for and ends.
Read(p) ==
    /\ pc[p] = "ready"
    /\ job[p] = "read"
    /\ Finish(p)
    /\ UNCHANGED <<clock, sources, tables, disturbed>>

\* The process is killed, or one of its statements stays SQLITE_BUSY past the
\* timeout and `?` ends the command.  A transaction is rolled back.
Interrupt(p) ==
    /\ MayInterrupt
    /\ pc[p] /= "idle"
    /\ Finish(p)
    /\ UNCHANGED <<clock, sources, tables, disturbed>>

-----------------------------------------------------------------------------
Next ==
    \/ \E t \in Tools, d \in Paths : Activity(t, d) \/ Forget(t, d)
    \/ \E p \in Procs :
          \/ StartScan(p) \/ ScanGivesUp(p) \/ ScanOpens(p) \/ StartRead(p)
          \/ \E t \in Tools : ScannerSucceeds(p, t) \/ ScannerFails(p, t)
          \/ FtsClear(p) \/ FtsLoad(p) \/ FtsDrop(p)
          \/ FtsInsert(p) \/ FtsInsertFails(p)
          \/ Replace(p) \/ Read(p) \/ Interrupt(p)

Spec == Init /\ [][Next]_vars

-----------------------------------------------------------------------------
(* Properties.                                                             *)

ProjectRows == [row : Nat, id : Ids, path : Paths, last : Stamps]
UsageRows   == [id : Ids, tool : Tools, used : Stamps]

\* Every variable has the shape of what it stands for; a rebuild that is not
\* over has a row to index, and a scan that has the store open has an outcome.
TypeOK ==
    /\ clock \in Stamps
    /\ sources \in [Tools -> [Paths -> Stamps]]
    /\ projects \subseteq ProjectRows
    /\ usages \subseteq UsageRows
    /\ fts \subseteq [row : Nat, path : Paths]
    /\ commits \in 0 .. MaxCommits
    /\ pc \in [Procs -> {"idle", "scan"} \cup Opening]
    /\ job \in [Procs -> {"read", "scan"}]
    /\ want \in [Procs -> SUBSET Tools]
    /\ \A p \in Procs : \E S \in SUBSET Tools :
                           found[p] \in [S -> [Paths -> Stamps]]
    /\ DOMAIN found = Procs
    /\ todo \in [Procs -> SUBSET [row : Nat, path : Paths]]
    /\ \A p \in Procs : pc[p] \in {"drop", "insert"} => todo[p] /= {}
    /\ \A p \in Procs :
          pc[p] \in Opening /\ job[p] = "scan" => DOMAIN found[p] /= {}
    /\ disturbed \subseteq Procs

\* A project has one row, one id and one path; rows never share any of them.
OneRowPerProject ==
    \A x, y \in projects :
        x.row = y.row \/ x.id = y.id \/ x.path = y.path => x = y

\* There is one usage row per project and tool (the unique index).
OneUsagePerTool ==
    \A u, v \in usages : u.id = v.id /\ u.tool = v.tool => u = v

\* No usage without its project, and no project without a usage.
NoOrphans ==
    /\ \A u \in usages : \E pr \in projects : pr.id = u.id
    /\ \A pr \in projects : \E u \in usages : u.id = pr.id

\* The project list is sorted by a column that always equals the latest use
\* of the project by any tool, also by tools the last scan did not inspect.
ActivityIsLatestUse ==
    \A pr \in projects :
        /\ \E u \in usages : u.id = pr.id /\ u.used = pr.last
        /\ \A u \in usages : u.id = pr.id => u.used <= pr.last

\* What the relational schema and the writers together keep true of the two
\* tables of store.rs, whatever scans interleave and wherever they die.
TablesConsistent ==
    /\ OneRowPerProject
    /\ OneUsagePerTool
    /\ NoOrphans
    /\ ActivityIsLatestUse

FtsMirrors == fts = FtsOf(projects)

\* An opener that met no other writer between FtsClear and the end of its
\* rebuild leaves a search table that mirrors the projects, even if an
\* earlier opener was killed half way and left it partial.
LoneOpenRepairsSearch ==
    \A p \in Procs : pc[p] = "ready" /\ p \notin disturbed => FtsMirrors

\* A step that changes the tables leaves a search table that mirrors them:
\* the two are published together by replace_tool_snapshots.
PublishedTogether ==
    [][<<projects, usages>>' /= <<projects, usages>> => FtsMirrors']_vars

\* The paths a search for the name of path d returns: rowids join the two
\* tables (search_projects_rows, and search_projects of the console).
SearchFor(d) ==
    {pr.path : pr \in {x \in projects :
                         \E r \in fts : r.row = x.row /\ r.path = d}}

\* docs/scan-contract.md: the index and the FTS view change atomically.  When
\* no process has the store open, a search finds exactly what is listed.
SearchMatchesIndex ==
    (\A p \in Procs : pc[p] \in {"idle", "scan"}) =>
        \A d \in Paths : SearchFor(d) = {d} \cap Indexed(projects)

-----------------------------------------------------------------------------
(* The tables implement the abstract index.                                *)

UseOf(t, d) ==
    LET uses == {u \in usages : u.id.path = d /\ u.tool = t}
    IN  IF uses = {} THEN 0 ELSE (CHOOSE u \in uses : TRUE).used

BornOf(d) ==
    IF d \in Indexed(projects)
    THEN (CHOOSE pr \in projects : pr.path = d).id.born ELSE 0

Abstract == INSTANCE AtomicIndex WITH
    slice   <- [t \in Tools |-> [d \in Paths |-> UseOf(t, d)]],
    ident   <- [d \in Paths |-> BornOf(d)],
    version <- commits,
    outcome <- found

\* Every step of every process publishes whole slices or nothing, keeps the
\* slices of the tools it did not inspect, and keeps the id of a project as
\* long as some tool lists it.
ImplementsAtomicIndex == Abstract!Spec
=============================================================================
