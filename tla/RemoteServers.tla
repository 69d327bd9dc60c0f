---------------------------- MODULE RemoteServers ----------------------------
(***************************************************************************)
(* The remote servers of prefs.db, and the scans that fill their projects: *)
(* a scan of one server on a blocking thread, and a scan of all of them    *)
(* with a bounded number of workers, beside the commands of the window.    *)
(* A scan reads the server's row, runs ssh for minutes, validates what came*)
(* back and replaces the server's projects in one transaction.             *)
(*                                                                         *)
(* A project's id is the server with the hash of its path.  Older versions *)
(* took `<path>/.git` for the path: an id here is a path with its form,    *)
(* "root" or "marker".  An activity is the time of the last commit, 0 for a*)
(* repository without one.                                                 *)
(***************************************************************************)
EXTENDS Integers, FiniteSets, FiniteSetsExt

CONSTANTS MaxServers,   \* bound: ids AUTOINCREMENT has given out
          Paths,        \* working trees there may be on a server
          Hidden,       \* those below a directory whose name starts with a dot
          Earlier,      \* bound: trees and rows there may be at the start
          Ignorable,    \* bound: servers with projects the user hides
          Tools,        \* keys of the tools launched on servers
          MaxWorkers,   \* workers of a batch: 2 in run_all_remote_server_scans
          MaxClock      \* bound: launches and changes on the hosts, from time 2 on

ASSUME RemoteAssumption ==
    /\ MaxServers \in Nat \ {0}
    /\ MaxWorkers \in Nat \ {0}
    /\ MaxClock \in Nat \ {0, 1}
    /\ IsFiniteSet(Paths)
    /\ Hidden \subseteq Paths
    /\ IsFiniteSet(Tools)

Servers == 1 .. MaxServers
Workers == 1 .. MaxWorkers
Single  == 0                    \* the thread of scan_remote_server
Jobs    == {Single} \cup Workers
Times   == 0 .. MaxClock
Absent  == -1                   \* no working tree at that path

VARIABLES
    clock,      \* the time, of the hosts too
    tree,       \* tree[s][p]: last commit at p on the host of s, or Absent
    status,     \* remote_servers: "never", "here" or "gone"
    projects,   \* remote_projects: server, id, last_accessed_at
    usages,     \* remote_tool_usages: server, id, tool, last_used_at, count
    ignores,    \* servers with a rule in project_ignores
    stage,      \* where each job is
    target,     \* the server it scans
    output,     \* what its find printed, whether it succeeded, and (history)
                \* the projects that were there
    share,      \* the servers a worker was given
    left,       \* those it has still to scan
    outcomes,   \* what it has returned
    landed      \* history: servers whose snapshot this batch has replaced

db    == <<status, projects, usages, ignores>>
hosts == <<clock, tree>>
batch == <<share, left, outcomes, landed>>
vars  == <<hosts, db, stage, target, output, batch>>

Later(a, b) == IF a > b THEN a ELSE b
Root(p)     == [path |-> p, form |-> "root"]
Marker(p)   == [path |-> p, form |-> "marker"]
Ids         == [path : Paths, form : {"root", "marker"}]
NoOutput    == [success |-> FALSE, records |-> {}, there |-> {}]

\* What older versions may have left.  One that listed a path under its present
\* id moved the uses under the old id in the same transaction.
ASSUME EarlierAssumption ==
    \A e \in Earlier :
        /\ e.tree \in [Servers -> [Paths -> Absent .. 2]]
        /\ e.listed \cup e.used \subseteq Ids
        /\ \A p \in Paths : Root(p) \in e.listed => Marker(p) \notin e.used

Visible(s) == {p \in Paths \ Hidden : tree[s][p] /= Absent}

-----------------------------------------------------------------------------
(* What the transaction of a scan computes.                                *)

\* parse_remote_scan_output: hidden trees are left out, a path reported by
\* several roots gives one row with the latest activity.
Parsed(records) ==
    [p \in {r.path : r \in records} \ Hidden |->
        Max({r.activity : r \in {x \in records : x.path = p}})]

UsagesOf(us, s, id) == {u \in us : u.server = s /\ u.id = id}

\* migrate_legacy_remote_tool_usages for the paths of a listing: counts add
\* up, the later use wins.
Merged(us, s, p, t) ==
    LET both == {u \in UsagesOf(us, s, Root(p)) \cup UsagesOf(us, s, Marker(p)) :
                    u.tool = t}
    IN  [server |-> s, id |-> Root(p), tool |-> t,
         at |-> Max({u.at : u \in both}),
         count |-> SumSet({u.count : u \in UsagesOf(both, s, Root(p))})
                     + SumSet({u.count : u \in UsagesOf(both, s, Marker(p))})]

\* A slip: the row that was there takes the other's values, count and all.
MigratedOver(us, s, listing) ==
    LET old == {u \in us : u.server = s /\ u.id.path \in DOMAIN listing}
        kept(u) == /\ u.id.form = "root"
                   /\ \A v \in UsagesOf(us, s, Marker(u.id.path)) : v.tool /= u.tool
    IN  {u \in us : u \notin old \/ kept(u)} \cup
        {[u EXCEPT !.id = Root(@.path)] : u \in {v \in old : v.id.form = "marker"}}

Migrated(us, s, listing) ==
    LET old == {u \in us : u.server = s /\ u.id.path \in DOMAIN listing}
    IN  (us \ old) \cup {Merged(us, s, u.id.path, u.tool) : u \in old}

LatestUse(us, s, p) == Max({0} \cup {u.at : u \in UsagesOf(us, s, Root(p))})

\* A row under the old form is looked up if there is none under the new one.
PreviousAccess(prs, s, p) ==
    LET at(id) == {r.last : r \in {x \in prs : x.server = s /\ x.id = id}}
    IN  Max({0} \cup (IF at(Root(p)) /= {} THEN at(Root(p)) ELSE at(Marker(p))))

\* remote_last_accessed_at, 0 standing for None.
LastAccess(git, used, previous, now) ==
    IF git > 0 THEN Later(git, used)
    ELSE IF Later(used, previous) > 0 THEN Later(used, previous)
    ELSE now

\* A slip: the latest use is looked up in the usages before migration.
SnapshotBeforeMigration(prs, us, s, listing, now) ==
    {[server |-> s, id |-> Root(p),
      last |-> LastAccess(listing[p],
                          LatestUse(usages, s, p), PreviousAccess(prs, s, p), now)] :
        p \in DOMAIN listing}

Snapshot(prs, us, s, listing, now) ==
    {[server |-> s, id |-> Root(p),
      last |-> LastAccess(listing[p], LatestUse(us, s, p),
                          PreviousAccess(prs, s, p), now)] :
        p \in DOMAIN listing}

-----------------------------------------------------------------------------
Init ==
    /\ clock = 2
    /\ status = [s \in Servers |-> IF s = 1 THEN "here" ELSE "never"]
    \* Older versions may have scanned server 1 and recorded launches.
    /\ \E e \in Earlier :
          /\ tree = e.tree
          /\ projects = {[server |-> 1, id |-> i, last |-> clock] : i \in e.listed}
          /\ usages = {[server |-> 1, id |-> i, tool |-> t, count |-> 1,
                         at |-> IF i \in e.listed THEN clock ELSE 1] :
                          i \in e.used, t \in Tools}
    /\ ignores = {}
    /\ stage = [j \in Jobs |-> "idle"]
    /\ target = [j \in Jobs |-> 1]
    /\ output = [j \in Jobs |-> NoOutput]
    /\ share = [w \in Workers |-> {}]
    /\ left = [w \in Workers |-> {}]
    /\ outcomes = [w \in Workers |-> {}]
    /\ landed = {}

(* The hosts.                                                              *)

\* A commit, a new repository, a rewritten history or a removed tree.
HostChanges(s, p) ==
    /\ p \notin Hidden         \* those need only be there
    /\ clock < MaxClock
    /\ clock' = clock + 1
    /\ \E e \in {Absent, 0, clock'} :
          /\ e /= tree[s][p]
          /\ tree' = [tree EXCEPT ![s][p] = e]
    /\ UNCHANGED <<db, stage, target, output, batch>>

(* Commands of the window.                                                 *)

AddServer(s) ==
    /\ status[s] = "never"
    /\ \A r \in Servers : r < s => status[r] /= "never"
    /\ status' = [status EXCEPT ![s] = "here"]
    /\ UNCHANGED <<hosts, projects, usages, ignores, stage, target, output, batch>>

\* delete_remote_server: ignores by hand, projects and usages by the cascade.
DeleteServer(s) ==
    /\ status[s] = "here"
    /\ status' = [status EXCEPT ![s] = "gone"]
    /\ projects' = {r \in projects : r.server /= s}
    /\ usages' = {u \in usages : u.server /= s}
    /\ ignores' = ignores \ {s}
    /\ UNCHANGED <<hosts, stage, target, output, batch>>

AddIgnore(s) ==
    /\ s \in Ignorable
    /\ status[s] = "here"
    /\ ignores' = ignores \cup {s}
    /\ UNCHANGED <<hosts, status, projects, usages, stage, target, output, batch>>

\* delete_project_ignore, of the last rule of the server.
DeleteIgnore(s) ==
    /\ s \in ignores
    /\ ignores' = ignores \ {s}
    /\ UNCHANGED <<hosts, status, projects, usages, stage, target, output, batch>>

\* record_remote_tool_usage: a launch in a project that is listed.
RecordUsage(s, id, t) ==
    LET row  == {r \in projects : r.server = s /\ r.id = id}
        mine == {u \in UsagesOf(usages, s, id) : u.tool = t}
    IN
    /\ clock < MaxClock
    /\ row /= {}
    /\ clock' = clock + 1
    /\ projects' = (projects \ row) \cup {[r EXCEPT !.last = clock'] : r \in row}
    /\ usages' = (usages \ mine) \cup
                 {[server |-> s, id |-> id, tool |-> t, at |-> clock',
                   count |-> 1 + SumSet({u.count : u \in mine})]}
    /\ UNCHANGED <<tree, status, ignores, stage, target, output, batch>>

\* project_path_is_excluded: below a name that starts with a dot, as the path
\* of an old row is, or below a path the user hides; a rule of a server is
\* taken to lie above all its projects.
Excluded(s, id) == id.path \in Hidden \/ id.form = "marker" \/ s \in ignores

\* fetch_remote_usages_by_project: by the exact id.
UsagesById(keys) == [k \in keys |-> UsagesOf(usages, k.server, k.id)]

\* What the window shows of all servers.
ListRemoteProjects ==
    LET rows == {r \in projects : ~Excluded(r.server, r.id)}
        used == UsagesById({[server |-> r.server, id |-> r.id] : r \in rows})
    IN  {[server |-> r.server, id |-> r.id, last |-> r.last,
          usages |-> used[[server |-> r.server, id |-> r.id]]] : r \in rows}

-----------------------------------------------------------------------------
(* One scan: run_remote_server_scan, in job j.                             *)

\* The scan returns: to the window, or to the worker that called it.
Return(j, ok) ==
    /\ stage' = [stage EXCEPT ![j] = "idle"]
    /\ output' = [output EXCEPT ![j] = NoOutput]
    /\ target' = [target EXCEPT ![j] = 1]
    /\ IF j = Single THEN UNCHANGED batch
       ELSE /\ outcomes' = [outcomes EXCEPT ![j] =
                              @ \cup {[server |-> target[j], ok |-> ok]}]
            /\ left' = [left EXCEPT ![j] = @ \ {target[j]}]
            /\ landed' = IF ok THEN landed \cup {target[j]} ELSE landed
            /\ UNCHANGED share

\* The scan begins by reading the server's row; it ends there if that is gone.
ReadServer(j, s) ==
    /\ stage[j] = "idle"
    /\ status[s] = "here"
    /\ stage' = [stage EXCEPT ![j] = "ssh"]
    /\ target' = [target EXCEPT ![j] = s]
    /\ UNCHANGED <<hosts, db, output, batch>>

\* The find succeeds with everything there is, or fails and leaves some out.
ListRemote(j) ==
    LET s     == target[j]
        there == {[path |-> p, activity |-> tree[s][p]] :
                     p \in {q \in Paths : tree[s][q] /= Absent}}
    IN
    /\ stage[j] = "ssh"
    /\ \E part \in SUBSET there :
          /\ Cardinality(there \ part) <= 1     \* bound: one record is missing
          /\ output' = [output EXCEPT ![j] =
                [success |-> part = there, records |-> part, there |-> Visible(s)]]
    /\ stage' = [stage EXCEPT ![j] = "store"]
    /\ UNCHANGED <<hosts, db, target, batch>>

\* The identity probe fails, ssh cannot be started or times out.
SshFails(j) ==
    /\ stage[j] = "ssh"
    /\ Return(j, FALSE)
    /\ UNCHANGED <<hosts, db>>

\* validate_remote_scan_before_write refuses a failed find; the transaction
\* finds its server gone, or stays busy.
StoreFails(j) ==
    /\ stage[j] = "store"
    /\ Return(j, FALSE)
    /\ UNCHANGED <<hosts, db>>

Replaced(j) ==
    LET s       == target[j]
        listing == Parsed(output[j].records)
        us      == Migrated(usages, s, listing)
    IN
    /\ usages' = us
    /\ projects' = {r \in projects : r.server /= s} \cup
                   Snapshot(projects, us, s, listing, clock)

\* A slip: the exit status of the find is not looked at.
StoreUnvalidated(j) ==
    /\ stage[j] = "store"
    /\ status[target[j]] = "here"
    /\ Replaced(j)
    /\ Return(j, TRUE)
    /\ UNCHANGED <<hosts, status, ignores>>

Store(j) ==
    /\ stage[j] = "store"
    /\ output[j].success
    /\ status[target[j]] = "here"
    /\ Replaced(j)
    /\ Return(j, TRUE)
    /\ UNCHANGED <<hosts, status, ignores>>

-----------------------------------------------------------------------------
(* A batch: run_all_remote_server_scans over run_bounded_remote_jobs.      *)

Registered == {s \in Servers : status[s] = "here"}
Index(s)   == Cardinality({r \in Registered : r < s})

StartBatch ==
    LET count == Min({MaxWorkers, Cardinality(Registered)})
    IN
    /\ Registered /= {}
    /\ \A w \in Workers : share[w] = {}
    /\ share' = [w \in Workers |->
                   {s \in Registered : Index(s) % count = w - 1}]
    /\ left' = share'
    /\ UNCHANGED <<hosts, db, stage, target, output, outcomes, landed>>

TakeNext(w) ==
    /\ left[w] /= {}
    /\ ReadServer(w, Min(left[w]))

ServerNotFound(w) ==
    LET s == Min(left[w]) IN
    /\ stage[w] = "idle"
    /\ left[w] /= {}
    /\ status[s] /= "here"
    /\ left' = [left EXCEPT ![w] = @ \ {s}]
    /\ outcomes' = [outcomes EXCEPT ![w] = @ \cup {[server |-> s, ok |-> FALSE]}]
    /\ UNCHANGED <<hosts, db, stage, target, output, share, landed>>

\* A job panics and takes its worker's results with it.
Panic(w) ==
    /\ stage[w] = "ssh"        \* later in the scan it comes to the same
    /\ stage' = [stage EXCEPT ![w] = "dead"]
    /\ UNCHANGED <<hosts, db, target, output, batch>>

\* A slip: only what workers returned is reported.
JoinedReturned(w) == IF stage[w] = "dead" THEN {} ELSE outcomes[w]

\* The join of one worker: a panic fails its whole share.
Joined(w) ==
    IF stage[w] = "dead"
    THEN {[server |-> s, ok |-> FALSE] : s \in share[w]}
    ELSE outcomes[w]

\* What run_all_remote_server_scans returns.
Report == UNION {Joined(w) : w \in Workers}

\* A slip: the join waits for workers that are done and forgets the dead.
EndBatchAllIdle ==
    /\ \E w \in Workers : share[w] /= {}
    /\ \A w \in Workers : stage[w] = "idle" /\ left[w] = {}
    /\ share' = [w \in Workers |-> {}]
    /\ outcomes' = [w \in Workers |-> {}]
    /\ landed' = {}
    /\ UNCHANGED <<hosts, db, stage, target, output, left>>

EndBatch ==
    /\ \E w \in Workers : share[w] /= {}
    /\ \A w \in Workers : stage[w] = "dead" \/ (stage[w] = "idle" /\ left[w] = {})
    /\ stage' = [j \in Jobs |-> IF j = Single THEN stage[j] ELSE "idle"]
    /\ target' = [j \in Jobs |-> IF j = Single THEN target[j] ELSE 1]
    /\ share' = [w \in Workers |-> {}]
    /\ left' = [w \in Workers |-> {}]
    /\ outcomes' = [w \in Workers |-> {}]
    /\ landed' = {}
    /\ UNCHANGED <<hosts, db, output>>

JobStep(j) ==
    \/ ListRemote(j) \/ SshFails(j) \/ StoreFails(j) \/ Store(j)

WorkerStep(w) == JobStep(w) \/ TakeNext(w) \/ ServerNotFound(w)

Next ==
    \/ \E s \in Servers :
          \/ \E p \in Paths : HostChanges(s, p)
          \/ AddIgnore(s) \/ DeleteIgnore(s) \/ AddServer(s) \/ DeleteServer(s) \/ ReadServer(Single, s)
          \* The window launches in what it has listed, so under no old id.
          \/ \E p \in Paths, t \in Tools : RecordUsage(s, Root(p), t)
    \/ JobStep(Single)
    \/ \E w \in Workers : WorkerStep(w) \/ Panic(w)
    \/ StartBatch \/ EndBatch

\* Every ssh run has a timeout and the database a busy timeout, so a job that
\* has begun goes on; a worker takes the next server, and the join follows.
Fairness ==
    /\ \A w \in Workers : WF_vars(WorkerStep(w))
    /\ WF_vars(JobStep(Single))
    /\ WF_vars(EndBatch)

Spec == Init /\ [][Next]_vars /\ Fairness

-----------------------------------------------------------------------------
(* Properties.                                                             *)

\* Nothing is left of a server that was deleted, also by a scan or a launch
\* that had begun before: ids are not reused, so it would stay for ever.
RowsHaveServers ==
    /\ \A r \in projects : status[r.server] = "here"
    /\ \A u \in usages : status[u.server] = "here"
    /\ \A s \in ignores : status[s] = "here"

OneRowPerProject ==
    /\ \A r, q \in projects : r.server = q.server /\ r.id = q.id => r = q
    /\ \A u, v \in usages :
          u.server = v.server /\ u.id = v.id /\ u.tool = v.tool => u = v

\* A project is never listed as older than a session recorded in it, through
\* rescans, changed ids and rewritten histories; and no session of a listed
\* project is left under the old id, where no listing would find it.
RecencyCoversUse ==
    \A row \in ListRemoteProjects :
        /\ \A u \in row.usages : row.last >= u.at
        /\ UsagesOf(usages, row.server, Marker(row.id.path)) = {}

RemoteTablesConsistent ==
    /\ RowsHaveServers
    /\ OneRowPerProject
    /\ RecencyCoversUse

\* Apart from its deletion, a server comes to show other projects only when a
\* listing of it succeeded, and then all that was there and nothing else: a
\* find that failed half way never shortens what is shown.
ListedOf(s) == {r.id.path : r \in {x \in projects : x.server = s}}

OnlyWholeListings ==
    [][\A s \in Servers : ListedOf(s)' /= ListedOf(s) =>
          \/ status'[s] = "gone"
          \/ \E j \in Jobs : /\ target[j] = s
                             /\ stage[j] = "store"
                             /\ ListedOf(s)' = output[j].there]_vars

\* The result of a batch names each server it was given, once; "success" means
\* that its snapshot is in, and if no worker died, "failed" that it is not.
BatchTellsTheTruth ==
    [][EndBatch =>
         /\ {o.server : o \in Report} = UNION {share[w] : w \in Workers}
         /\ \A o, q \in Report : o.server = q.server => o = q
         /\ \A o \in Report : o.ok => o.server \in landed
         /\ (\A w \in Workers : stage[w] /= "dead") =>
               \A o \in Report : o.ok <=> o.server \in landed]_vars

\* A batch that has begun is reported.
BatchEnds ==
    (\E w \in Workers : share[w] /= {}) ~> (\A w \in Workers : share[w] = {})

SessionsOf(s, p, t) ==
    SumSet({u.count : u \in {v \in UsagesOf(usages, s, Root(p)) : v.tool = t}})
      + SumSet({u.count : u \in {v \in UsagesOf(usages, s, Marker(p)) : v.tool = t}})

Catalog == INSTANCE ServerCatalog WITH
    listed   <- [s \in Servers |-> ListedOf(s)],
    sessions <- [s \in Servers |-> [p \in Paths |-> [t \in Tools |-> SessionsOf(s, p, t)]]]

\* The tables implement the catalog: a scan replaces a server's projects and
\* keeps every session recorded in them, also those under an old id.
ImplementsServerCatalog == Catalog!Spec
=============================================================================
