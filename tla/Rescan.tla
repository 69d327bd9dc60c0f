------------------------------- MODULE Rescan -------------------------------
(***************************************************************************)
(* A rescan from the session files of a tool to the searchable content of  *)
(* its projects: the scanner of the tool with the file cache the scans     *)
(* share (scanner/claude.rs and scanner/codex.rs have this loop,           *)
(* scanner/base.rs and scanner/cache.rs are its parts), the replacement of *)
(* the tool's projects (store.rs, in one transaction: ProjectIndex has its *)
(* statements), and the refresh of the content index, project by project   *)
(* (store.rs, content_index.rs).  Rescans of several processes overlap,    *)
(* the tool and the user go on writing, and a process may be killed.       *)
(*                                                                         *)
(* A file is the number of its last write, 0 when it does not exist; that  *)
(* number is both its fingerprint (size and modification time) and its     *)
(* contents.  A session names one project, the first working directory in  *)
(* it, and its last activity grows with each write.  Session files, paths  *)
(* and documents are numbers, in the order of their names.                 *)
(***************************************************************************)
EXTENDS Integers, FiniteSets, FiniteSetsExt

CONSTANTS
    Jobs,         \* processes that can run a rescan
    SessionFiles, \* the session files of the tool
    Paths,        \* project directories
    ProjectOf,    \* the project a session file names
    DocsOf,       \* the documents a project can have
    MaxFiles,     \* documents indexed per project (max_files_per_project)
    MaxClock,     \* bound on the writes and deletions of files
    MaxRescans,   \* bound on the rescans started
    Nobody

ASSUME RescanAssumption ==
    /\ SessionFiles \cup Paths \subseteq Nat \ {0}
    /\ Paths # {} /\ IsFiniteSet(Paths)
    /\ DocsOf \in [Paths -> SUBSET (Nat \ {0})]
    /\ \A p \in Paths : DocsOf[p] # {} /\ IsFiniteSet(DocsOf[p])
    /\ ProjectOf \in [SessionFiles -> Paths]
    /\ MaxFiles \in Nat \ {0}
    /\ Nobody \notin Jobs

Docs == UNION {DocsOf[p] : p \in Paths}

VARIABLES
    sessions,  \* session file -> its last write
    docs,      \* project directory -> document -> its last write
    clock,     \* writes and deletions so far
    cacheFile, \* scanner-cache-v1.json: what a parse of each file found
    projects,  \* table projects
    rows,      \* table project_content_files
    entries,   \* the search table project_content_fts
    ids,       \* next AUTOINCREMENT id of a row, next id of a project
    sanitizer, \* which sanitizer the content claims: "old" or "current"
    stage, scan, refresh,  \* of each job: where it is, and its locals
    started,   \* rescans started so far
    solo       \* history: the job that has run, from its start, undisturbed

files    == <<sessions, docs, clock>>
database == <<projects, rows, entries, ids, sanitizer>>
vars     == <<files, cacheFile, database, stage, scan, refresh, started, solo>>

NoScan    == [listed |-> {}, steady |-> {}, todo |-> {}, read |-> 0,
              found |-> {}, cache |-> {}, dirty |-> FALSE]
NoRefresh == [left |-> {}, toRead |-> {}, retained |-> {}, read |-> {}]

Present(tree) == {f \in DOMAIN tree : tree[f] # 0}

(* An index an earlier version of the program left, whose content the       *)
(* present sanitizer has not seen; only one of the projects is in it.       *)
Init ==
    /\ sessions = [f \in SessionFiles |-> 1]
    /\ docs = [p \in Paths |-> [d \in DocsOf[p] |-> IF d = Min(DocsOf[p]) THEN 1 ELSE 0]]
    /\ clock = 1
    /\ cacheFile = {}
    /\ LET p == Min(Paths)
           d == Min(DocsOf[p])
       IN /\ projects = {[path |-> p, id |-> 1, seen |-> 1]}
          /\ rows = {[id |-> 1, project |-> 1, doc |-> d, fp |-> 1]}
          /\ entries = {[id |-> 1, path |-> p, doc |-> d, body |-> 1, by |-> "old"]}
    /\ ids = [row |-> 2, project |-> 2]
    /\ sanitizer = "old"
    /\ stage = [j \in Jobs |-> "idle"]
    /\ scan = [j \in Jobs |-> NoScan]
    /\ refresh = [j \in Jobs |-> NoRefresh]
    /\ started = 0
    /\ solo = Nobody

(* Every step but those of the job that runs alone disturbs it.             *)
Undisturbed(j) == solo' = IF solo = j THEN j ELSE Nobody
Disturbed      == solo' = Nobody

Ends(j) ==
    /\ stage' = [stage EXCEPT ![j] = "idle"]
    /\ scan' = [scan EXCEPT ![j] = NoScan]
    /\ refresh' = [refresh EXCEPT ![j] = NoRefresh]

------------------------------------------------------------------------------
(* The tool and the user write.                                             *)

WriteSession(f) ==
    /\ clock < MaxClock
    /\ clock' = clock + 1
    /\ sessions' = [sessions EXCEPT ![f] = clock']
    /\ Disturbed
    /\ UNCHANGED <<docs, cacheFile, database, stage, scan, refresh, started>>

DeleteSession(f) ==
    /\ clock < MaxClock /\ sessions[f] # 0
    /\ clock' = clock + 1
    /\ sessions' = [sessions EXCEPT ![f] = 0]
    /\ scan' = [j \in Jobs |-> [scan[j] EXCEPT !.steady = @ \ {f}]]
    /\ Disturbed
    /\ UNCHANGED <<docs, cacheFile, database, stage, refresh, started>>

WriteDoc(p, d) ==
    /\ clock < MaxClock
    /\ clock' = clock + 1
    /\ docs' = [docs EXCEPT ![p][d] = clock']
    /\ Disturbed
    /\ UNCHANGED <<sessions, cacheFile, database, stage, scan, refresh, started>>

DeleteDoc(p, d) ==
    /\ clock < MaxClock /\ docs[p][d] # 0
    /\ clock' = clock + 1
    /\ docs' = [docs EXCEPT ![p][d] = 0]
    /\ Disturbed
    /\ UNCHANGED <<sessions, cacheFile, database, stage, scan, refresh, started>>

------------------------------------------------------------------------------
(* The scanner.                                                             *)

EntryFor(cache, f) == {e \in cache : e.file = f}

(* A scan probes and enumerates the directory of the sessions (a missing one*)
(* has no files, if the tool is installed; otherwise nothing is done), loads*)
(* the cache and drops from it the files that are gone.                     *)
Retained(cache, listed) == {e \in cache : e.file \in listed}

Enumerate(j) ==
    /\ stage[j] = "idle" /\ started < MaxRescans
    /\ started' = started + 1
    /\ LET listed == Present(sessions)
           cache  == Retained(cacheFile, listed)
       IN scan' = [scan EXCEPT ![j] =
              [NoScan EXCEPT !.listed = listed, !.steady = listed, !.todo = listed,
                             !.cache = cache, !.dirty = cache # cacheFile]]
    /\ stage' = [stage EXCEPT ![j] = "scan"]
    /\ solo' = IF \A k \in Jobs : stage[k] = "idle" THEN j ELSE Nobody
    /\ UNCHANGED <<files, cacheFile, database, refresh>>

(* The next file no longer exists: the scan fails as a whole.               *)
FileGone(j) ==
    /\ stage[j] = "scan" /\ scan[j].todo # {}
    /\ sessions[Min(scan[j].todo)] = 0
    /\ Ends(j)
    /\ Disturbed
    /\ UNCHANGED <<files, cacheFile, database, started>>

(* Mutant: the loop ends and what was found so far stands.                  *)
BudgetEndsTheLoop(j) ==
    /\ stage[j] = "scan" /\ scan[j].todo # {}
    /\ scan' = [scan EXCEPT ![j].todo = {}]
    /\ Disturbed
    /\ UNCHANGED <<files, cacheFile, database, stage, refresh, started>>

(* Reading spent one of the budgets or the deadline passed: what was found  *)
(* so far is dropped.                                                       *)
BudgetSpent(j) ==
    /\ stage[j] = "scan" /\ scan[j].todo # {}
    /\ Ends(j)
    /\ Disturbed
    /\ UNCHANGED <<files, cacheFile, database, started>>

(* The cached parse of a file counts while its fingerprint is the one it    *)
(* was stored under.                                                        *)
Hits(cache, f) == {e \in EntryFor(cache, f) : e.fp = sessions[f]}

Finding(f, seen) == [file |-> f, seen |-> seen]

UseCache(j) ==
    /\ stage[j] = "scan" /\ scan[j].todo # {}
    /\ LET f == Min(scan[j].todo)
       IN \E e \in Hits(scan[j].cache, f) :
              scan' = [scan EXCEPT ![j].todo = @ \ {f},
                                   ![j].found = @ \cup {Finding(f, e.seen)}]
    /\ Undisturbed(j)
    /\ UNCHANGED <<files, cacheFile, database, stage, refresh, started>>

(* A file without one is read to its end.  A clean parse is recorded in the *)
(* cache, one with malformed lines only counts.                             *)
Parse(j) ==
    /\ stage[j] = "scan" /\ scan[j].todo # {}
    /\ LET f == Min(scan[j].todo)
       IN /\ sessions[f] # 0 /\ Hits(scan[j].cache, f) = {}
          /\ \/ /\ scan' = [scan EXCEPT ![j].read = sessions[f],
                                        ![j].found = @ \cup {Finding(f, sessions[f])}]
                /\ stage' = [stage EXCEPT ![j] = "record"]
             \/ /\ scan' = [scan EXCEPT ![j].todo = @ \ {f},
                                        ![j].found = @ \cup {Finding(f, sessions[f])}]
                /\ stage' = stage
    /\ Undisturbed(j)
    /\ UNCHANGED <<files, cacheFile, database, refresh, started>>

(* The file cannot be read, or names no project: it is skipped with a       *)
(* diagnostic.                                                              *)
Unreadable(j) ==
    /\ stage[j] = "scan" /\ scan[j].todo # {}
    /\ LET f == Min(scan[j].todo)
       IN /\ sessions[f] # 0 /\ Hits(scan[j].cache, f) = {}
          /\ scan' = [scan EXCEPT ![j].todo = @ \ {f}, ![j].steady = @ \ {f}]
    /\ Disturbed
    /\ UNCHANGED <<files, cacheFile, database, stage, refresh, started>>

(* The parse is recorded under the fingerprint the file has by now.         *)
Record(j) ==
    /\ stage[j] = "record"
    /\ LET f == Min(scan[j].todo)
           e == [file |-> f, fp |-> sessions[f], seen |-> scan[j].read]
       IN scan' = [scan EXCEPT ![j].todo = @ \ {f}, ![j].read = 0,
              ![j].cache = IF sessions[f] = 0 THEN @ ELSE (@ \ EntryFor(@, f)) \cup {e},
              ![j].dirty = @ \/ sessions[f] # 0]
    /\ stage' = [stage EXCEPT ![j] = "scan"]
    /\ Undisturbed(j)
    /\ UNCHANGED <<files, cacheFile, database, refresh, started>>

(* Files were there but none gave a project: the scan fails.                *)
NoValidSessions(j) ==
    /\ stage[j] = "scan" /\ scan[j].todo = {}
    /\ scan[j].listed # {} /\ scan[j].found = {}
    /\ Ends(j)
    /\ Disturbed
    /\ UNCHANGED <<files, cacheFile, database, started>>

(* The scan succeeded.  The cache replaces the file as a whole, if it       *)
(* changed and if it can be written.                                        *)
Complete(j) ==
    /\ stage[j] = "scan" /\ scan[j].todo = {}
    /\ scan[j].listed = {} \/ scan[j].found # {}
    /\ \/ scan[j].dirty /\ cacheFile' = scan[j].cache
       \/ cacheFile' = cacheFile
    /\ scan' = [scan EXCEPT ![j].cache = {}, ![j].dirty = FALSE]
    /\ stage' = [stage EXCEPT ![j] = "open"]
    /\ Undisturbed(j)
    /\ UNCHANGED <<files, database, refresh, started>>

------------------------------------------------------------------------------
(* The database is opened: content of another sanitizer is erased, the file *)
(* is compacted, and only then does the content claim the present one.      *)

SanitizerIsCurrent == sanitizer = "current"

CheckSanitizer(j) ==
    /\ stage[j] = "open"
    /\ stage' = [stage EXCEPT ![j] = IF SanitizerIsCurrent THEN "replace" ELSE "wipe"]
    /\ Undisturbed(j)
    /\ UNCHANGED <<files, cacheFile, database, scan, refresh, started>>

WipeContent(j) ==
    /\ stage[j] = "wipe"
    /\ rows' = {} /\ entries' = {}
    /\ stage' = [stage EXCEPT ![j] = "vacuum"]
    /\ Undisturbed(j)
    /\ UNCHANGED <<files, cacheFile, projects, ids, sanitizer, scan, refresh, started>>

ClaimSanitizer(j) ==
    /\ stage[j] = "vacuum"
    /\ sanitizer' = "current"
    /\ stage' = [stage EXCEPT ![j] = "replace"]
    /\ Undisturbed(j)
    /\ UNCHANGED <<files, cacheFile, projects, rows, entries, ids, scan, refresh, started>>

(* Another connection keeps the file from being compacted: the rescan fails *)
(* and the next one erases again.                                           *)
CleanupBusy(j) ==
    /\ stage[j] = "vacuum"
    /\ Ends(j)
    /\ Disturbed
    /\ UNCHANGED <<files, cacheFile, database, started>>

(* The projects of the tool become the ones found: a project that is still  *)
(* there keeps its row, one that is gone takes the rows of its documents    *)
(* with it but not their search entries, which no foreign key reaches.      *)
SeenOf(found, p) == Max({e.seen : e \in {x \in found : ProjectOf[x.file] = p}})

(* Mutant: a project that was not found again stays.                        *)
ReplacementKeepsAll(found) ==
    LET named == {ProjectOf[x.file] : x \in found}
        new   == named \ {r.path : r \in projects}
        Id(p) == ids.project + Cardinality({q \in new : q < p})
    IN {[r EXCEPT !.seen = IF r.path \in named THEN SeenOf(found, r.path) ELSE @] :
        r \in projects}
           \cup {[path |-> p, id |-> Id(p), seen |-> SeenOf(found, p)] : p \in new}

Replacement(found) ==
    LET named == {ProjectOf[x.file] : x \in found}
        kept  == {r \in projects : r.path \in named}
        new   == named \ {r.path : r \in kept}
        Id(p) == ids.project + Cardinality({q \in new : q < p})
    IN {[r EXCEPT !.seen = SeenOf(found, r.path)] : r \in kept}
           \cup {[path |-> p, id |-> Id(p), seen |-> SeenOf(found, p)] : p \in new}

Cascaded(table, listed) == {r \in table : \E p \in listed : p.id = r.project}

(* The application then refreshes the content; the command line stops here. *)
ReplaceProjects(j) ==
    /\ stage[j] = "replace"
    /\ projects' = Replacement(scan[j].found)
    /\ rows' = Cascaded(rows, projects')
    /\ ids' = [ids EXCEPT !.project = @ + Cardinality({p \in projects' : p.id >= @})]
    /\ scan' = [scan EXCEPT ![j] = NoScan]
    /\ \/ stage' = [stage EXCEPT ![j] = "list"] /\ Undisturbed(j)
       \/ stage' = [stage EXCEPT ![j] = "idle"] /\ Disturbed
    /\ UNCHANGED <<files, cacheFile, entries, sanitizer, refresh, started>>

------------------------------------------------------------------------------
(* The refresh of the content.                                              *)

Joined == {e \in entries : \E r \in rows : r.id = e.id}

(* The projects are listed, once, and the search entries without a row are  *)
(* swept.                                                                   *)
ListProjects(j) ==
    /\ stage[j] = "list"
    /\ refresh' = [refresh EXCEPT ![j].left = {[path |-> p.path, id |-> p.id] : p \in projects}]
    /\ entries' = Joined
    /\ stage' = [stage EXCEPT ![j] = "survey"]
    /\ Undisturbed(j)
    /\ UNCHANGED <<files, cacheFile, projects, rows, ids, sanitizer, scan, started>>

(* The next project is walked.  The first MaxFiles documents are taken; one *)
(* whose row has the fingerprint it has now stays as it is, the others will *)
(* be read, under the fingerprint of the walk.                              *)
NextProject(j) == CHOOSE p \in refresh[j].left : \A q \in refresh[j].left : p.id <= q.id

Selected(tree) ==
    {d \in Present(tree) : Cardinality({e \in Present(tree) : e <= d}) <= MaxFiles}

Known(p, d, fp) == \E r \in rows : r.project = p.id /\ r.doc = d /\ r.fp = fp

Survey(j) ==
    /\ stage[j] = "survey" /\ refresh[j].left # {}
    /\ LET p     == NextProject(j)
           tree  == docs[p.path]
           known == {d \in Selected(tree) : Known(p, d, tree[d])}
       IN refresh' = [refresh EXCEPT ![j].retained = known,
              ![j].toRead = {[doc |-> d, fp |-> tree[d]] : d \in Selected(tree) \ known}]
    /\ stage' = [stage EXCEPT ![j] = "read"]
    /\ Undisturbed(j)
    /\ UNCHANGED <<files, cacheFile, database, scan, started>>

NextDoc(j) == CHOOSE t \in refresh[j].toRead : \A u \in refresh[j].toRead : t.doc <= u.doc

Read(j) ==
    /\ stage[j] = "read" /\ refresh[j].toRead # {}
    /\ LET t    == NextDoc(j)
           body == docs[NextProject(j).path][t.doc]
       IN /\ body # 0
          /\ refresh' = [refresh EXCEPT ![j].toRead = @ \ {t},
                 ![j].retained = @ \cup {t.doc},
                 ![j].read = @ \cup {[doc |-> t.doc, fp |-> t.fp, body |-> body]}]
    /\ Undisturbed(j)
    /\ UNCHANGED <<files, cacheFile, database, stage, scan, started>>

(* A document that is gone, cannot be read or is not text is skipped.       *)
SkipDoc(j) ==
    /\ stage[j] = "read" /\ refresh[j].toRead # {}
    /\ refresh' = [refresh EXCEPT ![j].toRead = @ \ {NextDoc(j)}]
    /\ Disturbed
    /\ UNCHANGED <<files, cacheFile, database, stage, scan, started>>

(* One transaction per project: what was read replaces or joins its rows    *)
(* and entries, and the rows of documents that were not retained go with    *)
(* their entries.                                                           *)
RowsOf(p) == {r \in rows : r.project = p.id}

RowId(p, read, d) ==
    IF \E r \in RowsOf(p) : r.doc = d
    THEN (CHOOSE r \in RowsOf(p) : r.doc = d).id
    ELSE LET new == {x.doc : x \in read} \ {r.doc : r \in RowsOf(p)}
         IN ids.row + Cardinality({e \in new : e < d})

(* Mutant: the row takes the fingerprint the document has by now.           *)
NewRowFingerprintedNow(id, p, x) ==
    [id |-> id, project |-> p.id, doc |-> x.doc, fp |-> docs[p.path][x.doc]]

NewRow(id, p, x) == [id |-> id, project |-> p.id, doc |-> x.doc, fp |-> x.fp]

CommitProject(j) ==
    /\ stage[j] = "read" /\ refresh[j].toRead = {}
    /\ LET p       == NextProject(j)
           read    == refresh[j].read
           Id(x)   == RowId(p, read, x.doc)
           stale   == {r \in RowsOf(p) : r.doc \notin refresh[j].retained}
           rewrote == {r \in RowsOf(p) : \E x \in read : x.doc = r.doc}
           touched == {r.id : r \in stale \cup rewrote}
           added   == {x \in read : \A r \in RowsOf(p) : r.doc # x.doc}
       IN /\ \E q \in projects : q.id = p.id
          /\ rows' = (rows \ (stale \cup rewrote)) \cup
                 {NewRow(Id(x), p, x) : x \in read}
          /\ entries' = {e \in entries : e.id \notin touched} \cup
                 {[id |-> Id(x), path |-> p.path, doc |-> x.doc, body |-> x.body,
                   by |-> "current"] : x \in read}
          /\ ids' = [ids EXCEPT !.row = @ + Cardinality(added)]
          /\ refresh' = [refresh EXCEPT ![j] = [NoRefresh EXCEPT !.left = refresh[j].left \ {p}]]
    /\ stage' = [stage EXCEPT ![j] = "survey"]
    /\ Undisturbed(j)
    /\ UNCHANGED <<files, cacheFile, projects, sanitizer, scan, started>>

(* A project another rescan deleted has no row its documents could refer    *)
(* to: the refresh is given up, which the rescan does not report.           *)
ProjectIsGone(j) ==
    /\ stage[j] = "read" /\ refresh[j].toRead = {}
    /\ \A q \in projects : q.id # NextProject(j).id
    /\ Ends(j)
    /\ Disturbed
    /\ UNCHANGED <<files, cacheFile, database, started>>

EndRescan(j) ==
    /\ stage[j] = "survey" /\ refresh[j].left = {}
    /\ Ends(j)
    /\ Undisturbed(j)
    /\ UNCHANGED <<files, cacheFile, database, started>>

(* The process is killed between two steps.                                 *)
Killed(j) ==
    /\ stage[j] # "idle"
    /\ Ends(j)
    /\ Disturbed
    /\ UNCHANGED <<files, cacheFile, database, started>>

------------------------------------------------------------------------------
(* Writes after the last rescan the bound allows are left out.              *)
World ==
    /\ started < MaxRescans \/ \E j \in Jobs : stage[j] # "idle"
    /\ \/ \E f \in SessionFiles : WriteSession(f) \/ DeleteSession(f)
       \/ \E p \in Paths : \E d \in DocsOf[p] : WriteDoc(p, d) \/ DeleteDoc(p, d)

Scanning(j) ==
    \/ Enumerate(j) \/ FileGone(j) \/ BudgetSpent(j) \/ UseCache(j) \/ Parse(j)
    \/ Unreadable(j) \/ Record(j) \/ NoValidSessions(j) \/ Complete(j)

Storing(j) ==
    \/ CheckSanitizer(j) \/ WipeContent(j) \/ ClaimSanitizer(j) \/ CleanupBusy(j)
    \/ ReplaceProjects(j)

Refreshing(j) ==
    \/ ListProjects(j) \/ Survey(j) \/ Read(j) \/ SkipDoc(j) \/ CommitProject(j)
    \/ ProjectIsGone(j) \/ EndRescan(j)

Next ==
    \/ World
    \/ \E j \in Jobs : Scanning(j) \/ Storing(j) \/ Refreshing(j) \/ Killed(j)

Spec == Init /\ [][Next]_vars

------------------------------------------------------------------------------
(* What a search of the window answers from, at any moment: the entries     *)
(* joined with the rows, once the content claims the present sanitizer, and *)
(* the projects of the hits, looked up by their ids.  It opens no file, and *)
(* a hit whose project is not found is dropped.                             *)
ContentHits ==
    IF SanitizerIsCurrent
    THEN UNION {{[project |-> r.project, doc |-> r.doc, fp |-> r.fp,
                  path |-> e.path, body |-> e.body, by |-> e.by] :
                 e \in {x \in entries : x.id = r.id}} : r \in rows}
    ELSE {}

ProjectsByIds(wanted) == {p \in projects : p.id \in wanted}

SearchProjects ==
    {[project |-> p, hits |-> {h \in ContentHits : h.project = p.id}] :
        p \in ProjectsByIds({h.project : h \in ContentHits})}

------------------------------------------------------------------------------
(* What a search shows is true only if the tables agree: every row belongs  *)
(* to a listed project and has exactly one entry, of its own document, so   *)
(* that no hit is dropped; a hit names a document of its own project and,   *)
(* while the file has the fingerprint of the row, so that no refresh would  *)
(* read it again, stands for what the file holds; and no hit comes from     *)
(* another sanitizer.                                                       *)
RowsAreSearchable ==
    \A r \in rows :
        /\ \E p \in projects : p.id = r.project
        /\ \A s \in rows : s.project = r.project /\ s.doc = r.doc => s = r
        /\ \E e \in entries : {x \in entries : x.id = r.id} = {e} /\ e.doc = r.doc

HitsAreTrue ==
    /\ \A found \in SearchProjects : \A h \in found.hits :
           /\ h.path = found.project.path
           /\ docs[h.path][h.doc] = h.fp => h.body = h.fp
           /\ h.by = "current"
    /\ ContentHits = UNION {found.hits : found \in SearchProjects}

ContentIndexIsSound == RowsAreSearchable /\ HitsAreTrue

(* Only a successful scan replaces the projects of a tool, so it must cover *)
(* its sessions: whatever was cached, written or spent in between, a session*)
(* file that was there and readable all along is among its findings.        *)
SuccessCoversEverySession ==
    \A j \in Jobs : stage[j] \in {"open", "wipe", "vacuum", "replace"} =>
        scan[j].steady \subseteq {x.file : x \in scan[j].found}

(* Whatever earlier rescans left behind, killed, failed or overlapping, one *)
(* that runs undisturbed leaves exactly what the disk holds: the projects   *)
(* of the sessions there are, each with its last activity (an older one only*)
(* where an earlier scan recorded its parse after a later write), and the   *)
(* documents its walk takes, with their contents.                           *)
LastSeen(f) ==
    IF \E e \in EntryFor(cacheFile, f) : e.fp = sessions[f]
    THEN (CHOOSE e \in EntryFor(cacheFile, f) : e.fp = sessions[f]).seen
    ELSE sessions[f]

QuietRescanIsExact ==
    \A j \in Jobs : solo = j /\ stage[j] = "idle" =>
        /\ {p.path : p \in projects} = {ProjectOf[f] : f \in Present(sessions)}
        /\ \A p \in projects :
               LET own == {f \in Present(sessions) : ProjectOf[f] = p.path}
               IN p.seen \in Max({LastSeen(f) : f \in own})..Max({sessions[f] : f \in own})
        /\ {[path |-> e.path, doc |-> e.doc, body |-> e.body] : e \in entries} =
               UNION {{[path |-> p.path, doc |-> d, body |-> docs[p.path][d]] :
                       d \in Selected(docs[p.path])} : p \in projects}
=============================================================================
