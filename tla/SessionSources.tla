--------------------------- MODULE SessionSources ---------------------------
(***************************************************************************)
(* What the seven scanners make of the files of their tools, and what the  *)
(* index makes of that (sessionatlas-core: scanner/, indexer.rs).  These   *)
(* are pure operators; Sessions composes them with the tools that write    *)
(* the files and the programs that use the index.                          *)
(*                                                                         *)
(* A file is [tool, place, under, lines, mtime]: the directory it is in    *)
(* ("active", or "archived" for Codex), the session whose directory        *)
(* surrounds it (Claude's subagents), its records and the day of its last  *)
(* write.  A record is                                                     *)
(*     [what, whole, id, cwd, time, parent, kind, old]                     *)
(* with None for a field it does not carry; a record that was cut off in   *)
(* the middle is not whole and carries none.  Files are numbers, in the    *)
(* order of their names; the number also stands for the session id the     *)
(* tool gave, and for a directory of that name.                            *)
(***************************************************************************)
EXTENDS Integers, Sequences, FiniteSets, FiniteSetsExt

CONSTANTS
    Projects,  \* directories the tools are used in
    None,
    Budget     \* source files one scan may read (max_source_files)

ASSUME SourcesAssumption == Budget \in Nat

Scanners == {"codex", "claude", "pi", "kimi", "aider", "custom", "opencode"}
Kinds    == {"root", "headless", "guardian", "subagent"}

\* Records and files of sessions names, in directories dirs.
RecordsOf(names, dirs) ==
    [what : {"session", "turn", "call", "done"}, whole : BOOLEAN,
     id : names \cup {None}, cwd : dirs \cup {None}, time : Nat \cup {None},
     parent : names \cup {None}, kind : Kinds \cup {None}, old : BOOLEAN]

FilesOf(names, dirs) ==
    [tool : Scanners, place : {"active", "archived"}, under : names \cup {None},
     lines : Seq(RecordsOf(names, dirs)), mtime : Nat]

\* Of the records of f at the positions among, the first (the last) that
\* carries a field gives it.
Carrying(f, among, field) == {i \in among : f.lines[i][field] /= None}

FirstOf(f, among, field) ==
    LET at == Carrying(f, among, field)
    IN IF at = {} THEN None ELSE f.lines[Min(at)][field]

LastOf(f, among, field) ==
    LET at == Carrying(f, among, field)
    IN IF at = {} THEN None ELSE f.lines[Max(at)][field]

Lines(f)   == DOMAIN f.lines
Headers(f) == {i \in Lines(f) : f.lines[i].whole /\ f.lines[i].what = "session"}

Times(f) == {f.lines[i].time : i \in Lines(f)} \ {None}

\* The latest valid time in a file, and its modification time without one.
Latest(f) == IF Times(f) = {} THEN f.mtime ELSE Max(Times(f))

\* A directory inside the tool's own data is never a project.
SafePath(cwd) == cwd \in Projects

Observation(path, id, last) == [path |-> path, id |-> id, last |-> last]

\* Mutant: the scanner stops at the first session_meta.
CodexFindingFirst(f) ==
    LET cwd == FirstOf(f, Headers(f), "cwd")
        id  == FirstOf(f, Headers(f), "id")
    IN IF SafePath(cwd) /\ id /= None
       THEN {Observation(cwd, id, Latest(f))} ELSE {}

\* The last session_meta of a Codex file names its directory and its id.
CodexFinding(f) ==
    LET cwd == LastOf(f, Headers(f), "cwd")
        id  == LastOf(f, Headers(f), "id")
    IN IF SafePath(cwd) /\ id /= None
       THEN {Observation(cwd, id, Latest(f))} ELSE {}

\* Any record of a Claude file may name them, and the first one does; a
\* file without a sessionId is called by its own name.
ClaudeFinding(n, f) ==
    LET cwd == FirstOf(f, Lines(f), "cwd")
        id  == FirstOf(f, Lines(f), "id")
    IN IF SafePath(cwd)
       THEN {Observation(cwd, IF id = None THEN n ELSE id, Latest(f))} ELSE {}

\* The first session record of a Pi file.
PiFinding(f) ==
    LET cwd == FirstOf(f, Headers(f), "cwd")
        id  == FirstOf(f, Headers(f), "id")
    IN IF SafePath(cwd) /\ id /= None
       THEN {Observation(cwd, id, Latest(f))} ELSE {}

\* state.json and metadata.json are one record, written anew each time.
Document(f) == f.lines[1]

DocumentTime(f) == IF Document(f).time = None THEN f.mtime ELSE Document(f).time

\* A Kimi session is called by the directory of its state.json.
KimiFinding(n, f) ==
    IF SafePath(Document(f).cwd)
    THEN {Observation(Document(f).cwd, n, DocumentTime(f))} ELSE {}

\* An Aider marker stands in its project and says when, not what.
AiderFinding(f) == {Observation(f.lines[1].cwd, None, f.mtime)}

\* A directory of a custom tool always is a project: the one its metadata
\* names, or else the directory itself.
CustomFinding(n, f) ==
    {Observation(IF SafePath(Document(f).cwd) THEN Document(f).cwd ELSE n,
                 Document(f).id, DocumentTime(f))}

---------------------------------------------------------------------------
(* OpenCode keeps sessions as rows of a database whose schema may lack      *)
(* columns: schema is a subset of {"parent", "permission", "turns"}.        *)

IsChild(f, schema) == "parent" \in schema /\ f.lines[1].parent /= None

\* The permissions of `opencode run`: a session nobody typed in.
NonInteractive(f, schema) ==
    "permission" \in schema /\ f.lines[1].kind = "headless"

OneTurn(f, schema) ==
    /\ "turns" \in schema
    /\ Cardinality({i \in Lines(f) : f.lines[i].what = "turn"}) = 1

\* The rows rows of files; in an older schema the roots of one turn among
\* several roots of a project look delegated.  Such rows count as activity
\* and are no session to resume.
OpenCodeFindings(rows, files, schema) ==
    LET path(n)   == files[n].lines[1].cwd
        usable    == {n \in rows : SafePath(path(n))}
        roots(p)  == {n \in usable : path(n) = p /\ ~IsChild(files[n], schema)}
        delegated(n) == /\ "permission" \notin schema
                        /\ OneTurn(files[n], schema)
                        /\ Cardinality(roots(path(n))) > 1
        auxiliary(n) == \/ IsChild(files[n], schema)
                        \/ NonInteractive(files[n], schema)
                        \/ delegated(n)
        touched      == Max({files[n].mtime : n \in rows})
    IN {Observation(path(n), IF auxiliary(n) THEN None ELSE n,
                    IF Times(files[n]) = {} THEN touched ELSE Max(Times(files[n]))) :
            n \in usable}

---------------------------------------------------------------------------
(* The outcome of a scan of one tool: only a success replaces what the      *)
(* index holds of the tool.                                                 *)

Failure == [status |-> "failed", found |-> {}]
Success(found) == [status |-> "succeeded", found |-> found]

MissingSource(installed) ==
    IF installed THEN Success({}) ELSE [status |-> "unavailable", found |-> {}]

\* A scan that needs more than its budget gives up.
Exhausted(source) == Cardinality(source) > Budget

Bounded(source, outcome) == IF Exhausted(source) THEN Failure ELSE outcome

\* complete_session_files: files without a single valid session are a
\* failure, not an empty success.
Completed(source, found) ==
    IF found = {} /\ source /= {} THEN Failure ELSE Success(found)

CodexScan(source, files) ==
    Bounded(source, Completed(source, UNION {CodexFinding(files[n]) : n \in source}))

ClaudeScan(source, files) ==
    Bounded(source, Completed(source, UNION {ClaudeFinding(n, files[n]) : n \in source}))

PiScan(source, files) ==
    Bounded(source, Completed(source, UNION {PiFinding(files[n]) : n \in source}))

KimiScan(source, files) ==
    Bounded(source, Completed(source, UNION {KimiFinding(n, files[n]) : n \in source}))

AiderScan(source, files) ==
    Bounded(source, Completed(source, UNION {AiderFinding(files[n]) : n \in source}))

\* The directories of a custom tool and the rows of OpenCode may be none.
CustomScan(source, files) ==
    Bounded(source, Success(UNION {CustomFinding(n, files[n]) : n \in source}))

OpenCodeScan(rows, files, schema) ==
    Bounded(rows, Success(IF rows = {} THEN {} ELSE OpenCodeFindings(rows, files, schema)))

ScanOf(t, source, files, schema) ==
    CASE t = "codex"    -> CodexScan(source, files)
      [] t = "claude"   -> ClaudeScan(source, files)
      [] t = "pi"       -> PiScan(source, files)
      [] t = "kimi"     -> KimiScan(source, files)
      [] t = "aider"    -> AiderScan(source, files)
      [] t = "custom"   -> CustomScan(source, files)
      [] t = "opencode" -> OpenCodeScan(source, files, schema)

SourceFiles(t, files) ==
    {n \in DOMAIN files : files[n] /= None /\ files[n].tool = t
                          /\ files[n].place = "active"}

\* Every scanner probes its source first (probe_directory).
Outcome(t, root, installed, files, schema) ==
    CASE root = "missing" -> MissingSource(installed)
      [] root = "blocked" -> Failure
      [] root = "open"    -> ScanOf(t, SourceFiles(t, files), files, schema)

---------------------------------------------------------------------------
(* The index: one usage per tool and path.                                  *)

IsLater(o, p) == o.last > p.last \/ (o.last = p.last /\ o.id > p.id)

UsageOf(t, path, observations) ==
    LET known == {o \in observations : o.id /= None}
    IN [tool |-> t, path |-> path,
        last   |-> Max({o.last : o \in observations}),
        count  |-> Cardinality({o.id : o \in known}),
        resume |-> IF known = {} THEN None
                   ELSE (CHOOSE o \in known :
                            \A p \in known \ {o} : IsLater(o, p)).id]

BuildIndex(t, found) ==
    {UsageOf(t, path, {o \in found : o.path = path}) :
        path \in {o.path : o \in found}}
=============================================================================
