---------------------------- MODULE CleanupRules ----------------------------
(***************************************************************************)
(* What the session cleanup knows of a Codex or Claude file, and which     *)
(* sessions it lets the user clean (session_cleanup.rs).  Pure operators;  *)
(* the files are those of SessionSources, ages are in days and sizes in    *)
(* records, with the thresholds of the code scaled down.                   *)
(***************************************************************************)
EXTENDS SessionSources

CONSTANTS
    Recent,        \* RECENT_PROTECTION_DAYS
    Trivial,       \* TRIVIAL_AGE_DAYS
    LikelyTrivial, \* LIKELY_TRIVIAL_AGE_DAYS
    Small,         \* below this size: 64 KiB
    Medium         \* below this size: 200 KiB

ASSUME RulesAssumption ==
    /\ {Recent, Trivial, LikelyTrivial, Small, Medium} \subseteq Nat
    /\ Recent <= Trivial /\ Trivial <= LikelyTrivial /\ Small <= Medium

\* The directories an analysis visits, in this order.
Visited == <<[tool |-> "codex",  place |-> "active"],
             [tool |-> "codex",  place |-> "archived"],
             [tool |-> "claude", place |-> "active"]>>

Fingerprint(f) == [size |-> Len(f.lines), mtime |-> f.mtime]

Count(f, Counts(_)) == Cardinality({i \in Lines(f) : Counts(f.lines[i])})

Parsed(id, parent, project, kind, old, f, turns, calls, completed) ==
    [id |-> id, parent |-> parent, project |-> project, kind |-> kind,
     old |-> old, latest |-> IF Times(f) = {} THEN None ELSE Max(Times(f)),
     turns |-> turns, calls |-> calls, completed |-> completed]

ParsesOf(names, dirs) ==
    [id : names, parent : names \cup {None}, project : dirs \cup {None},
     kind : {"root", "guardian", "delegated"}, old : BOOLEAN,
     latest : Nat \cup {None}, turns : Nat, calls : Nat, completed : BOOLEAN]

\* The last session_meta says what a Codex session is.  Turns, calls and
\* the end are recognised in the text of a record, cut off or not.
ParsedCodex(f) ==
    LET has(what) == Count(f, LAMBDA l : l.what = what)
        meta      == f.lines[Max(Headers(f))]
    IN IF Headers(f) = {} THEN None
       ELSE Parsed(meta.id, meta.parent, meta.cwd,
                   CASE meta.kind = "guardian" -> "guardian"
                     [] meta.kind /= "guardian"
                        /\ (meta.parent /= None \/ meta.kind = "subagent")
                          -> "delegated"
                     [] OTHER -> "root",
                   meta.old, f, has("turn"), has("call"), has("done") > 0)

\* Claude's sub-agents are known by their directory; an answer of the
\* assistant, with or without tools, completes a session.
ParsedClaude(n, f) ==
    LET has(what) == Count(f, LAMBDA l : l.whole /\ l.what = what)
        id        == FirstOf(f, Lines(f), "id")
    IN Parsed(IF id = None THEN n ELSE id, f.under, FirstOf(f, Lines(f), "cwd"),
              IF f.under = None THEN "root" ELSE "delegated",
              FALSE, f, has("turn"), has("call"), has("call") + has("done") > 0)

ParsedOf(n, f) == IF f.tool = "codex" THEN ParsedCodex(f) ELSE ParsedClaude(n, f)

\* What the cleanup offers: the parse, with the size and the modification
\* time of the file f as it is by then, None if it is gone.
Candidate(n, dir, parsed, f, now) ==
    LET at == IF parsed.latest /= None THEN parsed.latest
              ELSE IF f = None THEN now ELSE f.mtime
    IN [key |-> [tool |-> dir.tool, place |-> dir.place, id |-> parsed.id],
        file |-> n, is |-> parsed, at |-> at,
        age  |-> IF now > at THEN now - at ELSE 0,
        fingerprint |-> IF f = None THEN [size |-> 0, mtime |-> None]
                        ELSE Fingerprint(f)]

ParentsOf(c, all) == {p \in all : p.is.id = c.is.parent}

\* classify_candidate: what is worth cleaning, apart from any protection.
GuardianDelivered(c, all) ==
    /\ c.is.kind = "guardian" /\ c.is.completed /\ c.age >= Recent
    /\ \E p \in ParentsOf(c, all) : p.is.completed

OldTrivial(c) ==
    /\ c.is.kind = "root" /\ c.age >= LikelyTrivial
    /\ c.is.turns <= 1 /\ c.is.calls = 0 /\ c.fingerprint.size < Small

CompletedChild(c, all) ==
    /\ c.is.kind /= "root" /\ c.is.completed /\ c.age >= Trivial
    /\ ParentsOf(c, all) /= {}

ShortSingleTurn(c) ==
    /\ c.is.kind = "root" /\ c.age >= Trivial
    /\ c.is.turns <= 1 /\ c.is.calls = 0 /\ c.fingerprint.size < Medium

OldVersion(c) == c.key.tool = "codex" /\ c.age >= Trivial /\ c.is.old

Classification(c, all) ==
    IF GuardianDelivered(c, all) \/ OldTrivial(c) THEN "likely"
    ELSE IF CompletedChild(c, all) \/ ShortSingleTurn(c) \/ OldVersion(c)
    THEN "possible" ELSE "keep"

IsLatestRoot(c, all) ==
    /\ c.is.kind = "root" /\ c.is.project /= None
    /\ \A r \in all :
          (r.is.kind = "root" /\ r.key.tool = c.key.tool
           /\ r.is.project = c.is.project) => r.at <= c.at

\* apply_candidate_safety: what keeps a session, however trivial; current
\* is the Codex session this application was started from.
Protects(why, c, all, current) ==
    CASE why = "recent"           -> c.age < Recent
      [] why = "parentMissing"    -> c.is.parent /= None /\ ParentsOf(c, all) = {}
      [] why = "hasChildren"      -> \E child \in all : child.is.parent = c.is.id
      [] why = "currentSession"   -> c.key.tool = "codex" /\ c.is.id = current
      [] why = "latestForProject" -> IsLatestRoot(c, all)

Protections(c, all, current) ==
    {why \in {"recent", "parentMissing", "hasChildren", "currentSession",
              "latestForProject"} : Protects(why, c, all, current)}

CanClean(c, all, current) ==
    Classification(c, all) /= "keep" /\ Protections(c, all, current) = {}

\* The id of an analysis: a digest of the files it saw and of what it says
\* of the candidates.
SnapshotId(inventory, all, current) ==
    [inventory  |-> inventory,
     candidates |-> {[key  |-> c.key, file |-> c.file,
                      size |-> c.fingerprint.size, at |-> c.at,
                      classification |-> Classification(c, all),
                      protections    |-> Protections(c, all, current)] :
                        c \in all}]
=============================================================================
