-------------------------- MODULE Sessions_proofs ---------------------------
(***************************************************************************)
(* Sessions, for any number of files, directories and tools and without    *)
(* the bounds of its runs.  Three invariants carry the proofs:             *)
(*                                                                         *)
(*   World       each file tells of its session what the programs need:    *)
(*               when it was last used, where, and what started it;        *)
(*   Reports     what the index, the window and the recorded launch would  *)
(*               resume was reported by a scan for that tool and directory;*)
(*   Remembered  what the cleanup has noted of a file that is still as it  *)
(*               was is what is parsed of it now.                          *)
(*                                                                         *)
(* From World follows what a scan leaves in the index, from Reports what   *)
(* is launched, and from World and Remembered what a quarantine may take   *)
(* and what an analysis says.                                              *)
(***************************************************************************)
EXTENDS Sessions, FiniteSetTheorems, WellFoundedInduction, TLAPS

-----------------------------------------------------------------------------
(* The world: the files and the sessions they are of.                      *)

WorldType ==
    /\ setup \in Setups
    /\ today \in Nat /\ writes \in Nat /\ commands \in Nat
    /\ files \in [Names -> FilesOf(Names, Directories) \cup {None}]
    /\ talks \in [Names -> Talk \cup {None}]
    /\ root \in [setup.tools -> {"missing", "open", "blocked"}]

\* A session is its tool's; the one that started it is of the same tool, and
\* of Claude's only those a user began start others.
TalkWell(n) ==
    talks[n] /= None =>
       /\ talks[n].tool \in setup.tools
       /\ talks[n].last <= today
       /\ talks[n].parent = None =>
             talks[n].kind = "root" \/ (talks[n].kind = "headless" /\ talks[n].tool = "opencode")
       /\ talks[n].parent /= None =>
             /\ talks[n].tool \in {"codex", "claude", "opencode"}
             /\ talks[n].kind \in {"guardian", "subagent"}
             /\ talks[talks[n].parent] /= None
             /\ talks[talks[n].parent].tool = talks[n].tool
             /\ talks[n].tool = "claude" => talks[talks[n].parent].parent = None
       /\ talks[n].tool = "aider" => talks[n].project \in Projects
       /\ ~ talks[n].whole => talks[n].tool \in {"kimi", "custom"}

\* The times in a file, or else its own, are of the last use.
DatedWell(f, talk, stamped) ==
    IF stamped /\ f.tool /= "aider"
    THEN talk.last \in Times(f) /\ \A d \in Times(f) : d <= talk.last
    ELSE f.mtime = talk.last /\ (~ stamped => Times(f) = {})

\* The session a file n of talk is written under, as SessionOf(n).
Called(n, talk) ==
    IF talk.tool = "claude" /\ talk.parent /= None THEN talk.parent ELSE n

\* Every session_meta of Codex names the session, the last one its directory.
CodexWell(n, f, talk) ==
    /\ 1 \in Headers(f)
    /\ \A i \in Headers(f) :
          /\ f.lines[i].id = n /\ f.lines[i].cwd \in Directories
          /\ f.lines[i].parent = talk.parent /\ f.lines[i].kind = talk.kind
    /\ f.lines[Max(Headers(f))].cwd = talk.project

\* The first record of the others.
FirstWell(n, f, talk) ==
    /\ f.lines[1].whole
    /\ f.lines[1].cwd = talk.project
    /\ f.tool \in {"pi", "opencode", "custom"} =>
          f.lines[1].what = "session" /\ f.lines[1].id = n
    /\ f.tool = "claude" => f.lines[1].id = Called(n, talk)
    /\ f.tool = "opencode" =>
          f.lines[1].parent = talk.parent /\ f.lines[1].kind = talk.kind

\* File f tells of its session talk whatever the scanners need.
Tells(n, f, talk, stamped) ==
    /\ f.tool = talk.tool
    /\ f.place = "archived" => f.tool = "codex"
    /\ f.lines /= <<>>
    /\ f.under = IF f.tool = "claude" THEN talk.parent ELSE None
    /\ f.tool \in {"kimi", "aider", "custom"} => Len(f.lines) = 1
    /\ ~ talk.whole => f.lines[1].cwd = None
    /\ talk.whole =>
          /\ DatedWell(f, talk, stamped)
          /\ IF f.tool = "codex" THEN CodexWell(n, f, talk) ELSE FirstWell(n, f, talk)

FileWell(n) ==
    files[n] /= None =>
       /\ talks[n] /= None
       /\ root[files[n].tool] /= "missing"
       /\ files[n].mtime <= today
       /\ Tells(n, files[n], talks[n], setup.stamped)

World == WorldType /\ \A n \in Names : TalkWell(n) /\ FileWell(n)

-----------------------------------------------------------------------------
(* What was reported.                                                      *)

UsageTold(u) ==
    u.resume /= None => [tool |-> u.tool, path |-> u.path, id |-> u.resume] \in told

LaunchTold(launch) ==
    launch /= None =>
       /\ launch = [tool |-> launch.tool, path |-> launch.path, id |-> launch.id]
       /\ launch.id /= None => launch \in told

Reports ==
    /\ \A u \in usages \cup shown : UsageTold(u)
    /\ LaunchTold(started) /\ LaunchTold(recent)

-----------------------------------------------------------------------------
(* What the cleanup remembers, of the files fs and the sessions begun.     *)

InDir(dir, fs) ==
    {n \in Names : fs[n] /= None /\ fs[n].tool = dir.tool /\ fs[n].place = dir.place}

\* What i says of a file is still so.
Current(i, fs) ==
    i.file \in InDir(i.dir, fs) /\ i.fingerprint = Fingerprint(fs[i.file])

\* i was taken of a file, which cannot become again what it was.
Taken(i, fs, begun) ==
    /\ i.file \in begun /\ \E d \in DOMAIN Visited : i.dir = Visited[d]
    /\ i.fingerprint.size \in Nat
    /\ fs[i.file] /= None =>
         /\ i.dir.place = "archived" => fs[i.file].place = "archived"
         /\ i.fingerprint.size <= Len(fs[i.file].lines)

\* An entry for a file that is as it was holds what is parsed of it.
EntryWell(e, fs, begun) ==
    Taken(e, fs, begun) /\ (Current(e, fs) => e.parsed = ParsedOf(e.file, fs[e.file]))

DirOf(c) == [tool |-> c.key.tool, place |-> c.key.place]

CandidateNow(file, dir, now, fs) == Candidate(file, dir, ParsedOf(file, fs[file]), fs[file], now)

\* A file that is as it was inventoried gave a candidate, on some day.
Considered(i, candidates, fs, day) ==
    Current(i, fs) => \E now \in 0 .. day : CandidateNow(i.file, i.dir, now, fs) \in candidates

\* And a candidate is of a file inventoried, and what it gave.
OfInventory(c, inventory, fs, day) ==
    \E i \in inventory :
       /\ c.file = i.file /\ DirOf(c) = i.dir
       /\ Current(i, fs) => \E now \in 0 .. day : c = CandidateNow(i.file, i.dir, now, fs)

Begun == {n \in Names : talks[n] /= None}

CacheWell ==
    /\ \A e \in cache.entries : EntryWell(e, files, Begun)
    /\ \A i \in cache.inventory :
         Taken(i, files, Begun) /\ Considered(i, cache.candidates, files, today)
    /\ \A c \in cache.candidates : OfInventory(c, cache.inventory, files, today)

\* The position <<d, n>> is not after the position at.
Passed(d, n, at) == d < at[1] \/ (d = at[1] /\ n <= at[2])

AtHand(a, i) == i.file = a.at[2] /\ i.dir = Visited[a.at[1]]

AnalysisWell(a, fs, begun, day, count) ==
    /\ a = [at |-> a.at, phase |-> a.phase, shows |-> a.shows, now |-> a.now,
            began |-> a.began, inventory |-> a.inventory, entries |-> a.entries,
            stat |-> a.stat, parsed |-> a.parsed, candidates |-> a.candidates]
    /\ a.phase \in {"visit", "parse", "candidate"}
    /\ a.at \in (DOMAIN Visited) \X (Names \cup {0})
    /\ a.now \in 0 .. day /\ a.began \in 0 .. count
    /\ \A e \in a.entries : EntryWell(e, fs, begun)
    /\ \A i \in a.inventory :
         /\ Taken(i, fs, begun)
         /\ \E d \in DOMAIN Visited : i.dir = Visited[d] /\ Passed(d, i.file, a.at)
         /\ IF a.phase /= "visit" /\ AtHand(a, i) THEN i.fingerprint = a.stat
            ELSE Considered(i, a.candidates, fs, day)
    /\ \A c \in a.candidates : OfInventory(c, a.inventory, fs, day)
    /\ a.phase /= "visit" => \E i \in a.inventory :
         /\ AtHand(a, i) /\ i.fingerprint = a.stat
         /\ a.phase = "candidate" /\ Current(i, fs) => a.parsed = ParsedOf(i.file, fs[i.file])

\* As long as nothing is written, the inventory is of what there is.
Undisturbed(a, fs, count) ==
    a.began = count =>
        /\ \A i \in a.inventory : Current(i, fs)
        /\ \A d \in DOMAIN Visited : \A n \in InDir(Visited[d], fs) :
             Passed(d, n, a.at) =>
               [file |-> n, dir |-> Visited[d], fingerprint |-> Fingerprint(fs[n])] \in a.inventory
        /\ \A c \in a.candidates : c = CandidateNow(c.file, DirOf(c), a.now, fs)

Analysed ==
    analysis /= Idle =>
        /\ AnalysisWell(analysis, files, Begun, today, writes)
        /\ Undisturbed(analysis, files, writes)

Remembered == CacheWell /\ Analysed

-----------------------------------------------------------------------------
(* Numbers and sequences.                                                  *)

LEMMA SmallestOne ==
  ASSUME NEW S \in SUBSET Nat, S # {}
  PROVE  \E x \in S : \A y \in S : x <= y
<1> DEFINE T == {0 .. x : x \in S}
<1>1. T \subseteq FiniteSubsetsOf(Nat)
  <2>1. \A x \in S : IsFiniteSet(0 .. x)
    BY FS_Interval
  <2> QED BY <2>1 DEF FiniteSubsetsOf
<1>2. T # {}
  OBVIOUS
<1>3. PICK U \in T : \A V \in T : ~ (<<V, U>> \in StrictSubsetOrdering(Nat))
  <2> HIDE DEF T
  <2> QED BY <1>1, <1>2, FS_StrictSubsetOrderingWellFounded, WFMin
<1>4. PICK x \in S : U = 0 .. x
  OBVIOUS
<1>5. ASSUME NEW y \in S, y < x
      PROVE  FALSE
  <2>1. <<0 .. y, 0 .. x>> \in StrictSubsetOrdering(Nat)
    BY <1>5 DEF StrictSubsetOrdering
  <2> QED BY <1>3, <1>4, <2>1
<1>6. \A y \in S : x <= y
  BY <1>5
<1> QED BY <1>6

LEMMA MinIsSmallest ==
  ASSUME NEW S \in SUBSET Nat, S # {}
  PROVE  Min(S) \in S /\ \A y \in S : Min(S) <= y
<1>1. PICK x \in S : \A y \in S : x =< y
  BY SmallestOne
<1> QED BY <1>1 DEF Min

LEMMA MaxIsLargest ==
  ASSUME NEW c \in Nat, NEW S \in SUBSET (0 .. c), S # {}
  PROVE  Max(S) \in S /\ \A y \in S : Max(S) >= y
<1> DEFINE T == {c - x : x \in S}
<1>1. T \in SUBSET Nat /\ T # {}
  <2>1. \A x \in 0 .. c : c - x \in Nat
    OBVIOUS
  <2>2. \A x \in S : x \in 0 .. c
    OBVIOUS
  <2> QED BY <2>1, <2>2
<1>2. PICK m \in T : \A n \in T : m <= n
  BY <1>1, SmallestOne
<1>3. PICK x \in S : m = c - x
  OBVIOUS
<1>4. ASSUME NEW y \in S
      PROVE  x >= y
  <2>1. c - x <= c - y
    BY <1>2, <1>3
  <2>2. x \in 0 .. c /\ y \in 0 .. c
    OBVIOUS
  <2> QED BY <2>1, <2>2
<1> QED BY <1>4 DEF Max

\* The values of a function on a finite set.
LEMMA FiniteImage ==
  ASSUME NEW S, IsFiniteSet(S), NEW f, DOMAIN f = S, f = [x \in S |-> f[x]]
  PROVE  IsFiniteSet({f[x] : x \in S})
<1> DEFINE T == {f[x] : x \in S}
<1>1. f \in [S -> T]
  OBVIOUS
<1>2. f \in Surjection(S, T)
  BY <1>1 DEF Surjection
<1> QED BY <1>2, FS_Surjection

\* A finite set of numbers has a largest.
LEMMA LargestOne ==
  ASSUME NEW S \in SUBSET Nat, IsFiniteSet(S), S # {}
  PROVE  Max(S) \in S /\ Max(S) \in Nat /\ \A y \in S : y <= Max(S)
<1> DEFINE Above(x) == {y \in S : y > x}
           T == {Above(x) : x \in S}
<1>1. T \subseteq FiniteSubsetsOf(S)
  <2>1. \A x \in S : IsFiniteSet(Above(x))
    BY FS_Subset
  <2> QED BY <2>1 DEF FiniteSubsetsOf
<1>2. T # {}
  OBVIOUS
<1>3. PICK U \in T : \A V \in T : ~ (<<V, U>> \in StrictSubsetOrdering(S))
  <2> HIDE DEF T
  <2> QED BY <1>1, <1>2, FS_StrictSubsetOrderingWellFounded, WFMin
<1>4. PICK x \in S : U = Above(x)
  OBVIOUS
<1>5. ASSUME NEW y \in S, y > x
      PROVE  FALSE
  <2>1. /\ \A z \in S : z > y => z > x
        /\ y > x /\ ~ (y > y)
    BY <1>5
  <2>3. Above(y) \subseteq Above(x)
    BY <2>1
  <2>4. y \in Above(x) /\ y \notin Above(y)
    BY <2>1
  <2>2. <<Above(y), Above(x)>> \in StrictSubsetOrdering(S)
    BY <2>3, <2>4 DEF StrictSubsetOrdering
  <2> QED BY <1>3, <1>4, <2>2
<1>6. x \in Nat /\ \A y \in S : x >= y
  BY <1>5
<1>7. Max(S) \in S /\ \A y \in S : Max(S) >= y
  BY <1>6 DEF Max
<1> QED BY <1>7

\* The records of a file that one more is appended to.
LEMMA OneMoreRecord ==
  ASSUME NEW f \in FilesOf(Names, Directories), f.lines /= <<>>,
         NEW r \in RecordsOf(Names, Directories),
         NEW g \in FilesOf(Names, Directories), g.lines = Append(f.lines, r)
  PROVE  /\ Len(f.lines) \in Nat \ {0} /\ Len(g.lines) = Len(f.lines) + 1
         /\ Lines(f) = 1 .. Len(f.lines) /\ Lines(g) = 1 .. Len(f.lines) + 1
         /\ \A i \in Lines(f) : g.lines[i] = f.lines[i]
         /\ g.lines[1] = f.lines[1]
         /\ g.lines[Len(f.lines) + 1] = r
         /\ g.lines /= <<>>
         /\ Times(g) = Times(f) \cup ({r.time} \ {None})
         /\ Headers(g) = Headers(f) \cup
              (IF r.whole /\ r.what = "session" THEN {Len(f.lines) + 1} ELSE {})
<1> DEFINE k == Len(f.lines)
<1>1. /\ f.lines \in Seq(RecordsOf(Names, Directories))
      /\ g.lines \in Seq(RecordsOf(Names, Directories))
  BY DEF FilesOf
<1>2. k \in Nat \ {0} /\ Len(g.lines) = k + 1 /\ g.lines /= <<>>
  BY <1>1
<1>3. Lines(f) = 1 .. k /\ Lines(g) = 1 .. k + 1
  BY <1>1, <1>2 DEF Lines
<1>4. /\ \A i \in 1 .. k : g.lines[i] = f.lines[i]
      /\ g.lines[k + 1] = r
  BY <1>1, <1>2
<1>5. Times(g) = Times(f) \cup ({r.time} \ {None})
  <2>1. \A i \in 1 .. k + 1 : i \in 1 .. k \/ i = k + 1
    BY <1>2
  <2>2. 1 .. k \subseteq 1 .. k + 1 /\ k + 1 \in 1 .. k + 1
    BY <1>2
  <2>3. {g.lines[i].time : i \in 1 .. k + 1} = {f.lines[i].time : i \in 1 .. k} \cup {r.time}
    <3> HIDE DEF k
    <3> QED BY <1>4, <2>1, <2>2
  <2> QED BY <1>3, <2>3 DEF Times
<1>6. Headers(g) = Headers(f) \cup
         (IF r.whole /\ r.what = "session" THEN {k + 1} ELSE {})
  <2>1. \A i \in 1 .. k + 1 : i \in 1 .. k \/ i = k + 1
    BY <1>2
  <2>2. 1 .. k \subseteq 1 .. k + 1 /\ k + 1 \in 1 .. k + 1 /\ k + 1 \notin 1 .. k
    BY <1>2
  <2> HIDE DEF k
  <2> QED BY <1>3, <1>4, <2>1, <2>2 DEF Headers
<1> QED BY <1>2, <1>3, <1>4, <1>5, <1>6

-----------------------------------------------------------------------------
(* The tools write.                                                        *)

\* What a write to file n of session talk may say, so that the file goes on
\* telling its session.
WellRecorded(n, talk, record, project, day, stamped) ==
    LET t == talk.tool IN
    /\ record.time = IF record.whole /\ stamped THEN day ELSE None
    /\ ~ record.whole => t \notin {"opencode", "aider"} /\ record.cwd = None
    /\ project = talk.project \/ t = "codex"
    /\ t = "codex" =>
          IF record.whole /\ record.what = "session"
          THEN /\ record.id = n /\ record.cwd = project
               /\ record.parent = talk.parent /\ record.kind = talk.kind
          ELSE project = talk.project
    /\ t \in {"kimi", "aider", "custom"} /\ record.whole =>
          record.what = "session" /\ record.cwd = project
    /\ t = "custom" /\ record.whole => record.id = n

\* What the fields of a file are.
LEMMA FileFields ==
  ASSUME NEW f \in FilesOf(Names, Directories)
  PROVE  /\ f.tool \in Scanners /\ f.place \in {"active", "archived"}
         /\ f.under \in Names \cup {None} /\ f.mtime \in Nat
         /\ f.lines \in Seq(RecordsOf(Names, Directories))
         /\ Len(f.lines) \in Nat /\ Lines(f) = 1 .. Len(f.lines)
         /\ \A i \in Lines(f) : f.lines[i] \in RecordsOf(Names, Directories)
         /\ Times(f) \subseteq Nat
         /\ IsFiniteSet(Lines(f)) /\ IsFiniteSet(Times(f)) /\ IsFiniteSet(Headers(f))
         /\ Headers(f) \subseteq Lines(f)
<1>1. /\ f.tool \in Scanners /\ f.place \in {"active", "archived"}
      /\ f.under \in Names \cup {None} /\ f.mtime \in Nat
      /\ f.lines \in Seq(RecordsOf(Names, Directories))
  BY DEF FilesOf
<1>2. /\ Len(f.lines) \in Nat /\ Lines(f) = 1 .. Len(f.lines)
      /\ \A i \in Lines(f) : f.lines[i] \in RecordsOf(Names, Directories)
  BY <1>1 DEF Lines
<1>3. \A i \in Lines(f) : f.lines[i].time \in Nat \cup {None}
  BY <1>2 DEF RecordsOf
<1>4. Times(f) \subseteq Nat
  BY <1>3 DEF Times
<1>5. IsFiniteSet(Lines(f))
  BY <1>2, FS_Interval
<1>6. IsFiniteSet(Times(f))
  <2> DEFINE time == [i \in Lines(f) |-> f.lines[i].time]
  <2>1. IsFiniteSet({time[i] : i \in Lines(f)})
    <3>1. DOMAIN time = Lines(f) /\ time = [i \in Lines(f) |-> time[i]]
      OBVIOUS
    <3> HIDE DEF time
    <3> QED BY <1>5, <3>1, FiniteImage
  <2> QED BY <2>1, FS_Subset DEF Times
<1>7. Headers(f) \subseteq Lines(f)
  BY DEF Headers
<1> QED BY <1>1, <1>2, <1>4, <1>5, <1>6, <1>7, FS_Subset

LEMMA OneMoreCodex ==
  ASSUME NEW n \in Names, NEW talk \in Talk, NEW new \in Talk,
         NEW f \in FilesOf(Names, Directories), NEW g \in FilesOf(Names, Directories),
         NEW record \in RecordsOf(Names, Directories), NEW project \in Directories,
         NEW day \in Nat, NEW stamped \in BOOLEAN,
         f.lines /= <<>>, g.lines = Append(f.lines, record),
         talk.tool = "codex", new.project = project, new.parent = talk.parent,
         new.kind = talk.kind,
         CodexWell(n, f, talk), WellRecorded(n, talk, record, project, day, stamped)
  PROVE  CodexWell(n, g, new)
<1> DEFINE k == Len(f.lines)
<1>1. /\ k \in Nat \ {0} /\ Lines(f) = 1 .. k
      /\ \A i \in 1 .. k : g.lines[i] = f.lines[i]
      /\ g.lines[k + 1] = record
      /\ Headers(g) = Headers(f) \cup
            (IF record.whole /\ record.what = "session" THEN {k + 1} ELSE {})
  BY OneMoreRecord
<1>2. Headers(f) \subseteq 1 .. k
  BY <1>1 DEF Headers
<1> HIDE DEF k
<1>3. CASE record.whole /\ record.what = "session"
  <2>1. Headers(g) = Headers(f) \cup {k + 1}
    BY <1>1, <1>3
  <2>2. Max(Headers(g)) = k + 1
    <3>1. Headers(g) \in SUBSET (0 .. k + 1) /\ Headers(g) /= {} /\ k + 1 \in Nat
      BY <1>1, <1>2, <2>1
    <3>2. Max(Headers(g)) \in Headers(g) /\ Max(Headers(g)) >= k + 1
      BY <3>1, <2>1, MaxIsLargest
    <3> QED BY <1>1, <1>2, <2>1, <3>2
  <2>3. /\ record.id = n /\ record.cwd = project
        /\ record.parent = talk.parent /\ record.kind = talk.kind
    BY <1>3 DEF WellRecorded
  <2>4. 1 \in Headers(g)
    BY <2>1 DEF CodexWell
  <2>5. ASSUME NEW i \in Headers(g)
        PROVE  /\ g.lines[i].id = n /\ g.lines[i].cwd \in Directories
               /\ g.lines[i].parent = talk.parent /\ g.lines[i].kind = talk.kind
    <3>1. CASE i = k + 1
      BY <1>1, <2>3, <3>1
    <3>2. CASE i \in Headers(f)
      BY <1>1, <1>2, <3>2 DEF CodexWell
    <3> QED BY <2>1, <3>1, <3>2
  <2> QED BY <1>1, <2>2, <2>3, <2>4, <2>5 DEF CodexWell
<1>4. CASE ~ (record.whole /\ record.what = "session")
  <2>1. Headers(g) = Headers(f)
    BY <1>1, <1>4
  <2>2. project = talk.project
    BY <1>4 DEF WellRecorded
  <2>3. Max(Headers(f)) \in Headers(f)
    <3>1. Headers(f) \in SUBSET (0 .. k) /\ Headers(f) /= {} /\ k \in Nat
      BY <1>1, <1>2 DEF CodexWell
    <3> QED BY <3>1, MaxIsLargest
  <2>4. \A i \in Headers(f) : g.lines[i] = f.lines[i]
    BY <1>1, <1>2
  <2>5. g.lines[Max(Headers(g))].cwd = new.project
    BY <2>1, <2>2, <2>3, <2>4 DEF CodexWell
  <2>6. 1 \in Headers(g) /\ \A i \in Headers(g) :
           /\ g.lines[i].id = n /\ g.lines[i].cwd \in Directories
           /\ g.lines[i].parent = new.parent /\ g.lines[i].kind = new.kind
    BY <2>1, <2>4 DEF CodexWell
  <2> QED BY <2>5, <2>6 DEF CodexWell
<1> QED BY <1>3, <1>4

LEMMA OneMoreDated ==
  ASSUME NoneAssumption, NEW n \in Names, NEW talk \in Talk, NEW new \in Talk,
         NEW f \in FilesOf(Names, Directories), NEW g \in FilesOf(Names, Directories),
         NEW record \in RecordsOf(Names, Directories), NEW project \in Directories,
         NEW day \in Nat, NEW stamped \in BOOLEAN, talk.last <= day,
         f.lines /= <<>>, g.lines = Append(f.lines, record), g.tool = f.tool,
         f.tool /= "aider", g.mtime = day,
         new.last = IF record.whole \/ ~ stamped THEN day ELSE talk.last,
         DatedWell(f, talk, stamped), WellRecorded(n, talk, record, project, day, stamped)
  PROVE  DatedWell(g, new, stamped)
<1>1. Times(g) = Times(f) \cup ({record.time} \ {None})
  BY OneMoreRecord
<1>2. talk.last \in Nat
  BY DEF Talk
<1>3. CASE ~ stamped
  BY <1>1, <1>3 DEF DatedWell, WellRecorded
<1>4. CASE stamped /\ record.whole
  <2>1. Times(g) = Times(f) \cup {day} /\ new.last = day
    BY <1>1, <1>4, NoneAssumption DEF WellRecorded
  <2>2. \A d \in Times(f) : d <= talk.last /\ d \in Nat
    BY <1>4, FileFields DEF DatedWell
  <2>3. \A d \in Times(g) : d <= day
    BY <1>2, <2>1, <2>2
  <2> QED BY <1>4, <2>1, <2>3 DEF DatedWell
<1>5. CASE stamped /\ ~ record.whole
  <2>1. Times(g) = Times(f) /\ new.last = talk.last
    BY <1>1, <1>5 DEF WellRecorded
  <2> QED BY <1>5, <2>1 DEF DatedWell
<1> QED BY <1>3, <1>4, <1>5

LEMMA WriteTells ==
  ASSUME NoneAssumption, NEW n \in Names, NEW talk \in Talk, NEW new \in Talk,
         NEW f \in FilesOf(Names, Directories), NEW g \in FilesOf(Names, Directories),
         NEW record \in RecordsOf(Names, Directories), NEW project \in Directories,
         NEW day \in Nat, NEW stamped \in BOOLEAN, talk.last <= day, talk.whole,
         Tells(n, f, talk, stamped),
         WellRecorded(n, talk, record, project, day, stamped),
         g.tool = f.tool, g.place = f.place, g.under = f.under, g.mtime = day,
         g.lines = IF f.tool \in {"kimi", "aider", "custom"} THEN <<record>>
                   ELSE Append(f.lines, record),
         new.tool = talk.tool, new.project = project, new.parent = talk.parent,
         new.kind = talk.kind,
         new.last = IF record.whole \/ ~ stamped THEN day ELSE talk.last,
         new.whole = (record.whole \/ f.tool \notin {"kimi", "custom"})
  PROVE  Tells(n, g, new, stamped)
<1>1. f.tool = talk.tool /\ f.lines /= <<>>
  BY DEF Tells
<1>2. f.lines \in Seq(RecordsOf(Names, Directories)) /\ talk.last \in Nat
  BY DEF FilesOf, Talk
<1>3. CASE f.tool \in {"kimi", "aider", "custom"}
  <2>1. g.lines = <<record>> /\ Len(g.lines) = 1 /\ g.lines[1] = record /\ Lines(g) = {1}
    BY <1>3 DEF Lines
  <2>2. Times(g) = {record.time} \ {None}
    BY <2>1 DEF Times
  <2>3. ~ new.whole => record.cwd = None
    BY <1>1 DEF WellRecorded
  <2>4. new.whole => record.whole
    BY <1>1, <1>3 DEF WellRecorded
  <2>5. ASSUME new.whole PROVE DatedWell(g, new, stamped)
    BY <1>3, <2>2, <2>4, <2>5, NoneAssumption DEF DatedWell, WellRecorded
  <2>6. ASSUME new.whole PROVE FirstWell(n, g, new)
    BY <1>1, <1>3, <2>1, <2>4, <2>6 DEF FirstWell, WellRecorded
  <2>7. g.lines /= <<>>
    BY <2>1
  <2> QED BY <1>1, <1>3, <2>1, <2>3, <2>5, <2>6, <2>7 DEF Tells
<1>4. CASE f.tool \notin {"kimi", "aider", "custom"}
  <2>1. g.lines = Append(f.lines, record)
    BY <1>4
  <2>2. g.lines[1] = f.lines[1] /\ g.lines /= <<>>
    BY <1>1, <2>1, OneMoreRecord
  <2>3. new.whole
    BY <1>4
  <2>4. DatedWell(g, new, stamped)
    <3>1. DatedWell(f, talk, stamped)
      BY DEF Tells
    <3> QED BY <1>1, <1>4, <2>1, <3>1, OneMoreDated
  <2>5. ASSUME f.tool = "codex" PROVE CodexWell(n, g, new)
    <3>1. CodexWell(n, f, talk)
      BY <2>5 DEF Tells
    <3>2. talk.tool = "codex"
      BY <1>1, <2>5
    <3> QED BY <1>1, <2>1, <3>1, <3>2, OneMoreCodex
  <2>6. ASSUME f.tool /= "codex" PROVE FirstWell(n, g, new)
    <3>1. FirstWell(n, f, talk) /\ project = talk.project
      BY <1>1, <2>6 DEF Tells, WellRecorded
    <3> QED BY <1>1, <2>2, <3>1 DEF FirstWell, Called
  <2> QED BY <1>1, <1>4, <2>2, <2>3, <2>4, <2>5, <2>6 DEF Tells
<1> QED BY <1>3, <1>4

LEMMA WritingKeeps ==
  ASSUME SessionsAssumption, NoneAssumption, World, NEW n \in Names,
         NEW record \in RecordsOf(Names, Directories), NEW project \in Directories,
         Writing(n, record, project),
         WellRecorded(n, talks[n], record, project, today, setup.stamped)
  PROVE  World'
<1>1. /\ files[n] \in FilesOf(Names, Directories) /\ files[n] /= None
      /\ talks[n] \in Talk /\ talks[n] /= None /\ files[n].tool = talks[n].tool
      /\ talks[n].whole /\ TalkWell(n) /\ FileWell(n)
      /\ today \in Nat /\ setup.stamped \in BOOLEAN /\ talks[n].last <= today
      /\ Tells(n, files[n], talks[n], setup.stamped)
  BY SessionsAssumption DEF World, WorldType, Writing, FileWell, TalkWell, Tells
<1>2. PICK g : g = [files[n] EXCEPT !.lines = Written(n, record), !.mtime = today]
  OBVIOUS
<1>3. PICK new : new = [talks[n] EXCEPT
          !.project = project,
          !.last  = IF record.whole \/ ~setup.stamped THEN today ELSE talks[n].last,
          !.whole = record.whole \/ files[n].tool \notin {"kimi", "custom"}]
  OBVIOUS
<1>4. /\ UNCHANGED <<setup, today, root, commands>> /\ writes' = writes + 1
      /\ files' = [files EXCEPT ![n] = g]
      /\ talks' = [talks EXCEPT ![n] = new]
  BY <1>2, <1>3 DEF Writing, Writes
<1>5. /\ g \in FilesOf(Names, Directories)
      /\ g.tool = files[n].tool /\ g.place = files[n].place /\ g.under = files[n].under
      /\ g.mtime = today
      /\ g.lines = IF files[n].tool \in {"kimi", "aider", "custom"} THEN <<record>>
                   ELSE Append(files[n].lines, record)
  <2>1. /\ record \in RecordsOf(Names, Directories)
        /\ files[n].lines \in Seq(RecordsOf(Names, Directories))
    BY <1>1, FileFields
  <2>2. Written(n, record) \in Seq(RecordsOf(Names, Directories))
    BY <2>1 DEF Written
  <2>3. g \in FilesOf(Names, Directories)
    BY <1>1, <1>2, <2>2 DEF FilesOf
  <2>4. /\ g.tool = files[n].tool /\ g.place = files[n].place /\ g.under = files[n].under
        /\ g.mtime = today /\ g.lines = Written(n, record)
    BY <1>1, <1>2 DEF FilesOf
  <2> QED BY <2>3, <2>4 DEF Written
<1>6. /\ new \in Talk
      /\ new.tool = talks[n].tool /\ new.project = project /\ new.parent = talks[n].parent
      /\ new.kind = talks[n].kind
      /\ new.last = IF record.whole \/ ~setup.stamped THEN today ELSE talks[n].last
      /\ new.whole = (record.whole \/ files[n].tool \notin {"kimi", "custom"})
  BY <1>1, <1>3 DEF Talk, RecordsOf
<1>7. g /= None /\ new /= None
  BY <1>5, <1>6, NoneAssumption
<1>8. files'[n] = g /\ talks'[n] = new
  BY <1>4 DEF World, WorldType
<1>9. \A m \in Names \ {n} : files'[m] = files[m] /\ talks'[m] = talks[m]
  BY <1>4 DEF World, WorldType
<1>10. WorldType'
  BY <1>4, <1>5, <1>6 DEF World, WorldType
<1>11. \A m \in Names : TalkWell(m)'
  <2>1. ASSUME NEW m \in Names, talks[m] /= None, talks[m].parent /= None
        PROVE  talks[m].parent \in Names
    BY <2>1 DEF World, WorldType, Talk
  <2>2. TalkWell(n)'
    <3>1. new.last <= today
      BY <1>1, <1>6 DEF TalkWell
    <3>2. talks[n].parent /= None =>
             /\ talks'[talks[n].parent] /= None
             /\ talks'[talks[n].parent].tool = talks[n].tool
             /\ talks[n].tool = "claude" => talks'[talks[n].parent].parent = None
      BY <1>1, <1>6, <1>7, <1>8, <1>9, <2>1 DEF TalkWell
    <3>3. talks[n].tool = "aider" => project = talks[n].project
      BY <1>1 DEF WellRecorded
    <3>4. /\ new.tool = talks[n].tool /\ new.parent = talks[n].parent
          /\ new.kind = talks[n].kind /\ new.project = project
          /\ new.whole = (record.whole \/ talks[n].tool \notin {"kimi", "custom"})
      BY <1>1, <1>6
    <3>5. setup' = setup /\ today' = today /\ talks'[n] = new
      BY <1>4, <1>8
    <3>6. talks[n].tool = "aider" => project \in Projects
      BY <1>1, <3>3 DEF TalkWell
    <3> QED BY <1>1, <3>1, <3>2, <3>4, <3>5, <3>6 DEF TalkWell
  <2>3. ASSUME NEW m \in Names \ {n} PROVE TalkWell(m)'
    <3>1. TalkWell(m) /\ talks'[m] = talks[m]
      BY <1>9 DEF World
    <3>2. talks[m] /= None /\ talks[m].parent /= None =>
             /\ talks'[talks[m].parent] /= None
             /\ talks'[talks[m].parent].tool = talks[talks[m].parent].tool
             /\ talks'[talks[m].parent].parent = talks[talks[m].parent].parent
      BY <1>6, <1>7, <1>8, <1>9, <2>1, <3>1 DEF TalkWell
    <3> QED BY <1>4, <3>1, <3>2 DEF TalkWell
  <2> QED BY <2>2, <2>3
<1>12. FileWell(n)'
  <2>1. Tells(n, g, new, setup.stamped)
    <3>1. /\ Tells(n, files[n], talks[n], setup.stamped) /\ talks[n].whole
          /\ talks[n].last <= today /\ today \in Nat /\ setup.stamped \in BOOLEAN
          /\ files[n] \in FilesOf(Names, Directories) /\ talks[n] \in Talk
      BY <1>1
    <3> QED BY <1>5, <1>6, <3>1, WriteTells
  <2>2. root[files[n].tool] /= "missing"
    BY <1>1 DEF FileWell
  <2> QED BY <1>1, <1>4, <1>5, <1>7, <1>8, <2>1, <2>2 DEF FileWell
<1>13. ASSUME NEW m \in Names \ {n} PROVE FileWell(m)'
  BY <1>4, <1>9 DEF World, FileWell
<1> QED BY <1>10, <1>11, <1>12, <1>13 DEF World

\* The file of a session that begins tells it.
LEMMA FirstTells ==
  ASSUME NoneAssumption, NEW n \in Names, NEW talk \in Talk,
         NEW f \in FilesOf(Names, Directories), NEW record, NEW day \in Nat,
         NEW stamped \in BOOLEAN,
         f.lines = <<record>>, record.whole, record.cwd = talk.project,
         record.time = IF stamped THEN day ELSE None,
         record.parent = talk.parent, record.kind = talk.kind,
         record.what = IF talk.tool = "claude" THEN "turn" ELSE "session",
         talk.tool \notin {"kimi", "aider"} => record.id = Called(n, talk),
         f.tool = talk.tool, f.place = "active", f.mtime = day,
         f.under = IF f.tool = "claude" THEN talk.parent ELSE None,
         talk.whole, talk.last = day
  PROVE  Tells(n, f, talk, stamped)
<1>1. f.lines[1] = record /\ Len(f.lines) = 1 /\ f.lines /= <<>> /\ Lines(f) = {1}
  BY DEF Lines
<1>2. Times(f) = {record.time} \ {None}
  BY <1>1 DEF Times
<1>3. DatedWell(f, talk, stamped)
  BY <1>2, NoneAssumption DEF DatedWell
<1>4. ASSUME f.tool = "codex" PROVE CodexWell(n, f, talk)
  <2>1. Headers(f) = {1}
    BY <1>1, <1>4 DEF Headers
  <2>2. Max(Headers(f)) = 1
    <3>1. Max(Headers(f)) \in Headers(f)
      <4>1. Headers(f) \in SUBSET (0 .. 1) /\ Headers(f) /= {}
        BY <2>1
      <4> QED BY <4>1, MaxIsLargest
    <3> QED BY <2>1, <3>1
  <2>3. talk.project \in Directories
    BY DEF Talk
  <2>4. record.id = n
    BY <1>4 DEF Called
  <2> QED BY <1>1, <1>4, <2>1, <2>2, <2>3, <2>4 DEF CodexWell
<1>5. ASSUME f.tool /= "codex" PROVE FirstWell(n, f, talk)
  BY <1>1, <1>5 DEF FirstWell, Called
<1> QED BY <1>1, <1>3, <1>4, <1>5 DEF Tells

LEMMA CreateKeeps ==
  ASSUME SessionsAssumption, NoneAssumption, World, NEW n \in Names,
         NEW t \in setup.tools, NEW p \in Directories, NEW parent \in Names \cup {None},
         NEW kind \in Kinds, Create(n, t, p, parent, kind),
         t = "aider" => p \in Projects,
         parent = None => kind = "root" \/ (kind = "headless" /\ t = "opencode"),
         parent /= None =>
            /\ t \in {"codex", "claude", "opencode"} /\ kind \in {"guardian", "subagent"}
            /\ talks[parent] /= None /\ talks[parent].tool = t
            /\ t = "claude" => talks[parent].parent = None
  PROVE  World'
<1>1. /\ t \in Scanners /\ today \in Nat
      /\ setup.stamped \in BOOLEAN /\ setup.old \in BOOLEAN
      /\ talks[n] = None /\ root[t] /= "blocked"
  BY SessionsAssumption DEF World, WorldType, Create
<1>2. PICK record : record = First(n, t, p, parent, kind)
  OBVIOUS
<1>3. /\ record \in RecordsOf(Names, Directories)
      /\ record.whole /\ record.cwd = p /\ record.parent = parent /\ record.kind = kind
      /\ record.time = IF setup.stamped THEN today ELSE None
      /\ record.what = IF t = "claude" THEN "turn" ELSE "session"
      /\ record.id = CASE t \in {"kimi", "aider"} -> None
                       [] t = "claude" -> IF parent = None THEN n ELSE parent
                       [] OTHER -> n
  <2>1. PICK id \in Names \cup {None} :
           id = CASE t \in {"kimi", "aider"} -> None
                  [] t = "claude" -> IF parent = None THEN n ELSE parent
                  [] OTHER -> n
    OBVIOUS
  <2>2. record = Record(IF t = "claude" THEN "turn" ELSE "session", id, p, parent, kind)
    BY <1>2, <2>1 DEF First
  <2> QED BY <1>1, <2>1, <2>2 DEF Record, RecordsOf
<1>4. PICK f : f = [tool |-> t, place |-> "active",
                    under |-> IF t = "claude" THEN parent ELSE None,
                    lines |-> <<record>>, mtime |-> today]
  OBVIOUS
<1>5. PICK talk : talk = [tool |-> t, project |-> p, parent |-> parent, kind |-> kind,
                          last |-> today, whole |-> TRUE]
  OBVIOUS
<1>6. /\ UNCHANGED <<setup, today, commands>> /\ writes' = writes + 1
      /\ files' = [files EXCEPT ![n] = f]
      /\ talks' = [talks EXCEPT ![n] = talk]
      /\ root' = [root EXCEPT ![t] = "open"]
  BY <1>2, <1>4, <1>5 DEF Create, Writes
<1>7. /\ f \in FilesOf(Names, Directories)
      /\ f.tool = t /\ f.place = "active" /\ f.mtime = today /\ f.lines = <<record>>
      /\ f.under = IF t = "claude" THEN parent ELSE None
  <2>1. <<record>> \in Seq(RecordsOf(Names, Directories))
    BY <1>3
  <2> QED BY <1>1, <1>4, <2>1 DEF FilesOf
<1>8. /\ talk \in Talk
      /\ talk.tool = t /\ talk.project = p /\ talk.parent = parent /\ talk.kind = kind
      /\ talk.last = today /\ talk.whole
  BY <1>1, <1>5 DEF Talk
<1>9. f /= None /\ talk /= None
  BY <1>7, <1>8, NoneAssumption
<1>10. /\ files'[n] = f /\ talks'[n] = talk
       /\ \A m \in Names \ {n} : files'[m] = files[m] /\ talks'[m] = talks[m]
       /\ root'[t] = "open" /\ \A s \in setup.tools \ {t} : root'[s] = root[s]
  BY <1>6 DEF World, WorldType
<1>11. WorldType'
  BY <1>6, <1>7, <1>8 DEF World, WorldType
<1>12. \A m \in Names : TalkWell(m)'
  <2>1. TalkWell(n)'
    <3>1. parent /= None => parent \in Names \ {n}
      BY <1>1
    <3>2. today <= today
      BY <1>1
    <3> QED BY <1>6, <1>8, <1>10, <3>1, <3>2 DEF TalkWell
  <2>2. ASSUME NEW m \in Names \ {n} PROVE TalkWell(m)'
    <3>1. TalkWell(m) /\ talks'[m] = talks[m]
      BY <1>10 DEF World
    <3>2. talks[m] /= None /\ talks[m].parent /= None =>
             /\ talks[m].parent \in Names \ {n}
             /\ talks'[talks[m].parent] = talks[talks[m].parent]
      <4>1. talks[m] /= None /\ talks[m].parent /= None => talks[m].parent \in Names
        BY DEF World, WorldType, Talk
      <4>2. talks[m] /= None /\ talks[m].parent /= None => talks[talks[m].parent] /= None
        BY <3>1 DEF TalkWell
      <4> QED BY <1>1, <1>10, <4>1, <4>2
    <3> QED BY <1>6, <3>1, <3>2 DEF TalkWell
  <2> QED BY <2>1, <2>2
<1>13. FileWell(n)'
  <2>1. talk.tool \notin {"kimi", "aider"} => record.id = Called(n, talk)
    BY <1>1, <1>3, <1>8 DEF Called, Scanners
  <2>2. Tells(n, f, talk, setup.stamped)
    BY <1>1, <1>3, <1>7, <1>8, <2>1, FirstTells
  <2>3. today <= today
    BY <1>1
  <2> QED BY <1>6, <1>7, <1>9, <1>10, <2>2, <2>3 DEF FileWell
<1>14. ASSUME NEW m \in Names \ {n} PROVE FileWell(m)'
  <2>1. FileWell(m) /\ files'[m] = files[m] /\ talks'[m] = talks[m]
    BY <1>10 DEF World
  <2>2. files[m] /= None => files[m].tool \in setup.tools
    BY <2>1 DEF World, FileWell, TalkWell, Tells
  <2>3. files[m] /= None => root'[files[m].tool] /= "missing"
    BY <1>10, <2>1, <2>2 DEF FileWell
  <2> QED BY <1>6, <2>1, <2>3 DEF FileWell
<1> QED BY <1>11, <1>12, <1>13, <1>14 DEF World

LEMMA BeginKeeps ==
  ASSUME SessionsAssumption, NoneAssumption, World, NEW n \in Names,
         NEW t \in setup.tools, NEW p \in Projects \cup {Own},
         NEW kind \in {"root", "headless"}, Begin(n, t, p, kind)
  PROVE  World'
<1>1. p \in Directories /\ kind \in Kinds
  BY DEF Directories, Kinds
<1>2. /\ Create(n, t, p, None, kind)
      /\ kind = "root" \/ (kind = "headless" /\ t = "opencode")
      /\ t = "aider" => p \in Projects
  BY DEF Begin
<1> QED BY <1>1, <1>2, CreateKeeps

LEMMA DelegateKeeps ==
  ASSUME SessionsAssumption, NoneAssumption, World, NEW n \in Names, NEW m \in Names,
         NEW kind \in {"guardian", "subagent"}, Delegate(n, m, kind)
  PROVE  World'
<1>1. /\ files[m] /= None /\ FileWell(m) /\ TalkWell(m)
      /\ talks[m] \in Talk /\ talks[m] /= None /\ files[m].tool = talks[m].tool
      /\ talks[m].tool \in setup.tools /\ talks[m].project \in Directories
      /\ kind \in Kinds /\ m /= None
  BY NoneAssumption, SessionsAssumption
     DEF World, WorldType, Delegate, FileWell, TalkWell, Tells, Talk, Kinds
<1>2. /\ talks[m].tool \in {"codex", "claude", "opencode"}
      /\ talks[m].tool = "claude" => talks[m].parent = None
      /\ Create(n, talks[m].tool, talks[m].project, m, kind)
  BY <1>1 DEF Delegate
<1> QED BY <1>1, <1>2, CreateKeeps

LEMMA ContinueKeeps ==
  ASSUME SessionsAssumption, NoneAssumption, World, NEW n \in Names,
         NEW what \in {"turn", "call", "done"}, Continue(n, what)
  PROVE  World'
<1> DEFINE t == talks[n].tool
           p == talks[n].project
<1>1. /\ files[n] /= None /\ FileWell(n) /\ TalkWell(n)
      /\ talks[n] \in Talk /\ talks[n] /= None /\ files[n].tool = t
      /\ t \in Scanners /\ p \in Directories /\ today \in Nat
      /\ setup.stamped \in BOOLEAN /\ setup.old \in BOOLEAN
      /\ talks[n].parent \in Names \cup {None}
  BY SessionsAssumption DEF World, WorldType, Continue, FileWell, TalkWell, Tells, Talk
<1>2. CASE t = "codex" \/ (t \in {"opencode", "pi"} /\ what = "turn")
  <2>1. PICK record : record = Record(what, None, None, None, None)
    OBVIOUS
  <2>2. /\ record \in RecordsOf(Names, Directories) /\ record.whole /\ record.what = what
        /\ record.time = IF setup.stamped THEN today ELSE None
    BY <1>1, <2>1 DEF Record, RecordsOf
  <2>3. WellRecorded(n, talks[n], record, p, today, setup.stamped)
    BY <1>2, <2>2 DEF WellRecorded
  <2>4. Writing(n, record, p)
    BY <1>1, <1>2, <2>1 DEF Continue
  <2> QED BY <1>1, <2>2, <2>3, <2>4, WritingKeeps
<1>3. CASE t = "claude"
  <2>1. PICK record : record = Record(what, SessionOf(n), p, None, None)
    OBVIOUS
  <2>2. SessionOf(n) \in Names
    BY <1>1 DEF SessionOf
  <2>3. /\ record \in RecordsOf(Names, Directories) /\ record.whole /\ record.what = what
        /\ record.time = IF setup.stamped THEN today ELSE None
    BY <1>1, <2>1, <2>2 DEF Record, RecordsOf
  <2>4. WellRecorded(n, talks[n], record, p, today, setup.stamped)
    BY <1>3, <2>3 DEF WellRecorded
  <2>5. Writing(n, record, p)
    BY <1>1, <1>3, <2>1 DEF Continue
  <2> QED BY <1>1, <2>3, <2>4, <2>5, WritingKeeps
<1>4. CASE t \in {"kimi", "aider", "custom"}
  <2>1. PICK record : record = First(n, t, p, None, "root")
    OBVIOUS
  <2>2. /\ record \in RecordsOf(Names, Directories) /\ record.whole
        /\ record.what = "session" /\ record.cwd = p
        /\ record.time = IF setup.stamped THEN today ELSE None
        /\ t = "custom" => record.id = n
    BY <1>1, <1>4, <2>1 DEF First, Record, RecordsOf, Kinds
  <2>3. WellRecorded(n, talks[n], record, p, today, setup.stamped)
    BY <1>4, <2>2 DEF WellRecorded
  <2>4. Writing(n, record, p)
    BY <1>1, <1>4, <2>1 DEF Continue
  <2> QED BY <1>1, <2>2, <2>3, <2>4, WritingKeeps
<1>5. t \in {"kimi", "aider", "custom"} \/ t = "claude" \/ t = "codex"
      \/ (t \in {"opencode", "pi"} /\ what = "turn")
  BY <1>1 DEF Continue, Scanners
<1> QED BY <1>2, <1>3, <1>4, <1>5

LEMMA MoveKeeps ==
  ASSUME SessionsAssumption, NoneAssumption, World, NEW n \in Names,
         NEW p \in Projects, Move(n, p)
  PROVE  World'
<1>1. /\ files[n] /= None /\ FileWell(n) /\ TalkWell(n)
      /\ talks[n] \in Talk /\ talks[n] /= None /\ files[n].tool = talks[n].tool
      /\ talks[n].project \in Directories /\ p \in Directories /\ today \in Nat
      /\ setup.stamped \in BOOLEAN /\ setup.old \in BOOLEAN
      /\ talks[n].parent \in Names \cup {None} /\ talks[n].kind \in Kinds
  BY SessionsAssumption
     DEF World, WorldType, Move, FileWell, TalkWell, Tells, Talk, Directories
<1>2. CASE talks[n].tool = "codex"
  <2>1. PICK record : record = First(n, "codex", p, talks[n].parent, talks[n].kind)
    OBVIOUS
  <2>2. record = Record("session", n, p, talks[n].parent, talks[n].kind)
    BY <2>1 DEF First
  <2>3. /\ record \in RecordsOf(Names, Directories) /\ record.whole
        /\ record.what = "session" /\ record.cwd = p /\ record.id = n
        /\ record.parent = talks[n].parent /\ record.kind = talks[n].kind
        /\ record.time = IF setup.stamped THEN today ELSE None
    BY <1>1, <2>2 DEF Record, RecordsOf
  <2>4. WellRecorded(n, talks[n], record, p, today, setup.stamped)
    BY <1>2, <2>3 DEF WellRecorded
  <2>5. Writing(n, record, p)
    BY <1>1, <1>2, <2>1 DEF Move
  <2> QED BY <1>1, <2>3, <2>4, <2>5, WritingKeeps
<1>3. CASE talks[n].tool = "claude"
  <2>1. PICK record : record = Record("turn", SessionOf(n), p, None, None)
    OBVIOUS
  <2>2. SessionOf(n) \in Names
    BY <1>1 DEF SessionOf
  <2>3. /\ record \in RecordsOf(Names, Directories) /\ record.whole
        /\ record.time = IF setup.stamped THEN today ELSE None
    BY <1>1, <2>1, <2>2 DEF Record, RecordsOf
  <2>4. WellRecorded(n, talks[n], record, talks[n].project, today, setup.stamped)
    BY <1>3, <2>3 DEF WellRecorded
  <2>5. Writing(n, record, talks[n].project)
    BY <1>1, <1>3, <2>1 DEF Move
  <2> QED BY <1>1, <2>3, <2>4, <2>5, WritingKeeps
<1> QED BY <1>1, <1>2, <1>3 DEF Move

LEMMA TearKeeps ==
  ASSUME SessionsAssumption, NoneAssumption, World, NEW n \in Names,
         NEW what \in {"session", "turn", "done"}, Tear(n, what)
  PROVE  World'
<1>1. /\ files[n] /= None /\ FileWell(n)
      /\ talks[n] \in Talk /\ files[n].tool = talks[n].tool
      /\ talks[n].project \in Directories /\ today \in Nat
  BY DEF World, WorldType, Tear, FileWell, Tells, Talk
<1>2. PICK record : record = Torn(what)
  OBVIOUS
<1>3. /\ record \in RecordsOf(Names, Directories) /\ ~ record.whole
      /\ record.time = None /\ record.cwd = None
  BY <1>2 DEF Torn, RecordsOf
<1>4. talks[n].tool \notin {"opencode", "aider"} /\ Writing(n, record, talks[n].project)
  BY <1>1, <1>2 DEF Tear
<1>5. WellRecorded(n, talks[n], record, talks[n].project, today, setup.stamped)
  BY <1>3, <1>4 DEF WellRecorded
<1> QED BY <1>1, <1>3, <1>4, <1>5, WritingKeeps

\* Files go, and their sessions stay what they were.
LEMMA GoneKeeps ==
  ASSUME World, UNCHANGED <<setup, today, talks>>,
         writes' \in Nat, commands' \in Nat,
         DOMAIN files' = Names, files' = [n \in Names |-> files'[n]],
         \A n \in Names : files'[n] \in {None, files[n]},
         root' \in [setup.tools -> {"missing", "open", "blocked"}],
         \A n \in Names : files'[n] /= None =>
            (root[files[n].tool] /= "missing" => root'[files[n].tool] /= "missing")
  PROVE  World'
<1>1. WorldType'
  BY DEF World, WorldType
<1>2. ASSUME NEW n \in Names PROVE TalkWell(n)' /\ FileWell(n)'
  BY DEF World, TalkWell, FileWell
<1> QED BY <1>1, <1>2 DEF World

LEMMA ArchiveKeeps ==
  ASSUME NoneAssumption, World, NEW n \in Names, Archive(n)
  PROVE  World'
<1>1. /\ files[n] \in FilesOf(Names, Directories) /\ files[n] /= None /\ FileWell(n)
      /\ files[n].tool = "codex"
  BY DEF World, WorldType, Archive
<1>2. PICK g : g = [files[n] EXCEPT !.place = "archived"]
  OBVIOUS
<1>3. /\ UNCHANGED <<setup, today, talks, root, commands>> /\ writes' = writes + 1
      /\ files' = [files EXCEPT ![n] = g]
  BY <1>2 DEF Archive, Writes
<1>4. /\ g \in FilesOf(Names, Directories) /\ g /= None
      /\ g.tool = files[n].tool /\ g.under = files[n].under /\ g.lines = files[n].lines
      /\ g.mtime = files[n].mtime /\ g.place = "archived"
  BY <1>1, <1>2, NoneAssumption DEF FilesOf
<1>5. files'[n] = g /\ \A m \in Names \ {n} : files'[m] = files[m]
  BY <1>3 DEF World, WorldType
<1>6. WorldType'
  BY <1>3, <1>4 DEF World, WorldType
<1>7. FileWell(n)'
  <2>1. Tells(n, g, talks[n], setup.stamped)
    <3>1. Tells(n, files[n], talks[n], setup.stamped)
      BY <1>1 DEF FileWell
    <3>2. Lines(g) = Lines(files[n]) /\ Headers(g) = Headers(files[n]) /\ Times(g) = Times(files[n])
      BY <1>4 DEF Lines, Headers, Times
    <3>3. DatedWell(files[n], talks[n], setup.stamped) => DatedWell(g, talks[n], setup.stamped)
      BY <1>4, <3>2 DEF DatedWell
    <3>4. CodexWell(n, files[n], talks[n]) => CodexWell(n, g, talks[n])
      BY <1>4, <3>2 DEF CodexWell
    <3>5. FirstWell(n, files[n], talks[n]) => FirstWell(n, g, talks[n])
      BY <1>4 DEF FirstWell
    <3> QED BY <1>1, <1>4, <3>1, <3>3, <3>4, <3>5 DEF Tells
  <2> QED BY <1>1, <1>3, <1>4, <1>5, <2>1 DEF FileWell
<1>8. ASSUME NEW m \in Names PROVE TalkWell(m)'
  BY <1>3 DEF World, TalkWell
<1>9. ASSUME NEW m \in Names \ {n} PROVE FileWell(m)'
  BY <1>3, <1>5 DEF World, FileWell
<1> QED BY <1>6, <1>7, <1>8, <1>9 DEF World

\* What leaves the files, the sessions and the setup alone.
LEMMA OthersKeep ==
  ASSUME World, UNCHANGED <<setup, source>>, commands' \in Nat
  PROVE  World'
<1>1. UNCHANGED <<setup, today, files, root, talks, writes>>
  BY DEF source
<1>2. WorldType'
  BY <1>1 DEF World, WorldType
<1>3. ASSUME NEW n \in Names PROVE TalkWell(n)' /\ FileWell(n)'
  BY <1>1 DEF World, TalkWell, FileWell
<1> QED BY <1>2, <1>3 DEF World

LEMMA UsesKeep ==
  ASSUME SessionsAssumption, NoneAssumption, World, Uses
  PROVE  World'
<1>0. today \in Nat /\ writes \in Nat /\ commands \in Nat /\ writes + 1 \in Nat
      /\ files = [n \in Names |-> files[n]]
      /\ root \in [setup.tools -> {"missing", "open", "blocked"}]
  BY DEF World, WorldType
<1>1. ASSUME NEW n \in Names, NEW t \in setup.tools, NEW p \in Projects \cup {Own},
             NEW kind \in {"root", "headless"}, Begin(n, t, p, kind)
      PROVE  World'
  BY <1>1, BeginKeeps
<1>2. ASSUME NEW n \in Names, NEW m \in Names, NEW kind \in {"guardian", "subagent"},
             Delegate(n, m, kind)
      PROVE  World'
  BY <1>2, DelegateKeeps
<1>3. ASSUME NEW n \in Names, NEW what \in {"turn", "call", "done"}, Continue(n, what)
      PROVE  World'
  BY <1>3, ContinueKeeps
<1>4. ASSUME NEW n \in Names, NEW p \in Projects, Move(n, p)
      PROVE  World'
  BY <1>4, MoveKeeps
<1>5. ASSUME NEW n \in Names, NEW what \in {"session", "turn", "done"}, Tear(n, what)
      PROVE  World'
  BY <1>5, TearKeeps
<1>6. ASSUME NEW n \in Names, Remove(n)
      PROVE  World'
  <2>1. /\ UNCHANGED <<setup, today, talks, root, commands>> /\ writes' = writes + 1
        /\ files' = [files EXCEPT ![n] = None]
    BY <1>6 DEF Remove, Writes
  <2>2. /\ DOMAIN files' = Names /\ files' = [m \in Names |-> files'[m]]
        /\ \A m \in Names : files'[m] \in {None, files[m]}
    BY <1>0, <2>1
  <2> QED BY <1>0, <2>1, <2>2, GoneKeeps
<1>7. ASSUME NEW n \in Names, Archive(n)
      PROVE  World'
  BY <1>7, ArchiveKeeps
<1>8. ASSUME NEW t \in setup.tools, Block(t) \/ Unblock(t)
      PROVE  World'
  <2>1. /\ UNCHANGED <<setup, today, talks, files, commands>> /\ writes' = writes + 1
        /\ root' = [root EXCEPT ![t] = "open"] \/ root' = [root EXCEPT ![t] = "blocked"]
    BY <1>8 DEF Block, Unblock, Rooted, Writes
  <2>2. /\ root' \in [setup.tools -> {"missing", "open", "blocked"}]
        /\ \A s \in setup.tools : root[s] /= "missing" => root'[s] /= "missing"
    BY <1>0, <2>1
  <2>3. \A n \in Names : files'[n] /= None => files[n].tool \in setup.tools
    BY <2>1 DEF World, FileWell, TalkWell, Tells
  <2>4. DOMAIN files' = Names /\ files' = [m \in Names |-> files'[m]]
    BY <1>0, <2>1
  <2> QED BY <1>0, <2>1, <2>2, <2>3, <2>4, GoneKeeps
<1>9. ASSUME NEW t \in setup.tools, Wipe(t)
      PROVE  World'
  <2>1. /\ UNCHANGED <<setup, today, talks, commands>> /\ writes' = writes + 1
        /\ root' = [root EXCEPT ![t] = "missing"]
        /\ files' = [n \in Names |-> IF files[n] /= None /\ files[n].tool = t
                                     THEN None ELSE files[n]]
    BY <1>9 DEF Wipe, Rooted, Writes
  <2>2. /\ DOMAIN files' = Names /\ files' = [m \in Names |-> files'[m]]
        /\ \A m \in Names : files'[m] \in {None, files[m]}
        /\ \A m \in Names : files'[m] /= None => files[m] /= None /\ files[m].tool /= t
    BY <2>1
  <2>3. \A n \in Names : files'[n] /= None => files[n].tool \in setup.tools
    BY <2>2 DEF World, FileWell, TalkWell, Tells
  <2>4. /\ root' \in [setup.tools -> {"missing", "open", "blocked"}]
        /\ \A s \in setup.tools \ {t} : root'[s] = root[s]
    BY <1>0, <2>1
  <2> QED BY <1>0, <2>1, <2>2, <2>3, <2>4, GoneKeeps
<1>10. ASSUME Wait
       PROVE  World'
  <2>1. UNCHANGED <<setup, files, root, talks, writes, commands>> /\ today' = today + 1
    BY <1>10 DEF Wait
  <2>2. WorldType'
    BY <2>1 DEF World, WorldType
  <2>3. ASSUME NEW n \in Names PROVE TalkWell(n)'
    <3>1. talks[n] /= None => talks[n].last \in Nat /\ talks[n].last <= today
      BY DEF World, WorldType, TalkWell, Talk
    <3>2. talks[n] /= None => talks[n].last <= today'
      BY <1>0, <2>1, <3>1
    <3> QED BY <2>1, <3>2 DEF World, TalkWell
  <2>4. ASSUME NEW n \in Names PROVE FileWell(n)'
    <3>1. files[n] /= None => files[n].mtime \in Nat /\ files[n].mtime <= today
      BY FileFields DEF World, WorldType, FileWell
    <3>2. files[n] /= None => files[n].mtime <= today'
      BY <1>0, <2>1, <3>1
    <3> QED BY <2>1, <3>2 DEF World, FileWell
  <2> QED BY <2>2, <2>3, <2>4 DEF World
<1> QED BY <1>1, <1>2, <1>3, <1>4, <1>5, <1>6, <1>7, <1>8, <1>9, <1>10 DEF Uses

LEMMA ScansKeep ==
  ASSUME World, Scans
  PROVE  World'
<1>1. UNCHANGED <<setup, source>> /\ commands' \in {commands, commands + 1}
  BY DEF Scans, Scan, OpenProject, OpenRecent, Open, Launched, Recorded, ListProjects,
         ListUsages, LaunchShown, Commands
<1>2. commands \in Nat
  BY DEF World, WorldType
<1> QED BY <1>1, <1>2, OthersKeep

LEMMA CleanupKeeps ==
  ASSUME World, Cleanup
  PROVE  World'
<1>0. /\ commands \in Nat /\ commands + 1 \in Nat
      /\ writes \in Nat /\ root \in [setup.tools -> {"missing", "open", "blocked"}]
  BY DEF World, WorldType
<1>1. ASSUME NEW shows, StartAnalysis(shows)
      PROVE  World'
  BY <1>0, <1>1, OthersKeep DEF StartAnalysis, Commands
<1>2. CASE AnalysisFails
  BY <1>0, <1>2, OthersKeep DEF AnalysisFails
<1>3. CASE Stat
  BY <1>0, <1>3, OthersKeep DEF Stat
<1>4. CASE Parse
  BY <1>0, <1>4, OthersKeep DEF Parse
<1>5. CASE Consider
  BY <1>0, <1>5, OthersKeep DEF Consider
<1>6. ASSUME NEW saved, FinishAnalysis(saved)
      PROVE  World'
  BY <1>0, <1>6, OthersKeep DEF FinishAnalysis
<1>7. ASSUME NEW keys, Quarantine(keys)
      PROVE  World'
  <2>1. /\ UNCHANGED <<setup, today, talks, root, writes>> /\ commands' = commands + 1
        /\ files' = [n \in Names |-> IF \E c \in Selected(keys) : c.file = n
                                     THEN None ELSE files[n]]
    BY <1>7 DEF Quarantine, Commands
  <2>2. /\ DOMAIN files' = Names /\ files' = [n \in Names |-> files'[n]]
        /\ \A n \in Names : files'[n] \in {None, files[n]}
    BY <2>1
  <2> QED BY <1>0, <2>1, <2>2, GoneKeeps
<1> QED BY <1>1, <1>2, <1>3, <1>4, <1>5, <1>6, <1>7 DEF Cleanup

LEMMA InitWorld ==
  ASSUME Init
  PROVE  World
<1>1. WorldType
  BY DEF Init, WorldType
<1> QED BY <1>1 DEF Init, World, TalkWell, FileWell

LEMMA StepWorld ==
  ASSUME SessionsAssumption, NoneAssumption, World, [Next]_vars
  PROVE  World'
<1>1. CASE Uses
  BY <1>1, UsesKeep
<1>2. CASE Scans
  BY <1>2, ScansKeep
<1>3. CASE Cleanup
  BY <1>3, CleanupKeeps
<1>4. CASE UNCHANGED vars
  <2>1. commands' = commands /\ commands \in Nat
    BY <1>4 DEF vars, World, WorldType
  <2> QED BY <1>4, <2>1, OthersKeep DEF vars
<1> QED BY <1>1, <1>2, <1>3, <1>4 DEF Next

\* The files and the sessions they are of always fit together: what a file
\* says of a session that is whole is when it was last used, where it is and
\* what started it, whoever wrote, moved, tore, archived or removed it.
THEOREM FilesTellSessions == Spec => []World
<1>1. Spec => []World
  <2>1. Init => World
    BY InitWorld
  <2>2. World /\ [Next]_vars => World'
    BY StepWorld, SessionsAssumption, NoneAssumption
  <2> QED BY <2>1, <2>2, PTL DEF Spec
<1> QED BY <1>1

-----------------------------------------------------------------------------
(* What the scanners find.                                                 *)

\* The first record gives what it carries.
LEMMA FirstGives ==
  ASSUME NEW f \in FilesOf(Names, Directories), NEW field,
         NEW among \in SUBSET Lines(f), 1 \in among, f.lines[1][field] /= None
  PROVE  FirstOf(f, among, field) = f.lines[1][field]
<1> DEFINE S == Carrying(f, among, field)
<1>1. S \in SUBSET Nat /\ 1 \in S /\ \A i \in S : 1 <= i
  BY FileFields DEF Carrying
<1>2. Min(S) = 1
  <2>1. Min(S) \in S /\ \A y \in S : Min(S) <= y
    <3> HIDE DEF S
    <3> QED BY <1>1, MinIsSmallest
  <2> HIDE DEF S
  <2>2. Min(S) \in Nat /\ Min(S) <= 1 /\ 1 <= Min(S)
    BY <1>1, <2>1
  <2> QED BY <2>2
<1> QED BY <1>1, <1>2 DEF FirstOf

\* When a file was last used.
LEMMA LatestIsLast ==
  ASSUME NoneAssumption, NEW f \in FilesOf(Names, Directories), NEW talk \in Talk,
         NEW stamped \in BOOLEAN, DatedWell(f, talk, stamped)
  PROVE  /\ f.tool /= "aider" => Latest(f) = talk.last
         /\ f.tool /= "aider" /\ stamped => Times(f) /= {} /\ Max(Times(f)) = talk.last
         /\ f.tool \in {"kimi", "custom"} /\ Len(f.lines) = 1 => DocumentTime(f) = talk.last
         /\ f.tool = "aider" => f.mtime = talk.last
<1>1. Times(f) \in SUBSET Nat /\ IsFiniteSet(Times(f)) /\ talk.last \in Nat
  BY FileFields DEF Talk
<1>2. ASSUME f.tool /= "aider", stamped
      PROVE  Times(f) /= {} /\ Max(Times(f)) = talk.last
  <2>1. talk.last \in Times(f) /\ \A d \in Times(f) : d <= talk.last
    BY <1>2 DEF DatedWell
  <2>2. Max(Times(f)) \in Times(f) /\ talk.last <= Max(Times(f))
    BY <1>1, <2>1, LargestOne
  <2> QED BY <1>1, <2>1, <2>2
<1>3. ASSUME f.tool /= "aider"
      PROVE  Latest(f) = talk.last
  BY <1>2, <1>3 DEF Latest, DatedWell
<1>4. ASSUME f.tool \in {"kimi", "custom"}, Len(f.lines) = 1
      PROVE  DocumentTime(f) = talk.last
  <2>1. Lines(f) = {1}
    BY <1>4, FileFields
  <2>2. Times(f) = {f.lines[1].time} \ {None}
    BY <2>1 DEF Times
  <2> QED BY <1>4, <2>2, NoneAssumption DEF DocumentTime, Document, DatedWell
<1> QED BY <1>2, <1>3, <1>4 DEF DatedWell

Observations == [path : Projects \cup Names, id : Names \cup {None}, last : Nat]

\* What a scanner may make of file n.
Hears(n, heard) ==
    IF talks[n].whole /\ talks[n].project \in Projects
    THEN \E id \in Names \cup {None} :
            /\ heard = {Observation(talks[n].project, id, talks[n].last)}
            /\ Exact(talks[n].tool) => id = IF Resumable(n) THEN SessionOf(n) ELSE None
            /\ talks[n].tool = "opencode" /\ "parent" \in setup.schema /\ id /= None =>
                  id = n /\ talks[n].parent = None
    ELSE /\ talks[n].tool /= "custom" => heard = {}
         /\ heard = {} \/ \E o \in Observations : heard = {o} /\ o.path \in Names

Finding(t, n) ==
    CASE t = "codex"  -> CodexFinding(files[n])
      [] t = "claude" -> ClaudeFinding(n, files[n])
      [] t = "pi"     -> PiFinding(files[n])
      [] t = "kimi"   -> KimiFinding(n, files[n])
      [] t = "aider"  -> AiderFinding(files[n])
      [] t = "custom" -> CustomFinding(n, files[n])

\* Every tool but OpenCode: each file by itself.
LEMMA FindingHears ==
  ASSUME SessionsAssumption, NoneAssumption, World, NEW t \in setup.tools \ {"opencode"},
         NEW n \in SourceFiles(t, files)
  PROVE  Hears(n, Finding(t, n))
<1>1. /\ n \in Names /\ files[n] /= None /\ files[n].tool = t
      /\ files[n] \in FilesOf(Names, Directories) /\ talks[n] \in Talk /\ talks[n] /= None
      /\ Tells(n, files[n], talks[n], setup.stamped) /\ TalkWell(n)
      /\ t \in Scanners /\ setup.stamped \in BOOLEAN
  BY SessionsAssumption DEF World, WorldType, SourceFiles, FileWell
<1> DEFINE f == files[n]
           talk == talks[n]
<1>2. /\ talk.tool = t /\ talk.project \in Directories /\ talk.last \in Nat
      /\ talk.parent \in Names \cup {None}
      /\ talk.project /= None /\ n /= None /\ Projects \subseteq Directories /\ None \notin Projects
      /\ Names \cap Projects = {} /\ SessionOf(n) \in Names /\ None \notin Names
      /\ Called(n, talk) = SessionOf(n) /\ Exact(t)
  BY <1>1, SessionsAssumption, NoneAssumption
     DEF Tells, Talk, SessionOf, Called, Directories, Exact
<1>3. /\ f.tool = t /\ f.lines /= <<>> /\ Len(f.lines) \in Nat \ {0} /\ 1 \in Lines(f)
      /\ Lines(f) = 1 .. Len(f.lines)
      /\ Headers(f) \subseteq Lines(f) /\ IsFiniteSet(Headers(f))
      /\ f.lines[1] \in RecordsOf(Names, Directories) /\ f.mtime \in Nat
  <2>1. f.lines /= <<>>
    BY <1>1 DEF Tells
  <2>2. Len(f.lines) \in Nat \ {0}
    BY <1>1, <2>1, FileFields
  <2> QED BY <1>1, <2>1, <2>2, FileFields
<1>4. talk.whole => DatedWell(f, talk, setup.stamped)
  BY <1>1 DEF Tells
<1>5. talk.whole /\ t /= "aider" => Latest(f) = talk.last
  BY <1>1, <1>3, <1>4, LatestIsLast
<1>6. talk.whole /\ t \in {"kimi", "custom"} => DocumentTime(f) = talk.last
  <2>1. t \in {"kimi", "custom"} => Len(f.lines) = 1
    BY <1>1 DEF Tells
  <2> QED BY <1>1, <1>3, <1>4, <2>1, LatestIsLast
<1>7. t \notin {"kimi", "custom"} => talk.whole
  BY <1>1, <1>2 DEF TalkWell
<1>8. t /= "aider" => Resumable(n)
  BY <1>2 DEF Resumable
<1> HIDE DEF f, talk
<1>9. CASE t = "codex"
  <2>1. CodexWell(n, f, talk)
    BY <1>1, <1>7, <1>9 DEF Tells, f, talk
  <2> DEFINE h == Max(Headers(f))
  <2>2. h \in Headers(f) /\ \A i \in Headers(f) : i <= h
    <3>1. Headers(f) \in SUBSET Nat /\ Headers(f) /= {}
      BY <1>3, <2>1 DEF CodexWell
    <3> QED BY <1>3, <3>1, LargestOne
  <2>3. /\ f.lines[h].cwd = talk.project /\ f.lines[h].id = n
    BY <2>1, <2>2 DEF CodexWell
  <2> HIDE DEF h
  <2>4. LastOf(f, Headers(f), "cwd") = talk.project
    <3>1. h \in Carrying(f, Headers(f), "cwd")
      BY <1>2, <2>2, <2>3 DEF Carrying, talk
    <3>2. Max(Carrying(f, Headers(f), "cwd")) = h
      <4>1. /\ Carrying(f, Headers(f), "cwd") \in SUBSET Nat
            /\ IsFiniteSet(Carrying(f, Headers(f), "cwd"))
            /\ Carrying(f, Headers(f), "cwd") \subseteq Headers(f)
        BY <1>3, FS_Subset DEF Carrying
      <4>2. /\ Max(Carrying(f, Headers(f), "cwd")) \in Headers(f)
            /\ Max(Carrying(f, Headers(f), "cwd")) \in Nat
            /\ h <= Max(Carrying(f, Headers(f), "cwd"))
        BY <3>1, <4>1, LargestOne
      <4> QED BY <1>3, <2>2, <4>2
    <3> QED BY <2>3, <3>1, <3>2 DEF LastOf
  <2>5. LastOf(f, Headers(f), "id") = n
    <3>1. h \in Carrying(f, Headers(f), "id")
      BY <1>2, <2>2, <2>3 DEF Carrying
    <3>2. Max(Carrying(f, Headers(f), "id")) = h
      <4>1. /\ Carrying(f, Headers(f), "id") \in SUBSET Nat
            /\ IsFiniteSet(Carrying(f, Headers(f), "id"))
            /\ Carrying(f, Headers(f), "id") \subseteq Headers(f)
        BY <1>3, FS_Subset DEF Carrying
      <4>2. /\ Max(Carrying(f, Headers(f), "id")) \in Headers(f)
            /\ Max(Carrying(f, Headers(f), "id")) \in Nat
            /\ h <= Max(Carrying(f, Headers(f), "id"))
        BY <3>1, <4>1, LargestOne
      <4> QED BY <1>3, <2>2, <4>2
    <3> QED BY <2>3, <3>1, <3>2 DEF LastOf
  <2>6. Finding(t, n) = IF talk.project \in Projects
                        THEN {Observation(talk.project, n, talk.last)} ELSE {}
    BY <1>2, <1>5, <1>7, <1>9, <2>4, <2>5 DEF Finding, CodexFinding, SafePath, f, talk
  <2>7. SessionOf(n) = n
    BY <1>2, <1>9 DEF SessionOf, talk
  <2> QED BY <1>1, <1>2, <1>7, <1>8, <1>9, <2>6, <2>7 DEF Hears, talk
<1>10. CASE t = "claude"
  <2>1. FirstWell(n, f, talk)
    BY <1>1, <1>7, <1>10 DEF Tells, f, talk
  <2>2. FirstOf(f, Lines(f), "cwd") = talk.project
    BY <1>1, <1>2, <1>3, <2>1, FirstGives DEF FirstWell, f, talk
  <2>3. FirstOf(f, Lines(f), "id") = SessionOf(n)
    BY <1>1, <1>2, <1>3, <1>10, <2>1, FirstGives DEF FirstWell, f, talk
  <2>4. Finding(t, n) = IF talk.project \in Projects
                        THEN {Observation(talk.project, SessionOf(n), talk.last)} ELSE {}
    BY <1>2, <1>5, <1>7, <1>10, <2>2, <2>3 DEF Finding, ClaudeFinding, SafePath, f, talk
  <2> QED BY <1>1, <1>2, <1>7, <1>8, <1>10, <2>4 DEF Hears, talk
<1>11. CASE t = "pi"
  <2>1. FirstWell(n, f, talk)
    BY <1>1, <1>7, <1>11 DEF Tells, f, talk
  <2>2. 1 \in Headers(f) /\ f.lines[1].id = n /\ f.lines[1].cwd = talk.project
    BY <1>3, <1>11, <2>1 DEF FirstWell, Headers
  <2>3. FirstOf(f, Headers(f), "cwd") = talk.project
    BY <1>1, <1>2, <1>3, <2>2, FirstGives DEF f, talk
  <2>4. FirstOf(f, Headers(f), "id") = n
    BY <1>1, <1>2, <1>3, <2>2, FirstGives DEF f
  <2>5. Finding(t, n) = IF talk.project \in Projects
                        THEN {Observation(talk.project, n, talk.last)} ELSE {}
    BY <1>2, <1>5, <1>7, <1>11, <2>3, <2>4 DEF Finding, PiFinding, SafePath, f, talk
  <2>6. SessionOf(n) = n
    BY <1>2, <1>11 DEF SessionOf, talk
  <2> QED BY <1>1, <1>2, <1>7, <1>8, <1>11, <2>5, <2>6 DEF Hears, talk
<1>12. CASE t = "kimi"
  <2>1. IF talk.whole THEN f.lines[1].cwd = talk.project ELSE f.lines[1].cwd = None
    BY <1>1, <1>3, <1>12 DEF Tells, FirstWell, f, talk
  <2>2. Finding(t, n) = IF talk.whole /\ talk.project \in Projects
                        THEN {Observation(talk.project, n, talk.last)} ELSE {}
    BY <1>2, <1>6, <1>12, <2>1 DEF Finding, KimiFinding, SafePath, Document, f, talk
  <2>3. SessionOf(n) = n
    BY <1>2, <1>12 DEF SessionOf, talk
  <2> QED BY <1>1, <1>2, <1>8, <1>12, <2>2, <2>3 DEF Hears, talk
<1>13. CASE t = "aider"
  <2>1. f.lines[1].cwd = talk.project /\ talk.project \in Projects /\ f.mtime = talk.last
    BY <1>1, <1>2, <1>3, <1>4, <1>7, <1>13 DEF Tells, FirstWell, TalkWell, DatedWell, f, talk
  <2>2. Finding(t, n) = {Observation(talk.project, None, talk.last)}
    BY <1>13, <2>1 DEF Finding, AiderFinding, f, talk
  <2>3. ~ Resumable(n)
    BY <1>2, <1>13 DEF Resumable, talk
  <2> QED BY <1>2, <1>7, <1>13, <2>1, <2>2, <2>3 DEF Hears, talk
<1>14. CASE t = "custom"
  <2>1. talk.whole => f.lines[1].cwd = talk.project /\ f.lines[1].id = n
    BY <1>1, <1>3, <1>14 DEF Tells, FirstWell, f, talk
  <2>2. ~ talk.whole => f.lines[1].cwd = None
    BY <1>1 DEF Tells, f, talk
  <2>3. SessionOf(n) = n
    BY <1>2, <1>14 DEF SessionOf, talk
  <2>4. CASE talk.whole /\ talk.project \in Projects
    <3>1. Finding(t, n) = {Observation(talk.project, n, talk.last)}
      BY <1>2, <1>6, <1>14, <2>1, <2>4 DEF Finding, CustomFinding, SafePath, Document, f, talk
    <3> QED BY <1>1, <1>2, <1>8, <1>14, <2>3, <2>4, <3>1 DEF Hears, talk
  <2>5. CASE ~ (talk.whole /\ talk.project \in Projects)
    <3>1. f.lines[1].cwd \notin Projects
      BY <1>2, <2>1, <2>2, <2>5
    <3>2. /\ f.lines[1].id \in Names \cup {None} /\ f.lines[1].time \in Nat \cup {None}
          /\ DocumentTime(f) \in Nat
      BY <1>3 DEF RecordsOf, DocumentTime, Document
    <3>3. Finding(t, n) = {Observation(n, f.lines[1].id, DocumentTime(f))}
      BY <1>14, <3>1 DEF Finding, CustomFinding, SafePath, Document, f
    <3>4. Observation(n, f.lines[1].id, DocumentTime(f)) \in Observations
      BY <1>1, <3>2 DEF Observation, Observations
    <3>5. \E o \in Observations : Finding(t, n) = {o} /\ o.path \in Names
      <4>1. Observation(n, f.lines[1].id, DocumentTime(f)).path = n
        BY DEF Observation
      <4> QED BY <1>1, <3>3, <3>4, <4>1
    <3> QED BY <1>2, <1>14, <2>5, <3>5 DEF Hears, talk
  <2> QED BY <2>4, <2>5
<1>15. t \in {"codex", "claude", "pi", "kimi", "aider", "custom"}
  BY <1>1 DEF Scanners
<1> QED BY <1>9, <1>10, <1>11, <1>12, <1>13, <1>14, <1>15

\* What the scanner of t found, file by file.
FoundBy(t, heard) ==
    /\ DOMAIN heard = SourceFiles(t, files) /\ heard = [n \in SourceFiles(t, files) |-> heard[n]]
    /\ \A n \in SourceFiles(t, files) : Hears(n, heard[n])
    /\ OutcomeOf(t).found = UNION {heard[n] : n \in SourceFiles(t, files)}

LEMMA OpenCodeHears ==
  ASSUME SessionsAssumption, NoneAssumption, World, "opencode" \in setup.tools,
         SourceFiles("opencode", files) /= {}
  PROVE  \E heard : /\ DOMAIN heard = SourceFiles("opencode", files)
                    /\ heard = [n \in SourceFiles("opencode", files) |-> heard[n]]
                    /\ \A n \in SourceFiles("opencode", files) : Hears(n, heard[n])
                    /\ OpenCodeFindings(SourceFiles("opencode", files), files, setup.schema)
                         = UNION {heard[n] : n \in SourceFiles("opencode", files)}
<1> DEFINE rows == SourceFiles("opencode", files)
           schema == setup.schema
           path(n)   == files[n].lines[1].cwd
           usable    == {n \in rows : SafePath(path(n))}
           roots(p)  == {n \in usable : path(n) = p /\ ~IsChild(files[n], schema)}
           delegated(n) == /\ "permission" \notin schema
                           /\ OneTurn(files[n], schema)
                           /\ Cardinality(roots(path(n))) > 1
           auxiliary(n) == \/ IsChild(files[n], schema)
                           \/ NonInteractive(files[n], schema)
                           \/ delegated(n)
           touched      == Max({files[n].mtime : n \in rows})
           it(n) == Observation(path(n), IF auxiliary(n) THEN None ELSE n,
                      IF Times(files[n]) = {} THEN touched ELSE Max(Times(files[n])))
           heard == [n \in rows |-> IF n \in usable THEN {it(n)} ELSE {}]
<1>1. OpenCodeFindings(rows, files, schema) = {it(n) : n \in usable}
  BY DEF OpenCodeFindings
<1>2. ASSUME NEW n \in rows
      PROVE  Hears(n, heard[n])
  <2>1. /\ n \in Names /\ files[n] /= None /\ files[n].tool = "opencode"
        /\ files[n] \in FilesOf(Names, Directories) /\ talks[n] \in Talk /\ talks[n] /= None
        /\ Tells(n, files[n], talks[n], setup.stamped) /\ TalkWell(n)
        /\ setup.stamped
    BY SessionsAssumption DEF World, WorldType, SourceFiles, FileWell
  <2>2. /\ talks[n].tool = "opencode" /\ talks[n].whole
    BY <2>1 DEF Tells, TalkWell
  <2>3. /\ DatedWell(files[n], talks[n], setup.stamped) /\ FirstWell(n, files[n], talks[n])
    BY <2>1, <2>2 DEF Tells
  <2>4. Times(files[n]) /= {} /\ Max(Times(files[n])) = talks[n].last
    BY <2>1, <2>3, LatestIsLast
  <2>5. /\ path(n) = talks[n].project /\ files[n].lines[1].parent = talks[n].parent
        /\ files[n].lines[1].kind = talks[n].kind
    BY <2>1, <2>3 DEF FirstWell
  <2>6. SessionOf(n) = n
    BY <2>2 DEF SessionOf
  <2>7. /\ Exact("opencode") => (auxiliary(n) <=> ~ Resumable(n))
        /\ "parent" \in schema /\ ~ auxiliary(n) => talks[n].parent = None
    <3> HIDE DEF delegated, rows
    <3>1. Exact("opencode") => ~ delegated(n)
      BY DEF Exact, delegated
    <3> QED BY <2>2, <2>5, <3>1 DEF Exact, Resumable, IsChild, NonInteractive
  <2>8. PICK id \in Names \cup {None} : id = IF auxiliary(n) THEN None ELSE n
    BY <2>1
  <2>9. it(n) = Observation(talks[n].project, id, talks[n].last)
    BY <2>4, <2>5, <2>8
  <2>10. n \in usable <=> talks[n].project \in Projects
    BY <2>5 DEF SafePath
  <2>11. heard[n] = IF talks[n].project \in Projects
                    THEN {Observation(talks[n].project, id, talks[n].last)} ELSE {}
    BY <2>9, <2>10
  <2>12. /\ Exact(talks[n].tool) => id = IF Resumable(n) THEN SessionOf(n) ELSE None
         /\ "parent" \in setup.schema /\ id /= None => id = n /\ talks[n].parent = None
    <3> HIDE DEF auxiliary
    <3> QED BY <2>2, <2>6, <2>7, <2>8
  <2> HIDE DEF heard, rows
  <2> QED BY <2>2, <2>11, <2>12 DEF Hears
<1>3. DOMAIN heard = rows /\ heard = [n \in rows |-> heard[n]]
  OBVIOUS
<1>4. {it(n) : n \in usable} = UNION {heard[n] : n \in rows}
  <2> HIDE DEF it
  <2> QED OBVIOUS
<1> HIDE DEF heard, it, usable
<1> QED BY <1>1, <1>2, <1>3, <1>4

\* A scanner that succeeds on its source found what the files tell; and it
\* succeeds on any source it can inspect, and on no other.
LEMMA OutcomeIs ==
  ASSUME SessionsAssumption, NoneAssumption, World, NEW t \in setup.tools
  PROVE  /\ OutcomeOf(t).status = "succeeded" <=> Inspectable(t)
         /\ OutcomeOf(t).status = "succeeded" => \E heard : FoundBy(t, heard)
<1> DEFINE sessions == SourceFiles(t, files)
<1>1. t \in Scanners /\ root[t] \in {"missing", "open", "blocked"} /\ DOMAIN files = Names
  BY SessionsAssumption DEF World, WorldType
<1>5. Cardinality(sessions) \in Nat /\ Budget \in Nat
  <2>1. sessions \subseteq Names /\ IsFiniteSet(Names)
    BY <1>1, SessionsAssumption DEF SourceFiles
  <2>2. IsFiniteSet(sessions)
    BY <2>1, FS_Subset
  <2> QED BY <2>2, FS_CardinalityType, SourcesAssumption
<1>2. CASE root[t] = "missing"
  <2>1. SourceFiles(t, files) = {}
    BY <1>1, <1>2 DEF SourceFiles, World, FileWell
  <2>2. OutcomeOf(t) = MissingSource(setup.installed)
    BY <1>2 DEF OutcomeOf, Outcome
  <2>3. OutcomeOf(t).status = "succeeded" <=> setup.installed
    BY <2>2 DEF MissingSource, Success
  <2>4. OutcomeOf(t).found = {}
    BY <2>2 DEF MissingSource, Success
  <2>5. FoundBy(t, [n \in {} |-> {}])
    BY <2>1, <2>4 DEF FoundBy
  <2> QED BY <1>2, <2>3, <2>5 DEF Inspectable
<1>3. CASE root[t] = "blocked"
  BY <1>3 DEF OutcomeOf, Outcome, Failure, Inspectable
<1>4. CASE root[t] = "open"
  <2>1. OutcomeOf(t) = ScanOf(t, SourceFiles(t, files), files, setup.schema)
    BY <1>4 DEF OutcomeOf, Outcome
  <2>2. CASE t = "opencode"
    <3>1. OutcomeOf(t) = OpenCodeScan(SourceFiles(t, files), files, setup.schema)
      BY <2>1, <2>2 DEF ScanOf
    <3>2. OutcomeOf(t).status = "succeeded" <=> Cardinality(SourceFiles(t, files)) <= Budget
      BY <1>5, <3>1 DEF OpenCodeScan, Bounded, Exhausted, Failure, Success
    <3>3. CASE SourceFiles(t, files) = {}
      <4>1. OutcomeOf(t).found = {}
        BY <3>1, <3>3 DEF OpenCodeScan, Bounded, Failure, Success
      <4>2. FoundBy(t, [n \in {} |-> {}])
        BY <3>3, <4>1 DEF FoundBy
      <4> QED BY <1>4, <2>2, <3>2, <4>2 DEF Inspectable
    <3>4. CASE SourceFiles(t, files) /= {}
      <4>1. OutcomeOf(t).status = "succeeded" =>
              OutcomeOf(t).found = OpenCodeFindings(SourceFiles(t, files), files, setup.schema)
        BY <3>1, <3>4 DEF OpenCodeScan, Bounded, Failure, Success
      <4>2. OutcomeOf(t).status = "succeeded" => \E heard : FoundBy(t, heard)
        BY <2>2, <3>4, <4>1, OpenCodeHears DEF FoundBy
      <4> QED BY <1>4, <2>2, <3>2, <4>2 DEF Inspectable
    <3> QED BY <3>3, <3>4
  <2>3. CASE t /= "opencode"
    <3> DEFINE heard == [n \in SourceFiles(t, files) |-> Finding(t, n)]
               found == UNION {heard[n] : n \in SourceFiles(t, files)}
    <3>1. \A n \in SourceFiles(t, files) : Hears(n, heard[n])
      BY <2>3, FindingHears
    <3>2. DOMAIN heard = sessions /\ heard = [n \in sessions |-> heard[n]]
      OBVIOUS
    <3>3. OutcomeOf(t) = Bounded(sessions, IF t = "custom" THEN Success(found)
                                         ELSE Completed(sessions, found))
      <4>1. /\ t = "codex" => found = UNION {CodexFinding(files[n]) : n \in sessions}
            /\ t = "claude" => found = UNION {ClaudeFinding(n, files[n]) : n \in sessions}
            /\ t = "pi" => found = UNION {PiFinding(files[n]) : n \in sessions}
            /\ t = "kimi" => found = UNION {KimiFinding(n, files[n]) : n \in sessions}
            /\ t = "aider" => found = UNION {AiderFinding(files[n]) : n \in sessions}
            /\ t = "custom" => found = UNION {CustomFinding(n, files[n]) : n \in sessions}
        <5>1. \A n \in sessions : heard[n] = Finding(t, n)
          OBVIOUS
        <5>2. found = UNION {Finding(t, n) : n \in sessions}
          BY <5>1
        <5> HIDE DEF found, heard, sessions
        <5> QED BY <5>2 DEF Finding
      <4> HIDE DEF found, heard
      <4> QED BY <1>1, <2>1, <2>3, <4>1
              DEF ScanOf, CodexScan, ClaudeScan, PiScan, KimiScan, AiderScan, CustomScan, Scanners
    <3>4. OutcomeOf(t).status = "succeeded" => OutcomeOf(t).found = found
      <4> HIDE DEF found, heard
      <4> QED BY <3>3 DEF Bounded, Completed, Success, Failure
    <3>5. OutcomeOf(t).status = "succeeded" <=>
            /\ Cardinality(sessions) <= Budget
            /\ t = "custom" \/ found /= {} \/ sessions = {}
      <4> HIDE DEF found, heard
      <4> QED BY <1>5, <3>3 DEF Bounded, Exhausted, Completed, Success, Failure
    <3> HIDE DEF heard
    <3>6. found /= {} <=> \E n \in sessions : heard[n] /= {}
      OBVIOUS
    <3>7. ASSUME t /= "custom"
          PROVE  found /= {} <=> \E p \in Projects : Found(t, p) /= {}
      <4>1. ASSUME NEW n \in sessions
            PROVE  n \in Names /\ files[n] /= None /\ files[n].place = "active"
                   /\ talks[n].tool = t
        BY <1>1 DEF SourceFiles, World, FileWell, Tells
      <4>2. ASSUME NEW n \in sessions
            PROVE  heard[n] /= {} <=> talks[n].whole /\ talks[n].project \in Projects
        <5>1. Hears(n, heard[n])
          BY <3>1
        <5> QED BY <3>7, <4>1, <5>1 DEF Hears
      <4>3. \A n, p : n \in Found(t, p) <=>
               n \in sessions /\ talks[n].project = p /\ talks[n].whole
        BY <1>1, <4>1 DEF Found, SourceFiles, World, FileWell, Tells
      <4> HIDE DEF sessions, found
      <4> QED BY <3>6, <4>2, <4>3
    <3>8. OutcomeOf(t).status = "succeeded" <=> Inspectable(t)
      <4> HIDE DEF found
      <4> QED BY <1>4, <2>3, <3>5, <3>7 DEF Inspectable
    <3>9. OutcomeOf(t).status = "succeeded" => FoundBy(t, heard)
      BY <3>1, <3>2, <3>4 DEF FoundBy
    <3> QED BY <3>8, <3>9
  <2> QED BY <2>2, <2>3
<1> QED BY <1>1, <1>2, <1>3, <1>4

\* What is found is finite, and of the types it should be.
LEMMA FoundTypes ==
  ASSUME SessionsAssumption, NoneAssumption, World, NEW t \in setup.tools, NEW heard,
         FoundBy(t, heard)
  PROVE  OutcomeOf(t).found \subseteq Observations /\ IsFiniteSet(OutcomeOf(t).found)
<1> DEFINE sessions == SourceFiles(t, files)
           one == [n \in sessions |-> CHOOSE o : o \in heard[n]]
<1>1. sessions \subseteq Names /\ IsFiniteSet(sessions)
  <2>1. sessions \subseteq Names /\ IsFiniteSet(Names)
    BY SessionsAssumption DEF SourceFiles, World, WorldType
  <2> QED BY <2>1, FS_Subset
<1>2. ASSUME NEW n \in sessions
      PROVE  heard[n] = {} \/ \E o \in Observations : heard[n] = {o}
  <2>1. Hears(n, heard[n])
    BY DEF FoundBy
  <2>2. talks[n] \in Talk
    BY <1>1 DEF World, WorldType, SourceFiles, FileWell
  <2>3. CASE talks[n].whole /\ talks[n].project \in Projects
    <3>1. PICK id \in Names \cup {None} :
             heard[n] = {Observation(talks[n].project, id, talks[n].last)}
      BY <2>1, <2>3 DEF Hears
    <3>2. Observation(talks[n].project, id, talks[n].last) \in Observations
      BY <2>2, <2>3 DEF Observation, Observations, Talk
    <3> QED BY <3>1, <3>2
  <2> QED BY <2>1, <2>3 DEF Hears
<1>3. OutcomeOf(t).found = UNION {heard[n] : n \in sessions}
  BY DEF FoundBy
<1>4. OutcomeOf(t).found \subseteq {one[n] : n \in sessions}
  <2>1. ASSUME NEW n \in sessions, NEW o \in heard[n]
        PROVE  o = one[n]
    BY <1>2
  <2> HIDE DEF sessions, one
  <2> QED BY <1>3, <2>1
<1>5. IsFiniteSet({one[n] : n \in sessions})
  <2>1. DOMAIN one = sessions /\ one = [n \in sessions |-> one[n]]
    OBVIOUS
  <2> HIDE DEF sessions, one
  <2> QED BY <1>1, <2>1, FiniteImage
<1>6. OutcomeOf(t).found \subseteq Observations
  <2> HIDE DEF sessions
  <2> QED BY <1>2, <1>3
<1> QED BY <1>4, <1>5, <1>6, FS_Subset

LatestOf(known) == CHOOSE o \in known : \A p \in known \ {o} : IsLater(o, p)

IsLatest(c, known) ==
    /\ c \in known
    /\ \A p \in known : p.last <= c.last /\ (p.last = c.last => p.id <= c.id)

\* Of the observations that name a session the latest, and of several the
\* greatest, is one of them.
LEMMA LatestKnown ==
  ASSUME SessionsAssumption,
         NEW known, known \subseteq Observations, IsFiniteSet(known), known /= {},
         \A o \in known : o.id /= None, \A o, p \in known : o.path = p.path
  PROVE  IsLatest(LatestOf(known), known)
<1> DEFINE last == [o \in known |-> o.last]
           Lasts == {last[o] : o \in known}
<1>1. \A o \in known : o.last \in Nat /\ o.id \in Nat /\ last[o] = o.last
  BY SessionsAssumption DEF Observations
<1>2. IsFiniteSet(Lasts)
  <2>1. DOMAIN last = known /\ last = [o \in known |-> last[o]]
    OBVIOUS
  <2> HIDE DEF last
  <2> QED BY <2>1, FiniteImage
<1>3. Lasts \in SUBSET Nat /\ Lasts /= {}
  <2> HIDE DEF last
  <2> QED BY <1>1
<1>4. PICK d \in Lasts : d \in Nat /\ \A e \in Lasts : e <= d
  <2> HIDE DEF Lasts
  <2> QED BY <1>2, <1>3, LargestOne
<1> DEFINE latest == {o \in known : o.last = d}
           id == [o \in latest |-> o.id]
           Ids == {id[o] : o \in latest}
<1>5. \A o \in known : o.last <= d
  <2> HIDE DEF last
  <2> QED BY <1>1, <1>4
<1>6. latest /= {}
  <2> HIDE DEF last
  <2> QED BY <1>1, <1>4
<1>7. IsFiniteSet(Ids)
  <2>1. DOMAIN id = latest /\ id = [o \in latest |-> id[o]]
    OBVIOUS
  <2>2. IsFiniteSet(latest)
    BY FS_Subset
  <2> HIDE DEF id, latest
  <2> QED BY <2>1, <2>2, FiniteImage
<1>8. Ids \in SUBSET Nat /\ Ids /= {}
  <2>1. \A o \in latest : id[o] \in Nat
    BY <1>1
  <2> HIDE DEF id, latest
  <2> QED BY <1>6, <2>1
<1>9. PICK i \in Ids : \A j \in Ids : j <= i
  <2> HIDE DEF Ids
  <2> QED BY <1>7, <1>8, LargestOne
<1>10. PICK o \in known : o.last = d /\ o.id = i
  BY <1>9
<1>11. ASSUME NEW p \in known, p.last = d PROVE p.id <= i
  <2>1. p \in latest /\ id[p] = p.id /\ id[p] \in Ids
    BY <1>11
  <2> QED BY <1>9, <2>1
<1> HIDE DEF last, Lasts, latest, id, Ids
<1>12. o.last = d /\ o.id = i /\ i \in Nat /\ d \in Nat
  BY <1>1, <1>10
<1>13. ASSUME NEW p \in known \ {o} PROVE IsLater(o, p)
  <2>1. p.last \in Nat /\ p.id \in Nat /\ p.last <= d /\ (p.last = d => p.id <= i)
    BY <1>1, <1>5, <1>11
  <2>2. ~ (p.last = d /\ p.id = i)
    <3>1. /\ p = [path |-> p.path, id |-> p.id, last |-> p.last]
          /\ o = [path |-> o.path, id |-> o.id, last |-> o.last]
          /\ o.path = p.path
      BY DEF Observations
    <3> QED BY <1>12, <3>1
  <2> QED BY <1>12, <2>1, <2>2 DEF IsLater
<1>14. PICK c : c = LatestOf(known)
  OBVIOUS
<1>15. c \in known /\ \A p \in known \ {c} : IsLater(c, p)
  BY <1>13, <1>14 DEF LatestOf
<1>16. ASSUME NEW p \in known
       PROVE  p.last <= c.last /\ (p.last = c.last => p.id <= c.id)
  <2>1. p.last \in Nat /\ p.id \in Nat /\ c.last \in Nat /\ c.id \in Nat
    BY <1>1, <1>15
  <2>2. p = c \/ IsLater(c, p)
    BY <1>15
  <2> QED BY <2>1, <2>2 DEF IsLater
<1> QED BY <1>14, <1>15, <1>16 DEF IsLatest

ObsAt(found, path) == {o \in found : o.path = path}
KnownAt(found, path) == {o \in ObsAt(found, path) : o.id /= None}

LEMMA UsageIs ==
  ASSUME SessionsAssumption, NoneAssumption,
         NEW found \in SUBSET Observations, IsFiniteSet(found), NEW t, NEW path,
         NEW u, u = UsageOf(t, path, ObsAt(found, path))
  PROVE  /\ u.tool = t /\ u.path = path /\ u.count \in Nat
         /\ KnownAt(found, path) = {} => u.resume = None
         /\ KnownAt(found, path) /= {} => \E o \in KnownAt(found, path) :
               u.resume = o.id /\ IsLatest(o, KnownAt(found, path))
<1>1. /\ u.tool = t /\ u.path = path
      /\ u.count = Cardinality({o.id : o \in KnownAt(found, path)})
      /\ KnownAt(found, path) = {} => u.resume = None
      /\ KnownAt(found, path) /= {} => u.resume = LatestOf(KnownAt(found, path)).id
  BY DEF UsageOf, LatestOf, ObsAt, KnownAt
<1>2. /\ IsFiniteSet(KnownAt(found, path)) /\ KnownAt(found, path) \subseteq Observations
      /\ \A o \in KnownAt(found, path) : o.id /= None
      /\ \A o, p \in KnownAt(found, path) : o.path = p.path
  BY FS_Subset DEF ObsAt, KnownAt
<1> DEFINE id == [o \in KnownAt(found, path) |-> o.id]
<1>3. u.count \in Nat
  <2>1. IsFiniteSet({id[o] : o \in KnownAt(found, path)})
    <3>1. DOMAIN id = KnownAt(found, path) /\ id = [o \in KnownAt(found, path) |-> id[o]]
      OBVIOUS
    <3> HIDE DEF id
    <3> QED BY <1>2, <3>1, FiniteImage
  <2>2. {o.id : o \in KnownAt(found, path)} = {id[o] : o \in KnownAt(found, path)}
    OBVIOUS
  <2> HIDE DEF id
  <2> QED BY <1>1, <2>1, <2>2, FS_CardinalityType
<1>4. KnownAt(found, path) /= {} => IsLatest(LatestOf(KnownAt(found, path)), KnownAt(found, path))
  BY <1>2, LatestKnown
<1> QED BY <1>1, <1>3, <1>4 DEF IsLatest

\* The rows of one tool.
LEMMA RowsOfTool ==
  ASSUME SessionsAssumption, NoneAssumption, World, NEW t \in setup.tools,
         OutcomeOf(t).status = "succeeded",
         NEW u \in BuildIndex(t, OutcomeOf(t).found)
  PROVE  /\ u.tool = t /\ u.path /= None /\ u.count \in Nat
         /\ u = UsageOf(t, u.path, ObsAt(OutcomeOf(t).found, u.path))
         /\ u.resume /= None => \E o \in OutcomeOf(t).found :
               o.path = u.path /\ o.id = u.resume
<1>1. PICK found : found = OutcomeOf(t).found
  OBVIOUS
<1>2. found \in SUBSET Observations /\ IsFiniteSet(found)
  <2>1. PICK heard : FoundBy(t, heard)
    BY OutcomeIs
  <2> QED BY <1>1, <2>1, FoundTypes
<1>3. PICK path \in {o.path : o \in found} :
         u = UsageOf(t, path, {o \in found : o.path = path})
  BY <1>1 DEF BuildIndex
<1>4. /\ u.tool = t /\ u.path = path /\ u.count \in Nat
      /\ u.resume /= None => \E o \in found : o.path = path /\ o.id = u.resume
  <2>1. u = UsageOf(t, path, ObsAt(found, path))
    BY <1>3 DEF ObsAt
  <2>2. /\ u.tool = t /\ u.path = path /\ u.count \in Nat
        /\ KnownAt(found, path) = {} => u.resume = None
        /\ KnownAt(found, path) /= {} => \E o \in KnownAt(found, path) : u.resume = o.id
    BY <1>2, <2>1, UsageIs
  <2> QED BY <2>2 DEF KnownAt, ObsAt
<1>5. path /= None
  <2>1. path \in Projects \cup Names
    BY <1>2 DEF Observations
  <2> QED BY <2>1, SessionsAssumption, NoneAssumption DEF Directories
<1> QED BY <1>1, <1>3, <1>4, <1>5 DEF ObsAt

\* What a scan does to the rows: the tools it succeeds on get what was
\* found, the others keep theirs.
LEMMA ScanRows ==
  ASSUME SessionsAssumption, NoneAssumption, World, NEW ts \in SUBSET setup.tools, Scan(ts)
  PROVE  \A t \in setup.tools :
            UsagesOf(t, usages') =
              IF t \in ts /\ OutcomeOf(t).status = "succeeded"
              THEN BuildIndex(t, OutcomeOf(t).found)
              ELSE UsagesOf(t, usages)
<1> DEFINE done  == {t \in ts : OutcomeOf(t).status = "succeeded"}
           kept  == {u \in usages : u.tool \notin done}
           found == UNION {BuildIndex(t, OutcomeOf(t).found) : t \in done}
<1>1. usages' = IF ValidSnapshot(found, done) THEN kept \cup found ELSE usages
  BY DEF Scan
<1>2. ASSUME NEW u \in found
      PROVE  \E t \in done : u \in BuildIndex(t, OutcomeOf(t).found) /\ u.tool = t
                             /\ u.path /= None /\ u.count \in Nat
                             /\ u = UsageOf(t, u.path, ObsAt(OutcomeOf(t).found, u.path))
  <2>1. PICK t \in done : u \in BuildIndex(t, OutcomeOf(t).found)
    OBVIOUS
  <2>2. t \in setup.tools /\ OutcomeOf(t).status = "succeeded"
    OBVIOUS
  <2> QED BY <2>1, <2>2, RowsOfTool
<1> HIDE DEF found
<1>3. ASSUME done /= {}
      PROVE  ValidSnapshot(found, done)
  <2>1. ASSUME NEW u \in found
        PROVE  u.tool \in done /\ u.path /= None /\ u.count >= 0
    <3>1. PICK t \in done : u.tool = t /\ u.path /= None /\ u.count \in Nat
      BY <1>2
    <3> QED BY <3>1
  <2>2. ASSUME NEW u \in found, NEW v \in found, u.tool = v.tool, u.path = v.path
        PROVE  u = v
    <3>1. PICK t \in done :
             u.tool = t /\ u = UsageOf(t, u.path, ObsAt(OutcomeOf(t).found, u.path))
      BY <1>2
    <3>2. PICK s \in done :
             v.tool = s /\ v = UsageOf(s, v.path, ObsAt(OutcomeOf(s).found, v.path))
      BY <1>2
    <3> QED BY <2>2, <3>1, <3>2
  <2> QED BY <1>3, <2>1, <2>2 DEF ValidSnapshot
<1>4. ASSUME NEW t \in done
      PROVE  UsagesOf(t, usages') = BuildIndex(t, OutcomeOf(t).found)
  <2>1. usages' = kept \cup found
    BY <1>1, <1>3, <1>4
  <2>2. \A u \in kept : u.tool /= t
    OBVIOUS
  <2>3. BuildIndex(t, OutcomeOf(t).found) \subseteq found
    BY DEF found
  <2>4. \A u \in BuildIndex(t, OutcomeOf(t).found) : u.tool = t
    BY RowsOfTool
  <2>5. \A u \in found : u.tool = t => u \in BuildIndex(t, OutcomeOf(t).found)
    BY <1>2
  <2> HIDE DEF kept, done
  <2> QED BY <2>1, <2>2, <2>3, <2>4, <2>5 DEF UsagesOf
<1>5. ASSUME NEW t \in setup.tools, t \notin done
      PROVE  UsagesOf(t, usages') = UsagesOf(t, usages)
  <2>1. \A u \in found : u.tool /= t
    BY <1>2, <1>5
  <2>2. \A u \in usages : u.tool = t => u \in kept
    BY <1>5
  <2>3. \A u \in kept : u \in usages
    OBVIOUS
  <2> HIDE DEF kept, done
  <2> QED BY <1>1, <2>1, <2>2, <2>3 DEF UsagesOf
<1> QED BY <1>4, <1>5

LEMMA MaxIs ==
  ASSUME NEW S \in SUBSET Nat, NEW m \in S, \A y \in S : y <= m
  PROVE  Max(S) = m
<1>1. m \in Nat /\ \A y \in S : y \in Nat /\ m >= y
  OBVIOUS
<1>2. Max(S) \in S /\ \A y \in S : Max(S) >= y
  BY <1>1 DEF Max
<1>3. Max(S) \in Nat /\ Max(S) <= m /\ Max(S) >= m
  BY <1>1, <1>2
<1> QED BY <1>1, <1>3

\* What was found in a project is what took place there.
LEMMA FoundThere ==
  ASSUME SessionsAssumption, NoneAssumption, World, NEW t \in setup.tools, NEW heard,
         FoundBy(t, heard), NEW p \in Projects, NEW found, found = OutcomeOf(t).found
  PROVE  /\ \A n \in Found(t, p) : \E o \in ObsAt(found, p) :
              /\ o.last = talks[n].last
              /\ Exact(t) => o.id = IF Resumable(n) THEN SessionOf(n) ELSE None
         /\ \A o \in ObsAt(found, p) : \E n \in Found(t, p) :
              /\ o.last = talks[n].last
              /\ Exact(t) => o.id = IF Resumable(n) THEN SessionOf(n) ELSE None
              /\ t = "opencode" /\ "parent" \in setup.schema /\ o.id /= None =>
                    o.id = n /\ talks[n].parent = None
<1> DEFINE sessions == SourceFiles(t, files)
<1>1. ASSUME NEW n \in sessions
      PROVE  /\ n \in Names /\ files[n] /= None /\ files[n].place = "active"
             /\ talks[n].tool = t /\ Hears(n, heard[n])
  <2>1. /\ n \in Names /\ files[n] /= None /\ files[n].place = "active"
        /\ files[n].tool = t
    BY <1>1 DEF World, WorldType, SourceFiles
  <2>2. talks[n].tool = t
    BY <2>1 DEF World, FileWell, Tells
  <2>3. Hears(n, heard[n])
    BY <1>1 DEF FoundBy
  <2> QED BY <2>1, <2>2, <2>3
<1>2. \A n : n \in Found(t, p) <=> n \in sessions /\ talks[n].project = p /\ talks[n].whole
  BY DEF World, WorldType, Found, SourceFiles, FileWell, Tells
<1>3. found = UNION {heard[n] : n \in sessions}
  BY DEF FoundBy
<1>4. Names \cap Projects = {}
  BY SessionsAssumption DEF Directories
<1> HIDE DEF sessions
<1>5. ASSUME NEW n \in Found(t, p)
      PROVE  \E o \in ObsAt(found, p) :
              /\ o.last = talks[n].last
              /\ Exact(t) => o.id = IF Resumable(n) THEN SessionOf(n) ELSE None
  <2>1. n \in sessions /\ talks[n].project = p /\ talks[n].whole /\ talks[n].tool = t
    BY <1>1, <1>2
  <2>2. PICK id : /\ heard[n] = {Observation(p, id, talks[n].last)}
                  /\ Exact(t) => id = IF Resumable(n) THEN SessionOf(n) ELSE None
    BY <1>1, <2>1 DEF Hears
  <2>3. Observation(p, id, talks[n].last) \in found
    BY <1>3, <2>1, <2>2
  <2> QED BY <2>2, <2>3 DEF ObsAt, Observation
<1>6. ASSUME NEW o \in ObsAt(found, p)
      PROVE  \E n \in Found(t, p) :
              /\ o.last = talks[n].last
              /\ Exact(t) => o.id = IF Resumable(n) THEN SessionOf(n) ELSE None
              /\ t = "opencode" /\ "parent" \in setup.schema /\ o.id /= None =>
                    o.id = n /\ talks[n].parent = None
  <2>1. o \in found /\ o.path = p
    BY DEF ObsAt
  <2>2. PICK n \in sessions : o \in heard[n]
    BY <1>3, <2>1
  <2>3. Hears(n, heard[n]) /\ talks[n].tool = t
    BY <1>1
  <2>4. talks[n].whole /\ talks[n].project \in Projects
    <3>1. CASE ~ (talks[n].whole /\ talks[n].project \in Projects)
      <4>1. o.path \in Names
        BY <2>2, <2>3, <3>1 DEF Hears
      <4> QED BY <1>4, <2>1, <4>1
    <3> QED BY <3>1
  <2>5. PICK id : /\ heard[n] = {Observation(talks[n].project, id, talks[n].last)}
                  /\ Exact(t) => id = IF Resumable(n) THEN SessionOf(n) ELSE None
                  /\ t = "opencode" /\ "parent" \in setup.schema /\ id /= None =>
                        id = n /\ talks[n].parent = None
    BY <2>3, <2>4 DEF Hears
  <2>6. o.path = talks[n].project /\ o.id = id /\ o.last = talks[n].last
    BY <2>2, <2>5 DEF Observation
  <2>7. n \in Found(t, p)
    BY <1>2, <2>1, <2>4, <2>6
  <2> QED BY <2>5, <2>6, <2>7
<1> QED BY <1>5, <1>6

LEMMA RowsAreTrue ==
  ASSUME SessionsAssumption, NoneAssumption, World, NEW t \in setup.tools,
         OutcomeOf(t).status = "succeeded"
  PROVE  TellsTheTruth(t, BuildIndex(t, OutcomeOf(t).found))
<1>1. PICK heard : FoundBy(t, heard)
  BY OutcomeIs
<1>2. PICK found : found = OutcomeOf(t).found
  OBVIOUS
<1>3. found \in SUBSET Observations /\ IsFiniteSet(found)
  BY <1>1, <1>2, FoundTypes
<1>4. PICK rows : rows = BuildIndex(t, found)
  OBVIOUS
<1>5. ASSUME NEW p \in Projects
      PROVE  p \in {u.path : u \in rows} <=> Found(t, p) /= {}
  <2>1. ObsAt(found, p) /= {} <=> Found(t, p) /= {}
    BY <1>1, <1>2, FoundThere
  <2>2. ASSUME ObsAt(found, p) /= {} PROVE p \in {u.path : u \in rows}
    <3>1. UsageOf(t, p, {o \in found : o.path = p}) \in rows
      <4>1. p \in {o.path : o \in found}
        BY <2>2 DEF ObsAt
      <4> QED BY <1>4, <4>1 DEF BuildIndex
    <3>2. UsageOf(t, p, {o \in found : o.path = p}).path = p
      BY DEF UsageOf
    <3> QED BY <3>1, <3>2
  <2>3. ASSUME NEW u \in rows, u.path = p PROVE ObsAt(found, p) /= {}
    <3>1. PICK path \in {o.path : o \in found} : u = UsageOf(t, path, {o \in found : o.path = path})
      BY <1>4 DEF BuildIndex
    <3>2. path = p
      BY <2>3, <3>1 DEF UsageOf
    <3> QED BY <3>1, <3>2 DEF ObsAt
  <2> QED BY <2>1, <2>2, <2>3
<1>6. ASSUME NEW u \in rows, u.path \in Projects
      PROVE  LET ns    == Found(t, u.path)
                 roots == {n \in ns : Resumable(n)}
             IN /\ u.last = LastTalk(ns)
                /\ Exact(t) => /\ u.count = Cardinality({SessionOf(n) : n \in roots})
                               /\ u.resume = ToResume(roots)
                /\ (~Exact(t) /\ "parent" \in setup.schema) =>
                      u.resume \in {None} \cup {n \in ns : talks[n].parent = None}
  <2>1. PICK p \in Projects : p = u.path
    BY <1>6
  <2>2. PICK ns : ns = Found(t, p)
    OBVIOUS
  <2>3. PICK roots : roots = {n \in ns : Resumable(n)}
    OBVIOUS
  <2>4. PICK obs : obs = ObsAt(found, p)
    OBVIOUS
  <2>5. PICK known : known = KnownAt(found, p)
    OBVIOUS
  <2>6. u = UsageOf(t, p, ObsAt(found, p))
    <3>1. PICK path \in {o.path : o \in found} : u = UsageOf(t, path, {o \in found : o.path = path})
      BY <1>4 DEF BuildIndex
    <3>2. path = p
      BY <2>1, <3>1 DEF UsageOf
    <3> QED BY <3>1, <3>2 DEF ObsAt
  <2>7. /\ u.last = Max({o.last : o \in obs})
        /\ u.count = Cardinality({o.id : o \in known})
    BY <2>4, <2>5, <2>6 DEF UsageOf, ObsAt, KnownAt
  <2>8. /\ known = {} => u.resume = None
        /\ known /= {} => \E o \in known : u.resume = o.id /\ IsLatest(o, known)
    BY <1>3, <2>5, <2>6, UsageIs
  <2>9. /\ \A n \in ns : \E o \in obs :
              /\ o.last = talks[n].last
              /\ Exact(t) => o.id = IF Resumable(n) THEN SessionOf(n) ELSE None
        /\ \A o \in obs : \E n \in ns :
              /\ o.last = talks[n].last
              /\ Exact(t) => o.id = IF Resumable(n) THEN SessionOf(n) ELSE None
              /\ t = "opencode" /\ "parent" \in setup.schema /\ o.id /= None =>
                    o.id = n /\ talks[n].parent = None
    BY <1>1, <1>2, <2>2, <2>4, FoundThere
  <2>10. known = {o \in obs : o.id /= None}
    BY <2>4, <2>5 DEF KnownAt
  <2>11. ASSUME NEW n \in ns
         PROVE  n \in Names /\ talks[n].last \in Nat /\ SessionOf(n) \in Names
                /\ SessionOf(n) \in Nat /\ SessionOf(n) /= None
    <3>1. n \in Names /\ talks[n] \in Talk
      BY <2>2 DEF Found, World, WorldType, FileWell
    <3>2. talks[n].last \in Nat /\ talks[n].parent \in Names \cup {None}
      BY <3>1 DEF Talk
    <3>3. SessionOf(n) \in Names
      BY <3>1, <3>2 DEF SessionOf
    <3> QED BY <3>1, <3>2, <3>3, SessionsAssumption, NoneAssumption
  <2>12. u.last = LastTalk(ns)
    <3>1. {o.last : o \in obs} = {talks[n].last : n \in ns}
      BY <2>9
    <3> QED BY <2>7, <3>1 DEF LastTalk
  <2>13. ASSUME Exact(t)
         PROVE  /\ u.count = Cardinality({SessionOf(n) : n \in roots})
                /\ u.resume = ToResume(roots)
    <3>1. /\ \A n \in roots : \E o \in known : o.last = talks[n].last /\ o.id = SessionOf(n)
          /\ \A o \in known : \E n \in roots : o.last = talks[n].last /\ o.id = SessionOf(n)
      <4>1. ASSUME NEW n \in roots
            PROVE  \E o \in known : o.last = talks[n].last /\ o.id = SessionOf(n)
        <5>1. n \in ns /\ Resumable(n)
          BY <2>3
        <5>2. PICK o \in obs : o.last = talks[n].last /\ o.id = SessionOf(n)
          BY <2>9, <2>13, <5>1
        <5> QED BY <2>10, <2>11, <5>1, <5>2
      <4>2. ASSUME NEW o \in known
            PROVE  \E n \in roots : o.last = talks[n].last /\ o.id = SessionOf(n)
        <5>1. o \in obs /\ o.id /= None
          BY <2>10
        <5>2. PICK n \in ns : /\ o.last = talks[n].last
                              /\ o.id = IF Resumable(n) THEN SessionOf(n) ELSE None
          BY <2>9, <2>13, <5>1
        <5> QED BY <2>3, <5>1, <5>2
      <4> QED BY <4>1, <4>2
    <3>2. {o.id : o \in known} = {SessionOf(n) : n \in roots}
      BY <3>1
    <3>3. CASE roots = {}
      <4>1. known = {}
        BY <3>1, <3>3
      <4>2. u.resume = None
        BY <2>8, <4>1
      <4>3. ToResume(roots) = None
        BY <3>3 DEF ToResume
      <4> QED BY <2>7, <3>2, <4>2, <4>3
    <3>4. CASE roots /= {}
      <4>1. PICK o \in known : u.resume = o.id /\ IsLatest(o, known)
        BY <2>8, <3>1, <3>4
      <4>2. PICK m \in roots : o.last = talks[m].last /\ o.id = SessionOf(m)
        BY <3>1
      <4>3. \A n \in roots : /\ talks[n].last <= talks[m].last
                             /\ talks[n].last = talks[m].last => SessionOf(n) <= SessionOf(m)
        BY <3>1, <4>1, <4>2 DEF IsLatest
      <4>4. LastTalk(roots) = talks[m].last
        <5> DEFINE S == {talks[n].last : n \in roots}
        <5>1. S \in SUBSET Nat /\ talks[m].last \in S /\ \A y \in S : y <= talks[m].last
          BY <2>3, <2>11, <4>3
        <5>2. Max(S) = talks[m].last
          <6> HIDE DEF S
          <6> QED BY <5>1, MaxIs
        <5> QED BY <5>2 DEF LastTalk
      <4>5. Max({SessionOf(n) : n \in {k \in roots : talks[k].last = LastTalk(roots)}}) = SessionOf(m)
        <5> DEFINE S == {SessionOf(n) : n \in {k \in roots : talks[k].last = LastTalk(roots)}}
        <5>1. S \in SUBSET Nat /\ SessionOf(m) \in S /\ \A y \in S : y <= SessionOf(m)
          BY <2>3, <2>11, <4>3, <4>4
        <5> HIDE DEF S
        <5>2. Max(S) = SessionOf(m)
          BY <5>1, MaxIs
        <5> QED BY <5>2 DEF S
      <4>6. ToResume(roots) = SessionOf(m)
        BY <3>4, <4>5 DEF ToResume
      <4> QED BY <2>7, <3>2, <4>1, <4>2, <4>6
    <3> QED BY <3>3, <3>4
  <2>14. ASSUME ~ Exact(t), "parent" \in setup.schema
         PROVE  u.resume \in {None} \cup {n \in ns : talks[n].parent = None}
    <3>1. t = "opencode"
      BY <2>14 DEF Exact
    <3>2. CASE known = {}
      BY <2>8, <3>2
    <3>3. CASE known /= {}
      <4>1. PICK o \in known : u.resume = o.id
        BY <2>8, <3>3
      <4>2. o \in obs /\ o.id /= None
        BY <2>10
      <4>3. PICK n \in ns : o.id = n /\ talks[n].parent = None
        BY <2>9, <2>14, <3>1, <4>2
      <4> QED BY <4>1, <4>3
    <3> QED BY <3>2, <3>3
  <2> QED BY <2>1, <2>2, <2>3, <2>12, <2>13, <2>14
<1>7. {u.path : u \in rows} \cap Projects = {p \in Projects : Found(t, p) /= {}}
  BY <1>5
<1>8. TellsTheTruth(t, rows)
  BY <1>6, <1>7 DEF TellsTheTruth
<1> QED BY <1>2, <1>4, <1>8

LEMMA ScanTellsTheTruth ==
  ASSUME SessionsAssumption, NoneAssumption, World, NEW ts \in SUBSET setup.tools, Scan(ts),
         NEW t \in setup.tools
  PROVE  IF t \in ts /\ Inspectable(t)
         THEN TellsTheTruth(t, UsagesOf(t, usages'))
         ELSE UsagesOf(t, usages') = UsagesOf(t, usages)
<1>1. OutcomeOf(t).status = "succeeded" <=> Inspectable(t)
  BY OutcomeIs
<1>2. UsagesOf(t, usages') =
         IF t \in ts /\ OutcomeOf(t).status = "succeeded"
         THEN BuildIndex(t, OutcomeOf(t).found)
         ELSE UsagesOf(t, usages)
  BY ScanRows
<1>3. OutcomeOf(t).status = "succeeded" => TellsTheTruth(t, BuildIndex(t, OutcomeOf(t).found))
  BY RowsAreTrue
<1> QED BY <1>1, <1>2, <1>3

\* What a scan leaves in the index of a tool it could inspect is what took
\* place, whatever the records went through; of any other tool it leaves
\* what was there.
THEOREM IndexTellsTheTruth == Spec => RowsTellTheTruth
<1>1. World /\ [Next]_vars =>
        [\A ts \in SUBSET setup.tools : Scan(ts) =>
           \A t \in setup.tools :
              IF t \in ts /\ Inspectable(t)
              THEN TellsTheTruth(t, UsagesOf(t, usages'))
              ELSE UsagesOf(t, usages') = UsagesOf(t, usages)]_vars
  BY ScanTellsTheTruth, SessionsAssumption, NoneAssumption
<1> QED BY <1>1, FilesTellSessions, PTL DEF Spec, RowsTellTheTruth

-----------------------------------------------------------------------------
(* What was reported.                                                      *)

LEMMA InitReports ==
  ASSUME Init
  PROVE  Reports
BY DEF Init, Reports, LaunchTold

\* What was reported stays reported.
LEMMA ToldStays ==
  ASSUME Reports, told \subseteq told', usages' \cup shown' \subseteq usages \cup shown,
         started' \in {started}, recent' \in {recent}
  PROVE  Reports'
<1>1. ASSUME NEW u, UsageTold(u) PROVE UsageTold(u)'
  BY <1>1 DEF UsageTold
<1>2. ASSUME NEW launch, LaunchTold(launch)
      PROVE  launch /= None =>
               /\ launch = [tool |-> launch.tool, path |-> launch.path, id |-> launch.id]
               /\ launch.id /= None => launch \in told'
  BY <1>2 DEF LaunchTold
<1> QED BY <1>1, <1>2 DEF Reports, LaunchTold, UsageTold

LEMMA ScanReports ==
  ASSUME SessionsAssumption, NoneAssumption, World, Reports,
         NEW ts \in SUBSET setup.tools, Scan(ts)
  PROVE  Reports'
<1> DEFINE done  == {t \in ts : OutcomeOf(t).status = "succeeded"}
<1>1. told' = told \cup UNION
             {{[tool |-> t, path |-> o.path, id |-> o.id] :
                  o \in {o \in OutcomeOf(t).found : o.id /= None}} : t \in done}
      /\ started' = started /\ recent' = recent /\ shown' = shown
  BY DEF Scan, window
<1>2. told \subseteq told'
  BY <1>1
<1>3. ASSUME NEW u \in usages' PROVE UsageTold(u)'
  <2>1. CASE u \in usages
    BY <1>2, <2>1 DEF Reports, UsageTold
  <2>2. CASE u \notin usages
    <3>1. PICK t \in done : u \in BuildIndex(t, OutcomeOf(t).found)
      BY <2>2 DEF Scan
    <3>2. t \in setup.tools /\ OutcomeOf(t).status = "succeeded"
      OBVIOUS
    <3>3. /\ u.tool = t
          /\ u.resume /= None => \E o \in OutcomeOf(t).found : o.path = u.path /\ o.id = u.resume
      BY <3>1, <3>2, RowsOfTool
    <3>4. ASSUME u.resume /= None
          PROVE  [tool |-> u.tool, path |-> u.path, id |-> u.resume] \in told'
      <4>1. PICK o \in OutcomeOf(t).found : o.path = u.path /\ o.id = u.resume
        BY <3>3, <3>4
      <4>2. [tool |-> t, path |-> o.path, id |-> o.id] \in told'
        BY <1>1, <3>4, <4>1
      <4> QED BY <3>3, <4>1, <4>2
    <3> QED BY <3>4 DEF UsageTold
  <2> QED BY <2>1, <2>2
<1>4. ASSUME NEW u \in shown' PROVE UsageTold(u)'
  BY <1>1, <1>2 DEF Reports, UsageTold
<1>5. LaunchTold(started)' /\ LaunchTold(recent)'
  BY <1>1, <1>2 DEF Reports, LaunchTold
<1> QED BY <1>3, <1>4, <1>5 DEF Reports

\* A launch of t in p with an id that was reported for them, if any.
LEMMA OpenReports ==
  ASSUME NoneAssumption, Reports, NEW t, NEW p, NEW id, Open(t, p, id),
         id /= None => [tool |-> t, path |-> p, id |-> id] \in told
  PROVE  Reports'
<1>1. PICK resume : resume = IF Valid(id) THEN id ELSE None
  OBVIOUS
<1>2. /\ started' = [tool |-> t, path |-> p, id |-> resume]
      /\ recent' = [tool |-> t, path |-> p, id |-> resume]
      /\ UNCHANGED <<usages, told, shown>>
  BY <1>1 DEF Open, Launched, Recorded
<1>3. resume /= None => [tool |-> t, path |-> p, id |-> resume] \in told
  BY <1>1 DEF Valid
<1> QED BY <1>2, <1>3 DEF Reports, UsageTold, LaunchTold

LEMMA LastSessionTold ==
  ASSUME Reports, NEW t, NEW p, LastSession(t, p) /= None
  PROVE  [tool |-> t, path |-> p, id |-> LastSession(t, p)] \in told
<1> DEFINE mine == {u \in UsagesAt(p) : u.tool = t}
<1>1. mine /= {} /\ LastSession(t, p) = (CHOOSE u \in mine : TRUE).resume
  BY DEF LastSession
<1>2. PICK u : u = CHOOSE w \in mine : TRUE
  OBVIOUS
<1>3. u \in mine
  BY <1>1, <1>2
<1>4. u \in usages /\ u.tool = t /\ u.path = p /\ u.resume = LastSession(t, p)
  BY <1>1, <1>2, <1>3 DEF UsagesAt
<1> QED BY <1>4 DEF Reports, UsageTold

\* The tools and the user change nothing that SessionAtlas keeps.
LEMMA UsesLeave ==
  ASSUME Uses
  PROVE  UNCHANGED <<setup, index, window, cleanup, commands>>
<1> DEFINE Left == UNCHANGED <<setup, index, window, cleanup, commands>>
<1>1. ASSUME NEW n, NEW t, NEW p, NEW parent, NEW kind, Create(n, t, p, parent, kind)
      PROVE  Left
  BY <1>1 DEF Create
<1>2. ASSUME NEW n, NEW record, NEW project, Writing(n, record, project)
      PROVE  Left
  BY <1>2 DEF Writing
<1>3. ASSUME NEW t, NEW state, Rooted(t, state)
      PROVE  Left
  BY <1>3 DEF Rooted
<1>4. ASSUME NEW n, Remove(n) \/ Archive(n) PROVE Left
  BY <1>4 DEF Remove, Archive
<1>5. ASSUME Wait PROVE Left
  BY <1>5 DEF Wait
<1> HIDE DEF Left
<1>6. ASSUME NEW n, NEW t, NEW p, NEW kind, Begin(n, t, p, kind) PROVE Left
  BY <1>1, <1>6 DEF Begin
<1>7. ASSUME NEW n, NEW m, NEW kind, Delegate(n, m, kind) PROVE Left
  BY <1>1, <1>7 DEF Delegate
<1>8. ASSUME NEW n, NEW what, Continue(n, what) \/ Tear(n, what) PROVE Left
  BY <1>2, <1>8 DEF Continue, Tear
<1>9. ASSUME NEW n, NEW p, Move(n, p) PROVE Left
  BY <1>2, <1>9 DEF Move
<1>10. ASSUME NEW t, Block(t) \/ Unblock(t) \/ Wipe(t) PROVE Left
  BY <1>3, <1>10 DEF Block, Unblock, Wipe
<1>11. Left
  BY <1>4, <1>5, <1>6, <1>7, <1>8, <1>9, <1>10 DEF Uses
<1> QED BY <1>11 DEF Left

LEMMA StepReports ==
  ASSUME SessionsAssumption, NoneAssumption, World, Reports, [Next]_vars
  PROVE  Reports'
<1>1. CASE UNCHANGED <<index, window>>
  BY <1>1, ToldStays DEF index, window
<1>2. ASSUME NEW ts \in SUBSET setup.tools \ {{}}, Scan(ts)
      PROVE  Reports'
  BY <1>2, ScanReports
<1>3. ASSUME NEW t, NEW p, OpenProject(t, p)
      PROVE  Reports'
  BY <1>3, LastSessionTold, OpenReports DEF OpenProject
<1>4. ASSUME NEW t, OpenRecent(t)
      PROVE  Reports'
  <2>1. recent /= None /\ Open(t, recent.path, RecentId(t))
    BY <1>4 DEF OpenRecent, RecentSessions
  <2>2. CASE t = recent.tool
    <3>1. recent = [tool |-> t, path |-> recent.path, id |-> recent.id]
          /\ (recent.id /= None => recent \in told)
      BY <2>1, <2>2 DEF Reports, LaunchTold
    <3> QED BY <2>1, <2>2, <3>1, OpenReports DEF RecentId
  <2>3. CASE t /= recent.tool
    BY <2>1, <2>3, LastSessionTold, OpenReports DEF RecentId
  <2> QED BY <2>2, <2>3
<1>5. CASE ListProjects
  BY <1>5, ToldStays DEF ListProjects, index
<1>6. CASE ListUsages
  <2>1. shown' \subseteq usages /\ UNCHANGED <<usages, told, recent, started>>
    BY <1>6 DEF ListUsages, index
  <2> QED BY <2>1, ToldStays
<1>7. ASSUME NEW u \in shown, NEW id, LaunchShown(u, id)
      PROVE  Reports'
  <2>1. /\ started' = [tool |-> u.tool, path |-> u.path, id |-> id]
        /\ UNCHANGED <<usages, told, recent, shown>> /\ id \in {u.resume, None}
    BY <1>7 DEF LaunchShown, Launched, index
  <2>2. UsageTold(u)
    BY DEF Reports
  <2> QED BY <2>1, <2>2 DEF Reports, UsageTold, LaunchTold
<1>8. CASE Scans
  BY <1>2, <1>3, <1>4, <1>5, <1>6, <1>7, <1>8 DEF Scans
<1>9. CASE Uses
  BY <1>1, <1>9, UsesLeave
<1>10. CASE Cleanup
  <2>1. UNCHANGED <<index, window>>
    BY <1>10 DEF Cleanup, StartAnalysis, AnalysisFails, Stat, Parse, Consider, FinishAnalysis,
                 Quarantine
  <2> QED BY <1>1, <2>1
<1> QED BY <1>1, <1>8, <1>9, <1>10 DEF Next, vars

\* Whatever is launched resumes a session that a scan reported for that very
\* tool and directory.
THEOREM ReportedOnly == Spec => []ResumesOnlyReported
<1>1. Init => Reports
  BY InitReports
<1>2. World /\ Reports /\ [Next]_vars => Reports'
  BY StepReports, SessionsAssumption, NoneAssumption
<1>3. Reports => ResumesOnlyReported
  BY DEF Reports, LaunchTold, ResumesOnlyReported
<1> QED BY <1>1, <1>2, <1>3, FilesTellSessions, PTL DEF Spec

-----------------------------------------------------------------------------
(* What the cleanup remembers, while the tools write.                      *)

\* What can become of a file: it grows, or is archived; the tools that keep
\* one record write it anew.
Kept(f, g) ==
    /\ g.tool = f.tool
    /\ f.place = "archived" => g.place = "archived"
    /\ Len(f.lines) <= Len(g.lines)
    /\ \/ g = f
       \/ f.place /= "archived" /\ g.place = "archived"
       \/ Len(f.lines) < Len(g.lines)
       \/ f.tool \in {"kimi", "aider", "custom"}

\* The files of the sessions begun are kept, or go.
KeptFiles(fs, gs, begun) ==
    \A n \in begun : gs[n] /= None => fs[n] /= None /\ Kept(fs[n], gs[n])

LEMMA VisitedIs ==
  /\ DOMAIN Visited = 1 .. 3
  /\ Visited[1] = [tool |-> "codex",  place |-> "active"]
  /\ Visited[2] = [tool |-> "codex",  place |-> "archived"]
  /\ Visited[3] = [tool |-> "claude", place |-> "active"]
  /\ \A d \in DOMAIN Visited :
        /\ Visited[d].tool \in {"codex", "claude"}
        /\ Visited[d] = [tool |-> Visited[d].tool, place |-> Visited[d].place]
        /\ \A e \in DOMAIN Visited : Visited[d] = Visited[e] => d = e
<1>1. /\ DOMAIN Visited = 1 .. 3
      /\ Visited[1] = [tool |-> "codex",  place |-> "active"]
      /\ Visited[2] = [tool |-> "codex",  place |-> "archived"]
      /\ Visited[3] = [tool |-> "claude", place |-> "active"]
  BY DEF Visited
<1>2. \A d \in DOMAIN Visited : d = 1 \/ d = 2 \/ d = 3
  BY <1>1
<1>3. /\ Visited[1] /= Visited[2] /\ Visited[1] /= Visited[3] /\ Visited[2] /= Visited[3]
  BY <1>1
<1> QED BY <1>1, <1>2, <1>3

LEMMA Same ==
  ASSUME NEW f \in FilesOf(Names, Directories)
  PROVE  Kept(f, f)
BY FileFields DEF Kept

LEMMA WrittenKept ==
  ASSUME World, NEW n \in Names, NEW record, NEW project, Writing(n, record, project)
  PROVE  Kept(files[n], files'[n])
<1> DEFINE f == files[n]
<1>1. /\ f \in FilesOf(Names, Directories) /\ f /= None /\ FileWell(n)
      /\ n \in DOMAIN files
  BY DEF World, WorldType, Writing
<1>2. files' = [files EXCEPT ![n] = [f EXCEPT !.lines = Written(n, record), !.mtime = today]]
  BY DEF Writing
<1>3. files'[n] = [f EXCEPT !.lines = Written(n, record), !.mtime = today]
  BY <1>1, <1>2
<1>4. /\ files'[n].tool = f.tool /\ files'[n].place = f.place
      /\ files'[n].lines = Written(n, record)
  BY <1>1, <1>3 DEF FilesOf
<1>5. f.lines \in Seq(RecordsOf(Names, Directories)) /\ Len(f.lines) \in Nat
  BY <1>1, FileFields
<1>6. CASE f.tool \in {"kimi", "aider", "custom"}
  <2>1. Len(f.lines) = 1
    BY <1>1, <1>6 DEF FileWell, Tells
  <2>2. files'[n].lines = <<record>>
    BY <1>4, <1>6 DEF Written
  <2>3. Len(files'[n].lines) = 1
    BY <2>2
  <2> QED BY <1>4, <1>6, <2>1, <2>3 DEF Kept
<1>7. CASE f.tool \notin {"kimi", "aider", "custom"}
  <2>1. files'[n].lines = Append(f.lines, record)
    BY <1>4, <1>7 DEF Written
  <2>2. Len(files'[n].lines) = Len(f.lines) + 1
    BY <1>5, <2>1
  <2> HIDE DEF f
  <2>3. Len(f.lines) < Len(files'[n].lines) /\ Len(f.lines) <= Len(files'[n].lines)
    BY <1>5, <2>2
  <2> QED BY <1>4, <2>3 DEF Kept, f
<1> QED BY <1>6, <1>7 DEF f

\* One file changes, of a session that was begun.
LEMMA OneKept ==
  ASSUME World, NEW n \in Names, talks[n] /= None => talks'[n] /= None,
         \A m \in Names \ {n} : files'[m] = files[m] /\ talks'[m] = talks[m],
         talks[n] /= None /\ files'[n] /= None => files[n] /= None /\ Kept(files[n], files'[n])
  PROVE  KeptFiles(files, files', Begun) /\ Begun \subseteq Begun'
<1>1. ASSUME NEW m \in Begun, files'[m] /= None
      PROVE  files[m] /= None /\ Kept(files[m], files'[m])
  <2>1. m \in Names /\ talks[m] /= None
    BY DEF Begun
  <2>2. CASE m = n
    BY <1>1, <2>1, <2>2
  <2>3. CASE m /= n
    <3>1. files'[m] = files[m] /\ files[m] \in FilesOf(Names, Directories)
      BY <1>1, <2>1, <2>3 DEF World, WorldType
    <3> QED BY <1>1, <3>1, Same
  <2> QED BY <2>2, <2>3
<1>2. Begun \subseteq Begun'
  BY DEF Begun
<1> QED BY <1>1, <1>2 DEF KeptFiles

\* What a use of the tools does to the files.
LEMMA UsesKept ==
  ASSUME SessionsAssumption, NoneAssumption, World, Uses
  PROVE  /\ KeptFiles(files, files', Begun) /\ Begun \subseteq Begun'
         /\ today' \in Nat /\ today <= today'
         /\ \/ writes' = writes + 1
            \/ writes' = writes /\ files' = files
<1> DEFINE Fine == /\ KeptFiles(files, files', Begun) /\ Begun \subseteq Begun'
                   /\ today' \in Nat /\ today <= today'
                   /\ \/ writes' = writes + 1
                      \/ writes' = writes /\ files' = files
<1>0. /\ today \in Nat /\ today <= today
      /\ files \in [Names -> FilesOf(Names, Directories) \cup {None}]
      /\ talks \in [Names -> Talk \cup {None}]
  BY DEF World, WorldType
<1>1. ASSUME NEW n \in Names, NEW t, NEW p, NEW parent, NEW kind, Create(n, t, p, parent, kind)
      PROVE  Fine
  <2>1. /\ talks[n] = None /\ today' = today /\ writes' = writes + 1
        /\ \A m \in Names \ {n} : files'[m] = files[m] /\ talks'[m] = talks[m]
    BY <1>0, <1>1 DEF Create, Writes
  <2> QED BY <1>0, <2>1, OneKept
<1>2. ASSUME NEW n \in Names, NEW record, NEW project \in Directories, record.whole \in BOOLEAN,
             Writing(n, record, project)
      PROVE  Fine
  <2>1. /\ today' = today /\ writes' = writes + 1 /\ files[n] /= None
        /\ \A m \in Names \ {n} : files'[m] = files[m] /\ talks'[m] = talks[m]
    BY <1>0, <1>2 DEF Writing, Writes
  <2>2. talks'[n] /= None
    <3>1. talks[n] \in Talk
      BY <1>0, <2>1 DEF World, FileWell
    <3>2. PICK new : new = [talks[n] EXCEPT
             !.project = project,
             !.last  = IF record.whole \/ ~setup.stamped THEN today ELSE talks[n].last,
             !.whole = record.whole \/ files[n].tool \notin {"kimi", "custom"}]
      OBVIOUS
    <3>3. new \in Talk
      BY <1>0, <1>2, <3>1, <3>2 DEF Talk
    <3>4. talks'[n] = new
      BY <1>0, <1>2, <3>2 DEF Writing
    <3> QED BY <3>3, <3>4, NoneAssumption
  <2>3. Kept(files[n], files'[n])
    BY <1>2, WrittenKept
  <2> QED BY <1>0, <2>1, <2>2, <2>3, OneKept
<1>3. ASSUME NEW n \in Names, Remove(n) \/ Archive(n)
      PROVE  Fine
  <2>1. /\ today' = today /\ writes' = writes + 1 /\ files[n] /= None /\ talks' = talks
        /\ \A m \in Names \ {n} : files'[m] = files[m]
    BY <1>0, <1>3 DEF Remove, Archive, Writes
  <2>2. files'[n] /= None => Kept(files[n], files'[n])
    <3>1. CASE Remove(n)
      BY <1>0, <3>1 DEF Remove
    <3>2. CASE Archive(n)
      <4>1. files[n] \in FilesOf(Names, Directories)
        BY <1>0, <2>1
      <4>2. files'[n] = [files[n] EXCEPT !.place = "archived"]
        BY <1>0, <3>2 DEF Archive
      <4>3. /\ files'[n].tool = files[n].tool /\ files'[n].place = "archived"
            /\ files'[n].lines = files[n].lines /\ Len(files[n].lines) \in Nat
        BY <4>1, <4>2, FileFields DEF FilesOf
      <4>4. files[n].place /= "archived"
        BY <3>2 DEF Archive
      <4> QED BY <4>3, <4>4 DEF Kept
    <3> QED BY <1>3, <3>1, <3>2
  <2> QED BY <1>0, <2>1, <2>2, OneKept
<1>4. ASSUME UNCHANGED <<today, talks>>, writes' = writes + 1,
             \A n \in Names : files'[n] \in {None, files[n]}
      PROVE  Fine
  <2>1. ASSUME NEW n \in Begun, files'[n] /= None
        PROVE  files[n] /= None /\ Kept(files[n], files'[n])
    BY <1>0, <1>4, <2>1, Same DEF Begun
  <2>2. Begun \subseteq Begun'
    BY <1>4 DEF Begun
  <2> QED BY <1>0, <1>4, <2>1, <2>2 DEF KeptFiles
<1>5. ASSUME NEW t, Block(t) \/ Unblock(t) \/ Wipe(t)
      PROVE  Fine
  BY <1>0, <1>4, <1>5 DEF Block, Unblock, Wipe, Rooted, Writes
<1>6. ASSUME Wait
      PROVE  Fine
  <2>1. files' = files /\ talks' = talks /\ writes' = writes /\ today' = today + 1
    BY <1>6 DEF Wait
  <2>2. KeptFiles(files, files, Begun)
    BY <1>0, Same DEF KeptFiles, Begun
  <2> QED BY <1>0, <2>1, <2>2 DEF Begun
<1> HIDE DEF Fine
<1>7. ASSUME NEW n \in Names, NEW t, NEW p, NEW kind, Begin(n, t, p, kind) PROVE Fine
  BY <1>1, <1>7 DEF Begin
<1>8. ASSUME NEW n \in Names, NEW m, NEW kind, Delegate(n, m, kind) PROVE Fine
  BY <1>1, <1>8 DEF Delegate
<1>9. ASSUME NEW n \in Names, NEW what, Continue(n, what) \/ Tear(n, what) PROVE Fine
  <2>1. talks[n].project \in Directories
    BY <1>0, <1>9 DEF Continue, Tear, World, FileWell, Talk
  <2>2. \A w, id, cwd, parent, kind : Record(w, id, cwd, parent, kind).whole \in BOOLEAN
    BY DEF Record
  <2>3. \A w : Torn(w).whole \in BOOLEAN
    BY DEF Torn
  <2>4. ASSUME NEW t, NEW p, NEW parent, NEW kind
        PROVE  First(n, t, p, parent, kind).whole \in BOOLEAN
    BY <2>2 DEF First
  <2> QED BY <1>2, <1>9, <2>1, <2>2, <2>3, <2>4 DEF Continue, Tear
<1>10. ASSUME NEW n \in Names, NEW p \in Projects, Move(n, p) PROVE Fine
  <2>1. talks[n].project \in Directories /\ p \in Directories
    BY <1>0, <1>10 DEF Move, World, FileWell, Talk, Directories
  <2>2. \A w, id, cwd, parent, kind : Record(w, id, cwd, parent, kind).whole \in BOOLEAN
    BY DEF Record
  <2>3. ASSUME NEW t, NEW parent, NEW kind
        PROVE  First(n, t, p, parent, kind).whole \in BOOLEAN
    BY <2>2 DEF First
  <2> QED BY <1>2, <1>10, <2>1, <2>2, <2>3 DEF Move
<1>11. Fine
  BY <1>3, <1>5, <1>6, <1>7, <1>8, <1>9, <1>10 DEF Uses
<1> QED BY <1>11 DEF Fine

\* What was taken of a file stays taken; and if it is so now, it was so.
LEMMA StillCurrent ==
  ASSUME NEW fs \in [Names -> FilesOf(Names, Directories) \cup {None}],
         NEW gs \in [Names -> FilesOf(Names, Directories) \cup {None}],
         NEW begun \in SUBSET Names, NEW begun2 \in SUBSET Names, begun \subseteq begun2,
         KeptFiles(fs, gs, begun), NEW i, Taken(i, fs, begun)
  PROVE  /\ Taken(i, gs, begun2)
         /\ Current(i, gs) => Current(i, fs) /\ gs[i.file] = fs[i.file]
<1> DEFINE f == fs[i.file]
           g == gs[i.file]
           size == i.fingerprint.size
<1>1. i.file \in begun /\ i.file \in Names /\ size \in Nat
  BY DEF Taken
<1>2. PICK d \in DOMAIN Visited : i.dir = Visited[d]
  BY DEF Taken
<1>3. CASE g = None
  BY <1>1, <1>2, <1>3 DEF Taken, Current, InDir
<1>4. CASE g /= None
  <2>1. /\ f /= None /\ Kept(f, g)
        /\ f \in FilesOf(Names, Directories) /\ g \in FilesOf(Names, Directories)
    BY <1>1, <1>4 DEF KeptFiles
  <2>2. Len(f.lines) \in Nat /\ Len(g.lines) \in Nat
    BY <2>1, FileFields
  <2>3. /\ i.dir.place = "archived" => f.place = "archived"
        /\ size <= Len(f.lines)
    BY <2>1 DEF Taken
  <2> HIDE DEF f, g, size
  <2>4. size <= Len(g.lines) /\ (i.dir.place = "archived" => g.place = "archived")
    BY <1>1, <2>1, <2>2, <2>3 DEF Kept
  <2>5. Taken(i, gs, begun2)
    BY <1>1, <1>2, <2>4 DEF Taken, g, size
  <2>6. ASSUME Current(i, gs)
        PROVE  Current(i, fs) /\ g = f
    <3>1. g.tool = i.dir.tool /\ g.place = i.dir.place /\ size = Len(g.lines)
      BY <2>6 DEF Current, InDir, Fingerprint, g, size
    <3>2. f.tool \notin {"kimi", "aider", "custom"}
      BY <1>2, <2>1, <3>1, VisitedIs DEF Kept
    <3>3. ~ (Len(f.lines) < Len(g.lines))
      BY <1>1, <2>2, <2>3, <3>1
    <3>4. ~ (f.place /= "archived" /\ g.place = "archived")
      BY <2>3, <3>1
    <3>5. g = f
      BY <2>1, <3>2, <3>3, <3>4 DEF Kept
    <3> QED BY <2>1, <2>6, <3>5 DEF Current, InDir, f, g
  <2> QED BY <2>5, <2>6 DEF f, g
<1> QED BY <1>3, <1>4

LEMMA StillSo ==
  ASSUME NEW fs \in [Names -> FilesOf(Names, Directories) \cup {None}],
         NEW gs \in [Names -> FilesOf(Names, Directories) \cup {None}],
         NEW begun \in SUBSET Names, KeptFiles(fs, gs, begun), NEW i, Taken(i, fs, begun)
  PROVE  Current(i, gs) => Current(i, fs) /\ gs[i.file] = fs[i.file]
<1>1. begun \subseteq begun
  OBVIOUS
<1> QED BY <1>1, StillCurrent

LEMMA EntryStays ==
  ASSUME NEW fs \in [Names -> FilesOf(Names, Directories) \cup {None}],
         NEW gs \in [Names -> FilesOf(Names, Directories) \cup {None}],
         NEW begun \in SUBSET Names, NEW begun2 \in SUBSET Names, begun \subseteq begun2,
         KeptFiles(fs, gs, begun), NEW e, EntryWell(e, fs, begun)
  PROVE  EntryWell(e, gs, begun2)
<1>1. Taken(e, fs, begun)
  BY DEF EntryWell
<1>2. /\ Taken(e, gs, begun2)
      /\ Current(e, gs) => Current(e, fs) /\ gs[e.file] = fs[e.file]
  BY <1>1, StillCurrent
<1> QED BY <1>2 DEF EntryWell

LEMMA ConsideredStays ==
  ASSUME NEW fs \in [Names -> FilesOf(Names, Directories) \cup {None}],
         NEW gs \in [Names -> FilesOf(Names, Directories) \cup {None}],
         NEW begun \in SUBSET Names, KeptFiles(fs, gs, begun),
         NEW day \in Nat, NEW day2 \in Nat, day <= day2,
         NEW i, Taken(i, fs, begun), NEW candidates, NEW more, candidates \subseteq more,
         Considered(i, candidates, fs, day)
  PROVE  Considered(i, more, gs, day2)
<1>1. Current(i, gs) => Current(i, fs) /\ gs[i.file] = fs[i.file]
  BY StillSo
<1>2. 0 .. day \subseteq 0 .. day2
  OBVIOUS
<1>3. ASSUME Current(i, gs), NEW now
      PROVE  CandidateNow(i.file, i.dir, now, gs) = CandidateNow(i.file, i.dir, now, fs)
  BY <1>1, <1>3 DEF CandidateNow
<1> QED BY <1>1, <1>2, <1>3 DEF Considered

LEMMA OfInventoryStays ==
  ASSUME NEW fs \in [Names -> FilesOf(Names, Directories) \cup {None}],
         NEW gs \in [Names -> FilesOf(Names, Directories) \cup {None}],
         NEW begun \in SUBSET Names, KeptFiles(fs, gs, begun),
         NEW day \in Nat, NEW day2 \in Nat, day <= day2,
         NEW inventory, \A i \in inventory : Taken(i, fs, begun),
         NEW more, inventory \subseteq more,
         NEW c, OfInventory(c, inventory, fs, day)
  PROVE  OfInventory(c, more, gs, day2)
<1>0. \A i \in inventory : Current(i, gs) => Current(i, fs) /\ gs[i.file] = fs[i.file]
  BY StillSo
<1>1. PICK i \in inventory :
         /\ c.file = i.file /\ DirOf(c) = i.dir
         /\ Current(i, fs) => \E now \in 0 .. day : c = CandidateNow(i.file, i.dir, now, fs)
  BY DEF OfInventory
<1>2. Current(i, gs) => Current(i, fs) /\ gs[i.file] = fs[i.file]
  BY <1>0
<1>3. 0 .. day \subseteq 0 .. day2
  OBVIOUS
<1>4. ASSUME Current(i, gs), NEW now
      PROVE  CandidateNow(i.file, i.dir, now, gs) = CandidateNow(i.file, i.dir, now, fs)
  BY <1>2, <1>4 DEF CandidateNow
<1> QED BY <1>1, <1>2, <1>3, <1>4 DEF OfInventory

LEMMA AnalysisStays ==
  ASSUME NEW fs \in [Names -> FilesOf(Names, Directories) \cup {None}],
         NEW gs \in [Names -> FilesOf(Names, Directories) \cup {None}],
         NEW begun \in SUBSET Names, NEW begun2 \in SUBSET Names, begun \subseteq begun2,
         KeptFiles(fs, gs, begun), NEW day \in Nat, NEW day2 \in Nat, day <= day2,
         NEW count \in Nat, NEW count2 \in Nat, count <= count2,
         NEW a, AnalysisWell(a, fs, begun, day, count)
  PROVE  AnalysisWell(a, gs, begun2, day2, count2)
<1>1. \A e \in a.entries : EntryWell(e, gs, begun2)
  BY EntryStays DEF AnalysisWell
<1>2. \A i \in a.inventory : Taken(i, fs, begun)
  BY DEF AnalysisWell
<1>3. ASSUME NEW i \in a.inventory
      PROVE  /\ Taken(i, gs, begun2)
             /\ Current(i, gs) => Current(i, fs) /\ gs[i.file] = fs[i.file]
  BY <1>2, StillCurrent
<1>4. ASSUME NEW i \in a.inventory, Considered(i, a.candidates, fs, day)
      PROVE  Considered(i, a.candidates, gs, day2)
  BY <1>2, <1>4, ConsideredStays
<1>5. ASSUME NEW c \in a.candidates
      PROVE  OfInventory(c, a.inventory, gs, day2)
  <2>1. OfInventory(c, a.inventory, fs, day)
    BY DEF AnalysisWell
  <2> QED BY <1>2, <2>1, OfInventoryStays
<1>6. 0 .. day \subseteq 0 .. day2 /\ 0 .. count \subseteq 0 .. count2
  OBVIOUS
<1>7. a.phase /= "visit" => \E i \in a.inventory :
         /\ AtHand(a, i) /\ i.fingerprint = a.stat
         /\ a.phase = "candidate" /\ Current(i, gs) => a.parsed = ParsedOf(i.file, gs[i.file])
  BY <1>3 DEF AnalysisWell
<1>8. \A i \in a.inventory :
         /\ Taken(i, gs, begun2)
         /\ \E d \in DOMAIN Visited : i.dir = Visited[d] /\ Passed(d, i.file, a.at)
         /\ IF a.phase /= "visit" /\ AtHand(a, i) THEN i.fingerprint = a.stat
            ELSE Considered(i, a.candidates, gs, day2)
  BY <1>3, <1>4 DEF AnalysisWell
<1> QED BY <1>1, <1>5, <1>6, <1>7, <1>8 DEF AnalysisWell

LEMMA RememberedStays ==
  ASSUME World, World', Remembered, UNCHANGED cleanup,
         KeptFiles(files, files', Begun), Begun \subseteq Begun', today <= today',
         \/ writes' = writes + 1
         \/ writes' = writes /\ files' = files
  PROVE  Remembered'
<1>1. /\ files \in [Names -> FilesOf(Names, Directories) \cup {None}]
      /\ files' \in [Names -> FilesOf(Names, Directories) \cup {None}]
      /\ Begun \in SUBSET Names /\ Begun' \in SUBSET Names
      /\ today \in Nat /\ today' \in Nat /\ writes \in Nat /\ writes' \in Nat
      /\ writes <= writes'
  BY DEF World, WorldType, Begun
<1>2. cache' = cache /\ analysis' = analysis
  BY DEF cleanup
<1>3. CacheWell'
  <2>1. ASSUME NEW e \in cache.entries PROVE EntryWell(e, files', Begun')
    <3>1. EntryWell(e, files, Begun)
      BY DEF Remembered, CacheWell, Begun
    <3> QED BY <1>1, <3>1, EntryStays
  <2>2. \A i \in cache.inventory : Taken(i, files, Begun)
    BY DEF Remembered, CacheWell, Begun
  <2>3. ASSUME NEW i \in cache.inventory
        PROVE  Taken(i, files', Begun') /\ Considered(i, cache.candidates, files', today')
    <3>1. Considered(i, cache.candidates, files, today)
      BY DEF Remembered, CacheWell
    <3> QED BY <1>1, <2>2, <3>1, StillCurrent, ConsideredStays
  <2>4. ASSUME NEW c \in cache.candidates
        PROVE  OfInventory(c, cache.inventory, files', today')
    <3>1. OfInventory(c, cache.inventory, files, today)
      BY DEF Remembered, CacheWell
    <3> QED BY <1>1, <2>2, <3>1, OfInventoryStays
  <2> QED BY <1>2, <2>1, <2>3, <2>4 DEF CacheWell, Begun
<1>4. ASSUME analysis /= Idle
      PROVE  /\ AnalysisWell(analysis, files', Begun', today', writes')
             /\ Undisturbed(analysis, files', writes')
  <2>1. /\ AnalysisWell(analysis, files, Begun, today, writes)
        /\ Undisturbed(analysis, files, writes)
    BY <1>4 DEF Remembered, Analysed, Begun
  <2>2. AnalysisWell(analysis, files', Begun', today', writes')
    BY <1>1, <2>1, AnalysisStays
  <2>3. CASE writes' = writes + 1
    <3>1. analysis.began \in 0 .. writes
      BY <2>1 DEF AnalysisWell
    <3>2. analysis.began /= writes'
      BY <1>1, <2>3, <3>1
    <3> QED BY <2>2, <3>2 DEF Undisturbed
  <2>4. CASE writes' = writes /\ files' = files
    BY <2>1, <2>2, <2>4
  <2> QED BY <2>3, <2>4
<1> QED BY <1>2, <1>3, <1>4 DEF Remembered, Analysed, Begun

-----------------------------------------------------------------------------
(* What the cleanup makes of a file.                                       *)

\* The parse of a file has the fields of the session.
LEMMA ParsedIs ==
  ASSUME SessionsAssumption, NoneAssumption, World, NEW n \in Names, files[n] /= None,
         files[n].tool \in {"codex", "claude"}
  PROVE  /\ ParsedOf(n, files[n]) /= None
         /\ ParsedOf(n, files[n]).id = SessionOf(n)
         /\ ParsedOf(n, files[n]).parent = talks[n].parent
         /\ ParsedOf(n, files[n]).project = talks[n].project
         /\ ParsedOf(n, files[n]).kind = "root" <=> talks[n].parent = None
         /\ ParsedOf(n, files[n]).latest =
               IF Times(files[n]) = {} THEN None ELSE Max(Times(files[n]))
<1> DEFINE f == files[n]
           talk == talks[n]
           latest == IF Times(f) = {} THEN None ELSE Max(Times(f))
<1>1. /\ f \in FilesOf(Names, Directories) /\ talk \in Talk /\ talk /= None
      /\ Tells(n, f, talk, setup.stamped) /\ TalkWell(n)
  BY DEF World, WorldType, FileWell
<1>2. /\ talk.tool = f.tool /\ talk.project \in Directories /\ talk.whole
      /\ talk.parent \in Names \cup {None} /\ f.lines /= <<>>
      /\ SessionOf(n) = Called(n, talk) /\ Called(n, talk) \in Names /\ None \notin Names
      /\ talk.project /= None
  BY <1>1, SessionsAssumption, NoneAssumption DEF Tells, TalkWell, Talk, SessionOf, Called
<1>3. /\ Lines(f) = 1 .. Len(f.lines) /\ Len(f.lines) \in Nat /\ IsFiniteSet(Lines(f))
      /\ \A i \in Lines(f) : f.lines[i] \in RecordsOf(Names, Directories)
      /\ Times(f) \in SUBSET Nat /\ IsFiniteSet(Times(f))
      /\ Headers(f) \subseteq Lines(f) /\ IsFiniteSet(Headers(f))
      /\ f.under \in Names \cup {None} /\ 1 \in Lines(f)
  BY <1>1, <1>2, FileFields
<1>4. latest \in Nat \cup {None}
  BY <1>3, LargestOne
<1>5. ASSUME NEW S \in SUBSET Lines(f)
      PROVE  Cardinality(S) \in Nat
  BY <1>3, FS_Subset, FS_CardinalityType
<1>6. CASE f.tool = "codex"
  <2> DEFINE h == Max(Headers(f))
             meta == f.lines[h]
  <2>1. CodexWell(n, f, talk)
    BY <1>1, <1>2, <1>6 DEF Tells
  <2>2. h \in Headers(f) /\ Headers(f) /= {}
    <3>1. Headers(f) \in SUBSET Nat /\ Headers(f) /= {}
      BY <1>3, <2>1 DEF CodexWell
    <3> QED BY <1>3, <3>1, LargestOne
  <2>3. /\ meta \in RecordsOf(Names, Directories) /\ meta.id = n
        /\ meta.parent = talk.parent /\ meta.kind = talk.kind /\ meta.cwd = talk.project
    BY <1>3, <2>1, <2>2 DEF CodexWell
  <2>4. SessionOf(n) = n
    BY <1>2, <1>6 DEF Called
  <2>5. PICK kind : kind = CASE meta.kind = "guardian" -> "guardian"
                             [] meta.kind /= "guardian"
                                /\ (meta.parent /= None \/ meta.kind = "subagent")
                                  -> "delegated"
                             [] OTHER -> "root"
    OBVIOUS
  <2>6. PICK turns, calls, completed :
           /\ turns = Cardinality({i \in Lines(f) : f.lines[i].what = "turn"})
           /\ calls = Cardinality({i \in Lines(f) : f.lines[i].what = "call"})
           /\ completed = (Cardinality({i \in Lines(f) : f.lines[i].what = "done"}) > 0)
    OBVIOUS
  <2>7. turns \in Nat /\ calls \in Nat /\ completed \in BOOLEAN
    BY <1>5, <2>6
  <2>8. PICK p : p = [id |-> meta.id, parent |-> meta.parent, project |-> meta.cwd,
                      kind |-> kind, old |-> meta.old, latest |-> latest, turns |-> turns,
                      calls |-> calls, completed |-> completed]
    OBVIOUS
  <2>9. ParsedOf(n, f) = p
    BY <1>6, <2>2, <2>5, <2>6, <2>8 DEF ParsedOf, ParsedCodex, Parsed, Count
  <2> HIDE DEF f, talk, latest, h
  <2>10. kind \in {"guardian", "delegated", "root"} /\ (kind = "root" <=> talk.parent = None)
    <3>1. /\ talk.parent = None => talk.kind = "root"
          /\ talk.parent /= None => talk.kind \in {"guardian", "subagent"}
      BY <1>1, <1>2, <1>6 DEF TalkWell, talk
    <3> QED BY <2>3, <2>5, <3>1
  <2>11. p \in ParsesOf(Names, Directories)
    BY <1>2, <1>4, <2>3, <2>7, <2>8, <2>10 DEF ParsesOf, RecordsOf
  <2>12. p /= None
    BY <2>11, NoneAssumption
  <2> QED BY <2>3, <2>4, <2>8, <2>9, <2>10, <2>12 DEF f, talk, latest
<1>7. CASE f.tool = "claude"
  <2>1. FirstWell(n, f, talk) /\ f.under = talk.parent
    BY <1>1, <1>2, <1>7 DEF Tells
  <2>2. FirstOf(f, Lines(f), "id") = Called(n, talk)
    <3>1. f.lines[1]["id"] = Called(n, talk)
      BY <1>7, <2>1 DEF FirstWell
    <3> QED BY <1>1, <1>2, <1>3, <3>1, FirstGives
  <2>3. FirstOf(f, Lines(f), "cwd") = talk.project
    <3>1. f.lines[1]["cwd"] = talk.project
      BY <2>1 DEF FirstWell
    <3> QED BY <1>1, <1>2, <1>3, <3>1, FirstGives
  <2>4. PICK turns, calls, done :
           /\ turns = Cardinality({i \in Lines(f) : f.lines[i].whole /\ f.lines[i].what = "turn"})
           /\ calls = Cardinality({i \in Lines(f) : f.lines[i].whole /\ f.lines[i].what = "call"})
           /\ done = Cardinality({i \in Lines(f) : f.lines[i].whole /\ f.lines[i].what = "done"})
    OBVIOUS
  <2>5. turns \in Nat /\ calls \in Nat /\ (calls + done > 0) \in BOOLEAN
    BY <1>5, <2>4
  <2>6. PICK p : p = [id |-> Called(n, talk), parent |-> f.under, project |-> talk.project,
                      kind |-> IF f.under = None THEN "root" ELSE "delegated",
                      old |-> FALSE, latest |-> latest, turns |-> turns,
                      calls |-> calls, completed |-> (calls + done > 0)]
    OBVIOUS
  <2>7. ParsedOf(n, f) = p
    <3>1. Called(n, talk) /= None
      BY <1>2
    <3> QED BY <1>7, <2>2, <2>3, <2>4, <2>6, <3>1 DEF ParsedOf, ParsedClaude, Parsed, Count
  <2> HIDE DEF f, talk, latest
  <2>8. p \in ParsesOf(Names, Directories)
    BY <1>2, <1>3, <1>4, <2>5, <2>6 DEF ParsesOf
  <2>9. p /= None
    BY <2>8, NoneAssumption
  <2> QED BY <1>2, <2>1, <2>6, <2>7, <2>9 DEF f, talk, latest
<1> QED BY <1>6, <1>7

\* What candidate c says of session n, with the age it had on day now.
SaysOf(c, n, now) ==
    /\ c.is.id = SessionOf(n) /\ c.is.parent = talks[n].parent
    /\ c.is.project = talks[n].project
    /\ c.is.kind = "root" <=> talks[n].parent = None
    /\ c.at = talks[n].last
    /\ c.age = IF now > talks[n].last THEN now - talks[n].last ELSE 0

LEMMA CandidateIs ==
  ASSUME SessionsAssumption, NoneAssumption, World, NEW n \in Names, files[n] /= None,
         NEW dir, dir.tool \in {"codex", "claude"}, files[n].tool = dir.tool,
         NEW now \in Nat, NEW c, c = CandidateNow(n, dir, now, files)
  PROVE  /\ c.file = n /\ DirOf(c) = [tool |-> dir.tool, place |-> dir.place]
         /\ c.key.tool = dir.tool
         /\ SaysOf(c, n, now)
<1> DEFINE f == files[n]
           p == ParsedOf(n, f)
           at == IF p.latest /= None THEN p.latest ELSE f.mtime
<1>1. /\ f \in FilesOf(Names, Directories) /\ talks[n] \in Talk /\ talks[n] /= None
      /\ Tells(n, f, talks[n], setup.stamped) /\ TalkWell(n) /\ setup.stamped \in BOOLEAN
  BY SessionsAssumption DEF World, WorldType, FileWell
<1>2. talks[n].tool = f.tool /\ talks[n].whole
  BY <1>1 DEF Tells, TalkWell
<1>3. DatedWell(f, talks[n], setup.stamped)
  BY <1>1, <1>2 DEF Tells
<1>4. Times(f) \in SUBSET Nat /\ IsFiniteSet(Times(f))
  BY <1>1, FileFields
<1>5. /\ p.id = SessionOf(n) /\ p.parent = talks[n].parent /\ p.project = talks[n].project
      /\ p.kind = "root" <=> talks[n].parent = None
      /\ p.latest = IF Times(f) = {} THEN None ELSE Max(Times(f))
  BY ParsedIs
<1>6. at = talks[n].last
  <2>1. Latest(f) = talks[n].last
    BY <1>1, <1>3, LatestIsLast
  <2>2. Times(f) /= {} => Max(Times(f)) /= None
    BY <1>4, LargestOne, NoneAssumption
  <2> QED BY <1>5, <2>1, <2>2 DEF Latest
<1>7. c = [key |-> [tool |-> dir.tool, place |-> dir.place, id |-> p.id],
           file |-> n, is |-> p, at |-> at,
           age  |-> IF now > at THEN now - at ELSE 0,
           fingerprint |-> Fingerprint(f)]
  BY DEF CandidateNow, Candidate
<1> HIDE DEF f, p, at
<1> QED BY <1>5, <1>6, <1>7 DEF DirOf, SaysOf

\* What may be cleaned: the candidates are of the files that are there, and
\* of each there is one.
LEMMA CleaningKeeps ==
  ASSUME SessionsAssumption, NoneAssumption, RulesAssumption, World, CacheWell,
         NEW keys, Quarantine(keys), NEW n \in Names, Cleans(n)
  PROVE  LET talk == talks[n]
             there(m) == files[m] /= None /\ talks[m].tool = talk.tool
         IN /\ today - talk.last >= Recent
            /\ talk.tool = "codex" => n /= setup.current
            /\ \A m \in Names : there(m) => talks[m].parent /= n
            /\ talk.parent /= None => there(talk.parent)
            /\ talk.parent = None =>
                 \E m \in Names : /\ there(m) /\ talks[m].parent = None
                                  /\ talks[m].project = talk.project
                                  /\ talks[m].last > talk.last
<1> DEFINE all == cache.candidates
           talk == talks[n]
           there(m) == files[m] /= None /\ talks[m].tool = talk.tool
\* Of a file that is there.
<1>1. ASSUME NEW m \in Names, files[m] /= None
      PROVE  /\ files[m] \in FilesOf(Names, Directories)
             /\ talks[m] \in Talk /\ talks[m] /= None /\ TalkWell(m)
             /\ Tells(m, files[m], talks[m], setup.stamped)
             /\ talks[m].tool = files[m].tool /\ talks[m].last \in Nat
             /\ talks[m].project \in Directories /\ talks[m].parent \in Names \cup {None}
  <2>1. /\ files[m] \in FilesOf(Names, Directories) /\ talks[m] \in Talk \cup {None}
        /\ TalkWell(m) /\ FileWell(m)
    BY <1>1 DEF World, WorldType
  <2>2. talks[m] /= None /\ Tells(m, files[m], talks[m], setup.stamped)
    BY <1>1, <2>1 DEF FileWell
  <2>3. talks[m].tool = files[m].tool
    BY <2>2 DEF Tells
  <2>4. talks[m] \in Talk
    BY <2>1, <2>2
  <2>5. /\ talks[m].last \in Nat /\ talks[m].project \in Directories
        /\ talks[m].parent \in Names \cup {None}
    BY <2>4 DEF Talk
  <2> QED BY <2>1, <2>2, <2>3, <2>4, <2>5
<1>2. today \in Nat /\ 0 .. today \subseteq Nat /\ None \notin Names /\ None \notin Directories
  <2>1. today \in Nat
    BY DEF World, WorldType
  <2>2. None \notin Names
    BY SessionsAssumption, NoneAssumption
  <2>3. None \notin Directories
    BY NoneAssumption
  <2>4. 0 .. today \subseteq Nat
    BY <2>1
  <2> QED BY <2>1, <2>2, <2>3, <2>4
<1>3. cache.inventory = InventoryNow
  BY DEF Quarantine, SameInventory
\* A candidate is of a file that is there.
<1>4. ASSUME NEW c \in all
      PROVE  \E m \in Names, d \in DOMAIN Visited, now \in 0 .. today :
                /\ Visited[d].tool \in {"codex", "claude"}
                /\ files[m] /= None /\ files[m].tool = Visited[d].tool
                /\ m = c.file /\ c = CandidateNow(m, Visited[d], now, files)
  <2>1. PICK i \in cache.inventory :
           /\ c.file = i.file /\ DirOf(c) = i.dir
           /\ Current(i, files) => \E now \in 0 .. today : c = CandidateNow(i.file, i.dir, now, files)
    BY DEF CacheWell, OfInventory
  <2>2. PICK d \in DOMAIN Visited : i \in
           {[file |-> m, dir |-> Visited[d], fingerprint |-> Fingerprint(files[m])] :
               m \in InDirectory(Visited[d])}
    BY <1>3 DEF InventoryNow
  <2>3. PICK m \in InDirectory(Visited[d]) :
           i = [file |-> m, dir |-> Visited[d], fingerprint |-> Fingerprint(files[m])]
    BY <2>2
  <2>4. /\ i.file = m /\ i.dir = Visited[d] /\ i.fingerprint = Fingerprint(files[m])
        /\ m \in Names /\ files[m] /= None /\ files[m].tool = Visited[d].tool
        /\ files[m].place = Visited[d].place
    BY <2>3 DEF InDirectory
  <2>5. Current(i, files)
    BY <2>4 DEF Current, InDir
  <2>6. Visited[d].tool \in {"codex", "claude"}
    BY VisitedIs
  <2> QED BY <2>1, <2>4, <2>5, <2>6
\* And of such a file there is one.
<1>5. ASSUME NEW m \in Names, files[m] /= None, files[m].tool \in {"codex", "claude"}
      PROVE  \E d \in DOMAIN Visited, now \in 0 .. today :
                files[m].tool = Visited[d].tool /\ CandidateNow(m, Visited[d], now, files) \in all
  <2>1. files[m].place \in {"active", "archived"}
        /\ (files[m].place = "archived" => files[m].tool = "codex")
    BY <1>1, <1>5 DEF FilesOf, Tells
  <2>2. PICK d \in DOMAIN Visited :
           Visited[d].tool = files[m].tool /\ Visited[d].place = files[m].place
    <3>1. 1 \in DOMAIN Visited /\ 2 \in DOMAIN Visited /\ 3 \in DOMAIN Visited
      BY VisitedIs
    <3>2. /\ Visited[1].tool = "codex" /\ Visited[1].place = "active"
          /\ Visited[2].tool = "codex" /\ Visited[2].place = "archived"
          /\ Visited[3].tool = "claude" /\ Visited[3].place = "active"
      BY VisitedIs
    <3> QED BY <1>5, <2>1, <3>1, <3>2
  <2>3. PICK i : i = [file |-> m, dir |-> Visited[d], fingerprint |-> Fingerprint(files[m])]
    OBVIOUS
  <2>4. i \in InventoryNow
    BY <1>5, <2>2, <2>3 DEF InventoryNow, InDirectory
  <2>5. Current(i, files) /\ i.file = m /\ i.dir = Visited[d]
    BY <1>5, <2>2, <2>3 DEF Current, InDir
  <2>6. Considered(i, all, files, today)
    BY <1>3, <2>4 DEF CacheWell
  <2>7. \E now \in 0 .. today : CandidateNow(m, Visited[d], now, files) \in all
    BY <2>5, <2>6 DEF Considered
  <2> QED BY <2>2, <2>7
\* What a candidate says.
<1>6. ASSUME NEW c \in all
      PROVE  /\ c.file \in Names /\ files[c.file] /= None
             /\ files[c.file].tool = c.key.tool /\ c.key.tool \in {"codex", "claude"}
             /\ c.is.id = SessionOf(c.file) /\ c.is.parent = talks[c.file].parent
             /\ c.is.project = talks[c.file].project
             /\ c.is.kind = "root" <=> talks[c.file].parent = None
             /\ c.at = talks[c.file].last
             /\ c.age \in Nat /\ (c.age = 0 \/ c.age <= today - talks[c.file].last)
  <2>0. PICK m \in Names, d \in DOMAIN Visited, now \in 0 .. today :
                /\ Visited[d].tool \in {"codex", "claude"}
                /\ files[m] /= None /\ files[m].tool = Visited[d].tool
                /\ m = c.file /\ c = CandidateNow(m, Visited[d], now, files)
    BY <1>4
  <2> DEFINE dir == Visited[d]
  <2>1. /\ m \in Names /\ now \in 0 .. today /\ files[m] /= None /\ files[m].tool = dir.tool
        /\ m = c.file /\ c = CandidateNow(m, dir, now, files)
    BY <2>0
  <2>2. dir.tool \in {"codex", "claude"}
    BY <2>0
  <2> HIDE DEF dir
  <2>3. /\ c.key.tool = dir.tool
        /\ c.is.id = SessionOf(m) /\ c.is.parent = talks[m].parent
        /\ c.is.project = talks[m].project
        /\ c.is.kind = "root" <=> talks[m].parent = None
        /\ c.at = talks[m].last
        /\ c.age = IF now > talks[m].last THEN now - talks[m].last ELSE 0
    <3>1. m \in Names /\ now \in Nat /\ files[m] /= None /\ files[m].tool = dir.tool
      BY <1>2, <2>1
    <3>2. c = CandidateNow(m, dir, now, files)
      BY <2>1
    <3>3. c.key.tool = dir.tool /\ SaysOf(c, m, now)
      BY <2>2, <3>1, <3>2, CandidateIs
    <3> QED BY <3>3 DEF SaysOf
  <2>4. talks[m].last \in Nat /\ now \in Nat /\ now <= today
    <3>1. talks[m].last \in Nat
      BY <1>1, <2>1
    <3>2. now \in 0 .. today /\ today \in Nat
      BY <1>2
    <3> QED BY <3>1, <3>2
  <2>5. c.age \in Nat /\ (c.age = 0 \/ c.age <= today - talks[m].last)
    BY <1>2, <2>3, <2>4
  <2> QED BY <2>1, <2>2, <2>3, <2>5
<1>7. PICK c \in all : c.file = n /\ CanClean(c, all, setup.current)
  <2>1. files[n] /= None /\ files'[n] = None
    BY DEF Cleans
  <2>2. /\ files' = [m \in Names |-> IF \E c \in Selected(keys) : c.file = m
                                     THEN None ELSE files[m]]
        /\ \A c \in Selected(keys) : CanClean(c, all, setup.current)
    BY DEF Quarantine
  <2> QED BY <2>1, <2>2 DEF Selected
<1>8. /\ ~ Protects("recent", c, all, setup.current)
      /\ ~ Protects("parentMissing", c, all, setup.current)
      /\ ~ Protects("hasChildren", c, all, setup.current)
      /\ ~ Protects("currentSession", c, all, setup.current)
      /\ ~ Protects("latestForProject", c, all, setup.current)
  BY <1>7 DEF CanClean, Protections
<1>9. /\ ~ (c.age < Recent)
      /\ c.is.parent /= None => ParentsOf(c, all) /= {}
      /\ \A child \in all : child.is.parent /= c.is.id
      /\ ~ (c.key.tool = "codex" /\ c.is.id = setup.current)
      /\ ~ IsLatestRoot(c, all)
  BY <1>8 DEF Protects
<1>10. /\ files[n] /= None /\ files[n].tool = c.key.tool /\ c.key.tool \in {"codex", "claude"}
       /\ c.is.id = SessionOf(n) /\ c.is.parent = talk.parent /\ c.is.project = talk.project
       /\ c.is.kind = "root" <=> talk.parent = None
       /\ c.at = talk.last
       /\ c.age \in Nat /\ (c.age = 0 \/ c.age <= today - talk.last)
  BY <1>6, <1>7
<1>11. /\ talk.tool = c.key.tool /\ talk.last \in Nat /\ talk.last <= today
       /\ talk.project \in Directories /\ talk.parent \in Names \cup {None} /\ TalkWell(n)
  BY <1>1, <1>10 DEF TalkWell
<1> HIDE DEF all, talk
<1>12. today - talk.last >= Recent
  <2>1. Recent \in Nat
    BY RulesAssumption
  <2> QED BY <1>2, <1>9, <1>10, <1>11, <2>1
<1>13. talk.tool = "codex" => SessionOf(n) = n
  BY DEF SessionOf, talk
<1>14. talk.tool = "codex" => n /= setup.current
  BY <1>9, <1>10, <1>11, <1>13
<1>15. ASSUME NEW m \in Names, there(m)
       PROVE  talks[m].parent /= n
  <2>1. files[m] /= None /\ talks[m].tool = talk.tool /\ files[m].tool = talks[m].tool
    BY <1>1, <1>15
  <2>0. PICK d \in DOMAIN Visited, now \in 0 .. today :
                files[m].tool = Visited[d].tool /\ CandidateNow(m, Visited[d], now, files) \in all
    BY <1>5, <1>10, <1>11, <2>1
  <2> DEFINE dir == Visited[d]
  <2>2. /\ now \in 0 .. today /\ files[m].tool = dir.tool
        /\ CandidateNow(m, dir, now, files) \in all
    BY <2>0
  <2> HIDE DEF dir
  <2>3. PICK cm : cm = CandidateNow(m, dir, now, files)
    OBVIOUS
  <2>4. cm \in all /\ cm.is.parent = talks[m].parent
    <3>1. dir.tool \in {"codex", "claude"} /\ now \in Nat
      BY <1>2, <1>10, <1>11, <2>1, <2>2
    <3>2. files[m] /= None /\ files[m].tool = dir.tool
      BY <2>1, <2>2
    <3>3. SaysOf(cm, m, now)
      BY <2>3, <3>1, <3>2, CandidateIs
    <3> QED BY <2>2, <2>3, <3>3 DEF SaysOf
  <2>5. talks[m].parent /= SessionOf(n)
    BY <1>9, <1>10, <2>4
  <2>6. ASSUME talks[m].parent = n
        PROVE  SessionOf(n) = n
    <3>1. n /= None /\ TalkWell(m) /\ talks[m] /= None
      BY <1>1, <1>2, <2>1
    <3>2. talks[m].tool = "claude" => talks[n].parent = None
      BY <2>6, <3>1 DEF TalkWell
    <3> QED BY <2>1, <3>2 DEF SessionOf, talk
  <2> QED BY <2>5, <2>6
<1>16. ASSUME talk.parent /= None
       PROVE  there(talk.parent)
  <2>1. talk.tool = "codex"
    <3>1. CASE talk.tool = "claude"
      <4>1. SessionOf(n) = talk.parent
        BY <1>16, <3>1 DEF SessionOf, talk
      <4> QED BY <1>7, <1>9, <1>10, <4>1 DEF all
    <3> QED BY <1>10, <1>11, <3>1
  <2>2. PICK p \in all : p.is.id = talk.parent
    BY <1>9, <1>10, <1>16 DEF ParentsOf
  <2>3. /\ p.file \in Names /\ files[p.file] /= None /\ SessionOf(p.file) = talk.parent
        /\ TalkWell(p.file) /\ talks[p.file] /= None
    BY <1>1, <1>6, <2>2
  <2>4. talks[talk.parent] /= None /\ talks[talk.parent].tool = "codex"
    BY <1>1, <1>10, <1>11, <1>16, <2>1 DEF TalkWell, talk
  <2>5. p.file = talk.parent
    <3>1. CASE talks[p.file].tool = "claude" /\ talks[p.file].parent /= None
      <4>1. talks[p.file].parent = talk.parent
        BY <2>3, <3>1 DEF SessionOf
      <4>2. talks[talk.parent].tool = "claude"
        BY <2>3, <3>1, <4>1 DEF TalkWell
      <4> QED BY <2>4, <4>2
    <3>2. CASE ~ (talks[p.file].tool = "claude" /\ talks[p.file].parent /= None)
      BY <2>3, <3>2 DEF SessionOf
    <3> QED BY <3>1, <3>2
  <2> QED BY <2>1, <2>3, <2>4, <2>5
<1>17. ASSUME talk.parent = None
       PROVE  \E m \in Names : /\ there(m) /\ talks[m].parent = None
                               /\ talks[m].project = talk.project
                               /\ talks[m].last > talk.last
  <2>1. c.is.kind = "root" /\ c.is.project /= None
    BY <1>2, <1>10, <1>11, <1>17
  <2>2. PICK r \in all : /\ r.is.kind = "root" /\ r.key.tool = c.key.tool
                         /\ r.is.project = c.is.project /\ ~ (r.at <= c.at)
    <3>1. ~ \A r \in all : (r.is.kind = "root" /\ r.key.tool = c.key.tool
                            /\ r.is.project = c.is.project) => r.at <= c.at
      BY <1>9, <2>1 DEF IsLatestRoot
    <3> QED BY <3>1
  <2>3. /\ r.file \in Names /\ files[r.file] /= None /\ talks[r.file].tool = r.key.tool
        /\ talks[r.file].parent = None /\ talks[r.file].project = r.is.project
        /\ r.at = talks[r.file].last /\ talks[r.file].last \in Nat
    <3>1. r \in all /\ r.is.kind = "root"
      BY <2>2
    <3>2. /\ r.file \in Names /\ files[r.file] /= None /\ files[r.file].tool = r.key.tool
          /\ talks[r.file].parent = None /\ talks[r.file].project = r.is.project
          /\ r.at = talks[r.file].last
      BY <1>6, <3>1
    <3>3. talks[r.file].tool = files[r.file].tool /\ talks[r.file].last \in Nat
      BY <1>1, <3>2
    <3> QED BY <3>2, <3>3
  <2>4. talks[r.file].last > talk.last
    BY <1>10, <1>11, <2>2, <2>3
  <2> QED BY <1>10, <1>11, <2>2, <2>3, <2>4
<1> QED BY <1>12, <1>14, <1>15, <1>16, <1>17 DEF talk

-----------------------------------------------------------------------------
(* The analysis, file by file.                                             *)

\* The next position is the first of those ahead.
LEMMA NextIsFirst ==
  ASSUME SessionsAssumption, NEW at, Ahead(at) /= {}
  PROVE  /\ Next1(Ahead(at)) \in Ahead(at)
         /\ \A r \in Ahead(at) : \/ Next1(Ahead(at))[1] < r[1]
                                 \/ /\ Next1(Ahead(at))[1] = r[1]
                                    /\ Next1(Ahead(at))[2] <= r[2]
<1> DEFINE Q == Ahead(at)
<1>0. Q /= {}
  OBVIOUS
<1>1. Q \subseteq (1 .. 3) \X Names /\ Names \subseteq Nat
  BY VisitedIs, SessionsAssumption DEF Ahead
<1> HIDE DEF Q
<1>2. Q \subseteq Nat \X Nat /\ Q /= {}
  <2>1. ASSUME NEW q \in Q PROVE q \in Nat \X Nat
    <3>1. q \in (1 .. 3) \X Names
      BY <1>1
    <3>2. q[1] \in 1 .. 3 /\ q[2] \in Names /\ q = <<q[1], q[2]>>
      BY <3>1
    <3>3. q[2] \in Nat
      BY <3>2, SessionsAssumption
    <3>4. q[1] \in Nat
      <4>1. 1 .. 3 \subseteq Nat
        OBVIOUS
      <4> QED BY <3>2, <4>1
    <3> QED BY <3>2, <3>3, <3>4
  <2> QED BY <1>0, <2>1
<1>3. PICK d \in Nat : (\E q \in Q : q[1] = d) /\ \A q \in Q : d <= q[1]
  <2> DEFINE S == {q[1] : q \in Q}
  <2>1. S \in SUBSET Nat /\ S /= {}
    BY <1>2
  <2>2. \E x \in S : \A y \in S : x <= y
    BY <2>1, SmallestOne
  <2> QED BY <2>1, <2>2
<1>4. PICK q \in Q : q[1] = d /\ \A r \in Q : r[1] = d => q[2] <= r[2]
  <2> DEFINE S == {q[2] : q \in {r \in Q : r[1] = d}}
  <2>1. S \in SUBSET Nat /\ S /= {}
    BY <1>2, <1>3
  <2>2. \E x \in S : \A y \in S : x <= y
    BY <2>1, SmallestOne
  <2> QED BY <2>1, <2>2
<1>5. \A r \in Q : q[1] < r[1] \/ (q[1] = r[1] /\ q[2] <= r[2])
  BY <1>2, <1>3, <1>4
<1>6. \E x \in Q : \A r \in Q : x[1] < r[1] \/ (x[1] = r[1] /\ x[2] <= r[2])
  BY <1>5
<1>7. Next1(Q) \in Q /\ \A r \in Q : \/ Next1(Q)[1] < r[1]
                                     \/ Next1(Q)[1] = r[1] /\ Next1(Q)[2] <= r[2]
  BY <1>6 DEF Next1
<1> QED BY <1>7 DEF Q

\* An analysis that goes on, of what there is.
Goes(a) ==
    /\ AnalysisWell(a, files, Begun, today, writes)
    /\ Undisturbed(a, files, writes)

LEMMA GoesOn ==
  ASSUME Remembered, analysis /= Idle
  PROVE  Goes(analysis)
BY DEF Remembered, Analysed, Goes, Begun

LEMMA AnalysisRemembered ==
  ASSUME Remembered, UNCHANGED <<source, cache>>, analysis' = Idle \/ Goes(analysis')
  PROVE  Remembered'
<1>1. /\ UNCHANGED <<files, talks, today, writes, cache>>
  BY DEF source
<1>2. CacheWell'
  BY <1>1 DEF Remembered, CacheWell, Begun
<1>3. Analysed'
  BY <1>1 DEF Analysed, Goes, Begun
<1> QED BY <1>2, <1>3 DEF Remembered

\* What is noted of a file that is there.
LEMMA NotedOfFile ==
  ASSUME World, NEW d \in DOMAIN Visited, NEW n \in InDir(Visited[d], files), NEW i,
         i.file = n, i.dir = Visited[d], i.fingerprint = Fingerprint(files[n])
  PROVE  Taken(i, files, Begun) /\ Current(i, files)
<1>1. /\ n \in Names /\ files[n] /= None /\ files[n].place = Visited[d].place
      /\ files[n] \in FilesOf(Names, Directories) /\ n \in Begun
  BY DEF InDir, World, WorldType, FileWell, Begun
<1>2. i.fingerprint.size = Len(files[n].lines) /\ Len(files[n].lines) \in Nat
  BY <1>1, FileFields DEF Fingerprint
<1>3. i.fingerprint.size <= Len(files[n].lines)
  BY <1>2
<1> QED BY <1>1, <1>2, <1>3 DEF Taken, Current

LEMMA InDirectoryIs ==
  ASSUME NEW dir
  PROVE  InDirectory(dir) = InDir(dir, files)
BY DEF InDirectory, InDir

LEMMA StartKeeps ==
  ASSUME SessionsAssumption, NoneAssumption, World, Remembered, NEW shows, StartAnalysis(shows)
  PROVE  Remembered'
<1>1. PICK a : a = [at |-> <<1, 0>>, phase |-> "visit", shows |-> shows,
                    now |-> today, began |-> writes, inventory |-> {},
                    entries |-> cache.entries, stat |-> None, parsed |-> None,
                    candidates |-> {}]
  OBVIOUS
<1>2. analysis' = a /\ UNCHANGED <<source, cache>>
  BY <1>1 DEF StartAnalysis
<1>3. /\ a.at = <<1, 0>> /\ a.at[1] = 1 /\ a.at[2] = 0 /\ a.phase = "visit"
      /\ a.now = today /\ a.began = writes
      /\ a.inventory = {} /\ a.entries = cache.entries /\ a.candidates = {}
      /\ a = [at |-> a.at, phase |-> a.phase, shows |-> a.shows, now |-> a.now,
              began |-> a.began, inventory |-> a.inventory, entries |-> a.entries,
              stat |-> a.stat, parsed |-> a.parsed, candidates |-> a.candidates]
  BY <1>1
<1>4. today \in 0 .. today /\ writes \in 0 .. writes
  BY DEF World, WorldType
<1>5. a.at \in (DOMAIN Visited) \X (Names \cup {0})
  BY <1>3, VisitedIs
<1>6. \A e \in a.entries : EntryWell(e, files, Begun)
  BY <1>3 DEF Remembered, CacheWell, Begun
<1>7. AnalysisWell(a, files, Begun, today, writes)
  BY <1>3, <1>4, <1>5, <1>6 DEF AnalysisWell
<1>8. ASSUME NEW d \in DOMAIN Visited, NEW n \in InDir(Visited[d], files)
      PROVE  ~ Passed(d, n, a.at)
  <2>1. d \in 1 .. 3 /\ n \in Nat \ {0}
    BY SessionsAssumption, VisitedIs DEF InDir
  <2> QED BY <1>3, <2>1 DEF Passed
<1>9. Undisturbed(a, files, writes)
  BY <1>3, <1>8 DEF Undisturbed
<1> QED BY <1>2, <1>7, <1>9, AnalysisRemembered DEF Goes

LEMMA StatKeeps ==
  ASSUME SessionsAssumption, NoneAssumption, World, Remembered, Stat
  PROVE  Remembered'
<1> DEFINE a == analysis
           at == analysis.at
           q == Next1(Ahead(at))
           n == q[2]
           dir == Visited[q[1]]
           fp == Fingerprint(files[n])
           hit == EntryOf(a.entries, n, dir, fp)
           i0 == [file |-> n, dir |-> dir, fingerprint |-> fp]
           parsed == IF hit = {} THEN None ELSE (CHOOSE e \in hit : TRUE).parsed
           phase == IF hit = {} THEN "parse" ELSE "candidate"
<1>1. a.phase = "visit" /\ Ahead(at) /= {} /\ UNCHANGED <<source, cache>>
  BY DEF Stat
<1>2. a /= Idle
  BY <1>1 DEF Idle
<1>3. AnalysisWell(a, files, Begun, today, writes) /\ Undisturbed(a, files, writes)
  BY <1>2, GoesOn DEF Goes
<1>4. /\ q \in (DOMAIN Visited) \X Names /\ q[1] \in DOMAIN Visited /\ n \in Names
      /\ q[1] > at[1] \/ (q[1] = at[1] /\ q[2] > at[2])
      /\ n \in InDir(dir, files)
  <2>1. q \in Ahead(at)
    BY <1>1, NextIsFirst
  <2> HIDE DEF q
  <2> QED BY <2>1, InDirectoryIs DEF Ahead
<1>5. /\ at[1] \in 1 .. 3 /\ at[2] \in Nat /\ q[1] \in 1 .. 3 /\ q[2] \in Nat
      /\ DOMAIN Visited = 1 .. 3 /\ Names \subseteq Nat
  BY <1>3, <1>4, VisitedIs, SessionsAssumption DEF AnalysisWell
<1>6. \A r \in Ahead(at) : q[1] < r[1] \/ (q[1] = r[1] /\ q[2] <= r[2])
  BY <1>1, NextIsFirst
<1>7. PICK b : b = [a EXCEPT !.at = q, !.stat = fp, !.inventory = @ \cup {i0},
                             !.phase = phase, !.parsed = parsed]
  OBVIOUS
<1>8. analysis' = b
  BY <1>7 DEF Stat
<1>9. /\ b = [at |-> b.at, phase |-> b.phase, shows |-> b.shows, now |-> b.now,
              began |-> b.began, inventory |-> b.inventory, entries |-> b.entries,
              stat |-> b.stat, parsed |-> b.parsed, candidates |-> b.candidates]
      /\ b.at = q /\ b.stat = fp /\ b.inventory = a.inventory \cup {i0}
      /\ b.phase = phase /\ b.parsed = parsed
      /\ b.now = a.now /\ b.began = a.began /\ b.entries = a.entries
      /\ b.candidates = a.candidates
  <2> HIDE DEF q, fp, i0, phase, parsed
  <2> QED BY <1>3, <1>7 DEF AnalysisWell
<1>10. i0.file = n /\ i0.dir = dir /\ i0.fingerprint = fp
  OBVIOUS
<1>11. Taken(i0, files, Begun) /\ Current(i0, files)
  BY <1>4, <1>10, NotedOfFile
<1>12. b.phase \in {"parse", "candidate"}
  BY <1>9
<1>13. ASSUME hit /= {}
       PROVE  parsed = ParsedOf(n, files[n])
  <2>1. PICK e : e = CHOOSE x \in hit : TRUE
    OBVIOUS
  <2>2. e \in hit
    BY <1>13, <2>1
  <2>3. e \in a.entries /\ e.file = n /\ e.dir = dir /\ e.fingerprint = fp
    BY <2>2 DEF EntryOf
  <2>4. Current(e, files)
    BY <1>4, <2>3 DEF Current
  <2>5. e.parsed = ParsedOf(n, files[n])
    BY <1>3, <2>3, <2>4 DEF AnalysisWell, EntryWell
  <2> QED BY <1>13, <2>1, <2>5
<1>14. phase = "candidate" => parsed = ParsedOf(n, files[n])
  BY <1>13
<1> HIDE DEF a, at, q, n, dir, fp, hit, i0, parsed, phase
<1>15. ASSUME NEW i \in a.inventory, NEW d \in DOMAIN Visited, i.dir = Visited[d],
              Passed(d, i.file, at), i.file \in Names
       PROVE  Passed(d, i.file, q) /\ ~ AtHand(b, i)
  <2>1. d \in 1 .. 3 /\ i.file \in Nat
    BY <1>5, <1>15
  <2>2. Passed(d, i.file, q) /\ ~ (d = q[1] /\ i.file = q[2])
    BY <1>4, <1>5, <1>15, <2>1 DEF Passed, n
  <2>3. AtHand(b, i) => d = q[1] /\ i.file = q[2]
    <3>1. AtHand(b, i) => i.file = q[2] /\ Visited[d] = Visited[q[1]]
      BY <1>9, <1>15 DEF AtHand
    <3>2. q[1] \in DOMAIN Visited
      BY <1>4
    <3>3. Visited[d] = Visited[q[1]] => d = q[1]
      BY <3>2, VisitedIs
    <3> QED BY <3>1, <3>3
  <2> QED BY <2>2, <2>3
<1>16. ASSUME NEW i \in b.inventory
       PROVE  /\ Taken(i, files, Begun)
              /\ \E d \in DOMAIN Visited : i.dir = Visited[d] /\ Passed(d, i.file, b.at)
              /\ IF b.phase /= "visit" /\ AtHand(b, i) THEN i.fingerprint = b.stat
                 ELSE Considered(i, b.candidates, files, today)
  <2>1. CASE i = i0
    <3>1. AtHand(b, i0)
      BY <1>9, <1>10 DEF AtHand, n, dir
    <3>2. Passed(q[1], n, q)
      BY <1>5 DEF Passed, n
    <3> QED BY <1>4, <1>9, <1>10, <1>11, <1>12, <2>1, <3>1, <3>2 DEF dir
  <2>2. CASE i \in a.inventory
    <3>1. /\ Taken(i, files, Begun) /\ Considered(i, a.candidates, files, today)
          /\ \E d \in DOMAIN Visited : i.dir = Visited[d] /\ Passed(d, i.file, at)
      BY <1>1, <1>3, <2>2 DEF AnalysisWell, at, a
    <3>2. i.file \in Names
      BY <3>1 DEF Taken, Begun
    <3>3. PICK d \in DOMAIN Visited : i.dir = Visited[d] /\ Passed(d, i.file, at)
      BY <3>1
    <3>4. Passed(d, i.file, q) /\ ~ AtHand(b, i)
      BY <1>15, <2>2, <3>2, <3>3
    <3> QED BY <1>9, <3>1, <3>3, <3>4
  <2> QED BY <1>9, <2>1, <2>2
<1>17. ASSUME NEW c \in b.candidates
       PROVE  OfInventory(c, b.inventory, files, today)
  <2>1. OfInventory(c, a.inventory, files, today)
    BY <1>3, <1>9 DEF AnalysisWell
  <2> QED BY <1>9, <2>1 DEF OfInventory
<1>18. \E i \in b.inventory :
         /\ AtHand(b, i) /\ i.fingerprint = b.stat
         /\ b.phase = "candidate" /\ Current(i, files) => b.parsed = ParsedOf(i.file, files[i.file])
  <2>1. AtHand(b, i0) /\ i0 \in b.inventory
    BY <1>9, <1>10 DEF AtHand, n, dir
  <2> QED BY <1>9, <1>10, <1>14, <2>1
<1>19. AnalysisWell(b, files, Begun, today, writes)
  <2>1. /\ b.at \in (DOMAIN Visited) \X (Names \cup {0})
        /\ b.now \in 0 .. today /\ b.began \in 0 .. writes
        /\ \A e \in b.entries : EntryWell(e, files, Begun)
    BY <1>3, <1>4, <1>9 DEF AnalysisWell
  <2> QED BY <1>9, <1>12, <1>16, <1>17, <1>18, <2>1 DEF AnalysisWell
<1>20. Undisturbed(b, files, writes)
  <2>1. SUFFICES ASSUME b.began = writes
                 PROVE  /\ \A i \in b.inventory : Current(i, files)
                        /\ \A d \in DOMAIN Visited : \A m \in InDir(Visited[d], files) :
                             Passed(d, m, b.at) =>
                               [file |-> m, dir |-> Visited[d],
                                fingerprint |-> Fingerprint(files[m])] \in b.inventory
                        /\ \A c \in b.candidates : c = CandidateNow(c.file, DirOf(c), b.now, files)
    BY DEF Undisturbed
  <2>2. /\ \A i \in a.inventory : Current(i, files)
        /\ \A d \in DOMAIN Visited : \A m \in InDir(Visited[d], files) :
             Passed(d, m, at) =>
               [file |-> m, dir |-> Visited[d], fingerprint |-> Fingerprint(files[m])] \in a.inventory
        /\ \A c \in a.candidates : c = CandidateNow(c.file, DirOf(c), a.now, files)
    BY <1>3, <1>9, <2>1 DEF Undisturbed, at, a
  <2>3. ASSUME NEW d \in DOMAIN Visited, NEW m \in InDir(Visited[d], files), Passed(d, m, q)
        PROVE  [file |-> m, dir |-> Visited[d], fingerprint |-> Fingerprint(files[m])] \in b.inventory
    <3>1. m \in Names /\ m \in Nat /\ d \in 1 .. 3
      BY <1>5 DEF InDir
    <3>2. CASE Passed(d, m, at)
      BY <1>9, <2>2, <3>2
    <3>3. CASE ~ Passed(d, m, at)
      <4>1. d > at[1] \/ (d = at[1] /\ m > at[2])
        BY <1>5, <3>1, <3>3 DEF Passed
      <4>2. PICK r : r = <<d, m>>
        OBVIOUS
      <4>3. r[1] = d /\ r[2] = m /\ r \in (DOMAIN Visited) \X Names
        BY <3>1, <4>2
      <4>4. r \in Ahead(at)
        BY <4>1, <4>3, InDirectoryIs DEF Ahead
      <4>5. q[1] < d \/ (q[1] = d /\ q[2] <= m)
        BY <1>6, <4>3, <4>4
      <4>6. q[1] = d /\ q[2] = m
        BY <1>5, <2>3, <3>1, <4>5 DEF Passed
      <4>7. [file |-> m, dir |-> Visited[d], fingerprint |-> Fingerprint(files[m])] = i0
        BY <4>6 DEF i0, n, dir, fp
      <4> QED BY <1>9, <4>7
    <3> QED BY <3>2, <3>3
  <2> QED BY <1>9, <1>11, <2>2, <2>3
<1> QED BY <1>1, <1>8, <1>19, <1>20, AnalysisRemembered DEF Goes

\* The positions of an analysis.
LEMMA HandIs ==
  ASSUME Remembered, analysis /= Idle
  PROVE  /\ At = analysis.at[2] /\ AtDir = Visited[analysis.at[1]]
         /\ analysis.at[1] \in DOMAIN Visited
         /\ \A i \in analysis.inventory : AtHand(analysis, i) <=> i.file = At /\ i.dir = AtDir
         /\ \A i : Current(i, files) /\ i.file = At /\ i.dir = AtDir =>
               FileAt(At, AtDir) = files[At] /\ files[At] /= None
<1>1. AnalysisWell(analysis, files, Begun, today, writes)
  BY GoesOn DEF Goes
<1>2. analysis.at[1] \in DOMAIN Visited
  BY <1>1 DEF AnalysisWell
<1>3. At = analysis.at[2] /\ AtDir = Visited[analysis.at[1]]
  BY DEF At, AtDir
<1>4. \A i \in analysis.inventory : AtHand(analysis, i) <=> i.file = At /\ i.dir = AtDir
  BY <1>3 DEF AtHand
<1>5. ASSUME NEW i, Current(i, files), i.file = At, i.dir = AtDir
      PROVE  FileAt(At, AtDir) = files[At] /\ files[At] /= None
  BY <1>5, InDirectoryIs DEF Current, FileAt, InDir
<1> QED BY <1>2, <1>3, <1>4, <1>5

LEMMA ParseKeeps ==
  ASSUME SessionsAssumption, NoneAssumption, World, Remembered, Parse
  PROVE  Remembered'
<1> DEFINE a == analysis
           f == FileAt(At, AtDir)
           parsed == IF f = None THEN None ELSE ParsedOf(At, f)
           entry == EntryFor(parsed)
<1>1. a.phase = "parse" /\ a /= Idle /\ UNCHANGED <<source, cache>>
  BY DEF Parse, Idle
<1>2. AnalysisWell(a, files, Begun, today, writes) /\ Undisturbed(a, files, writes)
  BY <1>1, GoesOn DEF Goes
<1>3. PICK i0 \in a.inventory :
         i0.file = At /\ i0.dir = AtDir /\ i0.fingerprint = a.stat /\ Taken(i0, files, Begun)
  BY <1>1, <1>2, HandIs DEF AnalysisWell
<1>4. f /= None => /\ f = files[At] /\ At \in Names /\ files[At] /= None
                   /\ files[At].tool = AtDir.tool /\ AtDir.tool \in {"codex", "claude"}
  BY <1>1, HandIs, VisitedIs DEF FileAt, InDirectory
<1>5. parsed = None <=> f = None
  BY <1>4, ParsedIs
<1>6. ASSUME NEW i \in a.inventory
      PROVE  /\ Taken(i, files, Begun)
             /\ \E d \in DOMAIN Visited : i.dir = Visited[d] /\ Passed(d, i.file, a.at)
             /\ ~ AtHand(a, i) => Considered(i, a.candidates, files, today)
             /\ AtHand(a, i) => i.fingerprint = a.stat
  BY <1>1, <1>2 DEF AnalysisWell
<1>7. CASE parsed = None
  <2>1. PICK b : b = [a EXCEPT !.phase = "visit"]
    OBVIOUS
  <2>2. analysis' = b
    BY <1>7, <2>1 DEF Parse
  <2>3. /\ b = [at |-> b.at, phase |-> b.phase, shows |-> b.shows, now |-> b.now,
                began |-> b.began, inventory |-> b.inventory, entries |-> b.entries,
                stat |-> b.stat, parsed |-> b.parsed, candidates |-> b.candidates]
        /\ b.phase = "visit" /\ b.at = a.at /\ b.now = a.now /\ b.began = a.began
        /\ b.inventory = a.inventory /\ b.entries = a.entries /\ b.candidates = a.candidates
    BY <1>2, <2>1 DEF AnalysisWell
  <2>4. ASSUME NEW i \in a.inventory
        PROVE  Considered(i, a.candidates, files, today)
    <3>1. CASE AtHand(a, i)
      <4>1. ~ Current(i, files)
        BY <1>1, <1>5, <1>7, <3>1, HandIs
      <4> QED BY <4>1 DEF Considered
    <3> QED BY <1>6, <3>1
  <2> HIDE DEF a, f, parsed, entry
  <2>5. AnalysisWell(b, files, Begun, today, writes)
    <3>1. /\ b.at \in (DOMAIN Visited) \X (Names \cup {0})
          /\ b.now \in 0 .. today /\ b.began \in 0 .. writes
          /\ \A e \in b.entries : EntryWell(e, files, Begun)
          /\ \A c \in b.candidates : OfInventory(c, b.inventory, files, today)
      BY <1>2, <2>3 DEF AnalysisWell
    <3> QED BY <1>6, <2>3, <2>4, <3>1 DEF AnalysisWell
  <2>6. Undisturbed(b, files, writes)
    BY <1>2, <2>3 DEF Undisturbed
  <2> QED BY <1>1, <2>2, <2>5, <2>6, AnalysisRemembered DEF Goes
<1>8. CASE parsed /= None
  <2>1. PICK b : b = [a EXCEPT !.phase = "candidate", !.parsed = parsed,
                               !.entries = {e \in @ : ~(e.file = At /\ e.dir = AtDir)} \cup {entry}]
    OBVIOUS
  <2>2. analysis' = b
    BY <1>8, <2>1 DEF Parse
  <2>3. entry.file = At /\ entry.dir = AtDir /\ entry.fingerprint = a.stat /\ entry.parsed = parsed
    BY DEF EntryFor
  <2>4. f = files[At] /\ parsed = ParsedOf(At, files[At])
    BY <1>4, <1>8
  <2> HIDE DEF parsed, entry, f
  <2>5. /\ b = [at |-> b.at, phase |-> b.phase, shows |-> b.shows, now |-> b.now,
                began |-> b.began, inventory |-> b.inventory, entries |-> b.entries,
                stat |-> b.stat, parsed |-> b.parsed, candidates |-> b.candidates]
        /\ b.phase = "candidate" /\ b.at = a.at /\ b.now = a.now /\ b.began = a.began
        /\ b.inventory = a.inventory /\ b.candidates = a.candidates
        /\ b.stat = a.stat /\ b.parsed = parsed
        /\ b.entries \subseteq a.entries \cup {entry}
    BY <1>2, <2>1 DEF AnalysisWell
  <2>6. EntryWell(entry, files, Begun)
    <3>1. Taken(entry, files, Begun)
      BY <1>3, <2>3 DEF Taken
    <3> QED BY <2>3, <2>4, <3>1 DEF EntryWell
  <2> HIDE DEF a
  <2>7. AnalysisWell(b, files, Begun, today, writes)
    <3>1. /\ b.at \in (DOMAIN Visited) \X (Names \cup {0})
          /\ b.now \in 0 .. today /\ b.began \in 0 .. writes
          /\ \A c \in b.candidates : OfInventory(c, b.inventory, files, today)
      BY <1>2, <2>5 DEF AnalysisWell
    <3>2. \A e \in b.entries : EntryWell(e, files, Begun)
      BY <1>2, <2>5, <2>6 DEF AnalysisWell
    <3>3. \A i : AtHand(b, i) <=> AtHand(a, i)
      BY <2>5 DEF AtHand
    <3>4. \E i \in b.inventory :
             /\ AtHand(b, i) /\ i.fingerprint = b.stat
             /\ b.phase = "candidate" /\ Current(i, files) =>
                   b.parsed = ParsedOf(i.file, files[i.file])
      <4>1. AtHand(a, i0)
        BY <1>1, <1>3, HandIs DEF a
      <4> QED BY <1>3, <2>4, <2>5, <3>3, <4>1
    <3>5. \A i \in b.inventory :
             /\ Taken(i, files, Begun)
             /\ \E d \in DOMAIN Visited : i.dir = Visited[d] /\ Passed(d, i.file, b.at)
             /\ IF b.phase /= "visit" /\ AtHand(b, i) THEN i.fingerprint = b.stat
                ELSE Considered(i, b.candidates, files, today)
      BY <1>6, <2>5, <3>3
    <3> QED BY <2>5, <3>1, <3>2, <3>4, <3>5 DEF AnalysisWell
  <2>8. Undisturbed(b, files, writes)
    BY <1>2, <2>5 DEF Undisturbed
  <2> QED BY <1>1, <2>2, <2>7, <2>8, AnalysisRemembered DEF Goes
<1> QED BY <1>7, <1>8

LEMMA ConsiderKeeps ==
  ASSUME SessionsAssumption, NoneAssumption, World, Remembered, Consider
  PROVE  Remembered'
<1> DEFINE a == analysis
           c0 == Candidate(At, AtDir, a.parsed, FileAt(At, AtDir), a.now)
<1>1. a.phase = "candidate" /\ a /= Idle /\ UNCHANGED <<source, cache>>
  BY DEF Consider, Idle
<1>2. AnalysisWell(a, files, Begun, today, writes) /\ Undisturbed(a, files, writes)
  BY <1>1, GoesOn DEF Goes
<1>3. PICK i0 \in a.inventory :
         /\ i0.file = At /\ i0.dir = AtDir /\ i0.fingerprint = a.stat /\ Taken(i0, files, Begun)
         /\ Current(i0, files) => a.parsed = ParsedOf(At, files[At])
  BY <1>1, <1>2, HandIs DEF AnalysisWell
<1>4. c0.file = At /\ DirOf(c0) = AtDir
  <2>1. AtDir = [tool |-> AtDir.tool, place |-> AtDir.place]
    BY <1>1, HandIs, VisitedIs
  <2> QED BY <2>1 DEF Candidate, DirOf
<1>5. Current(i0, files) => c0 = CandidateNow(At, AtDir, a.now, files)
  BY <1>1, <1>3, HandIs DEF CandidateNow
<1>6. PICK b : b = [a EXCEPT !.phase = "visit", !.parsed = None, !.candidates = @ \cup {c0}]
  OBVIOUS
<1>7. analysis' = b
  BY <1>6 DEF Consider
<1> HIDE DEF c0
<1>8. /\ b = [at |-> b.at, phase |-> b.phase, shows |-> b.shows, now |-> b.now,
              began |-> b.began, inventory |-> b.inventory, entries |-> b.entries,
              stat |-> b.stat, parsed |-> b.parsed, candidates |-> b.candidates]
      /\ b.phase = "visit" /\ b.at = a.at /\ b.now = a.now /\ b.began = a.began
      /\ b.inventory = a.inventory /\ b.entries = a.entries
      /\ b.candidates = a.candidates \cup {c0}
  BY <1>2, <1>6 DEF AnalysisWell
<1>9. a.now \in 0 .. today
  BY <1>2 DEF AnalysisWell
<1>10. ASSUME NEW i \in a.inventory
       PROVE  Considered(i, b.candidates, files, today)
  <2>1. CASE AtHand(a, i)
    <3>1. i.file = At /\ i.dir = AtDir /\ i.fingerprint = a.stat
      BY <1>1, <1>2, <2>1, HandIs DEF AnalysisWell
    <3>2. Current(i, files) => Current(i0, files)
      BY <1>3, <3>1 DEF Current
    <3> QED BY <1>5, <1>8, <1>9, <3>1, <3>2 DEF Considered
  <2>2. CASE ~ AtHand(a, i)
    <3>1. Considered(i, a.candidates, files, today)
      BY <1>1, <1>2, <2>2 DEF AnalysisWell
    <3> QED BY <1>8, <3>1 DEF Considered
  <2> QED BY <2>1, <2>2
<1>11. ASSUME NEW c \in b.candidates
       PROVE  OfInventory(c, a.inventory, files, today)
  <2>1. CASE c = c0
    BY <1>3, <1>4, <1>5, <1>9, <2>1 DEF OfInventory
  <2>2. CASE c \in a.candidates
    BY <1>2, <2>2 DEF AnalysisWell
  <2> QED BY <1>8, <2>1, <2>2
<1>12. AnalysisWell(b, files, Begun, today, writes)
  <2>1. /\ b.at \in (DOMAIN Visited) \X (Names \cup {0})
        /\ b.now \in 0 .. today /\ b.began \in 0 .. writes
        /\ \A e \in b.entries : EntryWell(e, files, Begun)
        /\ \A i \in b.inventory :
             /\ Taken(i, files, Begun)
             /\ \E d \in DOMAIN Visited : i.dir = Visited[d] /\ Passed(d, i.file, b.at)
    BY <1>2, <1>8 DEF AnalysisWell
  <2> HIDE DEF a
  <2> QED BY <1>8, <1>10, <1>11, <2>1 DEF AnalysisWell
<1>13. Undisturbed(b, files, writes)
  <2>1. SUFFICES ASSUME b.began = writes
                 PROVE  \A c \in b.candidates : c = CandidateNow(c.file, DirOf(c), b.now, files)
    BY <1>2, <1>8 DEF Undisturbed
  <2>2. Current(i0, files) /\ \A c \in a.candidates : c = CandidateNow(c.file, DirOf(c), a.now, files)
    BY <1>2, <1>8, <2>1 DEF Undisturbed
  <2> QED BY <1>4, <1>5, <1>8, <2>2
<1> QED BY <1>1, <1>7, <1>12, <1>13, AnalysisRemembered DEF Goes

LEMMA FinishKeeps ==
  ASSUME Remembered, NEW saved, FinishAnalysis(saved)
  PROVE  Remembered'
<1>1. analysis.phase = "visit" /\ analysis /= Idle
  BY DEF FinishAnalysis, Idle
<1>2. AnalysisWell(analysis, files, Begun, today, writes)
  BY <1>1, GoesOn DEF Goes
<1>3. UNCHANGED <<files, talks, today, writes>> /\ cache' \in {Result, cache} /\ analysis' = Idle
  BY DEF FinishAnalysis, source
<1>4. CASE cache' = cache
  BY <1>3, <1>4 DEF Remembered, CacheWell, Analysed, Begun
<1>5. CASE cache' = Result
  <2>1. /\ cache'.entries \subseteq analysis.entries
        /\ cache'.inventory = analysis.inventory
        /\ cache'.candidates = analysis.candidates
    BY <1>5 DEF Result
  <2>2. CacheWell'
    BY <1>1, <1>2, <1>3, <2>1 DEF CacheWell, AnalysisWell, Begun
  <2> QED BY <1>3, <2>2 DEF Remembered, Analysed
<1> QED BY <1>3, <1>4, <1>5

LEMMA QuarantineKeeps ==
  ASSUME World, World', Remembered, NEW keys, Quarantine(keys)
  PROVE  Remembered'
<1>1. /\ UNCHANGED <<today, talks, writes>> /\ UNCHANGED cleanup /\ analysis = Idle
      /\ files' = [n \in Names |-> IF \E c \in Selected(keys) : c.file = n
                                   THEN None ELSE files[n]]
  BY DEF Quarantine
<1>2. /\ today \in Nat /\ today <= today
      /\ files \in [Names -> FilesOf(Names, Directories) \cup {None}]
      /\ files' \in [Names -> FilesOf(Names, Directories) \cup {None}]
      /\ Begun \in SUBSET Names
  BY DEF World, WorldType, Begun
<1>3. KeptFiles(files, files', Begun)
  <2>1. \A n \in Names : files'[n] \in {None, files[n]}
    BY <1>1
  <2> QED BY <1>2, <2>1, Same DEF KeptFiles
<1>4. CacheWell'
  <2>1. \A e \in cache.entries : EntryWell(e, files', Begun)
    BY <1>2, <1>3, EntryStays DEF Remembered, CacheWell, Begun
  <2>2. \A i \in cache.inventory : Taken(i, files, Begun)
    BY DEF Remembered, CacheWell, Begun
  <2>3. ASSUME NEW i \in cache.inventory
        PROVE  Taken(i, files', Begun) /\ Considered(i, cache.candidates, files', today)
    <3>1. Considered(i, cache.candidates, files, today)
      BY DEF Remembered, CacheWell
    <3> QED BY <1>2, <1>3, <2>2, <3>1, StillCurrent, ConsideredStays
  <2>4. ASSUME NEW c \in cache.candidates
        PROVE  OfInventory(c, cache.inventory, files', today)
    <3>1. OfInventory(c, cache.inventory, files, today)
      BY DEF Remembered, CacheWell
    <3> QED BY <1>2, <1>3, <2>2, <3>1, OfInventoryStays
  <2> QED BY <1>1, <2>1, <2>3, <2>4 DEF CacheWell, Begun, cleanup
<1> QED BY <1>1, <1>4 DEF Remembered, Analysed, cleanup

LEMMA InitRemembered ==
  ASSUME Init
  PROVE  Remembered
BY DEF Init, Remembered, CacheWell, Analysed, NoCache

LEMMA StepRemembered ==
  ASSUME SessionsAssumption, NoneAssumption, World, World', Remembered, [Next]_vars
  PROVE  Remembered'
<1>1. CASE Uses
  <2>1. UNCHANGED cleanup
    BY <1>1, UsesLeave
  <2>2. /\ KeptFiles(files, files', Begun) /\ Begun \subseteq Begun' /\ today <= today'
        /\ \/ writes' = writes + 1
           \/ writes' = writes /\ files' = files
    BY <1>1, UsesKept
  <2> QED BY <2>1, <2>2, RememberedStays
<1>2. CASE UNCHANGED <<source, cleanup>>
  BY <1>2 DEF source, cleanup, Remembered, CacheWell, Analysed, Begun
<1>3. CASE Scans
  <2>1. UNCHANGED <<source, cleanup>>
    BY <1>3 DEF Scans, Scan, OpenProject, OpenRecent, Open, ListProjects, ListUsages, LaunchShown
  <2> QED BY <1>2, <2>1
<1>4. CASE Cleanup
  <2>1. ASSUME NEW shows, StartAnalysis(shows)
        PROVE  Remembered'
    BY <2>1, StartKeeps
  <2>2. CASE AnalysisFails
    BY <2>2, AnalysisRemembered DEF AnalysisFails
  <2>3. CASE Stat
    BY <2>3, StatKeeps
  <2>4. CASE Parse
    BY <2>4, ParseKeeps
  <2>5. CASE Consider
    BY <2>5, ConsiderKeeps
  <2>6. ASSUME NEW saved, FinishAnalysis(saved)
        PROVE  Remembered'
    BY <2>6, FinishKeeps
  <2>7. ASSUME NEW keys, Quarantine(keys)
        PROVE  Remembered'
    BY <2>7, QuarantineKeeps
  <2> QED BY <1>4, <2>1, <2>2, <2>3, <2>4, <2>5, <2>6, <2>7 DEF Cleanup
<1>5. CASE UNCHANGED vars
  BY <1>2, <1>5 DEF vars
<1> QED BY <1>1, <1>3, <1>4, <1>5 DEF Next

\* The cleanup remembers only what it saw: as long as a file is what it was
\* when it was inventoried, the candidates are what is parsed of it, however
\* long ago that was, and whatever was written, cleaned, interrupted or left
\* unsaved since.
THEOREM CleanupRemembersWhatItSaw == Spec => []Remembered
<1>1. Init => Remembered
  BY InitRemembered
<1>2. World /\ World' /\ Remembered /\ [Next]_vars => Remembered'
  BY StepRemembered, SessionsAssumption, NoneAssumption
<1> QED BY <1>1, <1>2, FilesTellSessions, PTL DEF Spec

\* The cleanup takes no session away that is recent, current, the latest of
\* its project, the parent of another or without its own parent.
THEOREM NeededSessionsStay == Spec => CleaningKeepsWhatIsNeeded
<1> DEFINE Kind(keys) ==
         Quarantine(keys) =>
           \A n \in Names : Cleans(n) =>
             LET talk == talks[n]
                 there(m) == files[m] /= None /\ talks[m].tool = talk.tool
             IN /\ today - talk.last >= Recent
                /\ talk.tool = "codex" => n /= setup.current
                /\ \A m \in Names : there(m) => talks[m].parent /= n
                /\ talk.parent /= None => there(talk.parent)
                /\ talk.parent = None =>
                     \E m \in Names : /\ there(m) /\ talks[m].parent = None
                                      /\ talks[m].project = talk.project
                                      /\ talks[m].last > talk.last
<1>1. World /\ Remembered /\ [Next]_vars =>
        [\A keys \in SUBSET {c.key : c \in cache.candidates} : Kind(keys)]_vars
  <2> SUFFICES ASSUME World, Remembered, NEW keys
               PROVE  Kind(keys)
    OBVIOUS
  <2>1. CacheWell
    BY DEF Remembered
  <2> QED BY <2>1, CleaningKeeps, SessionsAssumption, NoneAssumption, RulesAssumption
<1> QED BY <1>1, FilesTellSessions, CleanupRemembersWhatItSaw, PTL
        DEF Spec, CleaningKeepsWhatIsNeeded

\* What an analysis ends with, when nothing was written while it ran.
LEMMA FinishIsFresh ==
  ASSUME SessionsAssumption, NoneAssumption, World, Remembered,
         NEW saved, FinishAnalysis(saved), analysis.began = writes
  PROVE  analysis.candidates = FromNothing(analysis.now)
<1> DEFINE a == analysis
           noted(n, d) == [file |-> n, dir |-> Visited[d], fingerprint |-> Fingerprint(files[n])]
<1>1. a.phase = "visit" /\ a /= Idle /\ Ahead(a.at) = {}
  BY DEF FinishAnalysis, Idle
<1>2. AnalysisWell(a, files, Begun, today, writes) /\ Undisturbed(a, files, writes)
  BY <1>1, GoesOn DEF Goes
<1>3. /\ \A i \in a.inventory : Current(i, files)
      /\ \A d \in DOMAIN Visited : \A n \in InDir(Visited[d], files) :
            Passed(d, n, a.at) => noted(n, d) \in a.inventory
      /\ \A c \in a.candidates : c = CandidateNow(c.file, DirOf(c), a.now, files)
  BY <1>2 DEF Undisturbed
<1>4. /\ \A i \in a.inventory : Taken(i, files, Begun) /\ Considered(i, a.candidates, files, today)
      /\ \A c \in a.candidates : OfInventory(c, a.inventory, files, today)
      /\ a.at[1] \in DOMAIN Visited /\ a.at[2] \in Names \cup {0} /\ a.now \in 0 .. today
  BY <1>1, <1>2 DEF AnalysisWell
<1>5. /\ DOMAIN Visited = 1 .. 3 /\ Names \subseteq Nat /\ a.at[1] \in 1 .. 3 /\ a.at[2] \in Nat
      /\ today \in Nat /\ a.now \in Nat
  <2>1. DOMAIN Visited = 1 .. 3 /\ Names \subseteq Nat
    BY VisitedIs, SessionsAssumption
  <2>2. today \in Nat
    BY DEF World, WorldType
  <2>3. a.at[2] \in Nat
    <3>1. a.at[2] \in Names \/ a.at[2] = 0
      BY <1>4
    <3>2. \A n \in Names \cup {0} : n \in Nat
      BY SessionsAssumption
    <3> QED BY <3>1, <3>2, Zenon
  <2>4. a.now \in Nat
    BY <1>4, <2>2
  <2> QED BY <1>4, <2>1, <2>2, <2>3, <2>4
<1> HIDE DEF a
\* The inventory is of all that is there.
<1>6. ASSUME NEW d \in DOMAIN Visited, NEW n \in InDirectory(Visited[d])
      PROVE  noted(n, d) \in a.inventory
  <2>1. n \in InDir(Visited[d], files) /\ n \in Names /\ n \in Nat /\ d \in 1 .. 3
    BY <1>5, InDirectoryIs DEF InDir
  <2>2. PICK r : r = <<d, n>>
    OBVIOUS
  <2>3. r[1] = d /\ r[2] = n /\ r \in (DOMAIN Visited) \X Names
    BY <2>1, <2>2
  <2>4. ~ (d > a.at[1] \/ (d = a.at[1] /\ n > a.at[2]))
    <3>1. r \notin Ahead(a.at)
      BY <1>1 DEF a
    <3> QED BY <2>3, <3>1 DEF Ahead
  <2>5. Passed(d, n, a.at)
    BY <1>5, <2>1, <2>4 DEF Passed
  <2> QED BY <1>3, <2>1, <2>5
<1>7. ASSUME NEW i \in InventoryNow
      PROVE  i \in a.inventory /\ i.file \in Names /\ files[i.file] /= None
             /\ files[i.file].tool \in {"codex", "claude"}
  <2>1. PICK d \in DOMAIN Visited : i \in {noted(n, d) : n \in InDirectory(Visited[d])}
    BY DEF InventoryNow
  <2>2. PICK n \in InDirectory(Visited[d]) : i = noted(n, d)
    BY <2>1
  <2>3. n \in Names /\ files[n] /= None /\ files[n].tool \in {"codex", "claude"}
    BY VisitedIs DEF InDirectory
  <2> QED BY <1>6, <2>2, <2>3
<1>8. ASSUME NEW i \in a.inventory
      PROVE  i.file \in Names /\ i.dir.tool \in {"codex", "claude"}
             /\ i.dir = [tool |-> i.dir.tool, place |-> i.dir.place]
             /\ files[i.file] /= None /\ files[i.file].tool = i.dir.tool
  <2>1. PICK d \in DOMAIN Visited : i.dir = Visited[d]
    BY <1>4 DEF Taken
  <2>2. i.file \in Names /\ files[i.file] /= None /\ files[i.file].tool = i.dir.tool
    BY <1>3 DEF Current, InDir
  <2> QED BY <2>1, <2>2, VisitedIs
\* Of each there is a candidate.
<1>9. ASSUME NEW i \in a.inventory
      PROVE  CandidateNow(i.file, i.dir, a.now, files) \in a.candidates
  <2>1. PICK now \in 0 .. today : CandidateNow(i.file, i.dir, now, files) \in a.candidates
    BY <1>3, <1>4 DEF Considered
  <2>2. PICK c : c = CandidateNow(i.file, i.dir, now, files)
    OBVIOUS
  <2>3. c.file = i.file /\ DirOf(c) = i.dir
    BY <1>8, <2>2 DEF CandidateNow, Candidate, DirOf
  <2>4. c = CandidateNow(c.file, DirOf(c), a.now, files)
    BY <1>3, <2>1, <2>2
  <2> QED BY <2>1, <2>2, <2>3, <2>4
<1>10. ASSUME NEW i \in InventoryNow
       PROVE  ParsedOf(i.file, files[i.file]) /= None
  BY <1>7, ParsedIs
<1>11. ASSUME NEW c \in a.candidates
       PROVE  c \in FromNothing(a.now)
  <2>1. PICK i \in a.inventory : c.file = i.file /\ DirOf(c) = i.dir
    BY <1>4 DEF OfInventory
  <2>2. c = CandidateNow(i.file, i.dir, a.now, files)
    BY <1>3, <2>1
  <2>3. PICK j : j = [file |-> i.file, dir |-> i.dir, fingerprint |-> Fingerprint(files[i.file])]
    OBVIOUS
  <2>4. j \in InventoryNow
    <3>1. PICK d \in DOMAIN Visited : i.dir = Visited[d]
      BY <1>4 DEF Taken
    <3>2. i.file \in InDirectory(Visited[d])
      BY <1>3, <3>1, InDirectoryIs DEF Current
    <3> QED BY <2>3, <3>1, <3>2 DEF InventoryNow
  <2>5. j.file = i.file /\ j.dir = i.dir
    BY <2>3
  <2>6. c = Candidate(j.file, j.dir, ParsedOf(j.file, files[j.file]), files[j.file], a.now)
    BY <2>2, <2>5 DEF CandidateNow
  <2> QED BY <1>10, <2>4, <2>6 DEF FromNothing
<1>12. ASSUME NEW c \in FromNothing(a.now)
       PROVE  c \in a.candidates
  <2>1. PICK i \in InventoryNow :
           c = Candidate(i.file, i.dir, ParsedOf(i.file, files[i.file]), files[i.file], a.now)
    BY DEF FromNothing
  <2>2. i \in a.inventory
    BY <1>7
  <2> QED BY <1>9, <2>1, <2>2 DEF CandidateNow
<1>13. a.candidates = FromNothing(a.now)
  BY <1>11, <1>12
<1> QED BY <1>13 DEF a

\* An analysis that nothing interferes with says what one without a cache
\* would, whatever the earlier ones left in it.
THEOREM AnalysesAreFresh == Spec => AnalysisIsFresh
<1>1. World /\ Remembered =>
        [((\E saved \in BOOLEAN : FinishAnalysis(saved)) /\ analysis.began = writes)
            => analysis.candidates = FromNothing(analysis.now)]_vars
  BY FinishIsFresh, SessionsAssumption, NoneAssumption
<1> QED BY <1>1, FilesTellSessions, CleanupRemembersWhatItSaw, PTL DEF Spec, AnalysisIsFresh

=============================================================================
