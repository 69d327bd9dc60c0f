---------------------------- MODULE Rescan_proofs ----------------------------
(***************************************************************************)
(* Rescans for every set of processes, session files, projects and         *)
(* documents.  A successful scan covers its sessions because a file is     *)
(* always still to do, found, or has not been there and readable.  The     *)
(* content index is sound because ids are given out once, because a row    *)
(* and its entry change together, and because of what a fingerprint is     *)
(* worth: contents read after it was taken are those it stands for, or the *)
(* file will never have that fingerprint again (StandsFor).                *)
(* And a rescan that runs alone leaves what the disk holds because of what *)
(* it knows at each stage (QuietAt), and because no cache has a parse under*)
(* an earlier write than it was taken of (CachesWell).                     *)
(***************************************************************************)
EXTENDS Rescan, FiniteSetTheorems, WellFoundedInduction, TLAPS

-----------------------------------------------------------------------------
(* The inductive invariant.                                                *)

Stages == {"idle", "scan", "record", "open", "wipe", "vacuum", "replace",
           "list", "survey", "read"}

CacheEntries == [file : SessionFiles, fp : Nat, seen : Nat]

Findings == [file : SessionFiles, seen : Nat]

ScanStates == [listed : SUBSET SessionFiles,
               steady : SUBSET SessionFiles,
               todo   : SUBSET SessionFiles,
               read   : Nat,
               found  : SUBSET Findings,
               cache  : SUBSET CacheEntries,
               dirty  : BOOLEAN]

ScansAreTyped ==
    /\ sessions \in [SessionFiles -> Nat]
    /\ cacheFile \subseteq CacheEntries
    /\ stage \in [Jobs -> Stages]
    /\ scan \in [Jobs -> ScanStates]

\* A file that was there and readable all along is still to do or found; a
\* parse that is about to be recorded is found already.  This is what is true
\* at stage l of a scan whose locals are s.
FilesOf(found) == {x.file : x \in found}

Covered(l, s) ==
    /\ l \in {"scan", "record", "open", "wipe", "vacuum", "replace"} =>
          s.steady \subseteq s.todo \cup FilesOf(s.found)
    /\ l = "record" => s.todo # {} /\ Min(s.todo) \in FilesOf(s.found)
    /\ l \in {"open", "wipe", "vacuum", "replace"} => s.todo = {}

Listings == [path : Paths, id : Nat]
Pending  == [doc : Docs, fp : Nat]
Readings == [doc : Docs, fp : Nat, body : Nat]

RefreshStates == [left     : SUBSET Listings,
                  toRead   : SUBSET Pending,
                  retained : SUBSET Docs,
                  read     : SUBSET Readings]

RefreshesAreTyped ==
    /\ clock \in Nat
    /\ docs = [p \in Paths |-> docs[p]]
    /\ \A p \in Paths : docs[p] \in [DocsOf[p] -> 0 .. clock]
    /\ ids \in [row : Nat, project : Nat]
    /\ refresh \in [Jobs -> RefreshStates]

\* Each id is given out once, and never to come again.
IdsAreFresh ==
    /\ \A p \in projects : /\ p = [path |-> p.path, id |-> p.id, seen |-> p.seen]
                           /\ p.path \in Paths /\ p.id \in Nat
                           /\ p.id < ids.project
    /\ \A p, q \in projects : p.id = q.id => p = q
    /\ \A r \in rows : r.id \in Nat /\ r.id < ids.row
    /\ \A r, s \in rows : r.id = s.id => r = s
    /\ \A e \in entries : e.id \in Nat /\ e.id < ids.row
    /\ \A e, x \in entries : e.id = x.id => e = x

\* Contents b of document d, read after its fingerprint fp was taken, where
\* the directory is now tree and the clock c.
StandsFor(tree, c, d, fp, b) ==
    /\ d \in DOMAIN tree
    /\ fp \in 1 .. c
    /\ tree[d] = fp => b = fp

\* A row has its project and its entry, and the entry is of its document.
RowsHaveEntries ==
    /\ \A r \in rows : /\ \E p \in projects : p.id = r.project
                       /\ \E e \in entries : e.id = r.id
    /\ \A r, s \in rows : s.project = r.project /\ s.doc = r.doc => s = r
    /\ \A r \in rows, e \in entries, p \in projects :
          e.id = r.id /\ p.id = r.project =>
             /\ e.doc = r.doc /\ e.path = p.path
             /\ StandsFor(docs[p.path], clock, r.doc, r.fp, e.body)

\* Content of another sanitizer is gone before the content claims this one.
NoOldContent ==
    (SanitizerIsCurrent \/ \E j \in Jobs : stage[j] = "vacuum") =>
        \A e \in entries : e.by = "current"

\* What a refresh has to read and has read of a project: each document once.
ReadsWell(tree, c, toRead, read) ==
    /\ \A t \in toRead : t.doc \in DOMAIN tree /\ t.fp \in 1 .. c
    /\ \A t, u \in toRead : t.doc = u.doc => t = u
    /\ \A x \in read : StandsFor(tree, c, x.doc, x.fp, x.body)
    /\ \A x, y \in read : x.doc = y.doc => x = y
    /\ \A t \in toRead, x \in read : t.doc # x.doc

\* A refresh knows its projects by ids that are theirs as long as they are
\* listed; n is the next id of a project.
LeftWell(left, table, n) ==
    \A p \in left : /\ p.id < n
                   /\ \A q \in table : q.id = p.id => q.path = p.path

NextOf(left) == CHOOSE p \in left : \A q \in left : p.id <= q.id

\* What is true at stage l of a refresh whose locals are r.
RefreshWell(l, r, trees, c) ==
    /\ l # "read" => r.read = {}
    /\ l = "read" => /\ r.left # {}
                     /\ ReadsWell(trees[NextOf(r.left).path], c,
                                  r.toRead, r.read)

RefreshesWell ==
    \A j \in Jobs : /\ LeftWell(refresh[j].left, projects, ids.project)
                    /\ RefreshWell(stage[j], refresh[j], docs, clock)

IInv ==
    /\ ScansAreTyped
    /\ \A j \in Jobs : Covered(stage[j], scan[j])
    /\ RefreshesAreTyped
    /\ IdsAreFresh
    /\ RowsHaveEntries
    /\ NoOldContent
    /\ RefreshesWell

-----------------------------------------------------------------------------
(* Lemmas about smallest elements and about numbering the elements of a set.*)

LEMMA SmallestOne ==
  ASSUME NEW S \in SUBSET Nat, S # {}
  PROVE  \E x \in S : \A y \in S : x <= y
<1> DEFINE T == {0 .. x : x \in S}
<1>1. T \subseteq FiniteSubsetsOf(Nat)
  <2>1. \A x \in S : IsFiniteSet(0 .. x)
    BY FS_Interval
  <2> QED BY <2>1 DEF FiniteSubsetsOf
<1>2. T # {}
  OBVIOUS
<1>3. PICK U \in T : \A V \in T : ~ (<<V, U>> \in StrictSubsetOrdering(Nat))
  <2> HIDE DEF T
  <2> QED BY <1>1, <1>2, FS_StrictSubsetOrderingWellFounded, WFMin
<1>4. PICK x \in S : U = 0 .. x
  OBVIOUS
<1>5. ASSUME NEW y \in S, y < x
      PROVE  FALSE
  <2>1. <<0 .. y, 0 .. x>> \in StrictSubsetOrdering(Nat)
    BY <1>5 DEF StrictSubsetOrdering
  <2> QED BY <1>3, <1>4, <2>1
<1>6. \A y \in S : x <= y
  BY <1>5
<1> QED BY <1>6

LEMMA MinIsSmallest ==
  ASSUME NEW S \in SUBSET Nat, S # {}
  PROVE  Min(S) \in S /\ \A y \in S : Min(S) <= y
<1>1. PICK x \in S : \A y \in S : x =< y
  BY SmallestOne
<1> QED BY <1>1 DEF Min

LEMMA NextIsLeft ==
  ASSUME NEW left, left # {}, \A p \in left : p.id \in Nat
  PROVE  NextOf(left) \in left
<1> DEFINE I == {p.id : p \in left}
<1>1. PICK i \in I : \A k \in I : i <= k
  BY SmallestOne
<1>2. PICK p \in left : p.id = i
  OBVIOUS
<1>3. \A q \in left : p.id <= q.id
  BY <1>1, <1>2
<1> QED BY <1>3 DEF NextOf

LEMMA NextDocIsToRead ==
  ASSUME NEW j, refresh[j].toRead # {}, \A t \in refresh[j].toRead : t.doc \in Nat
  PROVE  NextDoc(j) \in refresh[j].toRead
<1> DEFINE left == refresh[j].toRead
           I == {t.doc : t \in left}
<1>1. PICK i \in I : \A k \in I : i <= k
  BY SmallestOne
<1>2. PICK t \in left : t.doc = i
  OBVIOUS
<1>3. \A u \in left : t.doc <= u.doc
  BY <1>1, <1>2
<1> QED BY <1>3 DEF NextDoc

\* Counting those before it numbers the elements of a finite set.
Before(N, d) == {e \in N : e < d}

LEMMA Numbered ==
  ASSUME NEW N \in SUBSET Nat, IsFiniteSet(N)
  PROVE  /\ Cardinality(N) \in Nat
         /\ \A d \in N : /\ Cardinality(Before(N, d)) \in Nat
                         /\ Cardinality(Before(N, d)) < Cardinality(N)
         /\ \A d, e \in N :
               Cardinality(Before(N, d)) = Cardinality(Before(N, e)) => d = e
<1>1. Cardinality(N) \in Nat
  BY FS_CardinalityType
<1>2. ASSUME NEW d \in N
      PROVE  /\ IsFiniteSet(Before(N, d))
             /\ Cardinality(Before(N, d)) \in Nat
             /\ Cardinality(Before(N, d)) < Cardinality(N)
  <2>1. Before(N, d) \subseteq N /\ d \notin Before(N, d)
    BY DEF Before
  <2>2. /\ IsFiniteSet(Before(N, d))
        /\ Cardinality(Before(N, d)) <= Cardinality(N)
        /\ Cardinality(Before(N, d)) # Cardinality(N)
    BY <2>1, FS_Subset
  <2>3. Cardinality(Before(N, d)) \in Nat
    BY <2>2, FS_CardinalityType
  <2> QED BY <1>1, <2>2, <2>3
<1>3. ASSUME NEW d \in N, NEW e \in N, d < e
      PROVE  Cardinality(Before(N, d)) # Cardinality(Before(N, e))
  <2>1. \A x \in N : x \in Nat
    OBVIOUS
  <2>2. \A x \in N : x < d => x < e
    BY <1>3, <2>1
  <2>3. ~ (d < d)
    BY <2>1
  <2>4. Before(N, d) \subseteq Before(N, e)
    BY <2>2 DEF Before
  <2>5. Before(N, d) # Before(N, e)
    BY <1>3, <2>3 DEF Before
  <2>6. IsFiniteSet(Before(N, e))
    BY <1>2
  <2>7. Cardinality(Before(N, e)) = Cardinality(Before(N, d))
           => Before(N, e) = Before(N, d)
    BY <2>4, <2>6, FS_Subset
  <2> QED BY <2>5, <2>7
<1>4. ASSUME NEW d \in N, NEW e \in N, d # e
      PROVE  Cardinality(Before(N, d)) # Cardinality(Before(N, e))
  BY <1>3, <1>4
<1> QED BY <1>1, <1>2, <1>4

-----------------------------------------------------------------------------
(* The scans.                                                              *)

ScansWell ==
    /\ ScansAreTyped
    /\ \A j \in Jobs : Covered(stage[j], scan[j])

\* Job j goes to stage l, and the locals of its scan are s from then on.
ScanStep(j, l, s) ==
    /\ stage' = [stage EXCEPT ![j] = l]
    /\ scan' = [scan EXCEPT ![j] = s]
    /\ l \in Stages /\ s \in ScanStates /\ Covered(l, s)
    /\ sessions' = sessions
    /\ cacheFile' \subseteq CacheEntries

LEMMA ScanMoves ==
  ASSUME ScansWell, NEW j \in Jobs, NEW l, NEW s, ScanStep(j, l, s)
  PROVE  ScansWell'
<1>1. /\ stage \in [Jobs -> Stages] /\ scan \in [Jobs -> ScanStates]
      /\ sessions \in [SessionFiles -> Nat]
  BY DEF ScansWell, ScansAreTyped
<1>2. /\ stage' = [stage EXCEPT ![j] = l] /\ scan' = [scan EXCEPT ![j] = s]
      /\ l \in Stages /\ s \in ScanStates /\ Covered(l, s)
      /\ sessions' = sessions /\ cacheFile' \subseteq CacheEntries
  BY DEF ScanStep
<1>3. stage' \in [Jobs -> Stages] /\ scan' \in [Jobs -> ScanStates]
  BY <1>1, <1>2
<1>4. ASSUME NEW k \in Jobs
      PROVE  Covered(stage'[k], scan'[k])
  <2>1. CASE k = j
    BY <1>1, <1>2, <2>1
  <2>2. CASE k # j
    <3>1. stage'[k] = stage[k] /\ scan'[k] = scan[k]
      BY <1>1, <1>2, <2>2
    <3>2. Covered(stage[k], scan[k])
      BY DEF ScansWell
    <3> QED BY <3>1, <3>2
  <2> QED BY <2>1, <2>2
<1> QED BY <1>1, <1>2, <1>3, <1>4 DEF ScansWell, ScansAreTyped, Covered

LEMMA NoScanType == NoScan \in ScanStates /\ Covered("idle", NoScan)
BY DEF NoScan, ScanStates, Covered

\* A rescan that ends or fails, at whatever stage.
LEMMA EndsScan ==
  ASSUME ScansWell, NEW j \in Jobs, Ends(j), UNCHANGED <<sessions, cacheFile>>
  PROVE  ScansWell'
<1>1. ScanStep(j, "idle", NoScan)
  BY NoScanType DEF ScanStep, Ends, Stages, ScansWell, ScansAreTyped
<1> QED BY <1>1, ScanMoves

\* The stages after the scan keep its findings or need them no more.
LEMMA OnlyStageMoves ==
  ASSUME ScansWell, NEW j \in Jobs, NEW l \in Stages,
         stage' = [stage EXCEPT ![j] = l],
         UNCHANGED <<scan, sessions, cacheFile>>,
         \/ l \in {"list", "survey", "read"}
         \/ /\ l \in {"wipe", "vacuum", "replace"}
            /\ stage[j] \in {"open", "wipe", "vacuum", "replace"}
  PROVE  ScansWell'
<1>1. /\ scan[j] \in ScanStates /\ Covered(stage[j], scan[j])
      /\ scan = [scan EXCEPT ![j] = scan[j]] /\ cacheFile \subseteq CacheEntries
  BY DEF ScansWell, ScansAreTyped
<1>2. Covered(l, scan[j])
  BY <1>1 DEF Covered
<1>3. ScanStep(j, l, scan[j])
  BY <1>1, <1>2 DEF ScanStep
<1> QED BY <1>3, ScanMoves

\* What the scan of job j does in a step: the locals it goes on with.
LEMMA EnumerateDoes ==
  ASSUME ScansWell, NEW j \in Jobs, Enumerate(j)
  PROVE  \E s : /\ ScanStep(j, "scan", s)
                /\ s.steady = Present(sessions) /\ s.todo = Present(sessions)
                /\ s.cache = Retained(cacheFile, Present(sessions))
                /\ s.found = {} /\ s.read = 0
<1> DEFINE listed == Present(sessions)
           cache == Retained(cacheFile, listed)
           s == [NoScan EXCEPT !.listed = listed, !.steady = listed,
                               !.todo = listed, !.cache = cache,
                               !.dirty = cache # cacheFile]
<1>1. listed \subseteq SessionFiles /\ cache \subseteq CacheEntries
  BY DEF ScansWell, ScansAreTyped, Present, Retained
<1>3. stage' = [stage EXCEPT ![j] = "scan"] /\ scan' = [scan EXCEPT ![j] = s]
      /\ UNCHANGED <<sessions, cacheFile>>
  BY DEF Enumerate, files
<1> HIDE DEF cache, listed
<1>4. /\ s \in ScanStates /\ s.steady = listed /\ s.todo = listed
      /\ s.cache = cache /\ s.found = {} /\ s.read = 0
  BY <1>1 DEF NoScan, ScanStates
<1> HIDE DEF s
<1>5. Covered("scan", s)
  BY <1>4 DEF Covered
<1>6. ScanStep(j, "scan", s)
  BY <1>3, <1>4, <1>5 DEF ScanStep, Stages, ScansWell, ScansAreTyped
<1> QED BY <1>4, <1>6 DEF listed, cache

\* One file fewer to do, and found, or not there and readable all along.
LEMMA OneFileDone ==
  ASSUME NEW s \in ScanStates, NEW l \in {"scan", "record"}, Covered(l, s),
         NEW f \in SessionFiles, NEW found \in SUBSET Findings,
         NEW steady \in SUBSET SessionFiles,
         s.found \subseteq found,
         (f \in FilesOf(found) /\ steady = s.steady) \/ steady = s.steady \ {f}
  PROVE  steady \subseteq (s.todo \ {f}) \cup FilesOf(found)
BY DEF Covered, FilesOf

LEMMA NextFile ==
  ASSUME RescanAssumption, ScansWell, NEW j \in Jobs, scan[j].todo # {}
  PROVE  Min(scan[j].todo) \in scan[j].todo /\ Min(scan[j].todo) \in SessionFiles
<1>1. scan[j].todo \subseteq SessionFiles
  BY DEF ScansWell, ScansAreTyped, ScanStates
<1>2. scan[j].todo \in SUBSET Nat
  BY <1>1 DEF RescanAssumption
<1> QED BY <1>1, <1>2, MinIsSmallest

LEMMA UseCacheDoes ==
  ASSUME RescanAssumption, ScansWell, NEW j \in Jobs, UseCache(j)
  PROVE  \E s : \E e \in Hits(scan[j].cache, Min(scan[j].todo)) :
            /\ ScanStep(j, "scan", s) /\ s.steady = scan[j].steady
            /\ s.todo = scan[j].todo \ {Min(scan[j].todo)}
            /\ s.found = scan[j].found \cup {Finding(Min(scan[j].todo), e.seen)}
            /\ s.cache = scan[j].cache /\ s.read = scan[j].read
<1> DEFINE f == Min(scan[j].todo)
<1>1. PICK e \in Hits(scan[j].cache, f) :
         scan' = [scan EXCEPT ![j].todo = @ \ {f},
                              ![j].found = @ \cup {Finding(f, e.seen)}]
  BY DEF UseCache
<1>2. /\ stage[j] = "scan" /\ scan[j].todo # {}
      /\ UNCHANGED <<sessions, cacheFile, stage>>
  BY DEF UseCache, files
<1>3. /\ scan \in [Jobs -> ScanStates] /\ stage \in [Jobs -> Stages]
      /\ cacheFile \subseteq CacheEntries /\ Covered("scan", scan[j])
  BY <1>2 DEF ScansWell, ScansAreTyped
<1>4. f \in SessionFiles
  BY <1>2, NextFile
<1>5. e.seen \in Nat
  BY <1>3 DEF Hits, EntryFor, ScanStates, CacheEntries
<1> HIDE DEF f
<1> DEFINE found == scan[j].found \cup {Finding(f, e.seen)}
           s == [scan[j] EXCEPT !.todo = scan[j].todo \ {f}, !.found = found]
<1>6. /\ found \in SUBSET Findings
      /\ f \in FilesOf(found) /\ scan[j].found \subseteq found
  <2>1. Finding(f, e.seen) \in Findings /\ Finding(f, e.seen).file = f
    BY <1>4, <1>5 DEF Finding, Findings
  <2>2. scan[j].found \in SUBSET Findings
    BY <1>3 DEF ScanStates
  <2> QED BY <2>1, <2>2 DEF FilesOf
<1>7. scan' = [scan EXCEPT ![j] = s]
  BY <1>1, <1>3
<1>8. /\ s.todo = scan[j].todo \ {f} /\ s.found = found
      /\ s.steady = scan[j].steady /\ s.cache = scan[j].cache
      /\ s.read = scan[j].read
  BY <1>3 DEF ScanStates
<1>9. s \in ScanStates
  <2>1. scan[j] \in ScanStates
    BY <1>3
  <2> HIDE DEF found
  <2> QED BY <1>6, <2>1 DEF ScanStates
<1> HIDE DEF found, s
<1>10. scan[j].steady \subseteq (scan[j].todo \ {f}) \cup FilesOf(found)
  <2>1. scan[j].steady \in SUBSET SessionFiles
    BY <1>3 DEF ScanStates
  <2> QED BY <1>3, <1>4, <1>6, <2>1, OneFileDone
<1>11. Covered("scan", s)
  BY <1>8, <1>10 DEF Covered
<1>12. ScanStep(j, "scan", s)
  BY <1>2, <1>3, <1>7, <1>9, <1>11 DEF ScanStep, Stages
<1> QED BY <1>8, <1>12 DEF f, found

LEMMA ParseDoes ==
  ASSUME RescanAssumption, ScansWell, NEW j \in Jobs, Parse(j)
  PROVE  \E s : \E l \in {"scan", "record"} :
            /\ ScanStep(j, l, s) /\ s.steady = scan[j].steady
            /\ s.todo = IF l = "scan" THEN scan[j].todo \ {Min(scan[j].todo)}
                        ELSE scan[j].todo
            /\ s.read = IF l = "scan" THEN scan[j].read
                        ELSE sessions[Min(scan[j].todo)]
            /\ s.found = scan[j].found \cup
                   {Finding(Min(scan[j].todo), sessions[Min(scan[j].todo)])}
            /\ s.cache = scan[j].cache
<1> DEFINE f == Min(scan[j].todo)
<1>1. /\ stage[j] = "scan" /\ scan[j].todo # {}
      /\ UNCHANGED <<sessions, cacheFile>>
      /\ \/ /\ scan' = [scan EXCEPT ![j].read = sessions[f],
                           ![j].found = @ \cup {Finding(f, sessions[f])}]
            /\ stage' = [stage EXCEPT ![j] = "record"]
         \/ /\ scan' = [scan EXCEPT ![j].todo = @ \ {f},
                           ![j].found = @ \cup {Finding(f, sessions[f])}]
            /\ stage' = stage
  BY DEF Parse, files
<1>2. /\ scan \in [Jobs -> ScanStates] /\ stage \in [Jobs -> Stages]
      /\ cacheFile \subseteq CacheEntries /\ Covered("scan", scan[j])
      /\ sessions \in [SessionFiles -> Nat]
  BY <1>1 DEF ScansWell, ScansAreTyped
<1>3. f \in SessionFiles /\ f \in scan[j].todo
  BY <1>1, NextFile
<1>4. sessions[f] \in Nat
  BY <1>2, <1>3
<1> DEFINE found == scan[j].found \cup {Finding(f, sessions[f])}
           r == [scan[j] EXCEPT !.read = sessions[f], !.found = found]
           s == [scan[j] EXCEPT !.todo = scan[j].todo \ {f}, !.found = found]
<1>5. f = Min(scan[j].todo)
  OBVIOUS
<1> HIDE DEF f
<1>6. /\ found \in SUBSET Findings
      /\ f \in FilesOf(found) /\ scan[j].found \subseteq found
  <2>1. Finding(f, sessions[f]) \in Findings /\ Finding(f, sessions[f]).file = f
    BY <1>3, <1>4 DEF Finding, Findings
  <2>2. scan[j].found \in SUBSET Findings
    BY <1>2 DEF ScanStates
  <2> QED BY <2>1, <2>2 DEF FilesOf
<1>7. FilesOf(scan[j].found) \subseteq FilesOf(found)
  BY <1>6 DEF FilesOf
<1>8. scan[j].steady \subseteq (scan[j].todo \ {f}) \cup FilesOf(found)
  <2> HIDE DEF found
  <2>1. scan[j].steady \in SUBSET SessionFiles
    BY <1>2 DEF ScanStates
  <2> QED BY <1>2, <1>3, <1>6, <2>1, OneFileDone
<1>9. CASE /\ scan' = [scan EXCEPT ![j].read = sessions[f],
                           ![j].found = @ \cup {Finding(f, sessions[f])}]
           /\ stage' = [stage EXCEPT ![j] = "record"]
  <2>1. scan' = [scan EXCEPT ![j] = r]
    BY <1>2, <1>9
  <2>2. /\ r.todo = scan[j].todo /\ r.found = found
        /\ r.steady = scan[j].steady /\ r.cache = scan[j].cache
        /\ r.read = sessions[f]
    BY <1>2 DEF ScanStates
  <2>3. r \in ScanStates
    <3>1. scan[j] \in ScanStates
      BY <1>2
    <3> HIDE DEF found
    <3> QED BY <1>4, <1>6, <3>1 DEF ScanStates
  <2> HIDE DEF r, found
  <2>4. Covered("record", r)
    BY <1>1, <1>5, <1>6, <1>8, <2>2 DEF Covered
  <2>5. ScanStep(j, "record", r)
    BY <1>1, <1>2, <1>9, <2>1, <2>3, <2>4 DEF ScanStep, Stages
  <2> QED BY <1>5, <2>2, <2>5 DEF found
<1>10. CASE /\ scan' = [scan EXCEPT ![j].todo = @ \ {f},
                           ![j].found = @ \cup {Finding(f, sessions[f])}]
            /\ stage' = stage
  <2>1. scan' = [scan EXCEPT ![j] = s]
    BY <1>2, <1>10
  <2>2. /\ s.todo = scan[j].todo \ {f} /\ s.found = found
        /\ s.steady = scan[j].steady /\ s.cache = scan[j].cache
        /\ s.read = scan[j].read
    BY <1>2 DEF ScanStates
  <2>3. s \in ScanStates
    <3>1. scan[j] \in ScanStates
      BY <1>2
    <3> HIDE DEF found
    <3> QED BY <1>6, <3>1 DEF ScanStates
  <2> HIDE DEF s, found
  <2>4. Covered("scan", s)
    BY <1>8, <2>2 DEF Covered
  <2>5. ScanStep(j, "scan", s)
    BY <1>1, <1>2, <1>10, <2>1, <2>3, <2>4 DEF ScanStep, Stages
  <2> QED BY <1>5, <2>2, <2>5 DEF found
<1> QED BY <1>1, <1>5, <1>9, <1>10

LEMMA UnreadableDoes ==
  ASSUME RescanAssumption, ScansWell, NEW j \in Jobs, Unreadable(j)
  PROVE  \E s : /\ ScanStep(j, "scan", s)
                /\ s.cache = scan[j].cache /\ s.read = scan[j].read
<1> DEFINE f == Min(scan[j].todo)
           s == [scan[j] EXCEPT !.todo = scan[j].todo \ {f},
                                !.steady = scan[j].steady \ {f}]
<1>1. /\ stage[j] = "scan" /\ scan[j].todo # {}
      /\ UNCHANGED <<sessions, cacheFile, stage>>
      /\ scan' = [scan EXCEPT ![j].todo = @ \ {f}, ![j].steady = @ \ {f}]
  BY DEF Unreadable, files
<1>2. /\ scan \in [Jobs -> ScanStates] /\ stage \in [Jobs -> Stages]
      /\ cacheFile \subseteq CacheEntries /\ Covered("scan", scan[j])
  BY <1>1 DEF ScansWell, ScansAreTyped
<1> HIDE DEF f
<1>3. scan' = [scan EXCEPT ![j] = s]
  BY <1>1, <1>2
<1>4. /\ s.todo = scan[j].todo \ {f} /\ s.found = scan[j].found
      /\ s.steady = scan[j].steady \ {f} /\ s \in ScanStates
      /\ s.cache = scan[j].cache /\ s.read = scan[j].read
  BY ZenonT(40), <1>2 DEF ScanStates
<1> HIDE DEF s
<1>5. Covered("scan", s)
  BY <1>2, <1>4 DEF Covered
<1>6. ScanStep(j, "scan", s)
  BY <1>1, <1>2, <1>3, <1>4, <1>5 DEF ScanStep, Stages
<1> QED BY <1>4, <1>6

\* The cache of a scan that has parsed f as of n into seen.
Recorded(cache, f, n, seen) ==
    IF n = 0 THEN cache
    ELSE (cache \ EntryFor(cache, f)) \cup {[file |-> f, fp |-> n, seen |-> seen]}

LEMMA RecordDoes ==
  ASSUME RescanAssumption, ScansWell, NEW j \in Jobs, Record(j)
  PROVE  \E s : /\ ScanStep(j, "scan", s) /\ s.steady = scan[j].steady
                /\ s.todo = scan[j].todo \ {Min(scan[j].todo)}
                /\ s.found = scan[j].found /\ s.read = 0
                /\ s.cache = Recorded(scan[j].cache, Min(scan[j].todo),
                                      sessions[Min(scan[j].todo)], scan[j].read)
<1> DEFINE f == Min(scan[j].todo)
           e == [file |-> f, fp |-> sessions[f], seen |-> scan[j].read]
           cache == Recorded(scan[j].cache, f, sessions[f], scan[j].read)
           dirty == scan[j].dirty \/ sessions[f] # 0
           s == [scan[j] EXCEPT !.todo = scan[j].todo \ {f}, !.read = 0,
                                !.cache = cache, !.dirty = dirty]
<1>1. /\ stage[j] = "record" /\ stage' = [stage EXCEPT ![j] = "scan"]
      /\ UNCHANGED <<sessions, cacheFile>>
      /\ scan' = [scan EXCEPT ![j].todo = @ \ {f}, ![j].read = 0,
           ![j].cache = IF sessions[f] = 0 THEN @
                        ELSE (@ \ EntryFor(@, f)) \cup {e},
           ![j].dirty = @ \/ sessions[f] # 0]
  BY DEF Record, files
<1>2. /\ scan \in [Jobs -> ScanStates] /\ stage \in [Jobs -> Stages]
      /\ cacheFile \subseteq CacheEntries /\ Covered("record", scan[j])
      /\ sessions \in [SessionFiles -> Nat]
  BY <1>1 DEF ScansWell, ScansAreTyped
<1>3. f \in SessionFiles /\ f \in FilesOf(scan[j].found)
  BY <1>2, NextFile DEF Covered
<1>4. e \in CacheEntries
  BY <1>2, <1>3 DEF CacheEntries, ScanStates
<1>4a. cache = IF sessions[f] = 0 THEN scan[j].cache
               ELSE (scan[j].cache \ EntryFor(scan[j].cache, f)) \cup {e}
  BY DEF Recorded
<1> HIDE DEF f, e, cache
<1>5. cache \subseteq CacheEntries /\ dirty \in BOOLEAN
  BY <1>2, <1>4, <1>4a DEF ScanStates
<1>6. scan' = [scan EXCEPT ![j] = s]
  BY <1>1, <1>2, <1>4a
<1> HIDE DEF dirty
<1>7. /\ s.todo = scan[j].todo \ {f} /\ s.found = scan[j].found
      /\ s.steady = scan[j].steady /\ s \in ScanStates
      /\ s.cache = cache /\ s.read = 0
  <2>1. scan[j] \in ScanStates
    BY <1>2
  <2> QED BY <1>5, <2>1 DEF ScanStates
<1> HIDE DEF s
<1>8. Covered("scan", s)
  BY <1>2, <1>3, <1>7 DEF Covered
<1>9. ScanStep(j, "scan", s)
  BY <1>1, <1>2, <1>6, <1>7, <1>8 DEF ScanStep, Stages
<1> QED BY <1>7, <1>9 DEF f, cache

LEMMA CompleteDoes ==
  ASSUME ScansWell, NEW j \in Jobs, Complete(j)
  PROVE  \E s : /\ ScanStep(j, "open", s) /\ s.steady = scan[j].steady
                /\ s.found = scan[j].found /\ s.read = scan[j].read
                /\ s.cache = {}
<1> DEFINE s == [scan[j] EXCEPT !.cache = {}, !.dirty = FALSE]
<1>1. /\ stage[j] = "scan" /\ stage' = [stage EXCEPT ![j] = "open"]
      /\ scan[j].todo = {}
      /\ cacheFile' = scan[j].cache \/ cacheFile' = cacheFile
      /\ UNCHANGED sessions
      /\ scan' = [scan EXCEPT ![j].cache = {}, ![j].dirty = FALSE]
  BY DEF Complete, files
<1>2. /\ scan \in [Jobs -> ScanStates] /\ stage \in [Jobs -> Stages]
      /\ cacheFile \subseteq CacheEntries /\ Covered("scan", scan[j])
  BY <1>1 DEF ScansWell, ScansAreTyped
<1>3. cacheFile' \subseteq CacheEntries
  BY <1>1, <1>2 DEF ScanStates
<1>4. scan' = [scan EXCEPT ![j] = s]
  BY <1>1, <1>2
<1>5. /\ s.todo = {} /\ s.found = scan[j].found
      /\ s.steady = scan[j].steady /\ s \in ScanStates
      /\ s.read = scan[j].read /\ s.cache = {}
  BY <1>1, <1>2 DEF ScanStates
<1> HIDE DEF s
<1>6. Covered("open", s)
  BY <1>1, <1>2, <1>5 DEF Covered
<1>7. ScanStep(j, "open", s)
  BY <1>1, <1>3, <1>4, <1>5, <1>6 DEF ScanStep, Stages
<1> QED BY <1>5, <1>7

LEMMA ReplaceScans ==
  ASSUME ScansWell, NEW j \in Jobs, ReplaceProjects(j)
  PROVE  ScansWell'
<1>1. PICK l \in {"list", "idle"} : stage' = [stage EXCEPT ![j] = l]
  BY DEF ReplaceProjects
<1>2. scan' = [scan EXCEPT ![j] = NoScan] /\ UNCHANGED <<sessions, cacheFile>>
  BY DEF ReplaceProjects, files
<1>3. Covered(l, NoScan) /\ l \in Stages
  BY DEF Covered, NoScan, Stages
<1>4. ScanStep(j, l, NoScan)
  BY <1>1, <1>2, <1>3, NoScanType DEF ScanStep, ScansWell, ScansAreTyped
<1> QED BY <1>4, ScanMoves

\* A file that is deleted need not be covered any more.
LEMMA DeleteSessionScans ==
  ASSUME ScansWell, NEW f \in SessionFiles, DeleteSession(f)
  PROVE  ScansWell'
<1>1. /\ stage \in [Jobs -> Stages] /\ scan \in [Jobs -> ScanStates]
      /\ sessions \in [SessionFiles -> Nat] /\ cacheFile \subseteq CacheEntries
  BY DEF ScansWell, ScansAreTyped
<1>2. /\ sessions' = [sessions EXCEPT ![f] = 0]
      /\ scan' = [j \in Jobs |-> [scan[j] EXCEPT !.steady = @ \ {f}]]
      /\ UNCHANGED <<stage, cacheFile>>
  BY DEF DeleteSession
<1>3. ASSUME NEW j \in Jobs
      PROVE  scan'[j] \in ScanStates /\ Covered(stage[j], scan'[j])
  <2> DEFINE s == [scan[j] EXCEPT !.steady = scan[j].steady \ {f}]
  <2>1. scan[j] \in ScanStates /\ Covered(stage[j], scan[j]) /\ scan'[j] = s
    BY <1>1, <1>2 DEF ScansWell
  <2>2. /\ s \in ScanStates /\ s.todo = scan[j].todo
        /\ s.found = scan[j].found /\ s.steady = scan[j].steady \ {f}
    BY <2>1 DEF ScanStates
  <2> HIDE DEF s
  <2>3. Covered(stage[j], s)
    BY <2>1, <2>2 DEF Covered
  <2> QED BY <2>1, <2>2, <2>3
<1>4. scan' \in [Jobs -> ScanStates]
  BY <1>2, <1>3
<1>5. sessions' \in [SessionFiles -> Nat]
  BY <1>1, <1>2
<1> QED BY <1>1, <1>2, <1>3, <1>4, <1>5 DEF ScansWell, ScansAreTyped, Covered

LEMMA OtherWritesScan ==
  ASSUME ScansWell, UNCHANGED <<stage, scan, cacheFile>>,
         sessions' \in [SessionFiles -> Nat]
  PROVE  ScansWell'
BY DEF ScansWell, ScansAreTyped, Covered

-----------------------------------------------------------------------------
(* The tables and the refreshes.                                           *)

TablesWell ==
    /\ RefreshesAreTyped
    /\ IdsAreFresh
    /\ RowsHaveEntries
    /\ NoOldContent
    /\ RefreshesWell

LEMMA Parts == IInv <=> ScansWell /\ TablesWell
BY DEF IInv, ScansWell, TablesWell

\* Time passes, and a document gets no fingerprint it has had before.
DocsMove ==
    /\ clock \in Nat /\ clock' \in Nat /\ clock <= clock'
    /\ docs' = [p \in Paths |-> docs'[p]]
    /\ \A p \in Paths : docs'[p] \in [DocsOf[p] -> 0 .. clock']
    /\ \A p \in Paths : \A d \in DocsOf[p] :
          docs'[p][d] = docs[p][d] \/ docs'[p][d] \notin 1 .. clock

LEMMA StandsStill ==
  ASSUME DocsMove, RefreshesAreTyped, NEW p \in Paths, NEW d, NEW fp, NEW b,
         StandsFor(docs[p], clock, d, fp, b)
  PROVE  StandsFor(docs'[p], clock', d, fp, b)
BY DEF DocsMove, StandsFor, RefreshesAreTyped

LEMMA ReadsStill ==
  ASSUME DocsMove, RefreshesAreTyped, NEW p \in Paths, NEW toRead, NEW read,
         ReadsWell(docs[p], clock, toRead, read)
  PROVE  ReadsWell(docs'[p], clock', toRead, read)
<1>1. \A x \in read : StandsFor(docs'[p], clock', x.doc, x.fp, x.body)
  BY StandsStill DEF ReadsWell
<1>2. \A t \in toRead : t.doc \in DOMAIN docs'[p] /\ t.fp \in 1 .. clock'
  BY DEF ReadsWell, DocsMove, RefreshesAreTyped
<1> QED BY <1>1, <1>2 DEF ReadsWell

LEMMA NextPath ==
  ASSUME NEW r \in RefreshStates, r.left # {}
  PROVE  NextOf(r.left) \in r.left /\ NextOf(r.left).path \in Paths
<1>1. r.left \subseteq Listings
  BY DEF RefreshStates
<1>2. NextOf(r.left) \in r.left
  BY <1>1, NextIsLeft DEF Listings
<1> QED BY <1>1, <1>2 DEF Listings

LEMMA DocsTables ==
  ASSUME TablesWell, DocsMove,
         UNCHANGED <<projects, rows, entries, ids, sanitizer, stage, refresh>>
  PROVE  TablesWell'
<1>1. RefreshesAreTyped'
  BY DEF TablesWell, RefreshesAreTyped, DocsMove
<1>2. IdsAreFresh' /\ NoOldContent'
  BY DEF TablesWell, IdsAreFresh, NoOldContent, SanitizerIsCurrent
<1>3. RowsHaveEntries'
  <2>1. ASSUME NEW r \in rows, NEW e \in entries, NEW p \in projects,
               e.id = r.id, p.id = r.project
        PROVE  /\ e.doc = r.doc /\ e.path = p.path
               /\ StandsFor(docs'[p.path], clock', r.doc, r.fp, e.body)
    <3>1. /\ e.doc = r.doc /\ e.path = p.path
          /\ StandsFor(docs[p.path], clock, r.doc, r.fp, e.body)
      BY <2>1 DEF TablesWell, RowsHaveEntries
    <3>2. p.path \in Paths /\ RefreshesAreTyped
      BY DEF TablesWell, IdsAreFresh
    <3> QED BY <3>1, <3>2, StandsStill
  <2> QED BY <2>1 DEF TablesWell, RowsHaveEntries
<1>4. ASSUME NEW j \in Jobs
      PROVE  RefreshWell(stage[j], refresh[j], docs', clock')
  <2>1. /\ RefreshWell(stage[j], refresh[j], docs, clock)
        /\ refresh[j] \in RefreshStates /\ RefreshesAreTyped
    BY DEF TablesWell, RefreshesAreTyped, RefreshesWell
  <2>2. ASSUME stage[j] = "read"
        PROVE  ReadsWell(docs'[NextOf(refresh[j].left).path], clock',
                         refresh[j].toRead, refresh[j].read)
    <3>1. refresh[j].left # {}
      BY <2>1, <2>2 DEF RefreshWell
    <3>2. NextOf(refresh[j].left).path \in Paths
      BY <2>1, <3>1, NextPath
    <3> QED BY <2>1, <2>2, <3>2, ReadsStill DEF RefreshWell
  <2> QED BY <2>1, <2>2 DEF RefreshWell
<1>5. RefreshesWell'
  BY <1>4 DEF TablesWell, RefreshesWell
<1> QED BY <1>1, <1>2, <1>3, <1>5 DEF TablesWell

\* A step of the refresh of job j, the tables as they are.
RefreshStep(j, l, r) ==
    /\ stage' = [stage EXCEPT ![j] = l]
    /\ refresh' = [refresh EXCEPT ![j] = r]
    /\ r \in RefreshStates
    /\ LeftWell(r.left, projects, ids.project)
    /\ RefreshWell(l, r, docs, clock)

LEMMA RefreshMovesOn ==
  ASSUME TablesWell, stage \in [Jobs -> Stages], NEW j \in Jobs, NEW l, NEW r,
         RefreshStep(j, l, r),
         UNCHANGED <<docs, clock, projects>>,
         ids' \in [row : Nat, project : Nat], ids'.project = ids.project
  PROVE  RefreshesAreTyped' /\ RefreshesWell'
<1>1. /\ stage' = [stage EXCEPT ![j] = l] /\ refresh' = [refresh EXCEPT ![j] = r]
      /\ r \in RefreshStates /\ LeftWell(r.left, projects, ids.project)
      /\ RefreshWell(l, r, docs, clock)
  BY DEF RefreshStep
<1>2. refresh \in [Jobs -> RefreshStates]
  BY DEF TablesWell, RefreshesAreTyped
<1>3. RefreshesAreTyped'
  <2>1. refresh' \in [Jobs -> RefreshStates]
    BY <1>1, <1>2
  <2> QED BY <2>1 DEF TablesWell, RefreshesAreTyped
<1>4. ASSUME NEW k \in Jobs
      PROVE  /\ LeftWell(refresh'[k].left, projects, ids.project)
             /\ RefreshWell(stage'[k], refresh'[k], docs, clock)
  <2>1. CASE k = j
    BY <1>1, <1>2, <2>1
  <2>2. CASE k # j
    <3>1. stage'[k] = stage[k] /\ refresh'[k] = refresh[k]
      BY <1>1, <1>2, <2>2
    <3> QED BY <3>1 DEF TablesWell, RefreshesWell
  <2> QED BY <2>1, <2>2
<1> QED BY <1>3, <1>4 DEF RefreshesWell

LEMMA RefreshMoves ==
  ASSUME TablesWell, stage \in [Jobs -> Stages], NEW j \in Jobs, NEW l, NEW r,
         RefreshStep(j, l, r),
         UNCHANGED <<docs, clock, projects, ids>>
  PROVE  RefreshesAreTyped' /\ RefreshesWell'
<1>1. ids' \in [row : Nat, project : Nat]
  BY DEF TablesWell, RefreshesAreTyped
<1> QED BY <1>1, RefreshMovesOn

\* What is claimed of the content is claimed at one stage.
LEMMA OldContentStays ==
  ASSUME TablesWell, stage \in [Jobs -> Stages], NEW j \in Jobs, NEW l,
         stage' = [stage EXCEPT ![j] = l], l # "vacuum",
         sanitizer' = sanitizer, \A e \in entries' : e \in entries \/ e.by = "current"
  PROVE  NoOldContent'
<1>1. ASSUME NEW k \in Jobs, stage'[k] = "vacuum"
      PROVE  stage[k] = "vacuum"
  BY <1>1
<1> QED BY <1>1 DEF TablesWell, NoOldContent, SanitizerIsCurrent

\* A step of a job that changes no table.
LEMMA TablesStay ==
  ASSUME TablesWell, stage \in [Jobs -> Stages], NEW j \in Jobs, NEW l, NEW r,
         RefreshStep(j, l, r), l # "vacuum", UNCHANGED <<docs, clock, database>>
  PROVE  TablesWell'
<1>1. UNCHANGED <<projects, rows, entries, ids, sanitizer>>
  BY DEF database
<1>2. stage' = [stage EXCEPT ![j] = l]
  BY DEF RefreshStep
<1>3. RefreshesAreTyped' /\ RefreshesWell'
  BY <1>1, RefreshMoves
<1>4. IdsAreFresh'
  BY <1>1 DEF TablesWell, IdsAreFresh
<1>5. RowsHaveEntries'
  BY <1>1 DEF TablesWell, RowsHaveEntries
<1>6. NoOldContent'
  BY <1>1, <1>2, OldContentStays
<1> QED BY <1>3, <1>4, <1>5, <1>6 DEF TablesWell

LEMMA NoRefreshType ==
  /\ NoRefresh \in RefreshStates
  /\ \A table, n : LeftWell(NoRefresh.left, table, n)
  /\ \A l, trees, c : l # "read" => RefreshWell(l, NoRefresh, trees, c)
BY DEF NoRefresh, RefreshStates, LeftWell, RefreshWell

LEMMA EndsTables ==
  ASSUME TablesWell, stage \in [Jobs -> Stages], NEW j \in Jobs, Ends(j),
         UNCHANGED <<docs, clock, database>>
  PROVE  TablesWell'
<1>1. RefreshStep(j, "idle", NoRefresh)
  BY NoRefreshType DEF RefreshStep, Ends
<1> QED BY <1>1, TablesStay

\* Before the refresh has surveyed a project, nothing of it is read.
LEMMA NotReading ==
  ASSUME TablesWell, stage \in [Jobs -> Stages], NEW j \in Jobs,
         NEW l \in Stages \ {"read"},
         stage[j] # "read", stage' = [stage EXCEPT ![j] = l], refresh' = refresh
  PROVE  RefreshStep(j, l, refresh[j])
<1>1. /\ refresh \in [Jobs -> RefreshStates]
      /\ LeftWell(refresh[j].left, projects, ids.project)
      /\ RefreshWell(stage[j], refresh[j], docs, clock)
  BY DEF TablesWell, RefreshesAreTyped, RefreshesWell
<1>2. RefreshWell(l, refresh[j], docs, clock)
  BY <1>1 DEF RefreshWell
<1> QED BY <1>1, <1>2 DEF RefreshStep

LEMMA ScanningTables ==
  ASSUME TablesWell, stage \in [Jobs -> Stages], NEW j \in Jobs,
         NEW l \in Stages \ {"read", "vacuum"},
         stage[j] # "read", stage' = [stage EXCEPT ![j] = l],
         UNCHANGED <<docs, clock, database, refresh>>
  PROVE  TablesWell'
BY NotReading, TablesStay

LEMMA WipeTables ==
  ASSUME TablesWell, stage \in [Jobs -> Stages], NEW j \in Jobs, WipeContent(j)
  PROVE  TablesWell'
<1>1. /\ stage[j] = "wipe" /\ rows' = {} /\ entries' = {}
      /\ stage' = [stage EXCEPT ![j] = "vacuum"]
      /\ UNCHANGED <<docs, clock, projects, ids, sanitizer, refresh>>
  BY DEF WipeContent, files
<1>2. RefreshStep(j, "vacuum", refresh[j])
  BY <1>1, NotReading DEF Stages
<1>3. RefreshesAreTyped' /\ RefreshesWell'
  BY <1>1, <1>2, RefreshMoves
<1>4. IdsAreFresh' /\ RowsHaveEntries' /\ NoOldContent'
  BY <1>1 DEF TablesWell, IdsAreFresh, RowsHaveEntries, NoOldContent
<1> QED BY <1>3, <1>4 DEF TablesWell

LEMMA ClaimTables ==
  ASSUME TablesWell, stage \in [Jobs -> Stages], NEW j \in Jobs,
         ClaimSanitizer(j)
  PROVE  TablesWell'
<1>1. /\ stage[j] = "vacuum" /\ stage' = [stage EXCEPT ![j] = "replace"]
      /\ UNCHANGED <<docs, clock, projects, rows, entries, ids, refresh>>
  BY DEF ClaimSanitizer, files
<1>2. RefreshStep(j, "replace", refresh[j])
  BY <1>1, NotReading DEF Stages
<1>3. RefreshesAreTyped' /\ RefreshesWell'
  BY <1>1, <1>2, RefreshMoves
<1>4. IdsAreFresh' /\ RowsHaveEntries'
  BY <1>1 DEF TablesWell, IdsAreFresh, RowsHaveEntries
<1>5. \A e \in entries : e.by = "current"
  BY <1>1 DEF TablesWell, NoOldContent
<1>6. NoOldContent'
  BY <1>1, <1>5 DEF NoOldContent
<1> QED BY <1>3, <1>4, <1>6 DEF TablesWell

LEMMA ListTables ==
  ASSUME TablesWell, stage \in [Jobs -> Stages], NEW j \in Jobs, ListProjects(j)
  PROVE  TablesWell'
<1> DEFINE left == {[path |-> p.path, id |-> p.id] : p \in projects}
           r == [refresh[j] EXCEPT !.left = left]
<1>1. /\ stage[j] = "list" /\ stage' = [stage EXCEPT ![j] = "survey"]
      /\ refresh' = [refresh EXCEPT ![j].left = left]
      /\ entries' = {e \in entries : \E s \in rows : s.id = e.id}
      /\ UNCHANGED <<docs, clock, projects, rows, ids, sanitizer>>
  BY DEF ListProjects, files, Joined
<1>2. /\ refresh \in [Jobs -> RefreshStates]
      /\ RefreshWell(stage[j], refresh[j], docs, clock)
  BY DEF TablesWell, RefreshesAreTyped, RefreshesWell
<1>3. left \subseteq Listings /\ LeftWell(left, projects, ids.project)
  BY DEF TablesWell, IdsAreFresh, Listings, LeftWell
<1> HIDE DEF left
<1>4. refresh' = [refresh EXCEPT ![j] = r]
  BY <1>1, <1>2
<1>5. r \in RefreshStates /\ r.left = left /\ r.read = refresh[j].read
  BY <1>2, <1>3 DEF RefreshStates
<1> HIDE DEF r
<1>6. RefreshWell("survey", r, docs, clock)
  BY <1>1, <1>2, <1>5 DEF RefreshWell
<1>7. RefreshStep(j, "survey", r)
  BY <1>1, <1>3, <1>4, <1>5, <1>6 DEF RefreshStep
<1>8. RefreshesAreTyped' /\ RefreshesWell'
  BY <1>1, <1>7, RefreshMoves
<1>9. IdsAreFresh'
  BY <1>1 DEF TablesWell, IdsAreFresh
<1>10. RowsHaveEntries'
  BY <1>1 DEF TablesWell, RowsHaveEntries
<1>11. NoOldContent'
  BY <1>1, OldContentStays
<1> QED BY <1>8, <1>9, <1>10, <1>11 DEF TablesWell

\* A refresh with other documents to read and read.
Taking(r, a, b, c) == [r EXCEPT !.toRead = a, !.retained = b, !.read = c]

LEMMA RefreshTakes ==
  \A r \in RefreshStates, a \in SUBSET Pending, b \in SUBSET Docs,
     c \in SUBSET Readings :
        /\ Taking(r, a, b, c) \in RefreshStates
        /\ Taking(r, a, b, c).left = r.left
        /\ Taking(r, a, b, c).toRead = a
        /\ Taking(r, a, b, c).read = c
BY DEF Taking, RefreshStates

\* What the walk of a project takes down: fingerprints of this moment.
LEMMA SurveyTables ==
  ASSUME RescanAssumption, TablesWell, stage \in [Jobs -> Stages], NEW j \in Jobs,
         Survey(j)
  PROVE  TablesWell'
<1> DEFINE p == NextProject(j)
           tree == docs[p.path]
           known == {d \in Selected(tree) : Known(p, d, tree[d])}
           toRead == {[doc |-> d, fp |-> tree[d]] : d \in Selected(tree) \ known}
           r == Taking(refresh[j], toRead, known, refresh[j].read)
<1>1. /\ stage[j] = "survey" /\ refresh[j].left # {}
      /\ stage' = [stage EXCEPT ![j] = "read"]
      /\ refresh' = [refresh EXCEPT ![j].retained = known, ![j].toRead = toRead]
      /\ UNCHANGED <<docs, clock, database>>
  BY DEF Survey, files
<1>2. /\ refresh \in [Jobs -> RefreshStates]
      /\ RefreshWell(stage[j], refresh[j], docs, clock)
      /\ LeftWell(refresh[j].left, projects, ids.project)
      /\ clock \in Nat /\ \A q \in Paths : docs[q] \in [DocsOf[q] -> 0 .. clock]
  BY DEF TablesWell, RefreshesAreTyped, RefreshesWell
<1>3. p = NextOf(refresh[j].left) /\ p.path \in Paths
  BY <1>1, <1>2, NextPath DEF NextProject, NextOf
<1> HIDE DEF p
<1>4. tree \in [DocsOf[p.path] -> 0 .. clock]
  BY <1>2, <1>3
<1>5. DocsOf[p.path] \subseteq Docs
  BY <1>3 DEF Docs
<1>6. \A d \in Selected(tree) : d \in DocsOf[p.path] /\ tree[d] \in 1 .. clock
  BY <1>2, <1>4 DEF Selected, Present
<1> HIDE DEF tree
<1>7. known \subseteq Docs
  BY <1>5, <1>6
<1>8. /\ toRead \subseteq Pending
      /\ \A t \in toRead : t.doc \in DOMAIN tree /\ t.fp \in 1 .. clock
      /\ \A t, u \in toRead : t.doc = u.doc => t = u
  BY <1>2, <1>4, <1>5, <1>6 DEF Pending
<1> HIDE DEF known, toRead
<1>9. refresh' = [refresh EXCEPT ![j] = r]
  <2>1. r = [refresh[j] EXCEPT !.retained = known, !.toRead = toRead]
    BY <1>2 DEF Taking, RefreshStates
  <2> QED BY <1>1, <1>2, <2>1
<1>10. /\ r \in RefreshStates /\ r.left = refresh[j].left
       /\ r.toRead = toRead /\ r.read = refresh[j].read
  <2>1. refresh[j] \in RefreshStates /\ refresh[j].read \in SUBSET Readings
    BY <1>2 DEF RefreshStates
  <2>2. toRead \in SUBSET Pending /\ known \in SUBSET Docs
    BY <1>7, <1>8
  <2> QED BY <2>1, <2>2, RefreshTakes
<1> HIDE DEF r
<1>11. r.read = {}
  BY <1>1, <1>2, <1>10 DEF RefreshWell
<1>12. ReadsWell(tree, clock, r.toRead, r.read)
  BY <1>8, <1>10, <1>11 DEF ReadsWell
<1>13. RefreshWell("read", r, docs, clock)
  BY <1>1, <1>3, <1>10, <1>12 DEF RefreshWell, tree
<1>14. RefreshStep(j, "read", r)
  BY <1>1, <1>2, <1>9, <1>10, <1>13 DEF RefreshStep
<1> QED BY <1>1, <1>14, TablesStay

\* What is read after the walk stands for what the walk saw.
LEMMA ReadTables ==
  ASSUME RescanAssumption, TablesWell, stage \in [Jobs -> Stages], NEW j \in Jobs,
         Read(j) \/ SkipDoc(j)
  PROVE  TablesWell'
<1> DEFINE p == NextProject(j)
           tree == docs[p.path]
           t == NextDoc(j)
           toRead == refresh[j].toRead
           x == [doc |-> t.doc, fp |-> t.fp, body |-> tree[t.doc]]
           s == [refresh[j] EXCEPT !.toRead = toRead \ {t}]
           retained == refresh[j].retained \cup {t.doc}
           read == refresh[j].read \cup {x}
           r == Taking(refresh[j], toRead \ {t}, retained, read)
<1>1. /\ stage[j] = "read" /\ toRead # {}
      /\ UNCHANGED <<docs, clock, database, stage>>
      /\ \/ refresh' = [refresh EXCEPT ![j].toRead = @ \ {t},
                           ![j].retained = @ \cup {t.doc},
                           ![j].read = @ \cup {x}]
         \/ refresh' = [refresh EXCEPT ![j].toRead = @ \ {t}]
  BY DEF Read, SkipDoc, files
<1>2. /\ refresh \in [Jobs -> RefreshStates]
      /\ RefreshWell("read", refresh[j], docs, clock)
      /\ LeftWell(refresh[j].left, projects, ids.project)
      /\ clock \in Nat /\ \A q \in Paths : docs[q] \in [DocsOf[q] -> 0 .. clock]
  BY <1>1 DEF TablesWell, RefreshesAreTyped, RefreshesWell
<1>3. /\ p = NextOf(refresh[j].left) /\ p.path \in Paths
      /\ refresh[j].left # {}
  BY <1>2, NextPath DEF NextProject, NextOf, RefreshWell
<1>4. ReadsWell(tree, clock, toRead, refresh[j].read)
  BY <1>2, <1>3 DEF RefreshWell
<1>5. t \in toRead
  <2>1. \A u \in toRead : u.doc \in Nat
    BY <1>2 DEF RefreshStates, Pending, Docs, RescanAssumption
  <2> QED BY <1>1, <2>1, NextDocIsToRead
<1> HIDE DEF p, t
<1>6. tree \in [DocsOf[p.path] -> 0 .. clock]
  BY <1>2, <1>3
<1>7. /\ t.doc \in DOMAIN tree /\ t.fp \in 1 .. clock /\ t.doc \in Docs
      /\ tree[t.doc] \in Nat
  BY <1>3, <1>4, <1>5, <1>6 DEF ReadsWell, Docs
<1>8. refresh[j].left \in SUBSET Listings /\ toRead \in SUBSET Pending
      /\ refresh[j].read \in SUBSET Readings
      /\ refresh[j].retained \in SUBSET Docs
  BY <1>2 DEF RefreshStates
<1>9. stage' = [stage EXCEPT ![j] = "read"]
  BY <1>1
<1>10. CASE refresh' = [refresh EXCEPT ![j].toRead = @ \ {t}]
  <2>1. refresh' = [refresh EXCEPT ![j] = s]
    BY <1>2, <1>10
  <2>2. /\ s \in RefreshStates /\ s.left = refresh[j].left
        /\ s.toRead = toRead \ {t} /\ s.read = refresh[j].read
    BY <1>2 DEF RefreshStates
  <2> HIDE DEF s
  <2>3. ReadsWell(tree, clock, s.toRead, s.read)
    BY <1>4, <2>2 DEF ReadsWell
  <2>4. RefreshWell("read", s, docs, clock)
    BY <1>3, <2>2, <2>3 DEF RefreshWell
  <2>5. RefreshStep(j, "read", s)
    BY <1>2, <1>9, <2>1, <2>2, <2>4 DEF RefreshStep
  <2> QED BY <1>1, <2>5, TablesStay
<1>11. CASE refresh' = [refresh EXCEPT ![j].toRead = @ \ {t},
                           ![j].retained = @ \cup {t.doc},
                           ![j].read = @ \cup {x}]
  <2>1. refresh' = [refresh EXCEPT ![j] = r]
    <3> HIDE DEF x
    <3>1. r = [refresh[j] EXCEPT !.toRead = toRead \ {t}, !.retained = retained,
                                 !.read = read]
      BY DEF Taking
    <3> QED BY <1>2, <1>11, <3>1
  <2>2. x \in Readings /\ x.doc = t.doc /\ x.fp = t.fp /\ x.body = tree[t.doc]
    BY <1>2, <1>7 DEF Readings
  <2> HIDE DEF x
  <2>3. /\ r \in RefreshStates /\ r.left = refresh[j].left
        /\ r.toRead = toRead \ {t} /\ r.read = refresh[j].read \cup {x}
    <3>1. /\ toRead \ {t} \in SUBSET Pending
          /\ refresh[j].retained \cup {t.doc} \in SUBSET Docs
          /\ refresh[j].read \cup {x} \in SUBSET Readings
      BY <1>7, <1>8, <2>2
    <3>2. refresh[j] \in RefreshStates
      BY <1>2
    <3> HIDE DEF toRead
    <3> QED BY <3>1, <3>2, RefreshTakes
  <2> HIDE DEF r, tree
  <2>4. StandsFor(tree, clock, x.doc, x.fp, x.body)
    BY <1>7, <2>2 DEF StandsFor
  <2>5. ReadsWell(tree, clock, r.toRead, r.read)
    BY <1>4, <1>5, <2>2, <2>3, <2>4 DEF ReadsWell
  <2>6. RefreshWell("read", r, docs, clock)
    BY <1>3, <2>3, <2>5 DEF RefreshWell, tree
  <2>7. RefreshStep(j, "read", r)
    BY <1>2, <1>9, <2>1, <2>3, <2>6 DEF RefreshStep
  <2> QED BY <1>1, <2>7, TablesStay
<1> QED BY <1>1, <1>10, <1>11

LEMMA SameSize ==
  ASSUME NEW N, IsFiniteSet(N), NEW T, NEW f \in [N -> T],
         \A d, e \in N : f[d] = f[e] => d = e,
         \A t \in T : \E d \in N : f[d] = t
  PROVE  IsFiniteSet(T) /\ Cardinality(T) = Cardinality(N)
<1>1. f \in Injection(N, T) /\ f \in Surjection(N, T)
  BY DEF Injection, Surjection, IsInjective
<1>2. ExistsBijection(N, T)
  BY <1>1 DEF ExistsBijection, Bijection
<1> QED BY <1>2, FS_Bijection

\* Projects that were not in the table before get the next ids, in the order
\* of their paths; the others keep theirs.
Named(found) == {ProjectOf[x.file] : x \in found}
Added(found) == Named(found) \ {r.path : r \in {o \in projects : o.path \in Named(found)}}
AddedOne(found, p) == [path |-> p,
                       id   |-> ids.project + Cardinality(Before(Added(found), p)),
                       seen |-> SeenOf(found, p)]
KeptOnes(found) == {[r EXCEPT !.seen = SeenOf(found, r.path)] :
                       r \in {o \in projects : o.path \in Named(found)}}

LEMMA ReplacementParts ==
  ASSUME NEW found
  PROVE  Replacement(found) =
            KeptOnes(found) \cup {AddedOne(found, p) : p \in Added(found)}
BY DEF Replacement, KeptOnes, AddedOne, Added, Named, Before

LEMMA KeptAre ==
  ASSUME IdsAreFresh, NEW found, NEW q \in KeptOnes(found)
  PROVE  \E o \in projects : /\ o.id = q.id /\ o.path = q.path
                             /\ q = [path |-> o.path, id |-> o.id,
                                     seen |-> SeenOf(found, o.path)]
<1>1. PICK o \in projects : q = [o EXCEPT !.seen = SeenOf(found, o.path)]
  BY DEF KeptOnes
<1>2. o = [path |-> o.path, id |-> o.id, seen |-> o.seen]
  BY DEF IdsAreFresh
<1>3. q = [path |-> o.path, id |-> o.id, seen |-> SeenOf(found, o.path)]
  BY <1>1, <1>2
<1>4. o.id = q.id /\ o.path = q.path
  BY <1>3
<1> QED BY <1>3, <1>4

LEMMA AddedAre ==
  ASSUME RescanAssumption, NEW found \in SUBSET Findings
  PROVE  /\ Added(found) \in SUBSET Paths /\ Added(found) \in SUBSET Nat
         /\ IsFiniteSet(Added(found))
<1>1. Named(found) \subseteq Paths
  BY DEF Named, Findings, RescanAssumption
<1>2. Added(found) \subseteq Paths
  BY <1>1 DEF Added
<1> QED BY <1>2, FS_Subset DEF RescanAssumption

\* What a replacement leaves, where m is the next id of a project after it.
LEMMA Replaced ==
  ASSUME RescanAssumption, IdsAreFresh, ids.project \in Nat,
         NEW found \in SUBSET Findings, NEW m,
         m = ids.project + Cardinality({q \in Replacement(found) : q.id >= ids.project})
  PROVE  /\ m \in Nat /\ ids.project <= m
         /\ \A q \in Replacement(found) :
               /\ q = [path |-> q.path, id |-> q.id, seen |-> q.seen]
               /\ q.path \in Paths /\ q.id \in Nat /\ q.id < m
         /\ \A p, q \in Replacement(found) : p.id = q.id => p = q
         /\ \A q \in Replacement(found) : q.id < ids.project =>
               \E o \in projects : o.id = q.id /\ o.path = q.path
<1> DEFINE n == ids.project
           new == Added(found)
           table == Replacement(found)
           fresh == {q \in table : q.id >= n}
           F == [p \in new |-> AddedOne(found, p)]
           kept == KeptOnes(found)
           Whole(q) == q = [path |-> q.path, id |-> q.id, seen |-> q.seen]
<1>1. new \in SUBSET Paths /\ new \in SUBSET Nat /\ IsFiniteSet(new)
  BY AddedAre
<1>2. /\ Cardinality(new) \in Nat
      /\ \A p \in new : /\ Cardinality(Before(new, p)) \in Nat
                        /\ Cardinality(Before(new, p)) < Cardinality(new)
      /\ \A p, q \in new :
            Cardinality(Before(new, p)) = Cardinality(Before(new, q)) => p = q
  BY <1>1, Numbered
<1>3. \A p \in new : F[p].path = p /\ F[p].id = n + Cardinality(Before(new, p))
  BY DEF AddedOne
<1>3a. \A p \in new : Whole(F[p])
  BY DEF AddedOne
<1>4. \A q \in table : q \in kept \/ \E p \in new : q = F[p]
  BY ReplacementParts
<1>5. \A p \in new : F[p] \in table
  BY ReplacementParts
<1>6. \A q \in kept : \E o \in projects :
         /\ o.id = q.id /\ o.path = q.path
         /\ q = [path |-> o.path, id |-> o.id, seen |-> SeenOf(found, o.path)]
  BY KeptAre
<1>7. \A q \in kept : /\ Whole(q)
                      /\ q.path \in Paths /\ q.id \in Nat /\ q.id < n
                      /\ \E o \in projects : o.id = q.id /\ o.path = q.path
  BY <1>6 DEF IdsAreFresh
<1>8. \A p, q \in kept : p.id = q.id => p = q
  BY <1>6 DEF IdsAreFresh
<1> HIDE DEF new, table, kept, F, Whole
<1>9. \A p \in new : F[p].id \in Nat /\ F[p].id >= n /\ F[p].id < n + Cardinality(new)
  BY <1>2, <1>3
<1>10. Cardinality(fresh) = Cardinality(new)
  <2>1. F \in [new -> fresh]
    BY <1>5, <1>9 DEF F
  <2>2. \A p, q \in new : F[p] = F[q] => p = q
    BY <1>3
  <2>3. \A t \in fresh : \E p \in new : F[p] = t
    BY <1>4, <1>7
  <2> HIDE DEF fresh
  <2> QED BY ZenonT(40), <1>1, <2>1, <2>2, <2>3, SameSize
<1>11. m = n + Cardinality(new) /\ m \in Nat /\ n <= m
  BY <1>2, <1>10 DEF table
<1>12. \A q \in table : /\ Whole(q)
                        /\ q.path \in Paths /\ q.id \in Nat /\ q.id < m
  <2>1. ASSUME NEW q \in kept
        PROVE  q.id \in Nat /\ q.id < m
    BY <1>7, <1>11
  <2>2. ASSUME NEW p \in new
        PROVE  F[p].path \in Paths /\ F[p].id \in Nat /\ F[p].id < m
    <3>1. F[p].path \in Paths
      BY <1>1, <1>3
    <3>2. F[p].id \in Nat /\ F[p].id < m
      BY <1>9, <1>11
    <3> QED BY <3>1, <3>2
  <2> QED BY <1>3a, <1>4, <1>7, <2>1, <2>2
<1>13. ASSUME NEW p \in table, NEW q \in table, p.id = q.id
       PROVE  p = q
  <2>1. CASE p \in kept /\ q \in kept
    BY <1>8, <1>13, <2>1
  <2>2. ASSUME NEW x \in new, NEW y \in new, p = F[x], q = F[y]
        PROVE  p = q
    BY <1>2, <1>3, <1>13, <2>2
  <2>3. ASSUME NEW x \in kept, NEW y \in new
        PROVE  x.id # F[y].id
    BY <1>7, <1>9
  <2> QED BY <1>4, <1>13, <2>1, <2>2, <2>3
<1>14. \A q \in table : q.id < n => \E o \in projects : o.id = q.id /\ o.path = q.path
  BY <1>4, <1>7, <1>9
<1> QED BY <1>11, <1>12, <1>13, <1>14 DEF table, Whole

LEMMA ReplaceTables ==
  ASSUME RescanAssumption, TablesWell, ScansAreTyped, NEW j \in Jobs,
         ReplaceProjects(j)
  PROVE  TablesWell'
<1> DEFINE n == ids.project
           found == scan[j].found
<1>1. /\ stage[j] = "replace" /\ projects' = Replacement(found)
      /\ rows' = {r \in rows : \E p \in projects' : p.id = r.project}
      /\ ids' = [ids EXCEPT !.project = n + Cardinality({p \in projects' : p.id >= n})]
      /\ UNCHANGED <<docs, clock, entries, sanitizer, refresh>>
  BY DEF ReplaceProjects, files, Cascaded
<1>2. PICK l \in {"list", "idle"} : stage' = [stage EXCEPT ![j] = l]
  BY DEF ReplaceProjects
<1>3. /\ found \in SUBSET Findings /\ stage \in [Jobs -> Stages]
      /\ ids \in [row : Nat, project : Nat] /\ IdsAreFresh
      /\ refresh \in [Jobs -> RefreshStates]
  BY DEF ScansAreTyped, ScanStates, TablesWell, RefreshesAreTyped
<1>4. ids'.row = ids.row /\ ids'.project = n + Cardinality({p \in projects' : p.id >= n})
      /\ ids' = [row |-> ids'.row, project |-> ids'.project]
  BY <1>1, <1>3
<1>5. n \in Nat /\ ids.row \in Nat
  BY <1>3
<1>6. /\ ids'.project \in Nat /\ n <= ids'.project
      /\ \A q \in projects' :
            /\ q = [path |-> q.path, id |-> q.id, seen |-> q.seen]
            /\ q.path \in Paths /\ q.id \in Nat /\ q.id < ids'.project
      /\ \A p, q \in projects' : p.id = q.id => p = q
      /\ \A q \in projects' : q.id < n =>
            \E o \in projects : o.id = q.id /\ o.path = q.path
  <2> HIDE DEF found
  <2>1. ids'.project = n + Cardinality({q \in Replacement(found) : q.id >= n})
    BY <1>1, <1>4
  <2> QED BY <1>1, <1>3, <1>5, <2>1, Replaced
<1>7. IdsAreFresh'
  BY SMTT(30), <1>1, <1>3, <1>4, <1>6 DEF IdsAreFresh
<1>8. RowsHaveEntries'
  <2>1. RowsHaveEntries
    BY DEF TablesWell
  <2>2. \A r \in rows' : /\ r \in rows /\ \E p \in projects' : p.id = r.project
                         /\ \E e \in entries' : e.id = r.id
    BY <1>1, <2>1 DEF RowsHaveEntries
  <2>3. \A r, s \in rows' : s.project = r.project /\ s.doc = r.doc => s = r
    BY <2>1, <2>2 DEF RowsHaveEntries
  <2>4. ASSUME NEW r \in rows, NEW e \in entries, NEW p \in projects',
               e.id = r.id, p.id = r.project
        PROVE  \E o \in projects : o.id = r.project /\ o.path = p.path
    <3>1. PICK o \in projects : o.id = r.project
      BY <2>1 DEF RowsHaveEntries
    <3>2. p.id < n
      BY <1>3, <2>4, <3>1 DEF IdsAreFresh
    <3> QED BY <1>6, <2>4, <3>2
  <2>5. ASSUME NEW r \in rows, NEW e \in entries, NEW p \in projects',
               e.id = r.id, p.id = r.project
        PROVE  /\ e.doc = r.doc /\ e.path = p.path
               /\ StandsFor(docs[p.path], clock, r.doc, r.fp, e.body)
    <3>1. PICK o \in projects : o.id = r.project /\ o.path = p.path
      BY <2>4, <2>5
    <3>2. /\ e.doc = r.doc /\ e.path = o.path
          /\ StandsFor(docs[o.path], clock, r.doc, r.fp, e.body)
      BY <2>1, <2>5, <3>1 DEF RowsHaveEntries
    <3> QED BY <3>1, <3>2
  <2> QED BY <1>1, <2>2, <2>3, <2>5 DEF RowsHaveEntries
<1>9. NoOldContent'
  BY <1>1, <1>2, <1>3, OldContentStays
<1>10. ASSUME NEW k \in Jobs
       PROVE  /\ LeftWell(refresh[k].left, projects', ids'.project)
              /\ RefreshWell(stage'[k], refresh[k], docs, clock)
  <2>1. /\ LeftWell(refresh[k].left, projects, n)
        /\ RefreshWell(stage[k], refresh[k], docs, clock)
        /\ refresh[k].left \in SUBSET Listings
    BY <1>3 DEF TablesWell, RefreshesWell, RefreshStates
  <2>2. ASSUME NEW p \in refresh[k].left
        PROVE  /\ p.id < ids'.project
               /\ \A q \in projects' : q.id = p.id => q.path = p.path
    <3>1. p.id \in Nat /\ p.id < n /\ \A q \in projects : q.id = p.id => q.path = p.path
      BY <2>1 DEF LeftWell, Listings
    <3>2. p.id < ids'.project
      BY <1>5, <1>6, <3>1
    <3> QED BY <1>6, <3>1, <3>2
  <2>3. RefreshWell(stage'[k], refresh[k], docs, clock)
    <3>1. CASE k = j
      BY <1>1, <1>2, <1>3, <2>1, <3>1 DEF RefreshWell
    <3>2. CASE k # j
      BY <1>2, <1>3, <2>1, <3>2
    <3> QED BY <3>1, <3>2
  <2> QED BY <2>2, <2>3 DEF LeftWell
<1>11. RefreshesAreTyped'
  <2>1. ids' \in [row : Nat, project : Nat]
    BY <1>4, <1>5, <1>6
  <2> QED BY <1>1, <2>1 DEF TablesWell, RefreshesAreTyped
<1>12. RefreshesWell'
  BY <1>1, <1>10 DEF RefreshesWell
<1> QED BY <1>7, <1>8, <1>9, <1>11, <1>12 DEF TablesWell

\* The documents read of a project take the rows they have, or the next ids.
AddedTo(p, read) == {x \in read : \A r \in RowsOf(p) : r.doc # x.doc}

OldOrNewId(p, read, x) ==
    \/ \E r \in RowsOf(p) : r.doc = x.doc /\ RowId(p, read, x.doc) = r.id
    \/ /\ RowId(p, read, x.doc) \in Nat
       /\ RowId(p, read, x.doc) >= ids.row
       /\ RowId(p, read, x.doc) < ids.row + Cardinality(AddedTo(p, read))

IdsApart(p, read) ==
    \A x, y \in read : RowId(p, read, x.doc) = RowId(p, read, y.doc) => x = y

LEMMA RowIds ==
  ASSUME IdsAreFresh, RowsHaveEntries, ids.row \in Nat,
         NEW p, NEW read, NEW D \in SUBSET Nat, IsFiniteSet(D),
         \A x \in read : x.doc \in D, \A x, y \in read : x.doc = y.doc => x = y
  PROVE  /\ Cardinality(AddedTo(p, read)) \in Nat
         /\ \A x \in read : OldOrNewId(p, read, x)
         /\ IdsApart(p, read)
<1> DEFINE n == ids.row
           own == RowsOf(p)
           added == AddedTo(p, read)
           new == {x.doc : x \in read} \ {r.doc : r \in own}
           Id(x) == RowId(p, read, x.doc)
           Has(x) == \E r \in own : r.doc = x.doc
<1>1. \A r, s \in own : r.doc = s.doc => r = s
  BY DEF RowsHaveEntries, RowsOf
<1>2. ASSUME NEW x \in read, Has(x)
      PROVE  \E r \in own : r.doc = x.doc /\ Id(x) = r.id
  <2>1. (CHOOSE r \in own : r.doc = x.doc) \in own
        /\ (CHOOSE r \in own : r.doc = x.doc).doc = x.doc
    BY <1>2
  <2>2. Id(x) = (CHOOSE r \in own : r.doc = x.doc).id
    BY <1>2 DEF RowId
  <2> QED BY <2>1, <2>2
<1>3. ASSUME NEW x \in read, ~ Has(x)
      PROVE  x.doc \in new /\ x \in added /\ Id(x) = n + Cardinality(Before(new, x.doc))
  BY <1>3 DEF RowId, Before, AddedTo
<1>4. new \in SUBSET Nat /\ IsFiniteSet(new)
  <2>1. new \subseteq D
    OBVIOUS
  <2> QED BY <2>1, FS_Subset
<1>5. /\ Cardinality(new) \in Nat
      /\ \A d \in new : /\ Cardinality(Before(new, d)) \in Nat
                        /\ Cardinality(Before(new, d)) < Cardinality(new)
      /\ \A d, e \in new :
            Cardinality(Before(new, d)) = Cardinality(Before(new, e)) => d = e
  BY <1>4, Numbered
<1>6. Cardinality(added) = Cardinality(new)
  <2> DEFINE F == [d \in new |-> CHOOSE x \in added : x.doc = d]
  <2>1. \A d \in new : \E x \in added : x.doc = d
    BY DEF AddedTo
  <2>2. \A d \in new : F[d] \in added /\ F[d].doc = d
    BY <2>1
  <2>3. F \in [new -> added]
    BY <2>2
  <2>4. \A d, e \in new : F[d] = F[e] => d = e
    BY <2>2
  <2>5. \A x \in added : x.doc \in new /\ x \in read
    BY DEF AddedTo
  <2>6. \A x \in added : F[x.doc] = x
    BY <2>2, <2>5 DEF AddedTo
  <2>7. \A x \in added : \E d \in new : F[d] = x
    BY <2>5, <2>6
  <2> HIDE DEF F, new, added
  <2> QED BY <1>4, <2>3, <2>4, <2>7, SameSize
<1>7. \A r \in own : r.id \in Nat /\ r.id < n
  BY DEF IdsAreFresh, RowsOf
<1>8. \A r, s \in own : r.id = s.id => r = s
  BY DEF IdsAreFresh, RowsOf
<1> HIDE DEF own, new, added, Id, Has
<1>9. ASSUME NEW x \in read, ~ Has(x)
      PROVE  Id(x) \in Nat /\ Id(x) >= n /\ Id(x) < n + Cardinality(added)
  BY <1>3, <1>5, <1>6, <1>9
<1>10. ASSUME NEW x \in read, NEW y \in read, Id(x) = Id(y)
       PROVE  x.doc = y.doc
  <2>1. CASE Has(x) /\ Has(y)
    BY <1>2, <1>8, <1>10, <2>1
  <2>2. CASE Has(x) /\ ~ Has(y)
    BY <1>2, <1>7, <1>9, <1>10, <2>2
  <2>3. CASE ~ Has(x) /\ Has(y)
    BY <1>2, <1>7, <1>9, <1>10, <2>3
  <2>4. CASE ~ Has(x) /\ ~ Has(y)
    <3>1. /\ x.doc \in new /\ Id(x) = n + Cardinality(Before(new, x.doc))
          /\ y.doc \in new /\ Id(y) = n + Cardinality(Before(new, y.doc))
      BY <1>3, <2>4
    <3>2. /\ Cardinality(Before(new, x.doc)) \in Nat
          /\ Cardinality(Before(new, y.doc)) \in Nat
      BY <1>5, <3>1
    <3>3. n + Cardinality(Before(new, x.doc)) = n + Cardinality(Before(new, y.doc))
      BY <1>10, <3>1
    <3>4. Cardinality(Before(new, x.doc)) = Cardinality(Before(new, y.doc))
      BY <3>2, <3>3
    <3> QED BY <1>5, <3>1, <3>4
  <2> QED BY <2>1, <2>2, <2>3, <2>4
<1>11. Cardinality(added) \in Nat
  BY <1>5, <1>6
<1>12. \A x \in read : OldOrNewId(p, read, x)
  BY <1>2, <1>9 DEF OldOrNewId, own, added, Id, Has
<1>13. IdsApart(p, read)
  BY <1>10 DEF IdsApart, Id
<1> QED BY <1>11, <1>12, <1>13 DEF added

\* What the commit of project p does: rows go that were not retained or are
\* rewritten; a row of what was read has its entry, and no other entry is new.
GoneRows(p, retained, read) ==
    {r \in RowsOf(p) : r.doc \notin retained \/ \E x \in read : x.doc = r.doc}

Committed(p, retained, read) ==
    /\ \A r \in rows : r \notin GoneRows(p, retained, read) => r \in rows'
    /\ \A x \in read : \E r \in rows' : r.project = p.id /\ r.doc = x.doc
    /\ \A e \in entries' :
          \/ e \in entries /\ \A r \in GoneRows(p, retained, read) : r.id # e.id
          \/ \E r \in rows' : r.id = e.id
    /\ \A r \in rows', e \in entries' : e.id = r.id =>
          \/ r \in rows /\ r \notin GoneRows(p, retained, read) /\ e \in entries
          \/ \E x \in read : r.project = p.id /\ r.doc = x.doc /\ e.body = x.body

LEMMA CommitTables ==
  ASSUME RescanAssumption, TablesWell, stage \in [Jobs -> Stages], NEW j \in Jobs,
         CommitProject(j)
  PROVE  /\ TablesWell'
         /\ Committed(NextProject(j), refresh[j].retained, refresh[j].read)
<1> DEFINE p == NextProject(j)
           tree == docs[p.path]
           read == refresh[j].read
           n == ids.row
           m == ids.row + Cardinality(AddedTo(p, read))
           Id(x) == RowId(p, read, x.doc)
           stale == {r \in RowsOf(p) : r.doc \notin refresh[j].retained}
           rewrote == {r \in RowsOf(p) : \E x \in read : x.doc = r.doc}
           gone == stale \cup rewrote
           touched == {r.id : r \in gone}
           left == refresh[j].left \ {p}
           next == [NoRefresh EXCEPT !.left = left]
           R(x) == NewRow(Id(x), p, x)
           E(x) == [id |-> Id(x), path |-> p.path, doc |-> x.doc,
                    body |-> x.body, by |-> "current"]
<1>1. /\ stage[j] = "read" /\ stage' = [stage EXCEPT ![j] = "survey"]
      /\ \E q \in projects : q.id = p.id
      /\ rows' = (rows \ gone) \cup {R(x) : x \in read}
      /\ entries' = {e \in entries : e.id \notin touched} \cup {E(x) : x \in read}
      /\ ids' = [ids EXCEPT !.row = m]
      /\ refresh' = [refresh EXCEPT ![j] = next]
      /\ UNCHANGED <<docs, clock, projects, sanitizer>>
  BY DEF CommitProject, files, AddedTo
<1>2. /\ refresh \in [Jobs -> RefreshStates]
      /\ RefreshWell("read", refresh[j], docs, clock)
      /\ LeftWell(refresh[j].left, projects, ids.project)
      /\ ids \in [row : Nat, project : Nat]
      /\ \A q \in Paths : docs[q] \in [DocsOf[q] -> 0 .. clock]
  BY <1>1 DEF TablesWell, RefreshesAreTyped, RefreshesWell
<1>3. /\ p = NextOf(refresh[j].left) /\ p \in refresh[j].left /\ p.path \in Paths
  BY <1>2, NextPath DEF NextProject, NextOf, RefreshWell
<1>4. ReadsWell(tree, clock, refresh[j].toRead, read)
  BY <1>2, <1>3 DEF RefreshWell
<1>5. /\ \A x \in read : /\ x.doc \in DocsOf[p.path]
                         /\ StandsFor(tree, clock, x.doc, x.fp, x.body)
      /\ \A x, y \in read : x.doc = y.doc => x = y
  BY <1>2, <1>3, <1>4 DEF ReadsWell, StandsFor
<1>6. IdsAreFresh /\ RowsHaveEntries
  BY DEF TablesWell
<1> HIDE DEF p, read
<1>7. /\ Cardinality(AddedTo(p, read)) \in Nat
      /\ \A x \in read :
            \/ \E r \in RowsOf(p) : r.doc = x.doc /\ Id(x) = r.id
            \/ Id(x) \in Nat /\ Id(x) >= n /\ Id(x) < m
      /\ \A x, y \in read : Id(x) = Id(y) => x = y
  <2>1. DocsOf[p.path] \in SUBSET Nat /\ IsFiniteSet(DocsOf[p.path])
    BY <1>3 DEF RescanAssumption
  <2>2. ids.row \in Nat
    BY <1>2
  <2>3. \A x \in read : x.doc \in DocsOf[p.path]
    BY <1>5
  <2>4. \A x, y \in read : x.doc = y.doc => x = y
    BY <1>5
  <2>5. Cardinality(AddedTo(p, read)) \in Nat
    BY <1>6, <2>1, <2>2, <2>3, <2>4, RowIds
  <2>6. \A x \in read :
           \/ \E r \in RowsOf(p) : r.doc = x.doc /\ Id(x) = r.id
           \/ Id(x) \in Nat /\ Id(x) >= n /\ Id(x) < m
    <3>1. \A x \in read : OldOrNewId(p, read, x)
      BY <1>6, <2>1, <2>2, <2>3, <2>4, RowIds
    <3> QED BY <3>1 DEF OldOrNewId
  <2>7. \A x, y \in read : Id(x) = Id(y) => x = y
    <3>1. IdsApart(p, read)
      BY <1>6, <2>1, <2>2, <2>3, <2>4, RowIds
    <3> QED BY <3>1 DEF IdsApart
  <2> QED BY <2>5, <2>6, <2>7
<1>8. n \in Nat /\ m \in Nat /\ n <= m
  BY <1>2, <1>7
<1>9. \A x \in read : \/ Id(x) \in touched
                      \/ Id(x) \in Nat /\ Id(x) >= n /\ Id(x) < m
  BY <1>7
<1>10. \A r \in gone : r \in rows /\ r.id \in touched
  BY DEF RowsOf
<1>11. \A r \in rows : r.project = p.id => r \in gone \/ \A x \in read : x.doc # r.doc
  BY DEF RowsOf
<1>12. \A i \in touched : \E r \in rows : r.id = i /\ r \in gone
  BY DEF RowsOf
<1>13. \A x \in read : /\ R(x).id = Id(x) /\ R(x).project = p.id
                       /\ R(x).doc = x.doc /\ R(x).fp = x.fp
                       /\ E(x).id = Id(x) /\ E(x).path = p.path /\ E(x).doc = x.doc
                       /\ E(x).body = x.body /\ E(x).by = "current"
  BY DEF NewRow
<1> HIDE DEF R, E
<1>14. /\ \A r \in rows' : (r \in rows /\ r \notin gone) \/ \E x \in read : r = R(x)
       /\ \A e \in entries' : \/ e \in entries /\ e.id \notin touched
                              \/ \E x \in read : e = E(x)
       /\ \A e \in entries : e.id \notin touched => e \in entries'
       /\ \A x \in read : E(x) \in entries'
  BY <1>1
<1>14a. /\ \A r \in rows : r \notin gone => r \in rows'
        /\ \A x \in read : R(x) \in rows'
        /\ gone = GoneRows(p, refresh[j].retained, read)
  BY <1>1 DEF GoneRows
<1>15. \A r \in rows : r \notin gone => r.id \notin touched
  BY SMTT(30), <1>6, <1>12 DEF IdsAreFresh
<1>16. /\ \A r \in rows : r.id \in Nat /\ r.id < n
       /\ \A e \in entries : e.id \in Nat /\ e.id < n
       /\ \A i \in touched : i \in Nat /\ i < n
  <2>1. \A r \in rows : r.id \in Nat /\ r.id < n
    BY <1>6 DEF IdsAreFresh
  <2>2. \A e \in entries : e.id \in Nat /\ e.id < n
    BY <1>6 DEF IdsAreFresh
  <2> HIDE DEF touched, gone, n
  <2> QED BY <1>12, <2>1, <2>2
<1>17. \A x \in read : Id(x) \in Nat /\ Id(x) < m
  BY <1>8, <1>9, <1>16
<1> HIDE DEF gone, touched, Id, n, m
\* What stays and what is new have different ids.
<1>18. /\ \A r \in rows, x \in read : r \notin gone => r.id # Id(x)
       /\ \A e \in entries, x \in read : e.id \notin touched => e.id # Id(x)
  BY <1>8, <1>9, <1>15, <1>16
<1>19. ids'.row = m /\ ids'.project = ids.project /\ ids' \in [row : Nat, project : Nat]
  BY <1>1, <1>2, <1>8
<1>20. IdsAreFresh'
  <2>1. \A r \in rows' : r.id \in Nat /\ r.id < m
    BY <1>8, <1>13, <1>14, <1>16, <1>17
  <2>2. \A e \in entries' : e.id \in Nat /\ e.id < m
    BY <1>8, <1>13, <1>14, <1>16, <1>17
  <2>3. ASSUME NEW r \in rows', NEW s \in rows', r.id = s.id
        PROVE  r = s
    <3>1. CASE r \in rows /\ r \notin gone
      <4>1. s \in rows
        BY <1>13, <1>14, <1>18, <2>3, <3>1
      <4> QED BY <1>6, <2>3, <3>1, <4>1 DEF IdsAreFresh
    <3>2. CASE \E x \in read : r = R(x)
      <4>1. PICK x \in read : r = R(x)
        BY <3>2
      <4>2. PICK y \in read : s = R(y)
        BY <1>13, <1>14, <1>18, <2>3, <4>1
      <4>3. x = y
        BY <1>7, <1>13, <2>3, <4>1, <4>2
      <4> QED BY <4>1, <4>2, <4>3
    <3> QED BY <1>14, <3>1, <3>2
  <2>4. ASSUME NEW e \in entries', NEW f \in entries', e.id = f.id
        PROVE  e = f
    <3>1. CASE e \in entries /\ e.id \notin touched
      <4>1. f \in entries
        BY <1>13, <1>14, <1>18, <2>4, <3>1
      <4> QED BY <1>6, <2>4, <3>1, <4>1 DEF IdsAreFresh
    <3>2. CASE \E x \in read : e = E(x)
      <4>1. PICK x \in read : e = E(x)
        BY <3>2
      <4>2. PICK y \in read : f = E(y)
        BY <1>13, <1>14, <1>18, <2>4, <4>1
      <4>3. x = y
        BY <1>7, <1>13, <2>4, <4>1, <4>2
      <4> QED BY <4>1, <4>2, <4>3
    <3> QED BY <1>14, <3>1, <3>2
  <2> QED BY <1>1, <1>6, <1>19, <2>1, <2>2, <2>3, <2>4 DEF IdsAreFresh
<1>21. RowsHaveEntries'
  <2>1. ASSUME NEW r \in rows'
        PROVE  /\ \E q \in projects : q.id = r.project
               /\ \E e \in entries' : e.id = r.id
    <3>1. CASE r \in rows /\ r \notin gone
      BY <1>6, <1>14, <1>15, <3>1 DEF RowsHaveEntries
    <3>2. CASE \E x \in read : r = R(x)
      BY <1>1, <1>13, <1>14, <3>2
    <3> QED BY <1>14, <3>1, <3>2
  <2>2. ASSUME NEW r \in rows', NEW s \in rows',
               s.project = r.project, s.doc = r.doc
        PROVE  s = r
    <3>1. CASE /\ r \in rows /\ r \notin gone
               /\ s \in rows /\ s \notin gone
      BY <1>6, <2>2, <3>1 DEF RowsHaveEntries
    <3>2. CASE \E x, y \in read : r = R(x) /\ s = R(y)
      BY <1>5, <1>13, <2>2, <3>2
    <3>3. ASSUME NEW o \in rows, o \notin gone, NEW x \in read,
                 o.project = R(x).project, o.doc = R(x).doc
          PROVE  FALSE
      BY <1>11, <1>13, <3>3
    <3> QED BY <1>14, <2>2, <3>1, <3>2, <3>3
  <2>3. ASSUME NEW r \in rows', NEW e \in entries', NEW q \in projects,
               e.id = r.id, q.id = r.project
        PROVE  /\ e.doc = r.doc /\ e.path = q.path
               /\ StandsFor(docs[q.path], clock, r.doc, r.fp, e.body)
    <3>1. CASE r \in rows /\ r \notin gone
      <4>1. e \in entries
        BY <1>13, <1>14, <1>18, <2>3, <3>1
      <4> QED BY <1>6, <2>3, <3>1, <4>1 DEF RowsHaveEntries
    <3>2. CASE \E x \in read : r = R(x)
      <4>1. PICK x \in read : r = R(x)
        BY <3>2
      <4>2. PICK y \in read : e = E(y)
        BY <1>13, <1>14, <1>18, <2>3, <4>1
      <4>3. x = y
        BY <1>7, <1>13, <2>3, <4>1, <4>2
      <4>4. q.path = p.path
        BY <1>2, <1>3, <1>13, <2>3, <4>1 DEF LeftWell
      <4>5. StandsFor(docs[p.path], clock, x.doc, x.fp, x.body)
        BY <1>5
      <4>6. /\ r.doc = x.doc /\ r.fp = x.fp /\ e.doc = x.doc /\ e.path = p.path
            /\ e.body = x.body
        BY <1>13, <4>1, <4>2, <4>3
      <4> QED BY <4>4, <4>5, <4>6
    <3> QED BY <1>14, <3>1, <3>2
  <2> QED BY <1>1, <2>1, <2>2, <2>3 DEF RowsHaveEntries
<1>22. NoOldContent'
  <2>1. \A e \in entries' : e \in entries \/ e.by = "current"
    BY <1>13, <1>14
  <2> QED BY <1>1, <2>1, OldContentStays
<1>23. RefreshesAreTyped' /\ RefreshesWell'
  <2>1. left \in SUBSET Listings /\ LeftWell(left, projects, ids.project)
    BY <1>2 DEF LeftWell, RefreshStates
  <2> HIDE DEF left
  <2>2. next \in RefreshStates /\ next.left = left /\ next.read = {}
    BY <2>1 DEF NoRefresh, RefreshStates
  <2> HIDE DEF next
  <2>3. RefreshWell("survey", next, docs, clock)
    BY <2>2 DEF RefreshWell
  <2>4. RefreshStep(j, "survey", next)
    BY <1>1, <2>1, <2>2, <2>3 DEF RefreshStep
  <2> QED BY <1>1, <1>19, <2>4, RefreshMovesOn
<1>24. Committed(p, refresh[j].retained, read)
  <2>1. \A x \in read : \E r \in rows' : r.project = p.id /\ r.doc = x.doc
    BY <1>13, <1>14a
  <2>2. ASSUME NEW e \in entries'
        PROVE  \/ e \in entries /\ \A r \in gone : r.id # e.id
               \/ \E r \in rows' : r.id = e.id
    BY <1>10, <1>13, <1>14, <1>14a
  <2>3. ASSUME NEW r \in rows', NEW e \in entries', e.id = r.id
        PROVE  \/ r \in rows /\ r \notin gone /\ e \in entries
               \/ \E x \in read : r.project = p.id /\ r.doc = x.doc /\ e.body = x.body
    <3>1. CASE r \in rows /\ r \notin gone
      BY <1>13, <1>14, <1>18, <2>3, <3>1
    <3>2. CASE \E x \in read : r = R(x)
      <4>1. PICK x \in read : r = R(x)
        BY <3>2
      <4>2. PICK y \in read : e = E(y)
        BY <1>13, <1>14, <1>18, <2>3, <4>1
      <4>3. x = y
        BY <1>7, <1>13, <2>3, <4>1, <4>2
      <4> QED BY <1>13, <4>1, <4>2, <4>3
    <3> QED BY <1>14, <3>1, <3>2
  <2> QED BY <1>14a, <2>1, <2>2, <2>3 DEF Committed
<1> QED BY <1>20, <1>21, <1>22, <1>23, <1>24 DEF TablesWell, p, read

-----------------------------------------------------------------------------
(* The invariant holds.                                                    *)

LEMMA InitWell ==
  ASSUME RescanAssumption, Init
  PROVE  IInv
<1> DEFINE p == Min(Paths)
           d == Min(DocsOf[p])
<1>1. p \in Paths
  <2>1. Paths \in SUBSET Nat /\ Paths # {}
    BY DEF RescanAssumption
  <2> QED BY <2>1, MinIsSmallest
<1>2. d \in DocsOf[p]
  <2>1. DocsOf[p] \in SUBSET Nat /\ DocsOf[p] # {}
    BY <1>1 DEF RescanAssumption
  <2> QED BY <2>1, MinIsSmallest
<1>3. /\ sessions = [f \in SessionFiles |-> 1] /\ cacheFile = {} /\ clock = 1
      /\ docs = [q \in Paths |-> [e \in DocsOf[q] |-> IF e = Min(DocsOf[q]) THEN 1 ELSE 0]]
      /\ stage = [j \in Jobs |-> "idle"] /\ scan = [j \in Jobs |-> NoScan]
      /\ refresh = [j \in Jobs |-> NoRefresh]
      /\ ids = [row |-> 2, project |-> 2] /\ sanitizer = "old"
      /\ projects = {[path |-> p, id |-> 1, seen |-> 1]}
      /\ rows = {[id |-> 1, project |-> 1, doc |-> d, fp |-> 1]}
      /\ entries = {[id |-> 1, path |-> p, doc |-> d, body |-> 1, by |-> "old"]}
  BY DEF Init
<1> HIDE DEF p, d
<1>4. ScansAreTyped
  BY <1>3, NoScanType DEF ScansAreTyped, Stages
<1>5. \A j \in Jobs : Covered(stage[j], scan[j])
  BY <1>3, NoScanType
<1>6. /\ docs = [q \in Paths |-> docs[q]]
      /\ \A q \in Paths : docs[q] \in [DocsOf[q] -> 0 .. 1]
  BY <1>3
<1>7. RefreshesAreTyped
  BY <1>3, <1>6, NoRefreshType DEF RefreshesAreTyped
<1>8. IdsAreFresh
  BY <1>1, <1>3 DEF IdsAreFresh
<1>9. StandsFor(docs[p], clock, d, 1, 1)
  BY <1>1, <1>2, <1>3, <1>6 DEF StandsFor
<1>10. RowsHaveEntries
  BY <1>3, <1>9 DEF RowsHaveEntries
<1>11. NoOldContent
  BY <1>3 DEF NoOldContent, SanitizerIsCurrent
<1>12. RefreshesWell
  BY <1>3, NoRefreshType DEF RefreshesWell
<1> QED BY <1>4, <1>5, <1>7, <1>8, <1>10, <1>11, <1>12 DEF IInv

\* The writes of the tool and of the user.
LEMMA WorldKeeps ==
  ASSUME RescanAssumption, IInv, World
  PROVE  IInv'
<1>1. ScansWell /\ TablesWell
  BY Parts
<1>2. /\ clock \in Nat /\ docs = [p \in Paths |-> docs[p]]
      /\ \A p \in Paths : docs[p] \in [DocsOf[p] -> 0 .. clock]
      /\ sessions \in [SessionFiles -> Nat]
  BY <1>1 DEF ScansWell, TablesWell, ScansAreTyped, RefreshesAreTyped
<1>3. ASSUME clock' = clock + 1, docs' = docs
      PROVE  DocsMove
  <2>1. \A p \in Paths : docs[p] \in [DocsOf[p] -> 0 .. clock']
    BY <1>2, <1>3
  <2> QED BY <1>2, <1>3, <2>1 DEF DocsMove
<1>4. ASSUME NEW f \in SessionFiles, WriteSession(f)
      PROVE  ScansWell' /\ TablesWell'
  <2>1. /\ clock' = clock + 1 /\ docs' = docs
        /\ sessions' = [sessions EXCEPT ![f] = clock']
        /\ UNCHANGED <<cacheFile, stage, scan, refresh>>
        /\ UNCHANGED <<projects, rows, entries, ids, sanitizer>>
    BY <1>4 DEF WriteSession, database
  <2>2. sessions' \in [SessionFiles -> Nat]
    BY <1>2, <2>1
  <2>3. ScansWell'
    BY <1>1, <2>1, <2>2, OtherWritesScan
  <2>4. TablesWell'
    BY <1>1, <1>3, <2>1, DocsTables
  <2> QED BY <2>3, <2>4
<1>5. ASSUME NEW f \in SessionFiles, DeleteSession(f)
      PROVE  ScansWell' /\ TablesWell'
  <2>1. /\ clock' = clock + 1 /\ docs' = docs
        /\ UNCHANGED <<stage, refresh, projects, rows, entries, ids, sanitizer>>
    BY <1>5 DEF DeleteSession, database
  <2>2. ScansWell'
    BY <1>1, <1>5, DeleteSessionScans
  <2>3. TablesWell'
    BY <1>1, <1>3, <2>1, DocsTables
  <2> QED BY <2>2, <2>3
<1>6. ASSUME NEW p \in Paths, NEW d \in DocsOf[p], NEW w \in {0, clock'},
             clock' = clock + 1, docs' = [docs EXCEPT ![p][d] = w]
      PROVE  DocsMove
  <2>1. clock' \in Nat /\ w \in 0 .. clock' /\ w \notin 1 .. clock
    BY <1>2, <1>6
  <2>2. /\ docs' = [q \in Paths |-> docs'[q]]
        /\ docs'[p] = [docs[p] EXCEPT ![d] = w]
        /\ \A q \in Paths : q # p => docs'[q] = docs[q]
    BY <1>2, <1>6
  <2>3. \A q \in Paths : docs[q] \in [DocsOf[q] -> 0 .. clock']
    BY <1>2, <1>6
  <2>4. docs'[p] \in [DocsOf[p] -> 0 .. clock']
    BY <2>1, <2>2, <2>3
  <2>5. \A q \in Paths : docs'[q] \in [DocsOf[q] -> 0 .. clock']
    BY <2>2, <2>3, <2>4
  <2>6. \A e \in DocsOf[p] : docs'[p][e] = docs[p][e] \/ docs'[p][e] \notin 1 .. clock
    BY <1>2, <2>1, <2>2
  <2>7. \A q \in Paths : \A e \in DocsOf[q] :
           docs'[q][e] = docs[q][e] \/ docs'[q][e] \notin 1 .. clock
    BY <2>2, <2>6
  <2>8. clock <= clock'
    BY <1>2, <1>6
  <2> QED BY <1>2, <2>1, <2>2, <2>5, <2>7, <2>8 DEF DocsMove
<1>7. ASSUME NEW p \in Paths, NEW d \in DocsOf[p], WriteDoc(p, d) \/ DeleteDoc(p, d)
      PROVE  ScansWell' /\ TablesWell'
  <2>1. /\ clock' = clock + 1
        /\ \E w \in {0, clock'} : docs' = [docs EXCEPT ![p][d] = w]
        /\ UNCHANGED <<sessions, cacheFile, stage, scan, refresh>>
        /\ UNCHANGED <<projects, rows, entries, ids, sanitizer>>
    BY <1>7 DEF WriteDoc, DeleteDoc, database
  <2>2. DocsMove
    BY <1>6, <2>1
  <2>3. ScansWell'
    BY <1>1, <1>2, <2>1, OtherWritesScan
  <2>4. TablesWell'
    BY <1>1, <2>1, <2>2, DocsTables
  <2> QED BY <2>3, <2>4
<1>8. ScansWell' /\ TablesWell'
  BY <1>4, <1>5, <1>7 DEF World
<1> QED BY <1>8 DEF IInv, ScansWell, TablesWell

LEMMA ScanningKeeps ==
  ASSUME RescanAssumption, ScansWell, TablesWell, NEW j \in Jobs, Scanning(j)
  PROVE  ScansWell' /\ TablesWell'
<1>1. stage \in [Jobs -> Stages]
  BY DEF ScansWell, ScansAreTyped
<1>2. ASSUME Ends(j), UNCHANGED <<files, cacheFile, database>>
      PROVE  ScansWell' /\ TablesWell'
  <2>1. UNCHANGED <<sessions, cacheFile>> /\ UNCHANGED <<docs, clock, database>>
    BY <1>2 DEF files
  <2> QED BY <1>1, <1>2, <2>1, EndsScan, EndsTables
<1>3. ASSUME stage[j] \in {"idle", "scan", "record"},
             NEW l \in {"scan", "record", "open"}, stage' = [stage EXCEPT ![j] = l],
             UNCHANGED <<files, database, refresh>>
      PROVE  TablesWell'
  <2>1. l \in Stages \ {"read", "vacuum"} /\ stage[j] # "read"
    BY <1>3 DEF Stages
  <2>2. UNCHANGED <<docs, clock, database, refresh>>
    BY <1>3 DEF files
  <2> QED BY <1>1, <1>3, <2>1, <2>2, ScanningTables
<1>4. CASE FileGone(j) \/ BudgetSpent(j) \/ NoValidSessions(j)
  BY <1>2, <1>4 DEF FileGone, BudgetSpent, NoValidSessions
<1>5. CASE Enumerate(j)
  BY <1>3, <1>5, EnumerateDoes, ScanMoves DEF Enumerate
<1>6. CASE UseCache(j)
  <2>1. stage' = [stage EXCEPT ![j] = "scan"]
    BY <1>1, <1>6 DEF UseCache
  <2> QED BY <1>3, <1>6, <2>1, UseCacheDoes, ScanMoves DEF UseCache
<1>7. CASE Parse(j)
  <2>1. \E l \in {"scan", "record"} : stage' = [stage EXCEPT ![j] = l]
    BY <1>1, <1>7 DEF Parse
  <2> QED BY <1>3, <1>7, <2>1, ParseDoes, ScanMoves DEF Parse
<1>8. CASE Unreadable(j)
  <2>1. stage' = [stage EXCEPT ![j] = "scan"]
    BY <1>1, <1>8 DEF Unreadable
  <2> QED BY <1>3, <1>8, <2>1, UnreadableDoes, ScanMoves DEF Unreadable
<1>9. CASE Record(j)
  BY <1>3, <1>9, RecordDoes, ScanMoves DEF Record
<1>10. CASE Complete(j)
  BY <1>3, <1>10, CompleteDoes, ScanMoves DEF Complete
<1> QED BY <1>4, <1>5, <1>6, <1>7, <1>8, <1>9, <1>10 DEF Scanning

LEMMA StoringKeeps ==
  ASSUME RescanAssumption, ScansWell, TablesWell, NEW j \in Jobs, Storing(j)
  PROVE  ScansWell' /\ TablesWell'
<1>1. ScansAreTyped /\ stage \in [Jobs -> Stages]
  BY DEF ScansWell, ScansAreTyped
<1>2. CASE CheckSanitizer(j)
  <2>1. PICK l \in {"replace", "wipe"} : stage' = [stage EXCEPT ![j] = l]
    BY <1>2 DEF CheckSanitizer
  <2>2. /\ stage[j] = "open" /\ l \in Stages \ {"read", "vacuum"}
        /\ UNCHANGED <<scan, sessions, cacheFile>>
        /\ UNCHANGED <<docs, clock, database, refresh>>
    BY <1>2 DEF CheckSanitizer, files, Stages
  <2>3. ScansWell'
    BY <2>1, <2>2, OnlyStageMoves
  <2>4. TablesWell'
    BY <1>1, <2>1, <2>2, ScanningTables
  <2> QED BY <2>3, <2>4
<1>3. CASE WipeContent(j)
  <2>1. /\ stage[j] = "wipe" /\ stage' = [stage EXCEPT ![j] = "vacuum"]
        /\ UNCHANGED <<scan, sessions, cacheFile>> /\ "vacuum" \in Stages
    BY <1>3 DEF WipeContent, files, Stages
  <2>2. ScansWell'
    BY <2>1, OnlyStageMoves
  <2> QED BY <1>1, <1>3, <2>2, WipeTables
<1>4. CASE ClaimSanitizer(j)
  <2>1. /\ stage[j] = "vacuum" /\ stage' = [stage EXCEPT ![j] = "replace"]
        /\ UNCHANGED <<scan, sessions, cacheFile>> /\ "replace" \in Stages
    BY <1>4 DEF ClaimSanitizer, files, Stages
  <2>2. ScansWell'
    BY <2>1, OnlyStageMoves
  <2> QED BY <1>1, <1>4, <2>2, ClaimTables
<1>5. CASE CleanupBusy(j)
  <2>1. /\ Ends(j) /\ UNCHANGED <<sessions, cacheFile>>
        /\ UNCHANGED <<docs, clock, database>>
    BY <1>5 DEF CleanupBusy, files
  <2> QED BY <1>1, <2>1, EndsScan, EndsTables
<1>6. CASE ReplaceProjects(j)
  BY <1>1, <1>6, ReplaceScans, ReplaceTables
<1> QED BY <1>2, <1>3, <1>4, <1>5, <1>6 DEF Storing

LEMMA RefreshingKeeps ==
  ASSUME RescanAssumption, ScansWell, TablesWell, NEW j \in Jobs, Refreshing(j)
  PROVE  ScansWell' /\ TablesWell'
<1>1. stage \in [Jobs -> Stages]
  BY DEF ScansWell, ScansAreTyped
<1>2. ASSUME NEW l \in {"survey", "read"}, stage' = [stage EXCEPT ![j] = l],
             UNCHANGED <<files, cacheFile, scan>>
      PROVE  ScansWell'
  <2>1. l \in Stages /\ UNCHANGED <<scan, sessions, cacheFile>>
    BY <1>2 DEF files, Stages
  <2> QED BY <1>2, <2>1, OnlyStageMoves
<1>3. CASE ListProjects(j)
  <2>1. ScansWell'
    BY <1>2, <1>3 DEF ListProjects
  <2> QED BY <1>1, <1>3, <2>1, ListTables
<1>4. CASE Survey(j)
  <2>1. ScansWell'
    BY <1>2, <1>4 DEF Survey
  <2> QED BY <1>1, <1>4, <2>1, SurveyTables
<1>5. CASE Read(j) \/ SkipDoc(j)
  <2>1. /\ stage[j] = "read" /\ stage' = stage
        /\ UNCHANGED <<files, cacheFile, scan>>
    BY <1>5 DEF Read, SkipDoc
  <2>2. stage' = [stage EXCEPT ![j] = "read"]
    BY <1>1, <2>1
  <2>3. ScansWell'
    BY <1>2, <2>1, <2>2
  <2> QED BY <1>1, <1>5, <2>3, ReadTables
<1>6. CASE CommitProject(j)
  <2>1. ScansWell'
    BY <1>2, <1>6 DEF CommitProject
  <2> QED BY <1>1, <1>6, <2>1, CommitTables
<1>7. CASE ProjectIsGone(j) \/ EndRescan(j)
  <2>1. /\ Ends(j) /\ UNCHANGED <<sessions, cacheFile>>
        /\ UNCHANGED <<docs, clock, database>>
    BY <1>7 DEF ProjectIsGone, EndRescan, files
  <2> QED BY <1>1, <2>1, EndsScan, EndsTables
<1> QED BY <1>3, <1>4, <1>5, <1>6, <1>7 DEF Refreshing

LEMMA StepKeeps ==
  ASSUME RescanAssumption, IInv, [Next]_vars
  PROVE  IInv'
<1>1. ScansWell /\ TablesWell
  BY Parts
<1>2. ASSUME NEW j \in Jobs, Killed(j)
      PROVE  ScansWell' /\ TablesWell'
  <2>1. /\ Ends(j) /\ UNCHANGED <<sessions, cacheFile>>
        /\ UNCHANGED <<docs, clock, database>>
    BY <1>2 DEF Killed, files
  <2>2. stage \in [Jobs -> Stages]
    BY <1>1 DEF ScansWell, ScansAreTyped
  <2> QED BY <1>1, <2>1, <2>2, EndsScan, EndsTables
<1>3. CASE World
  BY <1>3, WorldKeeps
<1>4. CASE \E j \in Jobs : Scanning(j) \/ Storing(j) \/ Refreshing(j) \/ Killed(j)
  <2>1. PICK j \in Jobs : Scanning(j) \/ Storing(j) \/ Refreshing(j) \/ Killed(j)
    BY <1>4
  <2>2. Scanning(j) => ScansWell' /\ TablesWell'
    BY <1>1, RescanAssumption, ScanningKeeps
  <2>3. Storing(j) => ScansWell' /\ TablesWell'
    BY <1>1, RescanAssumption, StoringKeeps
  <2>4. Refreshing(j) => ScansWell' /\ TablesWell'
    BY <1>1, RescanAssumption, RefreshingKeeps
  <2>5. Killed(j) => ScansWell' /\ TablesWell'
    BY <1>2
  <2>6. ScansWell' /\ TablesWell'
    BY <2>1, <2>2, <2>3, <2>4, <2>5
  <2> QED BY <2>6 DEF IInv, ScansWell, TablesWell
<1>5. CASE UNCHANGED vars
  <2>1. /\ UNCHANGED <<sessions, docs, clock, cacheFile, stage, scan, refresh>>
        /\ UNCHANGED <<projects, rows, entries, ids, sanitizer>>
    BY <1>5 DEF vars, files, database
  <2>2. ScansWell'
    BY <1>1, <2>1 DEF ScansWell, ScansAreTyped, Covered
  <2>3. DocsMove
    BY <1>1, <2>1 DEF TablesWell, RefreshesAreTyped, DocsMove
  <2>4. TablesWell'
    BY <1>1, <2>1, <2>3, DocsTables
  <2> QED BY <2>2, <2>4 DEF IInv, ScansWell, TablesWell
<1> QED BY <1>3, <1>4, <1>5 DEF Next

\* The inductive invariant holds of every state of the rescans, whatever they
\* overlap with and wherever they are killed.
THEOREM Invariant == Spec => []IInv
<1>1. Init => IInv
  BY RescanAssumption, InitWell
<1>2. IInv /\ [Next]_vars => IInv'
  BY RescanAssumption, StepKeeps
<1> QED BY <1>1, <1>2, PTL DEF Spec

-----------------------------------------------------------------------------
(* What it says of the program.                                            *)

\* Whatever was cached, written or spent in between, a scan whose findings
\* replace the projects of a tool has found every session file that was there
\* and readable all along.
THEOREM CoversEverySession == Spec => []SuccessCoversEverySession
<1>1. IInv => SuccessCoversEverySession
  BY DEF IInv, Covered, FilesOf, SuccessCoversEverySession
<1> QED BY <1>1, Invariant, PTL

LEMMA RowsFound ==
  ASSUME IInv
  PROVE  RowsAreSearchable
<1>1. ASSUME NEW r \in rows
      PROVE  \E e \in entries : {x \in entries : x.id = r.id} = {e} /\ e.doc = r.doc
  <2>1. PICK e \in entries : e.id = r.id
    BY DEF IInv, RowsHaveEntries
  <2>2. {x \in entries : x.id = r.id} = {e}
    BY <2>1 DEF IInv, IdsAreFresh
  <2>3. PICK p \in projects : p.id = r.project
    BY DEF IInv, RowsHaveEntries
  <2>4. e.doc = r.doc
    BY <2>1, <2>3 DEF IInv, RowsHaveEntries
  <2> QED BY <2>2, <2>4
<1> QED BY <1>1 DEF IInv, RowsHaveEntries, RowsAreSearchable

LEMMA HitsFound ==
  ASSUME IInv
  PROVE  HitsAreTrue
<1> DEFINE Hit(r, e) == [project |-> r.project, doc |-> r.doc, fp |-> r.fp,
                         path |-> e.path, body |-> e.body, by |-> e.by]
<1>1. ASSUME NEW h \in ContentHits
      PROVE  \E p \in projects :
                /\ p.id = h.project
                /\ h.path = p.path
                /\ docs[h.path][h.doc] = h.fp => h.body = h.fp
                /\ h.by = "current"
  <2>1. SanitizerIsCurrent
    BY DEF ContentHits
  <2>2. PICK r \in rows : \E e \in entries : e.id = r.id /\ h = Hit(r, e)
    BY <2>1 DEF ContentHits
  <2>3. PICK e \in entries : e.id = r.id /\ h = Hit(r, e)
    BY <2>2
  <2>4. PICK p \in projects : p.id = r.project
    BY DEF IInv, RowsHaveEntries
  <2>5. /\ h.project = r.project /\ h.doc = r.doc /\ h.fp = r.fp
        /\ h.path = e.path /\ h.body = e.body /\ h.by = e.by
    BY <2>3
  <2>6. e.path = p.path /\ StandsFor(docs[p.path], clock, r.doc, r.fp, e.body)
    BY <2>3, <2>4 DEF IInv, RowsHaveEntries
  <2>7. e.by = "current"
    BY <2>1 DEF IInv, NoOldContent
  <2> QED BY <2>4, <2>5, <2>6, <2>7 DEF StandsFor
<1>2. ASSUME NEW p \in projects, NEW q \in projects, p.id = q.id
      PROVE  p = q
  BY <1>2 DEF IInv, IdsAreFresh
<1> DEFINE Of(p) == {h \in ContentHits : h.project = p.id}
           F(p) == [project |-> p, hits |-> Of(p)]
           wanted == {h.project : h \in ContentHits}
<1>3. SearchProjects = {F(p) : p \in {q \in projects : q.id \in wanted}}
  BY DEF SearchProjects, ProjectsByIds
<1>4. ASSUME NEW found \in SearchProjects, NEW h \in found.hits
      PROVE  /\ h.path = found.project.path
             /\ docs[h.path][h.doc] = h.fp => h.body = h.fp
             /\ h.by = "current"
  <2>1. PICK p \in projects : found = F(p)
    BY <1>3
  <2>2. found.project = p /\ h \in ContentHits /\ h.project = p.id
    BY <1>4, <2>1
  <2> QED BY <1>1, <1>2, <2>2
<1>5. ContentHits = UNION {found.hits : found \in SearchProjects}
  <2>1. ASSUME NEW h \in ContentHits
        PROVE  \E found \in SearchProjects : h \in found.hits
    <3>1. PICK p \in projects : p.id = h.project
      BY <1>1
    <3>2. F(p) \in SearchProjects /\ h \in F(p).hits
      BY <1>3, <3>1
    <3> QED BY <3>2
  <2>2. ASSUME NEW found \in SearchProjects, NEW h \in found.hits
        PROVE  h \in ContentHits
    BY <1>3
  <2> QED BY <2>1, <2>2
<1> QED BY <1>4, <1>5 DEF HitsAreTrue

\* At any moment of any rescans, what a search answers from the content index
\* is true: no hit is dropped, names another project's document, stands for
\* what the file no longer holds while no refresh would read it again, or
\* comes from another sanitizer.
THEOREM SearchesAreTrue == Spec => []ContentIndexIsSound
<1>1. IInv => ContentIndexIsSound
  BY RowsFound, HitsFound DEF ContentIndexIsSound
<1> QED BY <1>1, Invariant, PTL

-----------------------------------------------------------------------------
(* The caches.  The parse of a file may be recorded under a later write,   *)
(* never under an earlier one.                                             *)

\* An entry for each file, of a parse that is not newer than its fingerprint.
CacheWell(cache) ==
    /\ \A e, x \in cache : e.file = x.file => e = x
    /\ \A e \in cache : e.seen <= e.fp

\* A parse to be recorded is not newer than the file, unless that is gone.
ParseWell(l, s, ss, c) ==
    /\ CacheWell(s.cache)
    /\ s.read <= c
    /\ l = "record" => ss[Min(s.todo)] = 0 \/ s.read <= ss[Min(s.todo)]

CachesWell ==
    /\ \A f \in SessionFiles : sessions[f] <= clock
    /\ CacheWell(cacheFile)
    /\ \A j \in Jobs : ParseWell(stage[j], scan[j], sessions, clock)

LEMMA CacheMoves ==
  ASSUME ScansWell, CachesWell, NEW j \in Jobs, NEW l, NEW s,
         stage' = [stage EXCEPT ![j] = l], scan' = [scan EXCEPT ![j] = s],
         UNCHANGED <<sessions, clock>>,
         CacheWell(cacheFile'), ParseWell(l, s, sessions, clock)
  PROVE  CachesWell'
<1>1. stage \in [Jobs -> Stages] /\ scan \in [Jobs -> ScanStates]
  BY DEF ScansWell, ScansAreTyped
<1>2. ASSUME NEW k \in Jobs
      PROVE  ParseWell(stage'[k], scan'[k], sessions, clock)
  <2>1. CASE k = j
    BY <1>1, <2>1
  <2>2. CASE k # j
    <3>1. stage'[k] = stage[k] /\ scan'[k] = scan[k]
      BY <1>1, <2>2
    <3> QED BY <3>1 DEF CachesWell
  <2> QED BY <2>1, <2>2
<1> QED BY <1>2 DEF CachesWell

\* A step of a job that is not of its scan, or that ends it.
LEMMA OtherStepsCache ==
  ASSUME ScansWell, CachesWell, TablesWell, NEW j \in Jobs, NEW l, l # "record",
         stage' = [stage EXCEPT ![j] = l],
         scan' = scan \/ scan' = [scan EXCEPT ![j] = NoScan],
         UNCHANGED <<sessions, clock, cacheFile>>
  PROVE  CachesWell'
<1>1. PICK s : /\ scan' = [scan EXCEPT ![j] = s]
               /\ s = scan[j] \/ s = NoScan
  <2>1. scan = [scan EXCEPT ![j] = scan[j]]
    BY DEF ScansWell, ScansAreTyped
  <2> QED BY <2>1
<1>2. ParseWell(l, scan[j], sessions, clock)
  BY DEF CachesWell, ParseWell
<1>3. ParseWell(l, NoScan, sessions, clock)
  BY DEF ParseWell, NoScan, CacheWell, TablesWell, RefreshesAreTyped
<1>4. ParseWell(l, s, sessions, clock)
  BY <1>1, <1>2, <1>3
<1>5. CacheWell(cacheFile')
  BY DEF CachesWell
<1> QED BY <1>1, <1>4, <1>5, CacheMoves

LEMMA RecordedWell ==
  ASSUME NEW cache \in SUBSET CacheEntries, CacheWell(cache),
         NEW f, NEW n \in Nat, NEW seen \in Nat, n = 0 \/ seen <= n
  PROVE  CacheWell(Recorded(cache, f, n, seen))
<1> DEFINE e == [file |-> f, fp |-> n, seen |-> seen]
<1>1. e.file = f /\ e.fp = n /\ e.seen = seen
  OBVIOUS
<1> HIDE DEF e
<1>2. CASE n # 0
  <2>1. Recorded(cache, f, n, seen) = (cache \ EntryFor(cache, f)) \cup {e}
    BY <1>2 DEF Recorded, e
  <2> QED BY <1>1, <1>2, <2>1 DEF CacheWell, EntryFor
<1>3. CASE n = 0
  BY <1>3 DEF Recorded
<1> QED BY <1>2, <1>3

LEMMA ScanningCaches ==
  ASSUME RescanAssumption, ScansWell, TablesWell, CachesWell,
         NEW j \in Jobs, Scanning(j)
  PROVE  CachesWell'
<1> DEFINE f == Min(scan[j].todo)
<1>1. /\ stage \in [Jobs -> Stages] /\ scan[j] \in ScanStates
      /\ sessions \in [SessionFiles -> Nat] /\ cacheFile \in SUBSET CacheEntries
      /\ scan[j].cache \in SUBSET CacheEntries /\ scan[j].read \in Nat
      /\ clock \in Nat
  BY DEF ScansWell, ScansAreTyped, ScanStates, TablesWell, RefreshesAreTyped
<1>2. /\ CacheWell(cacheFile) /\ CacheWell(scan[j].cache) /\ scan[j].read <= clock
      /\ \A g \in SessionFiles : sessions[g] <= clock
      /\ stage[j] = "record" => sessions[f] = 0 \/ scan[j].read <= sessions[f]
  BY DEF CachesWell, ParseWell
<1>3. ASSUME NEW l, NEW s, ScanStep(j, l, s), clock' = clock,
             CacheWell(cacheFile'), ParseWell(l, s, sessions, clock)
      PROVE  CachesWell'
  BY <1>3, CacheMoves DEF ScanStep
<1>4. ASSUME Ends(j), UNCHANGED <<files, cacheFile, database>>
      PROVE  CachesWell'
  BY <1>4, OtherStepsCache DEF Ends, files
<1>5. CASE FileGone(j) \/ BudgetSpent(j) \/ NoValidSessions(j)
  BY <1>4, <1>5 DEF FileGone, BudgetSpent, NoValidSessions
<1>6. CASE Enumerate(j)
  <2>1. PICK s : /\ ScanStep(j, "scan", s) /\ s.read = 0
                 /\ s.cache = Retained(cacheFile, Present(sessions))
    BY <1>6, EnumerateDoes
  <2>2. ParseWell("scan", s, sessions, clock)
    BY <1>1, <1>2, <2>1 DEF ParseWell, CacheWell, Retained
  <2>3. clock' = clock /\ CacheWell(cacheFile')
    BY <1>2, <1>6 DEF Enumerate, files
  <2> QED BY <1>3, <2>1, <2>2, <2>3
<1>7. ASSUME NEW s, ScanStep(j, "scan", s), s.cache = scan[j].cache,
             s.read = scan[j].read, clock' = clock, cacheFile' = cacheFile
      PROVE  CachesWell'
  <2>1. ParseWell("scan", s, sessions, clock)
    BY <1>2, <1>7 DEF ParseWell
  <2>2. CacheWell(cacheFile')
    BY <1>2, <1>7
  <2> QED BY <1>3, <1>7, <2>1, <2>2
<1>8. CASE UseCache(j)
  <2>1. PICK s : /\ ScanStep(j, "scan", s) /\ s.cache = scan[j].cache
                 /\ s.read = scan[j].read
    BY <1>8, UseCacheDoes
  <2>2. clock' = clock /\ cacheFile' = cacheFile
    BY <1>8 DEF UseCache, files
  <2> QED BY <1>7, <2>1, <2>2
<1>9. CASE Unreadable(j)
  <2>1. PICK s : /\ ScanStep(j, "scan", s) /\ s.cache = scan[j].cache
                 /\ s.read = scan[j].read
    BY <1>9, UnreadableDoes
  <2>2. clock' = clock /\ cacheFile' = cacheFile
    BY <1>9 DEF Unreadable, files
  <2> QED BY <1>7, <2>1, <2>2
<1>10. CASE Parse(j)
  <2> DEFINE Parsed(l, s) ==
               /\ ScanStep(j, l, s)
               /\ s.todo = IF l = "scan" THEN scan[j].todo \ {f} ELSE scan[j].todo
               /\ s.read = IF l = "scan" THEN scan[j].read ELSE sessions[f]
               /\ s.cache = scan[j].cache
  <2>0. PICK s : \E l \in {"scan", "record"} : Parsed(l, s)
    BY <1>10, ParseDoes
  <2>1. PICK l \in {"scan", "record"} : Parsed(l, s)
    BY <2>0
  <2>2. clock' = clock /\ cacheFile' = cacheFile /\ scan[j].todo # {}
    BY <1>10 DEF Parse, files
  <2>3. CASE l = "scan"
    BY <1>7, <2>1, <2>2, <2>3
  <2>4. CASE l = "record"
    <3>1. f \in SessionFiles
      BY <2>2, NextFile
    <3>2. /\ s.todo = scan[j].todo /\ s.read = sessions[f]
          /\ sessions[f] \in Nat /\ sessions[f] <= clock
      BY <1>1, <1>2, <2>1, <2>4, <3>1
    <3>3. sessions[Min(s.todo)] = sessions[f]
      BY <3>2
    <3> HIDE DEF f
    <3>4. ParseWell(l, s, sessions, clock)
      BY <1>2, <2>1, <3>2, <3>3 DEF ParseWell
    <3>5. CacheWell(cacheFile')
      BY <1>2, <2>2
    <3> QED BY <1>3, <2>1, <2>2, <3>4, <3>5
  <2> QED BY <2>3, <2>4
<1>11. CASE Record(j)
  <2>1. PICK s : /\ ScanStep(j, "scan", s) /\ s.read = 0
                 /\ s.cache = Recorded(scan[j].cache, f, sessions[f], scan[j].read)
    BY <1>11, RecordDoes
  <2>2. stage[j] = "record" /\ clock' = clock /\ cacheFile' = cacheFile
    BY <1>11 DEF Record, files
  <2>3. f \in SessionFiles
    BY <2>2, NextFile DEF ScansWell, Covered
  <2>4. sessions[f] \in Nat
    BY <1>1, <2>3
  <2> HIDE DEF f
  <2>5. CacheWell(s.cache)
    BY <1>1, <1>2, <2>1, <2>2, <2>4, RecordedWell
  <2>6. ParseWell("scan", s, sessions, clock)
    BY <1>1, <2>1, <2>5 DEF ParseWell
  <2>7. CacheWell(cacheFile')
    BY <1>2, <2>2
  <2> QED BY <1>3, <2>1, <2>2, <2>6, <2>7
<1>12. CASE Complete(j)
  <2>1. PICK s : /\ ScanStep(j, "open", s) /\ s.read = scan[j].read
                 /\ s.cache = {}
    BY <1>12, CompleteDoes
  <2>2. ParseWell("open", s, sessions, clock)
    BY <1>2, <2>1 DEF ParseWell, CacheWell
  <2>3. clock' = clock /\ CacheWell(cacheFile')
    BY <1>2, <1>12 DEF Complete, files
  <2> QED BY <1>3, <2>1, <2>2, <2>3
<1> QED BY <1>5, <1>6, <1>8, <1>9, <1>10, <1>11, <1>12 DEF Scanning

LEMMA WorldCaches ==
  ASSUME RescanAssumption, ScansWell, TablesWell, CachesWell, World
  PROVE  CachesWell'
<1>1. /\ stage \in [Jobs -> Stages] /\ scan \in [Jobs -> ScanStates]
      /\ sessions \in [SessionFiles -> Nat] /\ clock \in Nat
  BY DEF ScansWell, ScansAreTyped, TablesWell, RefreshesAreTyped
<1> DEFINE Late ==
             /\ clock' = clock + 1 /\ UNCHANGED <<cacheFile, stage>>
             /\ \A j \in Jobs : /\ scan'[j].cache = scan[j].cache
                                /\ scan'[j].read = scan[j].read
                                /\ scan'[j].todo = scan[j].todo
<1>2. Late
  <2>1. ASSUME NEW f \in SessionFiles, WriteSession(f)
        PROVE  Late
    BY <2>1 DEF WriteSession
  <2>2. ASSUME NEW f \in SessionFiles, DeleteSession(f)
        PROVE  Late
    BY <1>1, <2>2 DEF DeleteSession, ScanStates
  <2>3. ASSUME NEW p \in Paths, NEW d \in DocsOf[p], WriteDoc(p, d) \/ DeleteDoc(p, d)
        PROVE  Late
    BY <2>3 DEF WriteDoc, DeleteDoc
  <2> QED BY <2>1, <2>2, <2>3 DEF World
<1>3. ASSUME NEW g \in SessionFiles
      PROVE  sessions'[g] \in {sessions[g], 0, clock + 1}
  BY <1>1 DEF World, WriteSession, DeleteSession, WriteDoc, DeleteDoc
<1>4. ASSUME NEW g \in SessionFiles
      PROVE  sessions'[g] <= clock'
  BY <1>1, <1>2, <1>3 DEF CachesWell
<1>5. ASSUME NEW j \in Jobs
      PROVE  ParseWell(stage'[j], scan'[j], sessions', clock')
  <2>1. /\ ParseWell(stage[j], scan[j], sessions, clock)
        /\ scan[j].read \in Nat /\ Covered(stage[j], scan[j])
    BY <1>1 DEF CachesWell, ScansWell, ScanStates
  <2>2. ASSUME stage[j] = "record"
        PROVE  \/ sessions'[Min(scan[j].todo)] = 0
               \/ scan[j].read <= sessions'[Min(scan[j].todo)]
    <3>1. Min(scan[j].todo) \in SessionFiles
      BY <2>1, <2>2, NextFile DEF Covered
    <3> QED BY <1>1, <1>3, <2>1, <2>2, <3>1 DEF ParseWell
  <2>3. scan[j].read <= clock'
    BY <1>1, <1>2, <2>1 DEF ParseWell
  <2>4. Min(scan'[j].todo) = Min(scan[j].todo)
    BY <1>2
  <2> QED BY <1>2, <2>1, <2>2, <2>3, <2>4 DEF ParseWell
<1> QED BY <1>2, <1>4, <1>5 DEF CachesWell

LEMMA StepCaches ==
  ASSUME RescanAssumption, ScansWell, TablesWell, CachesWell, [Next]_vars
  PROVE  CachesWell'
<1>1. ASSUME NEW j \in Jobs, Storing(j) \/ Refreshing(j) \/ Killed(j)
      PROVE  CachesWell'
  <2>1. PICK l \in Stages \ {"record"} : stage' = [stage EXCEPT ![j] = l]
    <3>1. \/ Ends(j)
          \/ \E l \in {"wipe", "vacuum", "replace", "list", "idle", "survey", "read"} :
                stage' = [stage EXCEPT ![j] = l]
          \/ stage[j] = "read" /\ stage' = stage
      BY <1>1 DEF Storing, Refreshing, Killed, CheckSanitizer, WipeContent,
            ClaimSanitizer, CleanupBusy, ReplaceProjects, ListProjects, Survey,
            Read, SkipDoc, CommitProject, ProjectIsGone, EndRescan
    <3>2. stage \in [Jobs -> Stages]
      BY DEF ScansWell, ScansAreTyped
    <3>3. stage[j] = "read" => stage = [stage EXCEPT ![j] = "read"]
      BY <3>2
    <3> QED BY <3>1, <3>3 DEF Ends, Stages
  <2>2. /\ scan' = scan \/ scan' = [scan EXCEPT ![j] = NoScan]
        /\ UNCHANGED <<sessions, clock, cacheFile>>
    BY <1>1 DEF Storing, Refreshing, Killed, CheckSanitizer, WipeContent,
          ClaimSanitizer, CleanupBusy, ReplaceProjects, ListProjects, Survey,
          Read, SkipDoc, CommitProject, ProjectIsGone, EndRescan, Ends, files
  <2> QED BY <2>1, <2>2, OtherStepsCache
<1>2. CASE UNCHANGED vars
  <2>1. UNCHANGED <<sessions, clock, cacheFile, stage, scan>>
    BY <1>2 DEF vars, files
  <2> QED BY <2>1 DEF CachesWell
<1>3. CASE \E j \in Jobs : Scanning(j)
  BY <1>3, ScanningCaches
<1>4. CASE World
  BY <1>4, WorldCaches
<1> QED BY <1>1, <1>2, <1>3, <1>4 DEF Next

-----------------------------------------------------------------------------
(* What a job knows that runs alone, from its start.                       *)

\* The last activity that a scan takes for file f, written at n.
SeenIn(cache, f, n) ==
    IF \E e \in EntryFor(cache, f) : e.fp = n
    THEN (CHOOSE e \in EntryFor(cache, f) : e.fp = n).seen
    ELSE n

\* It finds each file that is there as the cache file has it, before and after
\* that is replaced.
QuietScan(l, s, ss, cf) ==
    l \in {"scan", "record", "open", "wipe", "vacuum", "replace"} =>
        /\ s.steady = Present(ss)
        /\ \A x \in s.found : /\ x.file \in Present(ss)
                              /\ x.seen = SeenIn(cf, x.file, ss[x.file])
        /\ l \in {"scan", "record"} =>
              /\ s.todo \subseteq Present(ss)
              /\ \A f \in Present(ss) :
                    SeenIn(s.cache, f, ss[f]) = SeenIn(cf, f, ss[f])
        /\ l = "record" =>
              /\ s.read = ss[Min(s.todo)]
              /\ SeenIn(cf, Min(s.todo), s.read) = s.read

OwnFiles(ss, p) == {f \in Present(ss) : ProjectOf[f] = p}

ProjectsExact(table, ss, cf) ==
    /\ {p.path : p \in table} = {ProjectOf[f] : f \in Present(ss)}
    /\ \A p \in table :
          p.seen \in Max({SeenIn(cf, f, ss[f]) : f \in OwnFiles(ss, p.path)})
                        .. Max({ss[f] : f \in OwnFiles(ss, p.path)})

\* The content of a project it has refreshed.
Indexed(p, tree, rw, en) ==
    /\ \A d \in Selected(tree) : \E r \in rw : r.project = p.id /\ r.doc = d
    /\ \A r \in rw, e \in en : r.project = p.id /\ e.id = r.id =>
          r.doc \in Selected(tree) /\ e.body = tree[r.doc]

QuietIndex(left, trees, table, rw, en) ==
    /\ \A e \in en : \E r \in rw : r.id = e.id
    /\ \A p \in table : [path |-> p.path, id |-> p.id] \notin left =>
          Indexed(p, trees[p.path], rw, en)

\* Of the project it is at, a document it selected is to be read or retained,
\* and then it was read, as it is there, or has its row.
QuietRead(p, tree, r, rw) ==
    /\ r.retained \cup {t.doc : t \in r.toRead} = Selected(tree)
    /\ \A x \in r.read : x.doc \in r.retained /\ x.body = tree[x.doc]
    /\ \A d \in r.retained :
          \/ \E x \in r.read : x.doc = d
          \/ \E w \in rw : w.project = p.id /\ w.doc = d /\ w.fp = tree[d]

ContentExact(trees, table, en) ==
    {[path |-> e.path, doc |-> e.doc, body |-> e.body] : e \in en} =
        UNION {{[path |-> p.path, doc |-> d, body |-> trees[p.path][d]] :
                d \in Selected(trees[p.path])} : p \in table}

QuietRefresh(l, r, trees, table, rw, en) ==
    /\ QuietIndex(r.left, trees, table, rw, en)
    /\ l = "read" => QuietRead(NextOf(r.left), trees[NextOf(r.left).path], r, rw)

\* At stage l, with its locals s and r.
QuietAt(l, s, r, ss, cf, trees, table, rw, en) ==
    /\ QuietScan(l, s, ss, cf)
    /\ l \in {"list", "survey", "read", "idle"} => ProjectsExact(table, ss, cf)
    /\ l \in {"survey", "read"} => QuietRefresh(l, r, trees, table, rw, en)
    /\ l = "idle" => ContentExact(trees, table, en)

Quiet ==
    \A j \in Jobs : solo = j =>
        /\ \A k \in Jobs \ {j} : stage[k] = "idle"
        /\ QuietAt(stage[j], scan[j], refresh[j], sessions, cacheFile, docs,
                   projects, rows, entries)

\* Only what the job that runs alone does to what it knows matters.
LEMMA QuietMoves ==
  ASSUME RescanAssumption, ScansWell, RefreshesAreTyped, Quiet,
         NEW j \in Jobs, NEW l, NEW s, NEW r,
         stage' = [stage EXCEPT ![j] = l], scan' = [scan EXCEPT ![j] = s],
         refresh' = [refresh EXCEPT ![j] = r], Undisturbed(j),
         solo = j => QuietAt(l, s, r, sessions', cacheFile', docs', projects',
                             rows', entries')
  PROVE  Quiet'
<1>1. /\ stage \in [Jobs -> Stages] /\ scan \in [Jobs -> ScanStates]
      /\ refresh \in [Jobs -> RefreshStates]
  BY DEF ScansWell, ScansAreTyped, RefreshesAreTyped
<1>2. ASSUME NEW k \in Jobs, solo' = k
      PROVE  k = j /\ solo = j
  BY <1>2 DEF Undisturbed, RescanAssumption
<1>3. stage'[j] = l /\ scan'[j] = s /\ refresh'[j] = r
  BY <1>1
<1>4. ASSUME NEW k \in Jobs, solo' = k
      PROVE  /\ \A i \in Jobs \ {k} : stage'[i] = "idle"
             /\ QuietAt(stage'[k], scan'[k], refresh'[k], sessions', cacheFile',
                        docs', projects', rows', entries')
  <2>1. k = j /\ solo = j
    BY <1>2, <1>4
  <2>2. \A i \in Jobs \ {j} : stage'[i] = "idle"
    BY <1>1, <2>1 DEF Quiet
  <2> QED BY <1>3, <2>1, <2>2
<1> QED BY <1>4 DEF Quiet

LEMMA DisturbedIsQuiet ==
  ASSUME RescanAssumption, Disturbed
  PROVE  Quiet'
BY DEF RescanAssumption, Disturbed, Quiet

-----------------------------------------------------------------------------
(* Its scan.                                                               *)

LEMMA SameEntries ==
  ASSUME NEW a, NEW b, NEW f, NEW n, EntryFor(a, f) = EntryFor(b, f)
  PROVE  SeenIn(a, f, n) = SeenIn(b, f, n)
BY DEF SeenIn

LEMMA SeenHit ==
  ASSUME NEW cache, CacheWell(cache), NEW f, NEW n,
         NEW e \in EntryFor(cache, f), e.fp = n
  PROVE  SeenIn(cache, f, n) = e.seen
<1> DEFINE x == CHOOSE x \in EntryFor(cache, f) : x.fp = n
<1>1. x \in EntryFor(cache, f)
  OBVIOUS
<1>2. x = e
  BY <1>1 DEF EntryFor, CacheWell
<1> QED BY <1>2 DEF SeenIn

LEMMA SeenEarlier ==
  ASSUME NEW cache \in SUBSET CacheEntries, CacheWell(cache), NEW f, NEW n \in Nat
  PROVE  SeenIn(cache, f, n) \in Nat /\ SeenIn(cache, f, n) <= n
<1>1. CASE \E e \in EntryFor(cache, f) : e.fp = n
  <2>1. PICK e \in EntryFor(cache, f) : e.fp = n
    BY <1>1
  <2>2. e.seen \in Nat /\ e.seen <= n
    BY <2>1 DEF EntryFor, CacheWell, CacheEntries
  <2> QED BY <2>1, <2>2, SeenHit
<1>2. CASE ~ \E e \in EntryFor(cache, f) : e.fp = n
  BY <1>2 DEF SeenIn
<1> QED BY <1>1, <1>2

\* A parse that is recorded under its own write is found as it was read.
LEMMA RecordedIsSeen ==
  ASSUME NEW cache \in SUBSET CacheEntries, CacheWell(cache),
         NEW f, NEW n \in Nat, n # 0
  PROVE  /\ SeenIn(Recorded(cache, f, n, n), f, n) = n
         /\ \A g, m : g # f => SeenIn(Recorded(cache, f, n, n), g, m)
                                  = SeenIn(cache, g, m)
<1> DEFINE e == [file |-> f, fp |-> n, seen |-> n]
           new == Recorded(cache, f, n, n)
<1>1. e.file = f /\ e.fp = n /\ e.seen = n
  OBVIOUS
<1>2. new = (cache \ EntryFor(cache, f)) \cup {e}
  BY DEF Recorded
<1>3. CacheWell(new)
  BY RecordedWell
<1> HIDE DEF e, new
<1>4. SeenIn(new, f, n) = n
  <2>1. e \in EntryFor(new, f)
    BY <1>1, <1>2 DEF EntryFor
  <2> QED BY <1>1, <1>3, <2>1, SeenHit
<1>5. ASSUME NEW g, NEW m, g # f
      PROVE  SeenIn(new, g, m) = SeenIn(cache, g, m)
  <2>1. EntryFor(new, g) = EntryFor(cache, g)
    BY <1>1, <1>2, <1>5 DEF EntryFor
  <2> QED BY <2>1, SameEntries
<1> QED BY <1>4, <1>5 DEF new

LEMMA ScanStaysQuiet ==
  ASSUME RescanAssumption, ScansWell, RefreshesAreTyped, Quiet,
         NEW j \in Jobs, NEW l \in {"scan", "record", "open"}, NEW s,
         ScanStep(j, l, s), refresh' = refresh, Undisturbed(j),
         solo = j => QuietScan(l, s, sessions, cacheFile')
  PROVE  Quiet'
<1>1. /\ stage' = [stage EXCEPT ![j] = l] /\ scan' = [scan EXCEPT ![j] = s]
      /\ sessions' = sessions
  BY DEF ScanStep
<1>2. refresh' = [refresh EXCEPT ![j] = refresh[j]]
  BY DEF RefreshesAreTyped
<1>3. solo = j => QuietAt(l, s, refresh[j], sessions', cacheFile', docs', projects',
                          rows', entries')
  BY <1>1 DEF QuietAt
<1> QED BY <1>1, <1>2, <1>3, QuietMoves

\* A scan starts to run alone.
LEMMA EnumerateIsQuiet ==
  ASSUME RescanAssumption, ScansWell, NEW j \in Jobs, Enumerate(j)
  PROVE  Quiet'
<1> DEFINE present == Present(sessions)
<1>1. PICK s : /\ ScanStep(j, "scan", s)
               /\ s.steady = present /\ s.todo = present
               /\ s.cache = Retained(cacheFile, present)
               /\ s.found = {}
  BY EnumerateDoes
<1>2. /\ stage' = [stage EXCEPT ![j] = "scan"] /\ scan' = [scan EXCEPT ![j] = s]
      /\ UNCHANGED <<sessions, cacheFile>>
      /\ solo' = IF \A k \in Jobs : stage[k] = "idle" THEN j ELSE Nobody
  BY <1>1 DEF Enumerate, files, ScanStep
<1>3. ASSUME NEW f \in present, NEW n
      PROVE  SeenIn(s.cache, f, n) = SeenIn(cacheFile, f, n)
  <2>1. EntryFor(s.cache, f) = EntryFor(cacheFile, f)
    BY <1>1 DEF EntryFor, Retained
  <2> QED BY <2>1, SameEntries
<1> HIDE DEF present
<1>4. QuietScan("scan", s, sessions, cacheFile)
  BY <1>1, <1>3 DEF QuietScan, present
<1>5. QuietAt("scan", s, refresh'[j], sessions', cacheFile', docs', projects',
              rows', entries')
  BY <1>2, <1>4 DEF QuietAt
<1>6. stage'[j] = "scan" /\ scan'[j] = s
  BY <1>2 DEF ScansWell, ScansAreTyped
<1>7. ASSUME NEW k \in Jobs, solo' = k
      PROVE  /\ \A i \in Jobs \ {k} : stage'[i] = "idle"
             /\ QuietAt(stage'[k], scan'[k], refresh'[k], sessions', cacheFile',
                        docs', projects', rows', entries')
  <2>1. k = j /\ \A i \in Jobs : stage[i] = "idle"
    BY <1>2, <1>7 DEF RescanAssumption
  <2>2. \A i \in Jobs \ {k} : stage'[i] = "idle"
    BY <1>2, <2>1 DEF ScansWell, ScansAreTyped
  <2> QED BY <1>5, <1>6, <2>1, <2>2
<1> QED BY <1>7 DEF Quiet

LEMMA UseCacheIsQuiet ==
  ASSUME RescanAssumption, ScansWell, TablesWell, CachesWell, Quiet,
         NEW j \in Jobs, UseCache(j)
  PROVE  Quiet'
<1> DEFINE f == Min(scan[j].todo)
<1>1. PICK s : \E e \in Hits(scan[j].cache, f) :
                  /\ ScanStep(j, "scan", s) /\ s.steady = scan[j].steady
                  /\ s.todo = scan[j].todo \ {f}
                  /\ s.found = scan[j].found \cup {Finding(f, e.seen)}
                  /\ s.cache = scan[j].cache /\ s.read = scan[j].read
  BY UseCacheDoes
<1>2. PICK e \in Hits(scan[j].cache, f) :
         /\ ScanStep(j, "scan", s) /\ s.steady = scan[j].steady
         /\ s.todo = scan[j].todo \ {f}
         /\ s.found = scan[j].found \cup {Finding(f, e.seen)}
         /\ s.cache = scan[j].cache /\ s.read = scan[j].read
  BY <1>1
<1>3. /\ stage[j] = "scan" /\ scan[j].todo # {} /\ Undisturbed(j)
      /\ cacheFile' = cacheFile /\ refresh' = refresh
  BY DEF UseCache
<1>4. f \in scan[j].todo
  BY <1>3, NextFile
<1>5. SeenIn(scan[j].cache, f, sessions[f]) = e.seen
  BY SeenHit DEF Hits, CachesWell, ParseWell
<1> HIDE DEF f
<1>6. ASSUME solo = j
      PROVE  QuietScan("scan", s, sessions, cacheFile)
  <2>1. QuietScan("scan", scan[j], sessions, cacheFile)
    BY <1>3, <1>6 DEF Quiet, QuietAt
  <2>2. f \in Present(sessions) /\ e.seen = SeenIn(cacheFile, f, sessions[f])
    BY <1>4, <1>5, <2>1 DEF QuietScan
  <2>3. ASSUME NEW x \in s.found
        PROVE  /\ x.file \in Present(sessions)
               /\ x.seen = SeenIn(cacheFile, x.file, sessions[x.file])
    <3>1. x \in scan[j].found \/ (x.file = f /\ x.seen = e.seen)
      <4>1. x \in scan[j].found \/ x = Finding(f, e.seen)
        BY <1>2
      <4> QED BY <4>1 DEF Finding
    <3> QED BY <2>1, <2>2, <3>1 DEF QuietScan
  <2> QED BY <1>2, <2>1, <2>3 DEF QuietScan
<1> QED BY <1>2, <1>3, <1>6, ScanStaysQuiet DEF TablesWell

LEMMA ParseIsQuiet ==
  ASSUME RescanAssumption, ScansWell, TablesWell, CachesWell, Quiet,
         NEW j \in Jobs, Parse(j)
  PROVE  Quiet'
<1> DEFINE f == Min(scan[j].todo)
           n == sessions[f]
           Parsed(l, s) ==
              /\ ScanStep(j, l, s) /\ s.steady = scan[j].steady
              /\ s.todo = IF l = "scan" THEN scan[j].todo \ {f} ELSE scan[j].todo
              /\ s.read = IF l = "scan" THEN scan[j].read ELSE n
              /\ s.found = scan[j].found \cup {Finding(f, n)}
              /\ s.cache = scan[j].cache
<1>1. PICK s : \E l \in {"scan", "record"} : Parsed(l, s)
  BY ParseDoes
<1>2. PICK l \in {"scan", "record"} : Parsed(l, s)
  BY <1>1
<1>3. /\ stage[j] = "scan" /\ scan[j].todo # {} /\ Undisturbed(j)
      /\ cacheFile' = cacheFile /\ refresh' = refresh
      /\ Hits(scan[j].cache, f) = {}
  BY DEF Parse
<1>4. f \in scan[j].todo
  BY <1>3, NextFile
<1>5. SeenIn(scan[j].cache, f, n) = n
  BY <1>3 DEF SeenIn, Hits
<1>6. f = Min(scan[j].todo)
  OBVIOUS
<1> HIDE DEF f
<1>7. ASSUME solo = j
      PROVE  QuietScan(l, s, sessions, cacheFile)
  <2>1. QuietScan("scan", scan[j], sessions, cacheFile)
    BY <1>3, <1>7 DEF Quiet, QuietAt
  <2>2. f \in Present(sessions) /\ SeenIn(cacheFile, f, n) = n
    BY <1>4, <1>5, <2>1 DEF QuietScan
  <2>3. ASSUME NEW x \in s.found
        PROVE  /\ x.file \in Present(sessions)
               /\ x.seen = SeenIn(cacheFile, x.file, sessions[x.file])
    <3>1. x \in scan[j].found \/ (x.file = f /\ x.seen = n)
      <4>1. x \in scan[j].found \/ x = Finding(f, n)
        BY <1>2
      <4> QED BY <4>1 DEF Finding
    <3> QED BY <2>1, <2>2, <3>1 DEF QuietScan
  <2>4. l = "record" => /\ s.read = sessions[Min(s.todo)]
                        /\ SeenIn(cacheFile, Min(s.todo), s.read) = s.read
    BY <1>2, <1>6, <2>2
  <2>5. s.todo \subseteq Present(sessions)
    BY <1>2, <2>1 DEF QuietScan
  <2> QED BY <1>2, <2>1, <2>3, <2>4, <2>5 DEF QuietScan
<1> QED BY <1>2, <1>3, <1>7, ScanStaysQuiet DEF TablesWell

LEMMA RecordIsQuiet ==
  ASSUME RescanAssumption, ScansWell, TablesWell, CachesWell, Quiet,
         NEW j \in Jobs, Record(j)
  PROVE  Quiet'
<1> DEFINE f == Min(scan[j].todo)
           n == sessions[f]
<1>1. PICK s : /\ ScanStep(j, "scan", s) /\ s.steady = scan[j].steady
               /\ s.todo = scan[j].todo \ {f} /\ s.found = scan[j].found
               /\ s.cache = Recorded(scan[j].cache, f, n, scan[j].read)
  BY RecordDoes
<1>2. /\ stage[j] = "record" /\ Undisturbed(j)
      /\ cacheFile' = cacheFile /\ refresh' = refresh
  BY DEF Record
<1>3. f \in scan[j].todo /\ f \in SessionFiles
  BY <1>2, NextFile DEF ScansWell, Covered
<1>4. /\ scan[j].cache \in SUBSET CacheEntries /\ CacheWell(scan[j].cache)
      /\ n \in Nat
  BY <1>3 DEF ScansWell, ScansAreTyped, ScanStates, CachesWell, ParseWell
<1> HIDE DEF f, n
<1>5. ASSUME solo = j
      PROVE  QuietScan("scan", s, sessions, cacheFile)
  <2>1. QuietScan("record", scan[j], sessions, cacheFile)
    BY <1>2, <1>5 DEF Quiet, QuietAt
  <2>2. scan[j].read = n /\ SeenIn(cacheFile, f, n) = n
    BY <2>1 DEF QuietScan, f, n
  <2>3. f \in Present(sessions) /\ n # 0
    BY <1>3, <2>1 DEF QuietScan, Present, n
  <2>4. /\ SeenIn(s.cache, f, n) = n
        /\ \A g, m : g # f => SeenIn(s.cache, g, m) = SeenIn(scan[j].cache, g, m)
    <3>1. s.cache = Recorded(scan[j].cache, f, n, n)
      BY <1>1, <2>2
    <3> QED BY <1>4, <2>3, <3>1, RecordedIsSeen
  <2>5. ASSUME NEW g \in Present(sessions)
        PROVE  SeenIn(s.cache, g, sessions[g]) = SeenIn(cacheFile, g, sessions[g])
    <3>1. CASE g = f
      BY <2>2, <2>4, <3>1 DEF n
    <3>2. CASE g # f
      BY <2>1, <2>4, <3>2 DEF QuietScan
    <3> QED BY <3>1, <3>2
  <2> QED BY <1>1, <2>1, <2>5 DEF QuietScan
<1> QED BY <1>1, <1>2, <1>5, ScanStaysQuiet DEF TablesWell

\* The cache file that takes the place of the one before says the same.
LEMMA CompleteIsQuiet ==
  ASSUME RescanAssumption, ScansWell, TablesWell, Quiet, NEW j \in Jobs, Complete(j)
  PROVE  Quiet'
<1>1. PICK s : /\ ScanStep(j, "open", s) /\ s.steady = scan[j].steady
               /\ s.found = scan[j].found
  BY CompleteDoes
<1>2. /\ stage[j] = "scan" /\ Undisturbed(j) /\ refresh' = refresh
      /\ cacheFile' = scan[j].cache \/ cacheFile' = cacheFile
  BY DEF Complete
<1>3. ASSUME solo = j
      PROVE  QuietScan("open", s, sessions, cacheFile')
  <2>1. QuietScan("scan", scan[j], sessions, cacheFile)
    BY <1>2, <1>3 DEF Quiet, QuietAt
  <2>2. \A f \in Present(sessions) :
           SeenIn(cacheFile', f, sessions[f]) = SeenIn(cacheFile, f, sessions[f])
    BY <1>2, <2>1 DEF QuietScan
  <2> QED BY <1>1, <2>1, <2>2 DEF QuietScan
<1> QED BY <1>1, <1>2, <1>3, ScanStaysQuiet DEF TablesWell

-----------------------------------------------------------------------------
(* The projects it leaves.                                                 *)

LEMMA LaterStageIsQuiet ==
  ASSUME RescanAssumption, ScansWell, TablesWell, Quiet, NEW j \in Jobs,
         NEW l \in {"wipe", "vacuum", "replace"},
         stage[j] \in {"open", "wipe", "vacuum"},
         stage' = [stage EXCEPT ![j] = l], Undisturbed(j),
         UNCHANGED <<scan, refresh, sessions, cacheFile>>
  PROVE  Quiet'
<1>1. /\ scan' = [scan EXCEPT ![j] = scan[j]]
      /\ refresh' = [refresh EXCEPT ![j] = refresh[j]]
  BY DEF ScansWell, ScansAreTyped, TablesWell, RefreshesAreTyped
<1>2. ASSUME solo = j
      PROVE  QuietAt(l, scan[j], refresh[j], sessions', cacheFile', docs', projects',
                     rows', entries')
  <2>1. QuietScan(stage[j], scan[j], sessions, cacheFile)
    BY <1>2 DEF Quiet, QuietAt
  <2>2. QuietScan(l, scan[j], sessions, cacheFile)
    BY <2>1 DEF QuietScan
  <2> QED BY <2>2 DEF QuietAt
<1> QED BY <1>1, <1>2, QuietMoves DEF TablesWell

LEMMA MaxIsLargest ==
  ASSUME NEW c \in Nat, NEW S \in SUBSET (0 .. c), S # {}
  PROVE  Max(S) \in S /\ \A y \in S : Max(S) >= y
<1> DEFINE T == {c - x : x \in S}
<1>1. T \in SUBSET Nat /\ T # {}
  <2>1. \A x \in 0 .. c : c - x \in Nat
    OBVIOUS
  <2>2. \A x \in S : x \in 0 .. c
    OBVIOUS
  <2> QED BY <2>1, <2>2
<1>2. PICK m \in T : \A n \in T : m <= n
  BY <1>1, SmallestOne
<1>3. PICK x \in S : m = c - x
  OBVIOUS
<1>4. ASSUME NEW y \in S
      PROVE  x >= y
  <2>1. c - x <= c - y
    BY <1>2, <1>3
  <2>2. x \in 0 .. c /\ y \in 0 .. c
    OBVIOUS
  <2> QED BY <2>1, <2>2
<1> QED BY <1>4 DEF Max

\* The projects after a replacement are those named, as they were seen.
LEMMA ReplacedAre ==
  ASSUME IdsAreFresh, NEW found
  PROVE  /\ \A q \in Replacement(found) : /\ q.path \in Named(found)
                                          /\ q.seen = SeenOf(found, q.path)
         /\ \A p \in Named(found) : \E q \in Replacement(found) : q.path = p
<1> DEFINE Kept(o) == [o EXCEPT !.seen = SeenOf(found, o.path)]
<1>1. ASSUME NEW o \in projects
      PROVE  Kept(o).path = o.path /\ Kept(o).seen = SeenOf(found, o.path)
  <2>1. o = [path |-> o.path, id |-> o.id, seen |-> o.seen]
    BY DEF IdsAreFresh
  <2> QED BY <2>1
<1>2. ASSUME NEW p
      PROVE  /\ AddedOne(found, p).path = p
             /\ AddedOne(found, p).seen = SeenOf(found, p)
  BY DEF AddedOne
<1>3. KeptOnes(found) = {Kept(o) : o \in {r \in projects : r.path \in Named(found)}}
  BY DEF KeptOnes
<1>4. \A p \in Named(found) :
         p \in Added(found) \/ \E o \in projects : o.path = p
  BY DEF Added
<1>5. \A p \in Added(found) : p \in Named(found)
  BY DEF Added
<1> HIDE DEF Kept
<1> QED BY <1>1, <1>2, <1>3, <1>4, <1>5, ReplacementParts

LEMMA ReplacementIsExact ==
  ASSUME RescanAssumption, IdsAreFresh, NEW found \in SUBSET Findings,
         NEW cf \in SUBSET CacheEntries, CacheWell(cf),
         sessions \in [SessionFiles -> Nat], clock \in Nat,
         \A f \in SessionFiles : sessions[f] <= clock,
         FilesOf(found) = Present(sessions),
         \A x \in found : x.seen = SeenIn(cf, x.file, sessions[x.file])
  PROVE  ProjectsExact(Replacement(found), sessions, cf)
<1> DEFINE L(p) == {SeenIn(cf, f, sessions[f]) : f \in OwnFiles(sessions, p)}
           U(p) == {sessions[f] : f \in OwnFiles(sessions, p)}
<1>1. \A f \in Present(sessions) : f \in SessionFiles /\ sessions[f] \in Nat
  BY DEF Present
<1>2. Named(found) = {ProjectOf[f] : f \in Present(sessions)}
  BY DEF Named, FilesOf
<1>3. {q.path : q \in Replacement(found)} = Named(found)
  BY ReplacedAre
<1>4. ASSUME NEW p \in Named(found)
      PROVE  SeenOf(found, p) \in Max(L(p)) .. Max(U(p))
  <2> DEFINE X == {e.seen : e \in {x \in found : ProjectOf[x.file] = p}}
  <2>1. X = L(p)
    <3>1. \A y \in X : y \in L(p)
      BY DEF FilesOf, OwnFiles
    <3>2. \A y \in L(p) : y \in X
      BY DEF FilesOf, OwnFiles
    <3> QED BY <3>1, <3>2
  <2>2. SeenOf(found, p) = Max(L(p))
    BY <2>1 DEF SeenOf
  <2>3. \A f \in OwnFiles(sessions, p) :
           /\ f \in SessionFiles /\ sessions[f] \in Nat
           /\ sessions[f] <= clock /\ SeenIn(cf, f, sessions[f]) \in Nat
           /\ SeenIn(cf, f, sessions[f]) <= sessions[f]
    BY <1>1, SeenEarlier DEF OwnFiles
  <2>4. OwnFiles(sessions, p) # {}
    BY <1>2 DEF OwnFiles
  <2>5. L(p) \in SUBSET (0 .. clock) /\ L(p) # {}
    BY <2>3, <2>4
  <2>6. U(p) \in SUBSET (0 .. clock) /\ U(p) # {}
    BY <2>3, <2>4
  <2>7. Max(L(p)) \in L(p)
    BY <2>5, MaxIsLargest
  <2>8. Max(U(p)) \in U(p) /\ \A y \in U(p) : Max(U(p)) >= y
    BY <2>6, MaxIsLargest
  <2>9. PICK f \in OwnFiles(sessions, p) : Max(L(p)) = SeenIn(cf, f, sessions[f])
    BY <2>7
  <2>10. Max(U(p)) >= sessions[f] /\ Max(U(p)) \in Nat
    BY <2>3, <2>8
  <2> HIDE DEF L, U, X
  <2>11. Max(L(p)) \in Nat /\ Max(L(p)) <= Max(U(p))
    BY <2>3, <2>9, <2>10
  <2> QED BY <2>2, <2>10, <2>11
<1>5. ASSUME NEW q \in Replacement(found)
      PROVE  q.seen \in Max(L(q.path)) .. Max(U(q.path))
  <2>1. q.path \in Named(found) /\ q.seen = SeenOf(found, q.path)
    BY ReplacedAre
  <2> HIDE DEF L, U
  <2>2. SeenOf(found, q.path) \in Max(L(q.path)) .. Max(U(q.path))
    BY <1>4, <2>1
  <2> QED BY <2>1, <2>2
<1> QED BY <1>2, <1>3, <1>5 DEF ProjectsExact

LEMMA ReplaceIsQuiet ==
  ASSUME RescanAssumption, ScansWell, TablesWell, CachesWell, Quiet,
         NEW j \in Jobs, ReplaceProjects(j)
  PROVE  Quiet'
<1> DEFINE found == scan[j].found
<1>1. /\ stage[j] = "replace" /\ projects' = Replacement(found)
      /\ scan' = [scan EXCEPT ![j] = NoScan]
      /\ UNCHANGED <<sessions, cacheFile, refresh>>
      /\ Disturbed \/ (stage' = [stage EXCEPT ![j] = "list"] /\ Undisturbed(j))
  BY DEF ReplaceProjects, files
<1>2. CASE stage' = [stage EXCEPT ![j] = "list"] /\ Undisturbed(j)
  <2>1. refresh' = [refresh EXCEPT ![j] = refresh[j]]
    BY <1>1 DEF TablesWell, RefreshesAreTyped
  <2>2. ASSUME solo = j
        PROVE  QuietAt("list", NoScan, refresh[j], sessions', cacheFile', docs',
                       projects', rows', entries')
    <3>1. QuietScan("replace", scan[j], sessions, cacheFile)
      BY <1>1, <2>2 DEF Quiet, QuietAt
    <3>2. /\ found \in SUBSET Findings /\ cacheFile \in SUBSET CacheEntries
          /\ CacheWell(cacheFile) /\ sessions \in [SessionFiles -> Nat]
          /\ clock \in Nat /\ IdsAreFresh
          /\ \A f \in SessionFiles : sessions[f] <= clock
      BY DEF ScansWell, ScansAreTyped, ScanStates, CachesWell, TablesWell,
            RefreshesAreTyped
    <3>3. FilesOf(found) = Present(sessions)
      <4>1. Present(sessions) \subseteq FilesOf(found)
        BY <1>1, <3>1 DEF ScansWell, Covered, QuietScan
      <4>2. FilesOf(found) \subseteq Present(sessions)
        BY <3>1 DEF QuietScan, FilesOf
      <4> QED BY <4>1, <4>2
    <3>4. \A x \in found : x.seen = SeenIn(cacheFile, x.file, sessions[x.file])
      BY <3>1 DEF QuietScan
    <3> HIDE DEF found
    <3>5. ProjectsExact(projects', sessions, cacheFile)
      BY <1>1, <3>2, <3>3, <3>4, ReplacementIsExact
    <3> QED BY <1>1, <3>5 DEF QuietAt, QuietScan
  <2> QED BY <1>1, <1>2, <2>1, <2>2, QuietMoves DEF TablesWell
<1> QED BY <1>1, <1>2, DisturbedIsQuiet

-----------------------------------------------------------------------------
(* The content it leaves.                                                  *)

\* Job j goes on with its refresh, at stage l and with the locals r.
RefreshGoesOn(j, l, r) ==
    /\ l \in {"survey", "read"} /\ stage[j] \in {"list", "survey", "read"}
    /\ stage' = [stage EXCEPT ![j] = l]
    /\ refresh' = [refresh EXCEPT ![j] = r]
    /\ Undisturbed(j)
    /\ UNCHANGED <<scan, sessions, cacheFile, docs, projects>>
    /\ solo = j => QuietRefresh(l, r, docs, projects, rows', entries')

LEMMA RefreshStaysQuiet ==
  ASSUME RescanAssumption, ScansWell, TablesWell, Quiet, NEW j \in Jobs,
         NEW l, NEW r, RefreshGoesOn(j, l, r)
  PROVE  Quiet'
<1> USE DEF RefreshGoesOn
<1>1. scan' = [scan EXCEPT ![j] = scan[j]]
  BY DEF ScansWell, ScansAreTyped
<1>2. ASSUME solo = j
      PROVE  QuietAt(l, scan[j], r, sessions', cacheFile', docs', projects',
                     rows', entries')
  <2>1. ProjectsExact(projects, sessions, cacheFile)
    BY <1>2 DEF Quiet, QuietAt
  <2>2. QuietScan(l, scan[j], sessions, cacheFile)
    BY DEF QuietScan
  <2> QED BY <1>2, <2>1, <2>2 DEF QuietAt
<1> QED BY <1>1, <1>2, QuietMoves DEF TablesWell

LEMMA ListIsQuiet ==
  ASSUME RescanAssumption, ScansWell, TablesWell, Quiet, NEW j \in Jobs,
         ListProjects(j)
  PROVE  Quiet'
<1> DEFINE left == {[path |-> p.path, id |-> p.id] : p \in projects}
           r == [refresh[j] EXCEPT !.left = left]
<1>1. /\ stage[j] = "list" /\ stage' = [stage EXCEPT ![j] = "survey"]
      /\ refresh' = [refresh EXCEPT ![j].left = left]
      /\ entries' = {e \in entries : \E s \in rows : s.id = e.id}
      /\ UNCHANGED <<scan, sessions, cacheFile, docs, projects, rows>>
      /\ Undisturbed(j)
  BY DEF ListProjects, files, Joined
<1>2. refresh \in [Jobs -> RefreshStates]
  BY DEF TablesWell, RefreshesAreTyped
<1>3. refresh' = [refresh EXCEPT ![j] = r] /\ r.left = left
  <2> HIDE DEF left
  <2> QED BY <1>1, <1>2 DEF RefreshStates
<1> HIDE DEF r
<1>4. QuietRefresh("survey", r, docs, projects, rows', entries')
  BY <1>1, <1>3 DEF QuietRefresh, QuietIndex
<1>5. RefreshGoesOn(j, "survey", r)
  BY <1>1, <1>3, <1>4 DEF RefreshGoesOn
<1> QED BY <1>5, RefreshStaysQuiet

LEMMA SurveyIsQuiet ==
  ASSUME RescanAssumption, ScansWell, TablesWell, Quiet, NEW j \in Jobs, Survey(j)
  PROVE  Quiet'
<1> DEFINE p == NextProject(j)
           tree == docs[p.path]
           known == {d \in Selected(tree) : Known(p, d, tree[d])}
           toRead == {[doc |-> d, fp |-> tree[d]] : d \in Selected(tree) \ known}
           r == [refresh[j] EXCEPT !.retained = known, !.toRead = toRead]
<1>1. /\ stage[j] = "survey" /\ stage' = [stage EXCEPT ![j] = "read"]
      /\ refresh' = [refresh EXCEPT ![j].retained = known, ![j].toRead = toRead]
      /\ UNCHANGED <<scan, sessions, cacheFile, docs, projects, rows, entries>>
      /\ Undisturbed(j)
  BY DEF Survey, files, database
<1>2. refresh \in [Jobs -> RefreshStates] /\ refresh[j].read = {}
  BY <1>1 DEF TablesWell, RefreshesAreTyped, RefreshesWell, RefreshWell
<1>3. p = NextOf(refresh[j].left)
  BY DEF NextProject, NextOf
<1> HIDE DEF p
<1>4. known \cup {t.doc : t \in toRead} = Selected(tree)
  <2> DEFINE T(d) == [doc |-> d, fp |-> tree[d]]
  <2>1. \A d : T(d).doc = d
    OBVIOUS
  <2>2. toRead = {T(d) : d \in Selected(tree) \ known}
    OBVIOUS
  <2>3. \A d \in known : d \in Selected(tree)
    OBVIOUS
  <2> HIDE DEF T, toRead, known
  <2> QED BY <2>1, <2>2, <2>3
<1>5. \A d \in known : \E w \in rows : w.project = p.id /\ w.doc = d /\ w.fp = tree[d]
  BY DEF Known
<1> HIDE DEF known, toRead
<1>6. /\ refresh' = [refresh EXCEPT ![j] = r] /\ r.left = refresh[j].left
      /\ r.retained = known /\ r.toRead = toRead /\ r.read = {}
  BY <1>1, <1>2 DEF RefreshStates
<1> HIDE DEF r
<1>7. QuietRead(p, tree, r, rows)
  BY <1>4, <1>5, <1>6 DEF QuietRead
<1>8. solo = j => QuietIndex(r.left, docs, projects, rows, entries)
  BY <1>1, <1>6 DEF Quiet, QuietAt, QuietRefresh
<1>9. solo = j => QuietRefresh("read", r, docs, projects, rows', entries')
  BY <1>1, <1>3, <1>6, <1>7, <1>8 DEF QuietRefresh, tree
<1>10. RefreshGoesOn(j, "read", r)
  BY <1>1, <1>6, <1>9 DEF RefreshGoesOn
<1> QED BY <1>10, RefreshStaysQuiet

LEMMA ReadIsQuiet ==
  ASSUME RescanAssumption, ScansWell, TablesWell, Quiet, NEW j \in Jobs, Read(j)
  PROVE  Quiet'
<1> DEFINE p == NextProject(j)
           tree == docs[p.path]
           t == NextDoc(j)
           toRead == refresh[j].toRead
           x == [doc |-> t.doc, fp |-> t.fp, body |-> tree[t.doc]]
           r == [refresh[j] EXCEPT !.toRead = toRead \ {t},
                                   !.retained = refresh[j].retained \cup {t.doc},
                                   !.read = refresh[j].read \cup {x}]
<1>1. /\ stage[j] = "read" /\ stage' = stage /\ toRead # {}
      /\ refresh' = [refresh EXCEPT ![j].toRead = @ \ {t},
                        ![j].retained = @ \cup {t.doc}, ![j].read = @ \cup {x}]
      /\ UNCHANGED <<scan, sessions, cacheFile, docs, projects, rows, entries>>
      /\ Undisturbed(j)
  BY DEF Read, files, database
<1>2. /\ refresh \in [Jobs -> RefreshStates]
      /\ stage' = [stage EXCEPT ![j] = "read"]
  BY <1>1 DEF TablesWell, RefreshesAreTyped, ScansWell, ScansAreTyped
<1>3. p = NextOf(refresh[j].left)
  BY DEF NextProject, NextOf
<1>4. t \in toRead
  <2>1. \A u \in toRead : u.doc \in Nat
    BY <1>2 DEF RefreshStates, Pending, Docs, RescanAssumption
  <2> QED BY <1>1, <2>1, NextDocIsToRead
<1>5. x.doc = t.doc /\ x.body = tree[t.doc]
  OBVIOUS
<1> HIDE DEF p, t, x
<1>6. /\ refresh' = [refresh EXCEPT ![j] = r] /\ r.left = refresh[j].left
      /\ r.retained = refresh[j].retained \cup {t.doc}
      /\ r.toRead = toRead \ {t} /\ r.read = refresh[j].read \cup {x}
  <2>1. refresh' = [refresh EXCEPT ![j] = r]
    BY <1>1, <1>2
  <2>2. refresh[j] = [left |-> refresh[j].left, toRead |-> refresh[j].toRead,
                      retained |-> refresh[j].retained, read |-> refresh[j].read]
    BY <1>2 DEF RefreshStates
  <2> QED BY ZenonT(40), <2>1, <2>2
<1> HIDE DEF r, tree
<1>7. ASSUME solo = j
      PROVE  /\ QuietIndex(r.left, docs, projects, rows, entries)
             /\ QuietRead(p, tree, r, rows)
  <2>1. /\ QuietIndex(r.left, docs, projects, rows, entries)
        /\ QuietRead(p, tree, refresh[j], rows)
    BY <1>1, <1>3, <1>6, <1>7 DEF Quiet, QuietAt, QuietRefresh, tree
  <2>2. r.retained \cup {u.doc : u \in r.toRead} = Selected(tree)
    <3>1. refresh[j].retained \cup {u.doc : u \in toRead} = Selected(tree)
      BY <2>1 DEF QuietRead
    <3>2. {u.doc : u \in toRead} = {u.doc : u \in toRead \ {t}} \cup {t.doc}
      BY <1>4
    <3> HIDE DEF toRead
    <3> QED BY <1>6, <3>1, <3>2
  <2>3. \A y \in r.read : y.doc \in r.retained /\ y.body = tree[y.doc]
    BY <1>5, <1>6, <2>1 DEF QuietRead
  <2>4. \A d \in r.retained :
           \/ \E y \in r.read : y.doc = d
           \/ \E w \in rows : w.project = p.id /\ w.doc = d /\ w.fp = tree[d]
    BY <1>5, <1>6, <2>1 DEF QuietRead
  <2> QED BY <2>1, <2>2, <2>3, <2>4 DEF QuietRead
<1>8. solo = j => QuietRefresh("read", r, docs, projects, rows', entries')
  BY <1>1, <1>3, <1>6, <1>7 DEF QuietRefresh, tree
<1>9. RefreshGoesOn(j, "read", r)
  BY <1>1, <1>2, <1>6, <1>8 DEF RefreshGoesOn
<1> QED BY <1>9, RefreshStaysQuiet

LEMMA CommitIsQuiet ==
  ASSUME RescanAssumption, ScansWell, TablesWell, Quiet, NEW j \in Jobs,
         CommitProject(j)
  PROVE  Quiet'
<1> DEFINE p == NextProject(j)
           tree == docs[p.path]
           read == refresh[j].read
           retained == refresh[j].retained
           left == refresh[j].left \ {p}
           next == [NoRefresh EXCEPT !.left = left]
           gone == GoneRows(p, retained, read)
<1>1. /\ stage[j] = "read" /\ refresh[j].toRead = {}
      /\ stage' = [stage EXCEPT ![j] = "survey"]
      /\ refresh' = [refresh EXCEPT ![j] = next]
      /\ UNCHANGED <<scan, sessions, cacheFile, docs, projects>>
      /\ Undisturbed(j)
  BY DEF CommitProject, files
<1>2. Committed(p, retained, read)
  BY CommitTables DEF ScansWell, ScansAreTyped
<1>3. /\ refresh \in [Jobs -> RefreshStates]
      /\ RefreshWell("read", refresh[j], docs, clock)
      /\ LeftWell(refresh[j].left, projects, ids.project)
  BY <1>1 DEF TablesWell, RefreshesAreTyped, RefreshesWell
<1>4. p = NextOf(refresh[j].left) /\ p \in refresh[j].left /\ p.path \in Paths
  BY <1>3, NextPath DEF NextProject, NextOf, RefreshWell
<1>5. /\ p = [path |-> p.path, id |-> p.id]
      /\ \A q \in projects : q.id = p.id => q.path = p.path
  BY <1>3, <1>4 DEF LeftWell, RefreshStates, Listings
<1>6. next.left = left
  BY DEF NoRefresh
<1> HIDE DEF p, next
<1>7. ASSUME solo = j
      PROVE  QuietIndex(left, docs, projects, rows', entries')
  <2>1. /\ QuietIndex(refresh[j].left, docs, projects, rows, entries)
        /\ QuietRead(p, tree, refresh[j], rows)
    BY <1>1, <1>4, <1>7 DEF Quiet, QuietAt, QuietRefresh
  <2>2. retained = Selected(tree)
    <3>1. retained \cup {t.doc : t \in refresh[j].toRead} = Selected(tree)
      BY <2>1 DEF QuietRead
    <3>2. {t.doc : t \in refresh[j].toRead} = {}
      BY <1>1
    <3> HIDE DEF retained
    <3> QED BY <3>1, <3>2
  <2>3. /\ \A x \in read : x.doc \in retained /\ x.body = tree[x.doc]
        /\ \A d \in retained :
              \/ \E x \in read : x.doc = d
              \/ \E w \in rows : w.project = p.id /\ w.doc = d /\ w.fp = tree[d]
    BY <2>1 DEF QuietRead
  <2>4. \A r \in rows :
           r \in gone <=> /\ r.project = p.id
                          /\ r.doc \notin retained \/ \E x \in read : x.doc = r.doc
    BY DEF GoneRows, RowsOf
  <2>5. /\ \A r \in rows : r \notin gone => r \in rows'
        /\ \A x \in read : \E r \in rows' : r.project = p.id /\ r.doc = x.doc
        /\ \A e \in entries' : \/ e \in entries /\ \A r \in gone : r.id # e.id
                               \/ \E r \in rows' : r.id = e.id
        /\ \A r \in rows', e \in entries' : e.id = r.id =>
              \/ r \in rows /\ r \notin gone /\ e \in entries
              \/ \E x \in read : r.project = p.id /\ r.doc = x.doc /\ e.body = x.body
    BY <1>2 DEF Committed
  <2> HIDE DEF gone, read, retained
  <2>6. \A e \in entries' : \E r \in rows' : r.id = e.id
    BY <2>1, <2>5 DEF QuietIndex
  <2>7. ASSUME NEW q \in projects, q.id = p.id
        PROVE  Indexed(q, docs[q.path], rows', entries')
    <3>1. docs[q.path] = tree
      BY <1>5, <2>7
    <3>2. ASSUME NEW d \in retained
          PROVE  \E r \in rows' : r.project = p.id /\ r.doc = d
      BY <2>3, <2>4, <2>5
    <3>3. ASSUME NEW r \in rows', NEW e \in entries', r.project = p.id, e.id = r.id
          PROVE  r.doc \in retained /\ e.body = tree[r.doc]
      <4>1. CASE r \in rows /\ r \notin gone /\ e \in entries
        <5>1. r.doc \in retained /\ ~ \E x \in read : x.doc = r.doc
          BY <2>4, <3>3, <4>1
        <5>2. PICK w \in rows : w.project = p.id /\ w.doc = r.doc /\ w.fp = tree[r.doc]
          BY <2>3, <5>1
        <5>3. w = r
          BY <3>3, <4>1, <5>2 DEF TablesWell, RowsHaveEntries
        <5>4. StandsFor(docs[q.path], clock, r.doc, r.fp, e.body)
          BY <2>7, <3>3, <4>1 DEF TablesWell, RowsHaveEntries
        <5> QED BY <3>1, <5>1, <5>2, <5>3, <5>4 DEF StandsFor
      <4>2. CASE \E x \in read : r.project = p.id /\ r.doc = x.doc /\ e.body = x.body
        BY <2>3, <4>2
      <4> QED BY <2>5, <3>3, <4>1, <4>2
    <3> QED BY <2>2, <2>7, <3>1, <3>2, <3>3 DEF Indexed
  <2>8. ASSUME NEW q \in projects, q.id # p.id,
               Indexed(q, docs[q.path], rows, entries)
        PROVE  Indexed(q, docs[q.path], rows', entries')
    <3>1. ASSUME NEW d \in Selected(docs[q.path])
          PROVE  \E r \in rows' : r.project = q.id /\ r.doc = d
      BY <2>4, <2>5, <2>8 DEF Indexed
    <3>2. ASSUME NEW r \in rows', NEW e \in entries', r.project = q.id, e.id = r.id
          PROVE  r.doc \in Selected(docs[q.path]) /\ e.body = docs[q.path][r.doc]
      BY <2>5, <2>8, <3>2 DEF Indexed
    <3> QED BY <3>1, <3>2 DEF Indexed
  <2>9. ASSUME NEW q \in projects, [path |-> q.path, id |-> q.id] \notin left
        PROVE  Indexed(q, docs[q.path], rows', entries')
    <3>1. CASE q.id = p.id
      BY <2>7, <3>1
    <3>2. CASE q.id # p.id
      <4>1. [path |-> q.path, id |-> q.id] \notin refresh[j].left
        BY <1>5, <2>9, <3>2
      <4>2. Indexed(q, docs[q.path], rows, entries)
        BY <2>1, <4>1 DEF QuietIndex
      <4> QED BY <2>8, <3>2, <4>2
    <3> QED BY <3>1, <3>2
  <2> HIDE DEF left
  <2> QED BY <2>6, <2>9 DEF QuietIndex
<1> HIDE DEF left
<1>8. solo = j => QuietRefresh("survey", next, docs, projects, rows', entries')
  BY <1>6, <1>7 DEF QuietRefresh
<1>9. RefreshGoesOn(j, "survey", next)
  BY <1>1, <1>8 DEF RefreshGoesOn
<1> QED BY <1>9, RefreshStaysQuiet

LEMMA IndexIsExact ==
  ASSUME RowsHaveEntries, QuietIndex({}, docs, projects, rows, entries)
  PROVE  ContentExact(docs, projects, entries)
<1> DEFINE Doc(p, d) == [path |-> p.path, doc |-> d, body |-> docs[p.path][d]]
           Entry(e) == [path |-> e.path, doc |-> e.doc, body |-> e.body]
<1>1. ASSUME NEW p \in projects
      PROVE  Indexed(p, docs[p.path], rows, entries)
  BY DEF QuietIndex
<1>2. ASSUME NEW e \in entries
      PROVE  \E p \in projects : \E d \in Selected(docs[p.path]) : Entry(e) = Doc(p, d)
  <2>1. PICK r \in rows : r.id = e.id
    BY DEF QuietIndex
  <2>2. PICK p \in projects : p.id = r.project
    BY DEF RowsHaveEntries
  <2>3. e.doc = r.doc /\ e.path = p.path
    BY <2>1, <2>2 DEF RowsHaveEntries
  <2>4. r.doc \in Selected(docs[p.path]) /\ e.body = docs[p.path][r.doc]
    BY <1>1, <2>1, <2>2 DEF Indexed
  <2> QED BY <2>3, <2>4
<1>3. ASSUME NEW p \in projects, NEW d \in Selected(docs[p.path])
      PROVE  \E e \in entries : Entry(e) = Doc(p, d)
  <2>1. PICK r \in rows : r.project = p.id /\ r.doc = d
    BY <1>1 DEF Indexed
  <2>2. PICK e \in entries : e.id = r.id
    BY DEF RowsHaveEntries
  <2>3. e.doc = d /\ e.path = p.path
    BY <2>1, <2>2 DEF RowsHaveEntries
  <2>4. e.body = docs[p.path][d]
    BY <1>1, <2>1, <2>2 DEF Indexed
  <2> QED BY <2>3, <2>4
<1> HIDE DEF Doc, Entry
<1>4. {Entry(e) : e \in entries} =
         UNION {{Doc(p, d) : d \in Selected(docs[p.path])} : p \in projects}
  BY <1>2, <1>3
<1> QED BY <1>4 DEF ContentExact, Doc, Entry

LEMMA EndIsQuiet ==
  ASSUME RescanAssumption, ScansWell, TablesWell, Quiet, NEW j \in Jobs,
         EndRescan(j)
  PROVE  Quiet'
<1>1. /\ stage[j] = "survey" /\ refresh[j].left = {}
      /\ stage' = [stage EXCEPT ![j] = "idle"]
      /\ scan' = [scan EXCEPT ![j] = NoScan]
      /\ refresh' = [refresh EXCEPT ![j] = NoRefresh]
      /\ UNCHANGED <<sessions, docs, cacheFile, projects, rows, entries>>
      /\ Undisturbed(j)
  BY DEF EndRescan, Ends, files, database
<1>2. ASSUME solo = j
      PROVE  QuietAt("idle", NoScan, NoRefresh, sessions', cacheFile', docs',
                     projects', rows', entries')
  <2>1. /\ ProjectsExact(projects, sessions, cacheFile)
        /\ QuietRefresh("survey", refresh[j], docs, projects, rows, entries)
    BY <1>1, <1>2 DEF Quiet, QuietAt
  <2>2. ContentExact(docs, projects, entries)
    <3>1. QuietIndex({}, docs, projects, rows, entries)
      BY <1>1, <2>1 DEF QuietRefresh
    <3> QED BY <3>1, IndexIsExact DEF TablesWell
  <2> QED BY <1>1, <2>1, <2>2 DEF QuietAt, QuietScan
<1> QED BY <1>1, <1>2, QuietMoves DEF TablesWell

LEMMA StepQuiet ==
  ASSUME RescanAssumption, ScansWell, TablesWell, CachesWell, Quiet, [Next]_vars
  PROVE  Quiet'
<1>1. stage \in [Jobs -> Stages]
  BY DEF ScansWell, ScansAreTyped
<1>2. CASE UNCHANGED vars
  <2>1. /\ UNCHANGED <<sessions, docs, cacheFile, stage, scan, refresh, solo>>
        /\ UNCHANGED <<projects, rows, entries>>
    BY <1>2 DEF vars, files, database
  <2> QED BY <2>1 DEF Quiet
<1>3. CASE World
  <2>1. Disturbed
    BY <1>3 DEF World, WriteSession, DeleteSession, WriteDoc, DeleteDoc
  <2> QED BY <2>1, DisturbedIsQuiet
<1>4. ASSUME NEW j \in Jobs, Scanning(j)
      PROVE  Quiet'
  <2>1. CASE FileGone(j) \/ BudgetSpent(j) \/ Unreadable(j) \/ NoValidSessions(j)
    BY <2>1, DisturbedIsQuiet DEF FileGone, BudgetSpent, Unreadable, NoValidSessions
  <2> QED BY <1>4, <2>1, EnumerateIsQuiet, UseCacheIsQuiet, ParseIsQuiet,
             RecordIsQuiet, CompleteIsQuiet DEF Scanning
<1>5. ASSUME NEW j \in Jobs, Storing(j)
      PROVE  Quiet'
  <2>1. CASE CheckSanitizer(j) \/ WipeContent(j) \/ ClaimSanitizer(j)
    <3>1. PICK l \in {"wipe", "vacuum", "replace"} : stage' = [stage EXCEPT ![j] = l]
      BY <2>1 DEF CheckSanitizer, WipeContent, ClaimSanitizer
    <3>2. /\ stage[j] \in {"open", "wipe", "vacuum"} /\ Undisturbed(j)
          /\ UNCHANGED <<scan, refresh, sessions, cacheFile>>
      BY <2>1 DEF CheckSanitizer, WipeContent, ClaimSanitizer, files
    <3> QED BY <3>1, <3>2, LaterStageIsQuiet
  <2>2. CASE CleanupBusy(j)
    BY <2>2, DisturbedIsQuiet DEF CleanupBusy
  <2> QED BY <1>5, <2>1, <2>2, ReplaceIsQuiet DEF Storing
<1>6. ASSUME NEW j \in Jobs, Refreshing(j)
      PROVE  Quiet'
  <2>1. CASE SkipDoc(j) \/ ProjectIsGone(j)
    BY <2>1, DisturbedIsQuiet DEF SkipDoc, ProjectIsGone
  <2> QED BY <1>6, <2>1, ListIsQuiet, SurveyIsQuiet, ReadIsQuiet, CommitIsQuiet,
             EndIsQuiet DEF Refreshing
<1>7. ASSUME NEW j \in Jobs, Killed(j)
      PROVE  Quiet'
  BY <1>7, DisturbedIsQuiet DEF Killed
<1> QED BY <1>2, <1>3, <1>4, <1>5, <1>6, <1>7 DEF Next

LEMMA QuietMeansExact ==
  ASSUME Quiet
  PROVE  QuietRescanIsExact
<1>1. \A f : LastSeen(f) = SeenIn(cacheFile, f, sessions[f])
  BY DEF LastSeen, SeenIn
<1>2. ASSUME NEW j \in Jobs, solo = j, stage[j] = "idle"
      PROVE  /\ ProjectsExact(projects, sessions, cacheFile)
             /\ ContentExact(docs, projects, entries)
  <2>1. QuietAt("idle", scan[j], refresh[j], sessions, cacheFile, docs, projects,
                rows, entries)
    BY <1>2 DEF Quiet
  <2> QED BY <2>1 DEF QuietAt
<1>3. ASSUME ProjectsExact(projects, sessions, cacheFile)
      PROVE  /\ {p.path : p \in projects} = {ProjectOf[f] : f \in Present(sessions)}
             /\ \A p \in projects :
                   LET own == {f \in Present(sessions) : ProjectOf[f] = p.path}
                   IN p.seen \in Max({LastSeen(f) : f \in own})
                                    .. Max({sessions[f] : f \in own})
  <2>1. ASSUME NEW p
        PROVE  {LastSeen(f) : f \in OwnFiles(sessions, p)}
                  = {SeenIn(cacheFile, f, sessions[f]) : f \in OwnFiles(sessions, p)}
    BY <1>1
  <2>2. ASSUME NEW p \in projects
        PROVE  p.seen \in Max({LastSeen(f) : f \in OwnFiles(sessions, p.path)})
                             .. Max({sessions[f] : f \in OwnFiles(sessions, p.path)})
    BY <1>3, <2>1 DEF ProjectsExact
  <2> QED BY <1>3, <2>2 DEF ProjectsExact, OwnFiles
<1> QED BY <1>2, <1>3 DEF QuietRescanIsExact, ContentExact

LEMMA InitQuiet ==
  ASSUME RescanAssumption, Init
  PROVE  CachesWell /\ Quiet
<1>1. Quiet
  BY DEF Init, Quiet, RescanAssumption
<1>2. CachesWell
  BY DEF Init, CachesWell, CacheWell, ParseWell, NoScan
<1> QED BY <1>1, <1>2

\* A rescan that nothing disturbs, whatever earlier ones left, has the projects
\* of the sessions there are, with their last activity, and in the content the
\* documents its walk takes as they are: as long as nothing else happens.
THEOREM QuietRescansAreExact == Spec => []QuietRescanIsExact
<1> DEFINE QInv == IInv /\ CachesWell /\ Quiet
<1>1. Init => QInv
  BY RescanAssumption, InitWell, InitQuiet
<1>2. QInv /\ [Next]_vars => QInv'
  BY RescanAssumption, Parts, StepKeeps, StepCaches, StepQuiet
<1>3. QInv => QuietRescanIsExact
  BY QuietMeansExact
<1> QED BY <1>1, <1>2, <1>3, PTL DEF Spec
=============================================================================
