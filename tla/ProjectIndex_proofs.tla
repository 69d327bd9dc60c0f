------------------------- MODULE ProjectIndex_proofs -------------------------
(***************************************************************************)
(* The tables of index.db stay consistent for every set of processes,      *)
(* tools and paths, whatever scans interleave and wherever they end.  Only *)
(* Replace writes the two tables, so the argument is about the sequence of *)
(* SQL statements in it: rowids are fresh because they start above the     *)
(* largest, ids because they carry the number of the commit, and the last  *)
(* statement can take a maximum because the one before left no project     *)
(* without a usage.  Then what a rebuild of the search table leaves when   *)
(* nobody else writes, and the refinement of AtomicIndex.                  *)
(***************************************************************************)
EXTENDS ProjectIndex, FiniteSetTheorems, WellFoundedInduction, TLAPS

-----------------------------------------------------------------------------
(* A bounded set of naturals has a largest element.                        *)

Less == {ss \in Nat \X Nat : ss[1] < ss[2]}

LEMMA LessWellFounded == IsWellFoundedOn(Less, Nat)
  BY NatLessThanWellFounded DEF OpToRel, Less

LEMMA BoundedMax ==
  ASSUME NEW b \in Nat, NEW S \in SUBSET (0 .. b), S /= {}
  PROVE  \E m \in S : \A n \in S : n <= m
<1> DEFINE T == {b - n : n \in S}
<1>1. T \subseteq Nat
  OBVIOUS
<1>2. T /= {}
  OBVIOUS
<1>3. \E k \in T : \A y \in T : ~ (<<y, k>> \in Less)
  <2> HIDE DEF T
  <2> QED BY <1>1, <1>2, LessWellFounded, WFMin
<1>4. PICK k \in T : \A y \in T : ~ (y < k)
  BY <1>1, <1>3 DEF Less
<1>5. PICK m \in S : k = b - m
  OBVIOUS
<1>6. \A n \in S : n <= m
  BY <1>4, <1>5
<1> QED BY <1>6

-----------------------------------------------------------------------------
(* The inductive invariant.                                                *)

\* Ids are stamped with the commit that made them, so a later one is fresh.
IdsStamped ==
    \A pr \in projects : pr.id.path = pr.path /\ pr.id.born <= commits

\* There is a largest rowid.
RowsBounded == \E b \in Nat : \A pr \in projects : pr.row <= b

IInv == TypeOK /\ TablesConsistent /\ IdsStamped /\ RowsBounded

-----------------------------------------------------------------------------
(* What each statement of the transaction guarantees.                      *)

Outcomes == UNION {[S -> [Paths -> Stamps]] : S \in SUBSET Tools}

LEMMA MaxRowIsMax ==
  ASSUME NEW prs, \A pr \in prs : pr.row \in Nat,
         NEW b \in Nat, \A pr \in prs : pr.row <= b
  PROVE  MaxRow(prs) \in Nat /\ \A pr \in prs : pr.row <= MaxRow(prs)
<1>1. CASE prs = {}
  BY <1>1 DEF MaxRow
<1>2. CASE prs /= {}
  <2> DEFINE R == {pr.row : pr \in prs}
  <2>1. R \subseteq 0 .. b
    OBVIOUS
  <2>2. R /= {}
    BY <1>2
  <2>3. \E m \in R : \A n \in R : n <= m
    <3> HIDE DEF R
    <3> QED BY <2>1, <2>2, BoundedMax
  <2>4. \E m \in R : \A pr \in prs : pr.row <= m
    BY <2>3
  <2>5. /\ MaxRow(prs) \in R
        /\ \A pr \in prs : pr.row <= MaxRow(prs)
    BY <1>2, <2>4 DEF MaxRow
  <2> QED BY <2>1, <2>5
<1> QED BY <1>1, <1>2

LEMMA LatestFoundType ==
  ASSUME BoundsAssumption, NEW f \in Outcomes, NEW d \in SnapshotPaths(f)
  PROVE  LatestFound(f, d) \in Stamps
<1>1. PICK S \in SUBSET Tools : f \in [S -> [Paths -> Stamps]]
  BY DEF Outcomes
<1> DEFINE V == {f[t][d] : t \in DOMAIN f}
<1>2. V \subseteq 0 .. MaxClock
  BY <1>1 DEF Stamps, SnapshotPaths
<1>3. V /= {}
  BY DEF SnapshotPaths
<1>4. \E m \in V : \A n \in V : n <= m
  <2> HIDE DEF V
  <2> QED BY <1>2, <1>3, BoundedMax DEF BoundsAssumption
<1>5. \E m \in V : \A t \in DOMAIN f : f[t][d] <= m
  BY <1>4
<1>6. LatestFound(f, d) \in V
  BY <1>5 DEF LatestFound
<1> QED BY <1>2, <1>6 DEF Stamps

LEMMA LatestUseIsMax ==
  ASSUME BoundsAssumption, NEW us \in SUBSET UsageRows, NEW id,
         \E u \in us : u.id = id
  PROVE  /\ LatestUse(us, id) \in Stamps
         /\ \E u \in us : u.id = id /\ u.used = LatestUse(us, id)
         /\ \A u \in us : u.id = id => u.used <= LatestUse(us, id)
<1> DEFINE V == {u.used : u \in {v \in us : v.id = id}}
<1>1. V \subseteq 0 .. MaxClock
  BY DEF UsageRows, Stamps
<1>2. V /= {}
  OBVIOUS
<1>3. \E m \in V : \A n \in V : n <= m
  <2> HIDE DEF V
  <2> QED BY <1>1, <1>2, BoundedMax DEF BoundsAssumption
<1>4. \E m \in V : \A u \in us : u.id = id => u.used <= m
  BY <1>3
<1>5. /\ LatestUse(us, id) \in V
      /\ \A u \in us : u.id = id => u.used <= LatestUse(us, id)
  BY <1>4 DEF LatestUse
<1> QED BY <1>1, <1>5 DEF Stamps

-----------------------------------------------------------------------------
(* The transaction, statement by statement.                                *)

\* A set of project rows that differ in rowid, id and path.
DistinctRows(prs) ==
    \A x, y \in prs : x.row = y.row \/ x.id = y.id \/ x.path = y.path => x = y

\* The inserts: new rows lie above every rowid, new ids carry a new stamp.
LEMMA InsertsAreFresh ==
  ASSUME BoundsAssumption, PathsAssumption, IInv, commits < MaxCommits,
         NEW f \in Outcomes,
         NEW rows \in RowAssignments(projects,
                                     SnapshotPaths(f) \ Indexed(projects))
  PROVE  LET prs == UpsertProjects(projects, f, rows, commits + 1)
         IN  /\ prs \subseteq ProjectRows
             /\ DistinctRows(prs)
             /\ \A pr \in prs : pr.id.path = pr.path
                                /\ pr.id.born <= commits + 1
             /\ \E b \in Nat : \A pr \in prs : pr.row <= b
<1> DEFINE new == SnapshotPaths(f) \ Indexed(projects)
           m   == MaxRow(projects)
           top == m + Cardinality(new)
           prs == UpsertProjects(projects, f, rows, commits + 1)
           add == {[row |-> rows[d], id |-> [path |-> d, born |-> commits + 1],
                    path |-> d, last |-> LatestFound(f, d)] : d \in DOMAIN rows}
<1>1. /\ m \in Nat
      /\ \A pr \in projects : pr.row <= m
  BY MaxRowIsMax DEF IInv, TypeOK, ProjectRows, RowsBounded
<1>2. /\ new \subseteq Paths
      /\ Cardinality(new) \in Nat
  <2>1. new \subseteq Paths
    BY DEF SnapshotPaths
  <2> QED BY <2>1, FS_Subset, FS_CardinalityType, PathsAssumption
<1>3. /\ DOMAIN rows = new
      /\ \A d \in new : rows[d] \in m + 1 .. top
      /\ \A d, e \in new : rows[d] = rows[e] => d = e
  BY DEF RowAssignments
<1>4. prs = projects \cup add
  BY DEF UpsertProjects
<1>5. commits + 1 \in 1 .. MaxCommits
  BY DEF IInv, TypeOK, BoundsAssumption
<1>6. \A x \in add :
         \E d \in new : /\ x = [row |-> rows[d],
                                id |-> [path |-> d, born |-> commits + 1],
                                path |-> d, last |-> LatestFound(f, d)]
                        /\ rows[d] \in m + 1 .. top
                        /\ LatestFound(f, d) \in Stamps
  BY <1>3, LatestFoundType
<1>7. add \subseteq ProjectRows
  BY <1>1, <1>2, <1>5, <1>6 DEF ProjectRows, Ids
<1>8. projects \subseteq ProjectRows
  BY DEF IInv, TypeOK
<1>9. \A x \in projects, y \in add :
         /\ x.row /= y.row
         /\ x.id /= y.id
         /\ x.path /= y.path
  <2> SUFFICES ASSUME NEW x \in projects, NEW y \in add
               PROVE  x.row /= y.row /\ x.id /= y.id /\ x.path /= y.path
    OBVIOUS
  <2>1. PICK d \in new : /\ y = [row |-> rows[d],
                                 id |-> [path |-> d, born |-> commits + 1],
                                 path |-> d, last |-> LatestFound(f, d)]
                         /\ rows[d] \in m + 1 .. top
    BY <1>6
  <2>2. x.row /= y.row
    BY <1>1, <1>2, <1>8, <2>1 DEF ProjectRows
  <2>3. x.path /= y.path
    BY <2>1 DEF Indexed
  <2>4. x.id.born <= commits
    BY DEF IInv, IdsStamped
  <2>5. y.id.born = commits + 1 /\ commits \in Int
    BY <2>1 DEF IInv, TypeOK
  <2>6. x.id /= y.id
    BY <2>4, <2>5
  <2> QED BY <2>2, <2>3, <2>6
<1>10. DistinctRows(add)
  BY <1>3, <1>6 DEF DistinctRows
<1>11. DistinctRows(projects)
  BY DEF IInv, TablesConsistent, OneRowPerProject, DistinctRows
<1>12. DistinctRows(prs)
  BY <1>4, <1>9, <1>10, <1>11 DEF DistinctRows
<1>13. \A pr \in prs : pr.id.path = pr.path /\ pr.id.born <= commits + 1
  <2>1. \A pr \in add : pr.id.path = pr.path /\ pr.id.born <= commits + 1
    BY <1>5, <1>6
  <2>2. \A pr \in projects : pr.id.path = pr.path /\ pr.id.born <= commits + 1
    BY <1>8 DEF IInv, IdsStamped, ProjectRows, Ids, TypeOK
  <2> QED BY <1>4, <2>1, <2>2
<1>14. \A pr \in prs : pr.row <= top
  <2>1. \A pr \in add : pr.row <= top
    BY <1>1, <1>2, <1>6
  <2>2. \A pr \in projects : pr.row <= top
    BY <1>1, <1>2, <1>8 DEF ProjectRows
  <2> QED BY <1>4, <2>1, <2>2
<1>15. top \in Nat
  BY <1>1, <1>2
<1> QED BY <1>4, <1>7, <1>8, <1>12, <1>13, <1>14, <1>15

\* The usage upserts and the first DELETE: one row per project and tool, and
\* each belongs to a project that is there.
LEMMA UsagesStayKeyed ==
  ASSUME IInv, NEW f \in Outcomes, NEW prs \in SUBSET ProjectRows,
         DistinctRows(prs), projects \subseteq prs
  PROVE  LET snap == SnapshotUsages(prs, f)
             us   == DropStaleUsages(UpsertUsages(usages, snap),
                                     snap, DOMAIN f)
         IN  /\ us \subseteq UsageRows
             /\ \A u, v \in us : u.id = v.id /\ u.tool = v.tool => u = v
             /\ \A u \in us : \E pr \in prs : pr.id = u.id
<1> DEFINE snap == SnapshotUsages(prs, f)
           ups  == UpsertUsages(usages, snap)
           us   == DropStaleUsages(ups, snap, DOMAIN f)
<1>1. PICK S \in SUBSET Tools : f \in [S -> [Paths -> Stamps]]
  BY DEF Outcomes
<1>2. \A s \in snap : \E pr \in prs, t \in S :
         s = [id |-> pr.id, tool |-> t, used |-> f[t][pr.path]]
  BY <1>1 DEF SnapshotUsages
<1>3. snap \subseteq UsageRows
  BY <1>1, <1>2 DEF UsageRows, ProjectRows
<1>4. \A u, v \in snap : u.id = v.id /\ u.tool = v.tool => u = v
  BY <1>2 DEF DistinctRows
<1>5. \A u \in usages : \E pr \in prs : pr.id = u.id
  BY DEF IInv, TablesConsistent, NoOrphans
<1>6. \A u, v \in usages : u.id = v.id /\ u.tool = v.tool => u = v
  BY DEF IInv, TablesConsistent, OneUsagePerTool
<1>7. ups \subseteq UsageRows
  BY <1>3 DEF UpsertUsages, IInv, TypeOK
<1>8. \A u, v \in ups : u.id = v.id /\ u.tool = v.tool => u = v
  BY <1>4, <1>6 DEF UpsertUsages
<1>9. \A u \in ups : \E pr \in prs : pr.id = u.id
  BY <1>2, <1>5 DEF UpsertUsages
<1>10. us \subseteq ups
  BY DEF DropStaleUsages
<1> QED BY <1>7, <1>8, <1>9, <1>10

\* The second DELETE and the UPDATE: every project left has a usage, so MAX
\* has a value, and it is the latest use.
LEMMA ActivityFollows ==
  ASSUME BoundsAssumption, NEW us \in SUBSET UsageRows,
         NEW prs \in SUBSET ProjectRows, DistinctRows(prs),
         \A u \in us : \E pr \in prs : pr.id = u.id
  PROVE  LET kept == RecomputeActivity(DropUnusedProjects(prs, us), us)
         IN  /\ kept \subseteq ProjectRows
             /\ DistinctRows(kept)
             /\ \A x \in kept : \E pr \in prs :
                   x.row = pr.row /\ x.id = pr.id /\ x.path = pr.path
             /\ \A u \in us : \E x \in kept : x.id = u.id
             /\ \A x \in kept :
                   /\ \E u \in us : u.id = x.id /\ u.used = x.last
                   /\ \A u \in us : u.id = x.id => u.used <= x.last
<1> DEFINE live == DropUnusedProjects(prs, us)
           kept == RecomputeActivity(live, us)
<1>1. /\ live \subseteq prs
      /\ \A pr \in live : \E u \in us : u.id = pr.id
      /\ \A u \in us : \E pr \in live : pr.id = u.id
  BY DEF DropUnusedProjects
<1>2. \A pr \in live :
         /\ LatestUse(us, pr.id) \in Stamps
         /\ \E u \in us : u.id = pr.id /\ u.used = LatestUse(us, pr.id)
         /\ \A u \in us : u.id = pr.id => u.used <= LatestUse(us, pr.id)
  BY <1>1, LatestUseIsMax
<1>3. \A x \in kept : \E pr \in live :
         x = [pr EXCEPT !.last = LatestUse(us, pr.id)]
  BY DEF RecomputeActivity
<1>4. \A pr \in live : \E x \in kept :
         x = [pr EXCEPT !.last = LatestUse(us, pr.id)]
  BY DEF RecomputeActivity
<1>5. \A pr \in live :
         [pr EXCEPT !.last = LatestUse(us, pr.id)] =
         [row |-> pr.row, id |-> pr.id, path |-> pr.path,
          last |-> LatestUse(us, pr.id)]
  BY <1>1 DEF ProjectRows
<1> HIDE DEF live, kept
<1>6. \A x \in kept : \E pr \in live :
         x = [row |-> pr.row, id |-> pr.id, path |-> pr.path,
              last |-> LatestUse(us, pr.id)]
  <2> SUFFICES ASSUME NEW x \in kept
               PROVE  \E pr \in live :
                         x = [row |-> pr.row, id |-> pr.id, path |-> pr.path,
                              last |-> LatestUse(us, pr.id)]
    OBVIOUS
  <2>1. PICK pr \in live : x = [pr EXCEPT !.last = LatestUse(us, pr.id)]
    BY <1>3
  <2>2. x = [row |-> pr.row, id |-> pr.id, path |-> pr.path,
             last |-> LatestUse(us, pr.id)]
    BY <1>5, <2>1, Zenon
  <2> QED BY <2>2
<1>7. kept \subseteq ProjectRows
  BY <1>1, <1>2, <1>6 DEF ProjectRows
<1>8. DistinctRows(kept)
  BY <1>1, <1>6 DEF DistinctRows
<1>9. \A x \in kept : \E pr \in prs :
         x.row = pr.row /\ x.id = pr.id /\ x.path = pr.path
  BY <1>1, <1>6
<1>10. \A u \in us : \E x \in kept : x.id = u.id
  <2> SUFFICES ASSUME NEW u \in us PROVE \E x \in kept : x.id = u.id
    OBVIOUS
  <2>1. PICK pr \in live : pr.id = u.id
    BY <1>1
  <2>2. PICK x \in kept : x = [row |-> pr.row, id |-> pr.id, path |-> pr.path,
                               last |-> LatestUse(us, pr.id)]
    BY <1>4, <1>5
  <2> QED BY <2>1, <2>2
<1>11. \A x \in kept :
          /\ \E u \in us : u.id = x.id /\ u.used = x.last
          /\ \A u \in us : u.id = x.id => u.used <= x.last
  BY <1>2, <1>6
<1> QED BY <1>7, <1>8, <1>9, <1>10, <1>11 DEF live, kept

-----------------------------------------------------------------------------
(* The invariant is inductive.                                             *)

LEMMA ReplaceKeepsTables ==
  ASSUME BoundsAssumption, PathsAssumption, IInv, NEW p \in Procs, Replace(p)
  PROVE  /\ projects' \subseteq ProjectRows
         /\ usages' \subseteq UsageRows
         /\ fts' \subseteq [row : Nat, path : Paths]
         /\ TablesConsistent' /\ IdsStamped' /\ RowsBounded'
<1> DEFINE f   == found[p]
           new == SnapshotPaths(f) \ Indexed(projects)
<1>1. f \in Outcomes
  BY DEF IInv, TypeOK, Outcomes
<1>2. PICK rows \in RowAssignments(projects, new) :
         LET prs  == UpsertProjects(projects, f, rows, commits + 1)
             snap == SnapshotUsages(prs, f)
             us   == DropStaleUsages(UpsertUsages(usages, snap),
                                     snap, DOMAIN f)
             kept == RecomputeActivity(DropUnusedProjects(prs, us), us)
         IN  projects' = kept /\ usages' = us /\ fts' = RebuildFts(kept)
  BY DEF Replace
<1> DEFINE prs  == UpsertProjects(projects, f, rows, commits + 1)
           snap == SnapshotUsages(prs, f)
           us   == DropStaleUsages(UpsertUsages(usages, snap), snap, DOMAIN f)
           kept == RecomputeActivity(DropUnusedProjects(prs, us), us)
<1>3. /\ prs \subseteq ProjectRows
      /\ DistinctRows(prs)
      /\ \A pr \in prs : pr.id.path = pr.path /\ pr.id.born <= commits + 1
      /\ \E b \in Nat : \A pr \in prs : pr.row <= b
  BY <1>1, InsertsAreFresh DEF Replace
<1>4. projects \subseteq prs
  BY DEF UpsertProjects
<1>5. /\ us \subseteq UsageRows
      /\ \A u, v \in us : u.id = v.id /\ u.tool = v.tool => u = v
      /\ \A u \in us : \E pr \in prs : pr.id = u.id
  <2> HIDE DEF f, prs
  <2> QED BY <1>1, <1>3, <1>4, UsagesStayKeyed
<1>6. /\ kept \subseteq ProjectRows
      /\ DistinctRows(kept)
      /\ \A x \in kept : \E pr \in prs :
            x.row = pr.row /\ x.id = pr.id /\ x.path = pr.path
      /\ \A u \in us : \E x \in kept : x.id = u.id
      /\ \A x \in kept :
            /\ \E u \in us : u.id = x.id /\ u.used = x.last
            /\ \A u \in us : u.id = x.id => u.used <= x.last
  <2> HIDE DEF us, prs
  <2> QED BY <1>3, <1>5, ActivityFollows
<1>7. projects' = kept /\ usages' = us /\ fts' = RebuildFts(kept)
  BY <1>2
<1>8. commits' = commits + 1
  BY DEF Replace
<1> HIDE DEF kept, us, prs
<1>9. fts' \subseteq [row : Nat, path : Paths]
  BY <1>6, <1>7 DEF RebuildFts, FtsOf, ProjectRows
<1>10. TablesConsistent'
  BY <1>5, <1>6, <1>7 DEF TablesConsistent, OneRowPerProject, DistinctRows,
                          OneUsagePerTool, NoOrphans, ActivityIsLatestUse
<1>11. IdsStamped'
  BY <1>3, <1>6, <1>7, <1>8 DEF IdsStamped
<1>12. RowsBounded'
  BY <1>3, <1>6, <1>7 DEF RowsBounded
<1> QED BY <1>5, <1>6, <1>7, <1>9, <1>10, <1>11, <1>12

\* A step that leaves the tables alone keeps what the invariant says of them.
LEMMA SameTables ==
  ASSUME IInv, UNCHANGED <<projects, usages, commits>>
  PROVE  TablesConsistent' /\ IdsStamped' /\ RowsBounded'
BY DEF IInv, TablesConsistent, OneRowPerProject, OneUsagePerTool, NoOrphans,
       ActivityIsLatestUse, IdsStamped, RowsBounded

LEMMA InitInv == BoundsAssumption => (Init => IInv)
BY DEF Init, IInv, TypeOK, Stamps, NoScan, TablesConsistent, OneRowPerProject,
       OneUsagePerTool, NoOrphans, ActivityIsLatestUse, IdsStamped, RowsBounded,
       BoundsAssumption, Opening

\* The row a rebuild is at is one of those it has left.
LEMMA CurrentIsARow ==
  ASSUME TypeOK, NEW p \in Procs, todo[p] /= {}
  PROVE  Current(p) \in todo[p]
<1> DEFINE T == {r.row : r \in todo[p]}
<1>1. T \subseteq Nat /\ T /= {}
  BY DEF TypeOK
<1>2. \E k \in T : \A y \in T : ~ (<<y, k>> \in Less)
  <2> HIDE DEF T
  <2> QED BY <1>1, LessWellFounded, WFMin
<1>3. \E k \in T : \A y \in T : k <= y
  <2> HIDE DEF T
  <2>1. PICK k \in T : \A y \in T : ~ (<<y, k>> \in Less)
    BY <1>2
  <2>2. \A y \in T : y \in Nat /\ k \in Nat
    BY <1>1
  <2>3. \A y \in T : ~ (y < k)
    BY <2>1, <2>2 DEF Less
  <2>4. \A y \in T : k <= y
    BY <2>2, <2>3
  <2> QED BY <2>4
<1>4. \E r \in todo[p] : \A s \in todo[p] : r.row <= s.row
  BY <1>3
<1> QED BY <1>4 DEF Current

\* The command's end leaves its variables as they were at the start.
LEMMA FinishType ==
  ASSUME TypeOK, NEW p \in Procs, Finish(p)
  PROVE  /\ pc' \in [Procs -> {"idle", "scan"} \cup Opening]
         /\ job' \in [Procs -> {"read", "scan"}]
         /\ want' \in [Procs -> SUBSET Tools]
         /\ \A q \in Procs : \E S \in SUBSET Tools :
                                found'[q] \in [S -> [Paths -> Stamps]]
         /\ DOMAIN found' = Procs
         /\ todo' \in [Procs -> SUBSET [row : Nat, path : Paths]]
         /\ \A q \in Procs : pc'[q] \in {"drop", "insert"} => todo'[q] /= {}
         /\ \A q \in Procs :
               pc'[q] \in Opening /\ job'[q] = "scan" => DOMAIN found'[q] /= {}
<1>1. \A q \in Procs : \E S \in SUBSET Tools :
         found'[q] \in [S -> [Paths -> Stamps]]
  <2>1. NoScan \in [{} -> [Paths -> Stamps]]
    BY DEF NoScan
  <2> QED BY <2>1 DEF TypeOK, Finish
<1> QED BY <1>1 DEF TypeOK, Finish, Opening

LEMMA TypeStep ==
  ASSUME BoundsAssumption, PathsAssumption, IInv, [Next]_vars
  PROVE  TypeOK'
<1> USE DEF IInv
<1>1. ASSUME NEW t \in Tools, NEW d \in Paths, Activity(t, d) PROVE TypeOK'
  <2>1. clock + 1 \in Stamps
    BY <1>1 DEF Activity, TypeOK, Stamps, BoundsAssumption
  <2> QED BY <1>1, <2>1 DEF Activity, TypeOK, tables, local
<1>2. ASSUME NEW t \in Tools, NEW d \in Paths, Forget(t, d) PROVE TypeOK'
  BY <1>2 DEF Forget, TypeOK, tables, local, Stamps, BoundsAssumption
<1>3. ASSUME NEW p \in Procs, StartScan(p) PROVE TypeOK'
  BY <1>3 DEF StartScan, TypeOK, tables, Opening
<1>4. ASSUME NEW p \in Procs, ScanGivesUp(p) PROVE TypeOK'
  BY <1>4, FinishType DEF ScanGivesUp, TypeOK, tables
<1>5. ASSUME NEW p \in Procs, ScanOpens(p) PROVE TypeOK'
  BY <1>5 DEF ScanOpens, TypeOK, tables, Opening
<1>6. ASSUME NEW p \in Procs, StartRead(p) PROVE TypeOK'
  BY <1>6 DEF StartRead, TypeOK, tables, Opening
<1>7. ASSUME NEW p \in Procs, NEW t \in Tools, ScannerSucceeds(p, t)
      PROVE  TypeOK'
  <2>1. ASSUME NEW q \in Procs
        PROVE  \E S \in SUBSET Tools : found'[q] \in [S -> [Paths -> Stamps]]
    <3>1. PICK S \in SUBSET Tools : found[q] \in [S -> [Paths -> Stamps]]
      BY DEF TypeOK
    <3>2. CASE q /= p
      BY <1>7, <3>1, <3>2 DEF ScannerSucceeds, TypeOK
    <3>3. CASE q = p
      <4>1. found'[q] = [u \in S \cup {t} |->
                            IF u = t THEN sources[t] ELSE found[q][u]]
        BY <1>7, <3>1, <3>3 DEF ScannerSucceeds, TypeOK
      <4>2. found'[q] \in [S \cup {t} -> [Paths -> Stamps]]
        BY <3>1, <4>1 DEF TypeOK
      <4> QED BY <4>2
    <3> QED BY <3>2, <3>3
  <2> QED BY <1>7, <2>1 DEF ScannerSucceeds, TypeOK, tables, Opening
<1>8. ASSUME NEW p \in Procs, NEW t \in Tools, ScannerFails(p, t)
      PROVE  TypeOK'
  BY <1>8 DEF ScannerFails, TypeOK, tables, Opening
<1>9. ASSUME NEW p \in Procs, FtsClear(p) PROVE TypeOK'
  BY <1>9 DEF FtsClear, TypeOK, Opening, Others
<1>10. ASSUME NEW p \in Procs, FtsLoad(p) PROVE TypeOK'
  <2>1. FtsOf(projects) \subseteq [row : Nat, path : Paths]
    BY DEF TypeOK, FtsOf, ProjectRows
  <2>2. projects /= {} => FtsOf(projects) /= {}
    BY DEF FtsOf
  <2> HIDE DEF IInv
  <2>3. TypeOK
    BY DEF IInv
  <2>4. /\ todo' \in [Procs -> SUBSET [row : Nat, path : Paths]]
        /\ pc' \in [Procs -> {"idle", "scan"} \cup Opening]
    BY <1>10, <2>1, <2>3 DEF FtsLoad, TypeOK, Opening
  <2>5. ASSUME NEW q \in Procs, pc'[q] \in {"drop", "insert"}
        PROVE  todo'[q] /= {}
    BY <1>10, <2>2, <2>3, <2>5 DEF FtsLoad, TypeOK
  <2>6. ASSUME NEW q \in Procs, pc'[q] \in Opening, job'[q] = "scan"
        PROVE  DOMAIN found'[q] /= {}
    BY <1>10, <2>3, <2>6 DEF FtsLoad, TypeOK, Opening
  <2> QED BY <1>10, <2>3, <2>4, <2>5, <2>6 DEF FtsLoad, TypeOK, tables
<1>11. ASSUME NEW p \in Procs, FtsDrop(p) PROVE TypeOK'
  BY <1>11 DEF FtsDrop, TypeOK, Opening, Others
<1>12. ASSUME NEW p \in Procs, FtsInsert(p) PROVE TypeOK'
  <2>1. Current(p) \in todo[p]
    BY <1>12, CurrentIsARow DEF FtsInsert, TypeOK
  <2> HIDE DEF Current
  <2> QED BY <1>12, <2>1 DEF FtsInsert, TypeOK, Opening, Others
<1>13. ASSUME NEW p \in Procs, FtsInsertFails(p) PROVE TypeOK'
  BY <1>13, FinishType DEF FtsInsertFails, TypeOK, tables
<1>14. ASSUME NEW p \in Procs, Replace(p) PROVE TypeOK'
  <2>1. commits + 1 \in 0 .. MaxCommits
    BY <1>14 DEF Replace, TypeOK, BoundsAssumption
  <2>2. disturbed' \subseteq Procs
    BY <1>14 DEF Replace, TypeOK, Others
  <2>3. /\ projects' \subseteq ProjectRows
        /\ usages' \subseteq UsageRows
        /\ fts' \subseteq [row : Nat, path : Paths]
    BY <1>14, ReplaceKeepsTables
  <2>4. /\ Finish(p) /\ commits' = commits + 1
        /\ UNCHANGED <<clock, sources>>
    BY <1>14 DEF Replace
  <2> QED BY <2>1, <2>2, <2>3, <2>4, FinishType DEF TypeOK
<1>15. ASSUME NEW p \in Procs, Read(p) PROVE TypeOK'
  BY <1>15, FinishType DEF Read, TypeOK, tables
<1>16. ASSUME NEW p \in Procs, Interrupt(p) PROVE TypeOK'
  BY <1>16, FinishType DEF Interrupt, TypeOK, tables
<1>17. CASE UNCHANGED vars
  BY <1>17 DEF vars, tables, local, TypeOK
<1> QED BY <1>1, <1>2, <1>3, <1>4, <1>5, <1>6, <1>7, <1>8, <1>9, <1>10,
           <1>11, <1>12, <1>13, <1>14, <1>15, <1>16, <1>17 DEF Next

LEMMA TablesStep ==
  ASSUME BoundsAssumption, PathsAssumption, IInv, [Next]_vars
  PROVE  TablesConsistent' /\ IdsStamped' /\ RowsBounded'
<1>1. ASSUME NEW p \in Procs, Replace(p)
      PROVE  TablesConsistent' /\ IdsStamped' /\ RowsBounded'
  BY <1>1, ReplaceKeepsTables
<1>2. ASSUME ~ \E p \in Procs : Replace(p)
      PROVE  UNCHANGED <<projects, usages, commits>>
  BY <1>2 DEF Next, vars, tables, Activity, Forget, StartScan, ScanGivesUp,
              ScanOpens, StartRead, ScannerSucceeds, ScannerFails, FtsClear,
              FtsLoad, FtsDrop, FtsInsert, FtsInsertFails, Read, Interrupt
<1> QED BY <1>1, <1>2, SameTables

-----------------------------------------------------------------------------
(* Every variable keeps its type, for every set of processes, tools and    *)
(* paths and every bound.                                                  *)
THEOREM TypeCorrect == Spec => []TypeOK
<1>1. Init => IInv
  BY InitInv, BoundsAssumption
<1>2. IInv /\ [Next]_vars => IInv'
  BY TypeStep, TablesStep, BoundsAssumption, PathsAssumption DEF IInv
<1>3. IInv => TypeOK
  BY DEF IInv
<1> QED BY <1>1, <1>2, <1>3, PTL DEF Spec

(* The two tables of index.db stay consistent with each other: keys are    *)
(* unique, no usage or project is an orphan, and the activity column is    *)
(* the latest use, however scans of several processes interleave, fail or  *)
(* are killed (store.rs, replace_tool_snapshots).                          *)
THEOREM TablesStayConsistent == Spec => []TablesConsistent
<1>1. Init => IInv
  BY InitInv, BoundsAssumption
<1>2. IInv /\ [Next]_vars => IInv'
  BY TypeStep, TablesStep, BoundsAssumption, PathsAssumption DEF IInv
<1>3. IInv => TablesConsistent
  BY DEF IInv
<1> QED BY <1>1, <1>2, <1>3, PTL DEF Spec

(* Whoever changes the tables publishes a search table that mirrors them:  *)
(* no other statement touches the two tables, and the transaction rebuilds *)
(* the search rows from what it just wrote (store.rs,                      *)
(* replace_tool_snapshots).                                                *)
THEOREM TablesArePublishedTogether == Spec => PublishedTogether
<1>1. ASSUME [Next]_vars, <<projects, usages>>' /= <<projects, usages>>
      PROVE  FtsMirrors'
  <2>1. PICK p \in Procs : Replace(p)
    BY <1>1 DEF Next, vars, tables, Activity, Forget, StartScan, ScanGivesUp,
                ScanOpens, StartRead, ScannerSucceeds, ScannerFails, FtsClear,
                FtsLoad, FtsDrop, FtsInsert, FtsInsertFails, Read, Interrupt
  <2>2. fts' = RebuildFts(projects')
    BY <2>1 DEF Replace
  <2> QED BY <2>2 DEF RebuildFts, FtsMirrors, FtsOf
<1>2. [Next]_vars =>
         [<<projects, usages>>' /= <<projects, usages>> => FtsMirrors']_vars
  BY <1>1
<1> QED BY <1>2, PTL DEF Spec, PublishedTogether

-----------------------------------------------------------------------------
(* A rebuild that nobody disturbs.                                         *)

\* The search table fs over the projects prs when a rebuild at stage st has
\* the rows td left.
Rebuilding(st, fs, td, prs) ==
    /\ st = "load" => fs = {}
    /\ st \in {"drop", "insert"} =>
          td \subseteq FtsOf(prs) /\ fs = FtsOf(prs) \ td
    /\ st = "ready" => fs = FtsOf(prs)

RebuildsGoWell ==
    \A p \in Procs :
        p \notin disturbed => Rebuilding(pc[p], fts, todo[p], projects)

\* A step that writes disturbs every other opener, so only its own process
\* is left to look at.
LEMMA WriterDisturbs ==
  ASSUME TypeOK, RebuildsGoWell, NEW p \in Procs,
         Others(p) \subseteq disturbed' \cup {p},
         disturbed \subseteq disturbed' \cup {p},
         \A q \in Procs \ {p} : pc'[q] = pc[q],
         p \notin disturbed' => Rebuilding(pc'[p], fts', todo'[p], projects')
  PROVE  RebuildsGoWell'
<1>1. ASSUME NEW q \in Procs, q # p, q \notin disturbed'
      PROVE  Rebuilding(pc'[q], fts', todo'[q], projects')
  <2>1. pc[q] \notin Opening
    BY <1>1 DEF Others
  <2> QED BY <1>1, <2>1 DEF Rebuilding, Opening
<1> QED BY <1>1 DEF RebuildsGoWell

LEMMA ReaderKeeps ==
  ASSUME RebuildsGoWell, NEW p \in Procs, UNCHANGED <<fts, projects, disturbed>>,
         \A q \in Procs \ {p} : pc'[q] = pc[q] /\ todo'[q] = todo[q],
         Rebuilding(pc[p], fts, todo[p], projects) =>
             Rebuilding(pc'[p], fts', todo'[p], projects')
  PROVE  RebuildsGoWell'
<1>1. ASSUME NEW q \in Procs, q \notin disturbed'
      PROVE  Rebuilding(pc'[q], fts', todo'[q], projects')
  BY <1>1 DEF RebuildsGoWell
<1> QED BY <1>1 DEF RebuildsGoWell

\* Rows of one project are all that share its rowid.
LEMMA FtsRows ==
  ASSUME OneRowPerProject
  PROVE  \A x, y \in FtsOf(projects) : x.row = y.row => x = y
BY DEF OneRowPerProject, FtsOf

LEMMA RebuildsStep ==
  ASSUME IInv, RebuildsGoWell, [Next]_vars
  PROVE  RebuildsGoWell'
<1>1. TypeOK /\ OneRowPerProject
  BY DEF IInv, TablesConsistent
<1>2. ASSUME NEW p \in Procs, FtsClear(p) PROVE RebuildsGoWell'
  <2>1. /\ pc[p] = "clear" /\ fts' = {} /\ pc' = [pc EXCEPT ![p] = "load"]
        /\ disturbed' = (disturbed \cup Others(p)) \ {p}
    BY <1>2 DEF FtsClear
  <2>2. Rebuilding(pc'[p], fts', todo'[p], projects')
    BY <1>1, <2>1 DEF TypeOK, Rebuilding
  <2> QED BY <1>1, <2>1, <2>2, WriterDisturbs DEF TypeOK
<1>3. ASSUME NEW p \in Procs, FtsLoad(p) PROVE RebuildsGoWell'
  <2>1. /\ pc[p] = "load" /\ todo' = [todo EXCEPT ![p] = FtsOf(projects)]
        /\ pc' = [pc EXCEPT ![p] = IF projects = {} THEN "ready" ELSE "drop"]
        /\ UNCHANGED <<fts, projects, disturbed>>
    BY <1>3 DEF FtsLoad, tables
  <2>2. projects = {} => FtsOf(projects) = {}
    BY DEF FtsOf
  <2>3. Rebuilding(pc[p], fts, todo[p], projects) =>
           Rebuilding(pc'[p], fts', todo'[p], projects')
    BY <1>1, <2>1, <2>2 DEF TypeOK, Rebuilding
  <2> QED BY <1>1, <2>1, <2>3, ReaderKeeps DEF TypeOK
<1>4. ASSUME NEW p \in Procs, FtsDrop(p) PROVE RebuildsGoWell'
  <2>1. /\ pc[p] = "drop" /\ fts' = {r \in fts : r.row /= Current(p).row}
        /\ pc' = [pc EXCEPT ![p] = "insert"]
        /\ disturbed' = disturbed \cup Others(p) /\ UNCHANGED <<todo, projects>>
    BY <1>4 DEF FtsDrop
  <2>2. Current(p) \in todo[p]
    BY <1>1, <2>1, CurrentIsARow DEF TypeOK
  <2>3. ASSUME p \notin disturbed'
        PROVE  Rebuilding(pc'[p], fts', todo'[p], projects')
    <3>1. todo[p] \subseteq FtsOf(projects) /\ fts = FtsOf(projects) \ todo[p]
      BY <2>1, <2>3 DEF RebuildsGoWell, Rebuilding
    <3>2. \A r \in fts : r.row # Current(p).row
      BY <1>1, <2>2, <3>1, FtsRows
    <3>3. fts' = fts
      BY <2>1, <3>2
    <3> QED BY <1>1, <2>1, <3>1, <3>3 DEF TypeOK, Rebuilding
  <2> QED BY <1>1, <2>1, <2>3, WriterDisturbs DEF TypeOK
<1>5. ASSUME NEW p \in Procs, FtsInsert(p) PROVE RebuildsGoWell'
  <2>1. /\ pc[p] = "insert" /\ fts' = fts \cup {Current(p)}
        /\ todo' = [todo EXCEPT ![p] = @ \ {Current(p)}]
        /\ pc' = [pc EXCEPT ![p] =
                     IF todo[p] = {Current(p)} THEN "ready" ELSE "drop"]
        /\ disturbed' = disturbed \cup Others(p) /\ UNCHANGED projects
    BY <1>5 DEF FtsInsert
  <2>2. Current(p) \in todo[p]
    BY <1>1, <2>1, CurrentIsARow DEF TypeOK
  <2> HIDE DEF Current
  <2>3. ASSUME p \notin disturbed'
        PROVE  Rebuilding(pc'[p], fts', todo'[p], projects')
    <3>1. todo[p] \subseteq FtsOf(projects) /\ fts = FtsOf(projects) \ todo[p]
      BY <2>1, <2>3 DEF RebuildsGoWell, Rebuilding
    <3>2. /\ todo'[p] = todo[p] \ {Current(p)}
          /\ pc'[p] = IF todo[p] = {Current(p)} THEN "ready" ELSE "drop"
      BY <1>1, <2>1 DEF TypeOK
    <3>3. fts' = FtsOf(projects) \ (todo[p] \ {Current(p)})
      BY <2>1, <2>2, <3>1
    <3> QED BY <2>1, <3>1, <3>2, <3>3 DEF Rebuilding
  <2> QED BY <1>1, <2>1, <2>3, WriterDisturbs DEF TypeOK
<1>6. ASSUME NEW p \in Procs, Replace(p) PROVE RebuildsGoWell'
  <2>1. Finish(p) /\ disturbed' = disturbed \cup Others(p)
    BY <1>6 DEF Replace
  <2>2. pc' = [pc EXCEPT ![p] = "idle"]
    BY <2>1 DEF Finish
  <2>3. Rebuilding(pc'[p], fts', todo'[p], projects')
    BY <1>1, <2>2 DEF TypeOK, Rebuilding
  <2> QED BY <1>1, <2>1, <2>2, <2>3, WriterDisturbs DEF TypeOK
<1>7. ASSUME NEW p \in Procs,
             \/ StartScan(p) \/ ScanGivesUp(p) \/ ScanOpens(p) \/ StartRead(p)
             \/ \E t \in Tools : ScannerSucceeds(p, t) \/ ScannerFails(p, t)
             \/ FtsInsertFails(p) \/ Read(p) \/ Interrupt(p)
      PROVE  RebuildsGoWell'
  <2>1. UNCHANGED <<fts, projects, disturbed>>
    BY <1>7 DEF StartScan, ScanGivesUp, ScanOpens, StartRead, ScannerSucceeds,
                ScannerFails, FtsInsertFails, Read, Interrupt, tables
  <2>2. \A q \in Procs \ {p} : pc'[q] = pc[q] /\ todo'[q] = todo[q]
    BY <1>1, <1>7
       DEF StartScan, ScanGivesUp, ScanOpens, StartRead, ScannerSucceeds,
           ScannerFails, FtsInsertFails, Read, Interrupt, Finish, TypeOK
  <2>3. \/ pc'[p] = pc[p] /\ todo'[p] = todo[p]
        \/ pc'[p] \in {"idle", "scan", "clear"}
    BY <1>1, <1>7
       DEF StartScan, ScanGivesUp, ScanOpens, StartRead, ScannerSucceeds,
           ScannerFails, FtsInsertFails, Read, Interrupt, Finish, TypeOK
  <2>4. Rebuilding(pc[p], fts, todo[p], projects) =>
           Rebuilding(pc'[p], fts', todo'[p], projects')
    BY <2>1, <2>3 DEF Rebuilding
  <2> QED BY <2>1, <2>2, <2>4, ReaderKeeps
<1>8. ASSUME \/ UNCHANGED vars
             \/ \E t \in Tools, d \in Paths : Activity(t, d) \/ Forget(t, d)
      PROVE  RebuildsGoWell'
  BY <1>8 DEF Activity, Forget, vars, tables, local, RebuildsGoWell
<1> QED BY <1>2, <1>3, <1>4, <1>5, <1>6, <1>7, <1>8 DEF Next

\* An opener that met no other writer leaves a search table that mirrors the
\* projects, whatever an opener that was killed left before it (store.rs,
\* rebuild_fts), for any number of processes and projects.
THEOREM LoneOpensRepair == Spec => []LoneOpenRepairsSearch
<1>1. Init => IInv /\ RebuildsGoWell
  <2>1. Init => RebuildsGoWell
    BY DEF Init, RebuildsGoWell, Rebuilding
  <2> QED BY <2>1, InitInv, BoundsAssumption
<1>2. IInv /\ RebuildsGoWell /\ [Next]_vars => IInv' /\ RebuildsGoWell'
  BY TypeStep, TablesStep, RebuildsStep, BoundsAssumption, PathsAssumption
  DEF IInv
<1>3. RebuildsGoWell => LoneOpenRepairsSearch
  BY DEF RebuildsGoWell, Rebuilding, LoneOpenRepairsSearch, FtsMirrors
<1> QED BY <1>1, <1>2, <1>3, PTL DEF Spec

-----------------------------------------------------------------------------
(* The abstract index.                                                     *)

\* What UseOf and BornOf say of tables us and prs.
UsesAt(rows, t, d) == {u \in rows : u.id.path = d /\ u.tool = t}
Agreed(uses)       == IF uses = {} THEN 0 ELSE (CHOOSE u \in uses : TRUE).used
UseIn(rows, t, d)  == Agreed(UsesAt(rows, t, d))

BornIn(prs, d) ==
    IF d \in Indexed(prs)
    THEN (CHOOSE pr \in prs : pr.path = d).id.born ELSE 0

LEMMA Mapping ==
  /\ \A t, d : /\ UseOf(t, d) = UseIn(usages, t, d)
               /\ UseOf(t, d)' = UseIn(usages', t, d)
  /\ \A d : BornOf(d) = BornIn(projects, d) /\ BornOf(d)' = BornIn(projects', d)
<1>1. \A t, d : /\ UseOf(t, d) = UseIn(usages, t, d)
               /\ UseOf(t, d)' = UseIn(usages', t, d)
  BY DEF UseOf, UseIn, UsesAt, Agreed
<1>2. \A d : BornOf(d) = BornIn(projects, d) /\ BornOf(d)' = BornIn(projects', d)
  BY DEF BornOf, BornIn, Indexed
<1> QED BY <1>1, <1>2

\* A scan is abstracted by its outcomes: an idle process has none, and one does
\* not inspect a tool twice.  A usage row has a time.
ScansApart ==
    /\ \A p \in Procs : pc[p] = "idle" => found[p] = NoScan
    /\ \A p \in Procs, t \in Tools : t \in want[p] => t \notin DOMAIN found[p]
    /\ \A u \in usages : u.used > 0

\* What the rows of a path and a tool say of it.
LEMMA UseOfRow ==
  ASSUME NEW uses, NEW n, \A u \in uses : u.used = n, n # 0 <=> uses # {}
  PROVE  Agreed(uses) = n
<1>1. CASE uses = {}
  BY <1>1 DEF Agreed
<1>2. CASE uses # {}
  <2>1. (CHOOSE u \in uses : TRUE) \in uses
    BY <1>2
  <2> QED BY <1>2, <2>1 DEF Agreed
<1> QED BY <1>1, <1>2

LEMMA BornOfRow ==
  ASSUME NEW prs, DistinctRows(prs), NEW x \in prs
  PROVE  BornIn(prs, x.path) = x.id.born
<1>1. x.path \in Indexed(prs)
  BY DEF Indexed
<1>2. (CHOOSE pr \in prs : pr.path = x.path) = x
  BY DEF DistinctRows
<1> QED BY <1>1, <1>2 DEF BornIn

\* replace_tool_snapshots, as the slices see it: tools that were inspected have
\* what was found, the others what they had.
LEMMA SlicesReplaced ==
  ASSUME IInv, ScansApart, NEW f \in Outcomes, NEW prs \in SUBSET ProjectRows,
         projects \subseteq prs, \A pr \in prs : pr.id.path = pr.path,
         SnapshotPaths(f) \subseteq Indexed(prs),
         NEW t \in Tools, NEW d \in Paths
  PROVE  LET snap == SnapshotUsages(prs, f)
             us   == DropStaleUsages(UpsertUsages(usages, snap), snap, DOMAIN f)
         IN  /\ \A u \in us : u.used > 0
             /\ UseIn(us, t, d) = IF t \in DOMAIN f THEN f[t][d]
                                  ELSE UseIn(usages, t, d)
<1> DEFINE snap == SnapshotUsages(prs, f)
           us   == DropStaleUsages(UpsertUsages(usages, snap), snap, DOMAIN f)
<1>1. PICK S \in SUBSET Tools : f \in [S -> [Paths -> Stamps]]
  BY DEF Outcomes
<1>2. ASSUME NEW s \in snap
      PROVE  \E pr \in prs, w \in S :
                s = [id |-> pr.id, tool |-> w, used |-> f[w][pr.path]]
                /\ f[w][pr.path] > 0
  BY <1>1 DEF SnapshotUsages
<1>3. ASSUME NEW pr \in prs, NEW w \in S, f[w][pr.path] > 0
      PROVE  [id |-> pr.id, tool |-> w, used |-> f[w][pr.path]] \in snap
  <2>1. <<pr, w>> \in {y \in prs \X DOMAIN f : f[y[2]][y[1].path] > 0}
    BY <1>1, <1>3
  <2>2. /\ <<pr, w>>[1] = pr /\ <<pr, w>>[2] = w
    OBVIOUS
  <2> QED BY <2>1, <2>2 DEF SnapshotUsages
<1>4. \A s \in snap : s.tool \in S /\ s.used = f[s.tool][s.id.path] /\ s.used > 0
  <2>1. \A pr \in prs : pr.id.path = pr.path
    OBVIOUS
  <2> QED BY <1>2, <2>1
<1>5. DOMAIN f = S
  BY <1>1
<1> HIDE DEF snap
<1>6. \A u : u \in us <=>
         \/ u \in snap
         \/ /\ u \in usages /\ \A s \in snap : s.id = u.id => s.tool # u.tool
            /\ u.tool \notin S
  BY <1>4, <1>5 DEF DropStaleUsages, UpsertUsages
<1> HIDE DEF us, snap
<1>7. \A u \in us : u.used > 0
  BY <1>4, <1>6 DEF ScansApart
<1>8. CASE t \in S
  <2>1. f[t][d] \in Nat
    BY <1>1, <1>8 DEF Stamps
  <2>2. \A u \in us : u.id.path = d /\ u.tool = t => u.used = f[t][d] /\ u.used > 0
    BY <1>4, <1>6, <1>8
  <2>3. ASSUME f[t][d] # 0
        PROVE  \E u \in us : u.id.path = d /\ u.tool = t
    <3>1. f[t][d] > 0 /\ d \in SnapshotPaths(f)
      BY <1>5, <1>8, <2>1, <2>3 DEF SnapshotPaths
    <3>2. PICK pr \in prs : pr.path = d
      BY <3>1 DEF Indexed
    <3>3. [id |-> pr.id, tool |-> t, used |-> f[t][pr.path]] \in snap
      BY <1>3, <1>8, <3>1, <3>2
    <3>4. pr.id.path = d
      BY <3>2
    <3> QED BY <1>6, <3>3, <3>4
  <2>4. f[t][d] # 0 <=> UsesAt(us, t, d) # {}
    BY <2>1, <2>2, <2>3 DEF UsesAt
  <2>5. \A u \in UsesAt(us, t, d) : u.used = f[t][d]
    BY <2>2 DEF UsesAt
  <2>6. UseIn(us, t, d) = f[t][d]
    BY <2>4, <2>5, UseOfRow DEF UseIn
  <2> QED BY <1>5, <1>7, <1>8, <2>6 DEF us, snap
<1>9. CASE t \notin S
  <2>1. \A u : u \in us /\ u.tool = t <=> u \in usages /\ u.tool = t
    BY <1>4, <1>6, <1>9
  <2>2. UsesAt(us, t, d) = UsesAt(usages, t, d)
    BY <2>1 DEF UsesAt
  <2>3. UseIn(us, t, d) = UseIn(usages, t, d)
    BY <2>2 DEF UseIn
  <2> QED BY <1>5, <1>7, <1>9, <2>3 DEF us, snap
<1> QED BY <1>8, <1>9 DEF snap, us

\* The inserts give the paths that are new the number of this commit.
LEMMA InsertedRows ==
  ASSUME NEW f,
         NEW rows \in RowAssignments(projects,
                                     SnapshotPaths(f) \ Indexed(projects)),
         NEW n
  PROVE  LET prs == UpsertProjects(projects, f, rows, n)
         IN  /\ projects \subseteq prs
             /\ SnapshotPaths(f) \subseteq Indexed(prs)
             /\ \A x \in prs : \/ x \in projects
                               \/ x.path \notin Indexed(projects) /\ x.id.born = n
<1> DEFINE new == SnapshotPaths(f) \ Indexed(projects)
           R(d) == [row |-> rows[d], id |-> [path |-> d, born |-> n],
                    path |-> d, last |-> LatestFound(f, d)]
           prs == UpsertProjects(projects, f, rows, n)
<1>1. DOMAIN rows = new
  BY DEF RowAssignments
<1>2. prs = projects \cup {R(d) : d \in new}
  BY <1>1 DEF UpsertProjects
<1>3. \A d : R(d).path = d /\ R(d).id.born = n
  OBVIOUS
<1> HIDE DEF R, prs
<1>4. \A d \in new : R(d) \in prs
  BY <1>2
<1>5. SnapshotPaths(f) \subseteq Indexed(prs)
  <2>1. ASSUME NEW d \in SnapshotPaths(f)
        PROVE  \E pr \in prs : pr.path = d
    <3>1. CASE d \in Indexed(projects)
      BY <1>2, <3>1 DEF Indexed
    <3>2. CASE d \notin Indexed(projects)
      BY <1>3, <1>4, <3>2
    <3> QED BY <3>1, <3>2
  <2> QED BY <2>1 DEF Indexed
<1>6. \A x \in prs : x \in projects \/ \E d \in new : x = R(d)
  BY <1>2
<1>7. \A x \in prs : \/ x \in projects
                     \/ x.path \notin Indexed(projects) /\ x.id.born = n
  BY <1>3, <1>6
<1>8. projects \subseteq prs
  BY <1>2
<1> QED BY <1>5, <1>7, <1>8 DEF prs

\* What the transaction makes of slices and identities.
LEMMA ReplaceMaps ==
  ASSUME BoundsAssumption, PathsAssumption, IInv, ScansApart, NEW p \in Procs,
         Replace(p)
  PROVE  /\ \A u \in usages' : u.used > 0
         /\ \A t \in Tools, d \in Paths :
               UseIn(usages', t, d) = IF t \in DOMAIN found[p] THEN found[p][t][d]
                                      ELSE UseIn(usages, t, d)
         /\ \A x \in projects' :
               \/ \E pr \in projects : pr.path = x.path /\ pr.id = x.id
               \/ x.path \notin Indexed(projects) /\ x.id.born = commits + 1
<1> DEFINE f   == found[p]
           new == SnapshotPaths(f) \ Indexed(projects)
<1>1. f \in Outcomes
  BY DEF IInv, TypeOK, Outcomes
<1>2. PICK rows \in RowAssignments(projects, new) :
         LET prs  == UpsertProjects(projects, f, rows, commits + 1)
             snap == SnapshotUsages(prs, f)
             us   == DropStaleUsages(UpsertUsages(usages, snap),
                                     snap, DOMAIN f)
             kept == RecomputeActivity(DropUnusedProjects(prs, us), us)
         IN  projects' = kept /\ usages' = us
  BY DEF Replace
<1> DEFINE prs  == UpsertProjects(projects, f, rows, commits + 1)
           snap == SnapshotUsages(prs, f)
           us   == DropStaleUsages(UpsertUsages(usages, snap), snap, DOMAIN f)
           kept == RecomputeActivity(DropUnusedProjects(prs, us), us)
<1>3. /\ prs \subseteq ProjectRows
      /\ DistinctRows(prs)
      /\ \A pr \in prs : pr.id.path = pr.path /\ pr.id.born <= commits + 1
  BY <1>1, InsertsAreFresh DEF Replace
<1>4. /\ projects \subseteq prs
      /\ SnapshotPaths(f) \subseteq Indexed(prs)
      /\ \A x \in prs : \/ x \in projects
                        \/ x.path \notin Indexed(projects) /\ x.id.born = commits + 1
  BY InsertedRows
<1>5. /\ us \subseteq UsageRows
      /\ \A u \in us : \E pr \in prs : pr.id = u.id
  <2> HIDE DEF f, prs
  <2> QED BY <1>1, <1>3, <1>4, UsagesStayKeyed
<1>6. \A t \in Tools, d \in Paths :
         /\ \A u \in us : u.used > 0
         /\ UseIn(us, t, d) = IF t \in DOMAIN f THEN f[t][d]
                              ELSE UseIn(usages, t, d)
  <2> HIDE DEF f, prs
  <2> QED BY <1>1, <1>3, <1>4, SlicesReplaced
<1>7. \A x \in kept : \E pr \in prs : x.id = pr.id /\ x.path = pr.path
  <2> HIDE DEF us, prs
  <2> QED BY <1>3, <1>5, ActivityFollows
<1>8. projects' = kept /\ usages' = us
  BY <1>2
<1> HIDE DEF kept, us, prs
<1>9. \A u \in us : u.used > 0
  <2>1. ASSUME NEW u \in us
        PROVE  u.used > 0
    <3>1. u.tool \in Tools /\ u.id.path \in Paths
      BY <1>5 DEF UsageRows, Ids
    <3> QED BY <1>6, <3>1
  <2> QED BY <2>1
<1>10. \A x \in kept :
          \/ \E pr \in projects : pr.path = x.path /\ pr.id = x.id
          \/ x.path \notin Indexed(projects) /\ x.id.born = commits + 1
  <2>1. ASSUME NEW x \in kept
        PROVE  \/ \E pr \in projects : pr.path = x.path /\ pr.id = x.id
               \/ x.path \notin Indexed(projects) /\ x.id.born = commits + 1
    <3>1. PICK pr \in prs : x.id = pr.id /\ x.path = pr.path
      BY <1>7
    <3> QED BY <1>4, <3>1
  <2> QED BY <2>1
<1> QED BY <1>6, <1>8, <1>9, <1>10

\* A path is listed by a slice as long as it has a project.
LEMMA ListedAre ==
  ASSUME NEW us \in SUBSET UsageRows, NEW prs,
         \A u \in us : u.used > 0,
         \A u \in us : \E pr \in prs : pr.id = u.id,
         \A pr \in prs : \E u \in us : u.id = pr.id,
         \A pr \in prs : pr.id.path = pr.path, NEW d \in Paths
  PROVE  (\E t \in Tools : UseIn(us, t, d) # 0) <=> d \in Indexed(prs)
<1>1. ASSUME NEW t \in Tools, UseIn(us, t, d) # 0
      PROVE  d \in Indexed(prs)
  <2>1. UsesAt(us, t, d) # {}
    BY <1>1 DEF UseIn, Agreed
  <2>2. PICK u \in us : u.id.path = d
    BY <2>1 DEF UsesAt
  <2> QED BY <2>2 DEF Indexed
<1>2. ASSUME NEW pr \in prs, pr.path = d
      PROVE  \E t \in Tools : UseIn(us, t, d) # 0
  <2>1. PICK u \in us : u.id = pr.id
    OBVIOUS
  <2>2. u \in UsesAt(us, u.tool, d) /\ u.tool \in Tools
    BY <1>2, <2>1 DEF UsesAt, UsageRows
  <2>3. (CHOOSE v \in UsesAt(us, u.tool, d) : TRUE) \in UsesAt(us, u.tool, d)
    BY <2>2
  <2>4. (CHOOSE v \in UsesAt(us, u.tool, d) : TRUE).used > 0
    BY <2>3 DEF UsesAt
  <2>5. UseIn(us, u.tool, d) > 0
    BY <2>2, <2>4 DEF UseIn, Agreed
  <2> QED BY <2>2, <2>5
<1> QED BY <1>1, <1>2 DEF Indexed

\* A path keeps its identity as long as some slice lists it, and a path that is
\* listed anew has a new one.
LEMMA IdentitiesStay ==
  ASSUME BoundsAssumption, PathsAssumption, IInv, ScansApart, NEW p \in Procs,
         Replace(p), IInv', NEW d \in Paths
  PROVE  BornIn(projects', d) =
            IF ~ \E t \in Tools : UseIn(usages', t, d) # 0 THEN 0
            ELSE IF BornIn(projects, d) # 0 THEN BornIn(projects, d)
            ELSE commits + 1
<1>1. /\ DistinctRows(projects) /\ DistinctRows(projects')
      /\ projects \subseteq ProjectRows
      /\ usages' \in SUBSET UsageRows
      /\ \A u \in usages' : \E pr \in projects' : pr.id = u.id
      /\ \A pr \in projects' : \E u \in usages' : u.id = pr.id
      /\ \A pr \in projects' : pr.id.path = pr.path
  BY DEF IInv, TypeOK, TablesConsistent, OneRowPerProject, DistinctRows,
     NoOrphans,
         IdsStamped
<1>2. /\ \A u \in usages' : u.used > 0
      /\ \A x \in projects' :
            \/ \E pr \in projects : pr.path = x.path /\ pr.id = x.id
            \/ x.path \notin Indexed(projects) /\ x.id.born = commits + 1
  BY ReplaceMaps
<1>3. (\E t \in Tools : UseIn(usages', t, d) # 0) <=> d \in Indexed(projects')
  BY <1>1, <1>2, ListedAre
<1>4. CASE d \notin Indexed(projects')
  BY <1>3, <1>4 DEF BornIn
<1>5. CASE d \in Indexed(projects')
  <2>1. PICK x \in projects' : x.path = d
    BY <1>5 DEF Indexed
  <2>2. BornIn(projects', d) = x.id.born
    BY <1>1, <2>1, BornOfRow
  <2>3. CASE \E pr \in projects : pr.path = x.path /\ pr.id = x.id
    <3>1. PICK pr \in projects : pr.path = x.path /\ pr.id = x.id
      BY <2>3
    <3>2. BornIn(projects, d) = pr.id.born
      BY <1>1, <2>1, <3>1, BornOfRow
    <3>3. pr.id.born # 0
      BY <1>1 DEF ProjectRows, Ids
    <3> QED BY <1>3, <1>5, <2>2, <3>1, <3>2, <3>3
  <2>4. CASE d \notin Indexed(projects) /\ x.id.born = commits + 1
    <3>1. BornIn(projects, d) = 0
      BY <2>4 DEF BornIn
    <3> QED BY <1>3, <1>5, <2>2, <2>4, <3>1
  <2> QED BY <1>2, <2>1, <2>3, <2>4
<1> QED BY <1>4, <1>5

LEMMA ScansApartStep ==
  ASSUME BoundsAssumption, PathsAssumption, IInv, ScansApart, [Next]_vars
  PROVE  ScansApart'
<1>1. TypeOK
  BY DEF IInv
<1>2. ASSUME NEW p \in Procs, Finish(p), \A u \in usages' : u.used > 0
      PROVE  ScansApart'
  <2>1. /\ pc' = [pc EXCEPT ![p] = "idle"] /\ want' = [want EXCEPT ![p] = {}]
        /\ found' = [found EXCEPT ![p] = NoScan]
    BY <1>2 DEF Finish
  <2> QED BY <1>1, <1>2, <2>1 DEF ScansApart, TypeOK
<1>3. ASSUME NEW p \in Procs, Replace(p) PROVE ScansApart'
  BY <1>2, <1>3, BoundsAssumption, PathsAssumption, ReplaceMaps DEF Replace
<1>4. ASSUME NEW p \in Procs,
             ScanGivesUp(p) \/ FtsInsertFails(p) \/ Read(p) \/ Interrupt(p)
      PROVE  ScansApart'
  BY <1>2, <1>4
  DEF ScanGivesUp, FtsInsertFails, Read, Interrupt, tables, ScansApart
<1>5. ASSUME NEW p \in Procs, StartScan(p) PROVE ScansApart'
  <2>1. /\ pc[p] = "idle" /\ pc' = [pc EXCEPT ![p] = "scan"]
        /\ UNCHANGED <<found, usages>>
        /\ \A q \in Procs \ {p} : want'[q] = want[q]
    BY <1>1, <1>5 DEF StartScan, tables, TypeOK
  <2>2. DOMAIN found[p] = {}
    BY <2>1 DEF ScansApart, NoScan
  <2> QED BY <1>1, <2>1, <2>2 DEF ScansApart, TypeOK
<1>6. ASSUME NEW p \in Procs, NEW t \in Tools, ScannerSucceeds(p, t)
      PROVE  ScansApart'
  <2>1. /\ pc[p] = "scan" /\ want' = [want EXCEPT ![p] = @ \ {t}]
        /\ UNCHANGED <<pc, usages>>
        /\ \A q \in Procs \ {p} : found'[q] = found[q]
        /\ DOMAIN found'[p] = DOMAIN found[p] \cup {t}
    BY <1>1, <1>6 DEF ScannerSucceeds, tables, TypeOK
  <2> QED BY <1>1, <2>1 DEF ScansApart, TypeOK
<1>7. ASSUME NEW p \in Procs, NEW t \in Tools, ScannerFails(p, t)
      PROVE  ScansApart'
  BY <1>1, <1>7 DEF ScannerFails, tables, ScansApart, TypeOK
<1>8. ASSUME NEW p \in Procs,
             ScanOpens(p) \/ StartRead(p) \/ FtsClear(p) \/ FtsLoad(p)
             \/ FtsDrop(p) \/ FtsInsert(p)
      PROVE  ScansApart'
  <2>1. UNCHANGED <<found, want, usages>>
    BY <1>8
    DEF ScanOpens, StartRead, FtsClear, FtsLoad, FtsDrop, FtsInsert, tables
  <2>2. \A q \in Procs : pc'[q] = "idle" => pc[q] = "idle"
    BY <1>1, <1>8
    DEF ScanOpens, StartRead, FtsClear, FtsLoad, FtsDrop, FtsInsert, TypeOK
  <2> QED BY <2>1, <2>2 DEF ScansApart
<1>9. ASSUME \/ UNCHANGED vars
             \/ \E t \in Tools, d \in Paths : Activity(t, d) \/ Forget(t, d)
      PROVE  ScansApart'
  BY <1>9 DEF Activity, Forget, vars, tables, local, ScansApart
<1> QED BY <1>3, <1>4, <1>5, <1>6, <1>7, <1>8, <1>9 DEF Next

\* The tables of the abstract index, in one step.
AbstractSlices(us) == [t \in Tools |-> [d \in Paths |-> UseIn(us, t, d)]]
AbstractIdents(prs) == [d \in Paths |-> BornIn(prs, d)]

LEMMA AbstractTables ==
  /\ [t \in Tools |-> [d \in Paths |-> UseOf(t, d)]] = AbstractSlices(usages)
  /\ [t \in Tools |-> [d \in Paths |-> UseOf(t, d)]]' = AbstractSlices(usages')
  /\ [d \in Paths |-> BornOf(d)] = AbstractIdents(projects)
  /\ [d \in Paths |-> BornOf(d)]' = AbstractIdents(projects')
BY Mapping DEF AbstractSlices, AbstractIdents

LEMMA ReplacePublishes ==
  ASSUME BoundsAssumption, PathsAssumption, IInv, ScansApart, IInv',
         NEW p \in Procs, Replace(p)
  PROVE  Abstract!Publish(p)
<1> DEFINE new == [t \in Tools |-> IF t \in DOMAIN found[p] THEN found[p][t]
                                   ELSE AbstractSlices(usages)[t]]
<1>1. DOMAIN found[p] # {}
  BY DEF Replace, IInv, TypeOK, Opening
<1>2. commits' = commits + 1 /\ found' = [found EXCEPT ![p] = NoScan]
  BY DEF Replace, Finish
<1>3. AbstractSlices(usages') = new
  <2>1. ASSUME NEW t \in Tools
        PROVE  [d \in Paths |-> UseIn(usages', t, d)] =
               IF t \in DOMAIN found[p] THEN found[p][t]
               ELSE [d \in Paths |-> UseIn(usages, t, d)]
    <3>1. CASE t \in DOMAIN found[p]
      <4>1. found[p][t] = [d \in Paths |-> found[p][t][d]]
        BY <3>1 DEF IInv, TypeOK
      <4>2. \A d \in Paths : UseIn(usages', t, d) = found[p][t][d]
        BY <3>1, ReplaceMaps
      <4>3. [d \in Paths |-> UseIn(usages', t, d)] =
            [d \in Paths |-> found[p][t][d]]
        BY <4>2
      <4> QED BY <3>1, <4>1, <4>3
    <3>2. CASE t \notin DOMAIN found[p]
      <4>1. \A d \in Paths : UseIn(usages', t, d) = UseIn(usages, t, d)
        BY <3>2, ReplaceMaps
      <4>2. [d \in Paths |-> UseIn(usages', t, d)] =
            [d \in Paths |-> UseIn(usages, t, d)]
        BY <4>1
      <4> QED BY <3>2, <4>2
    <3> QED BY <3>1, <3>2
  <2> QED BY <2>1 DEF AbstractSlices
<1>4. \A d \in Paths : (\E t \in Tools : new[t][d] # 0)
                       <=> \E t \in Tools : UseIn(usages', t, d) # 0
  <2>1. \A d \in Paths, t \in Tools : new[t][d] = UseIn(usages', t, d)
    <3> HIDE DEF new
    <3> QED BY <1>3 DEF AbstractSlices
  <2> QED BY <2>1
<1>5. AbstractIdents(projects') =
         [d \in Paths |-> IF ~ \E t \in Tools : new[t][d] # 0 THEN 0
                          ELSE IF AbstractIdents(projects)[d] # 0
                          THEN AbstractIdents(projects)[d]
                          ELSE commits + 1]
  <2>1. \A d \in Paths :
           BornIn(projects', d) =
              IF ~ \E t \in Tools : new[t][d] # 0 THEN 0
              ELSE IF BornIn(projects, d) # 0 THEN BornIn(projects, d)
              ELSE commits + 1
    <3> HIDE DEF new
    <3> QED BY <1>4, IdentitiesStay
  <2> HIDE DEF new
  <2> QED BY <2>1 DEF AbstractIdents
<1>6. Abstract!NoOutcome = NoScan
  BY DEF Abstract!NoOutcome, NoScan
<1> HIDE DEF NoScan
<1> QED BY <1>1, <1>2, <1>3, <1>5, <1>6, AbstractTables
        DEF Abstract!Publish, Abstract!Listed

\* Steps that leave the tables alone: a scan goes on or is given up, or nothing
\* can be seen of them.
LEMMA OthersAreUnseen ==
  ASSUME IInv, ScansApart, UNCHANGED <<projects, usages, commits>>,
         \/ found' = found
         \/ \E p \in Procs : Finish(p)
         \/ \E p \in Procs, t \in Tools : ScannerSucceeds(p, t)
  PROVE  [Abstract!Next]_Abstract!vars
<1>1. TypeOK
  BY DEF IInv
<1>2. /\ AbstractSlices(usages') = AbstractSlices(usages)
      /\ AbstractIdents(projects') = AbstractIdents(projects)
      /\ commits' = commits
  BY DEF AbstractSlices, AbstractIdents, UseIn, UsesAt, BornIn, Indexed
<1>3. CASE found' = found
  BY <1>2, <1>3, AbstractTables DEF Abstract!vars
<1>4. ASSUME NEW p \in Procs, Finish(p)
      PROVE  Abstract!Collect(p)
  <2>1. found' = [found EXCEPT ![p] = NoScan] /\ found'[p] = NoScan
    BY <1>1, <1>4 DEF Finish, TypeOK
  <2>2. Abstract!NoOutcome = NoScan
    BY DEF Abstract!NoOutcome, NoScan
  <2> HIDE DEF NoScan
  <2> QED BY <1>2, <2>1, <2>2, AbstractTables DEF Abstract!Collect
<1>5. ASSUME NEW p \in Procs, NEW t \in Tools, ScannerSucceeds(p, t)
      PROVE  Abstract!Collect(p)
  <2>1. PICK S \in SUBSET Tools : found[p] \in [S -> [Paths -> Stamps]]
    BY <1>1 DEF TypeOK
  <2>2. t \in Tools \ DOMAIN found[p]
    BY <1>5 DEF ScannerSucceeds, ScansApart
  <2>3. /\ found' = [found EXCEPT ![p] = [u \in S \cup {t} |->
                        IF u = t THEN sources[t] ELSE found[p][u]]]
        /\ found'[p] = [u \in S \cup {t} |->
                           IF u = t THEN sources[t] ELSE found[p][u]]
    BY <1>1, <1>5, <2>1 DEF ScannerSucceeds, TypeOK
  <2>4. sources[t] \in [Paths -> Int] /\ [Paths -> Stamps] \subseteq [Paths -> Int]
    BY <1>1 DEF TypeOK, Stamps
  <2>5. found'[p] \in [DOMAIN found[p] \cup {t} -> [Paths -> Int]]
    BY <2>1, <2>3, <2>4
  <2>6. \A u \in DOMAIN found[p] : found'[p][u] = found[p][u]
    BY <2>1, <2>2, <2>3
  <2>7. found' = [found EXCEPT ![p] = found'[p]]
    BY <2>3
  <2> QED BY <1>2, <2>2, <2>5, <2>6, <2>7, AbstractTables DEF Abstract!Collect
<1> QED BY <1>3, <1>4, <1>5 DEF Abstract!Next

LEMMA StepsImplement ==
  ASSUME BoundsAssumption, PathsAssumption, IInv, ScansApart, IInv', [Next]_vars
  PROVE  [Abstract!Next]_Abstract!vars
<1>1. ASSUME NEW p \in Procs, Replace(p)
      PROVE  Abstract!Next
  BY <1>1, ReplacePublishes, BoundsAssumption, PathsAssumption DEF Abstract!Next
<1>2. ASSUME ~ \E p \in Procs : Replace(p)
      PROVE  /\ UNCHANGED <<projects, usages, commits>>
             /\ \/ found' = found
                \/ \E p \in Procs : Finish(p)
                \/ \E p \in Procs, t \in Tools : ScannerSucceeds(p, t)
  <2>1. UNCHANGED <<projects, usages, commits>>
    BY <1>2 DEF Next, vars, tables, Activity, Forget, StartScan, ScanGivesUp,
                ScanOpens, StartRead, ScannerSucceeds, ScannerFails, FtsClear,
                FtsLoad, FtsDrop, FtsInsert, FtsInsertFails, Read, Interrupt
  <2>2. \/ found' = found
        \/ \E p \in Procs : Finish(p)
        \/ \E p \in Procs, t \in Tools : ScannerSucceeds(p, t)
    BY <1>2 DEF Next, vars, local, Activity, Forget, StartScan, ScanGivesUp,
                ScanOpens, StartRead, ScannerFails, FtsClear, FtsLoad, FtsDrop,
                FtsInsert, FtsInsertFails, Read, Interrupt
  <2> QED BY <2>1, <2>2
<1> QED BY <1>1, <1>2, OthersAreUnseen

\* The statements of store.rs implement the contract: whatever processes do, in
\* every order and with any failures, a step publishes all a scan found of the
\* tools it inspected, or changes no slice and no identity.
THEOREM IndexIsAtomic == Spec => ImplementsAtomicIndex
<1>1. Init => IInv /\ ScansApart /\ Abstract!Init
  <2>1. Init => ScansApart
    BY DEF Init, ScansApart, NoScan
  <2>2. ASSUME Init
        PROVE  Abstract!Init
    <3>1. \A t \in Tools, d \in Paths : UseIn(usages, t, d) = 0
      BY <2>2 DEF Init, UseIn, UsesAt, Agreed
    <3>2. \A d \in Paths : BornIn(projects, d) = 0
      BY <2>2 DEF Init, BornIn, Indexed
    <3>3. commits = 0 /\ found = [p \in Procs |-> Abstract!NoOutcome]
      BY <2>2 DEF Init, NoScan, Abstract!NoOutcome
    <3>4. /\ AbstractSlices(usages) = [t \in Tools |-> [d \in Paths |-> 0]]
          /\ AbstractIdents(projects) = [d \in Paths |-> 0]
      BY <3>1, <3>2 DEF AbstractSlices, AbstractIdents
    <3> QED BY <3>3, <3>4, AbstractTables DEF Abstract!Init
  <2> QED BY <2>1, <2>2, InitInv, BoundsAssumption
<1>2. IInv /\ ScansApart /\ [Next]_vars =>
         /\ IInv' /\ ScansApart'
         /\ [Abstract!Next]_Abstract!vars
  <2>1. IInv /\ [Next]_vars => IInv'
    BY TypeStep, TablesStep, BoundsAssumption, PathsAssumption DEF IInv
  <2> QED BY <2>1, ScansApartStep, StepsImplement, BoundsAssumption,
             PathsAssumption
<1> QED BY <1>1, <1>2, PTL DEF Spec, ImplementsAtomicIndex, Abstract!Spec
=============================================================================
