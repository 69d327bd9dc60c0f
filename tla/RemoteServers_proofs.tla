------------------------ MODULE RemoteServers_proofs ------------------------
(***************************************************************************)
(* The remote servers for every number of servers and workers and every    *)
(* set of paths.  The tables stay consistent because a scan finds its      *)
(* server in the transaction that replaces its rows, and because a listed  *)
(* path has no uses under its old id; a listing is whole because only a    *)
(* find that succeeded is stored; and a batch tells the truth because each *)
(* server of a share is either still to scan or has one outcome.           *)
(* They implement the catalog of ServerCatalog because the uses of a path  *)
(* by a tool are in at most one row under each of its two ids, and moving  *)
(* them from the old to the present one keeps their sum.                   *)
(***************************************************************************)
EXTENDS RemoteServers, FiniteSetTheorems, WellFoundedInduction, TLAPS

-----------------------------------------------------------------------------
(* The inductive invariant.  Its parts take the state as arguments.        *)

HostsWell ==
    /\ clock \in Nat
    /\ tree \in [Servers -> [Paths -> Absent .. clock]]

\* prs and us are the rows of the projects and of the uses, c is the time.
RowsTyped(prs, us, c) ==
    /\ prs \subseteq [server : Servers, id : Ids, last : 0 .. c]
    /\ \A u \in us : u.server \in Servers /\ u.id \in Ids /\ u.at \in 0 .. c

RowsApart(prs, us) ==
    /\ \A r, q \in prs : r.server = q.server /\ r.id = q.id => r = q
    /\ \A u, v \in us :
          u.server = v.server /\ u.id = v.id /\ u.tool = v.tool => u = v

RowsKnown(prs, us, ig, st) ==
    /\ \A r \in prs : st[r.server] = "here"
    /\ \A u \in us : st[u.server] = "here"
    /\ \A s \in ig : st[s] = "here"

\* A row under the present id is not older than its uses, and there are none
\* under the old id.
UsesCovered(prs, us) ==
    \A r \in prs, u \in us : r.id.form = "root" /\ u.server = r.server =>
        /\ u.id = r.id => r.last >= u.at
        /\ u.id # Marker(r.id.path)

DatabaseWell ==
    /\ clock \in Nat
    /\ status \in [Servers -> {"never", "here", "gone"}]
    /\ ignores \subseteq Servers
    /\ RowsTyped(projects, usages, clock)
    /\ RowsApart(projects, usages)
    /\ RowsKnown(projects, usages, ignores, status)
    /\ UsesCovered(projects, usages)

\* What a find printed: if it succeeded, everything that was there.
PathsOf(records) == {r.path : r \in records}

OutputWell(o, c) ==
    /\ \A r \in o.records : r.path \in Paths /\ r.activity \in 0 .. c
    /\ o.success => PathsOf(o.records) \ Hidden = o.there

JobsWell ==
    /\ stage \in [Jobs -> {"idle", "ssh", "store", "dead"}]
    /\ target \in [Jobs -> Servers]
    /\ output = [j \in Jobs |-> output[j]]
    /\ \A j \in Jobs : OutputWell(output[j], clock)

\* Each server of share sh of a worker at stage st with target tg is still to
\* scan (lf) or has one outcome (in oc).
ShareWell(st, tg, sh, lf, oc) ==
    /\ lf \subseteq sh
    /\ \A o \in oc : o.server \in sh /\ o.server \notin lf
    /\ \A s \in sh : s \notin lf => \E o \in oc : o.server = s
    /\ \A o, q \in oc : o.server = q.server => o = q
    /\ st # "idle" => tg \in lf

SharesApart(sh) ==
    \A w, v \in Workers : \A s \in sh[w] : s \in sh[v] => w = v

\* The servers in ld are those with an outcome that says so.
LandedWell(ld, oc) ==
    /\ \A w \in Workers : \A o \in oc[w] : o.ok => o.server \in ld
    /\ \A s \in ld : \E w \in Workers : \E o \in oc[w] : o.server = s /\ o.ok

BatchWell ==
    /\ share \in [Workers -> SUBSET Servers]
    /\ left \in [Workers -> SUBSET Servers]
    /\ outcomes \in [Workers -> SUBSET [server : Servers, ok : BOOLEAN]]
    /\ SharesApart(share)
    /\ LandedWell(landed, outcomes)
    /\ \A w \in Workers :
          ShareWell(stage[w], target[w], share[w], left[w], outcomes[w])

IInv == HostsWell /\ DatabaseWell /\ JobsWell /\ BatchWell

-----------------------------------------------------------------------------
(* Smallest and greatest elements.                                       *)

LEMMA SmallestOne ==
  ASSUME NEW S \in SUBSET Nat, S # {}
  PROVE  \E x \in S : \A y \in S : x <= y
<1> DEFINE T == {0 .. x : x \in S}
<1>1. T \subseteq FiniteSubsetsOf(Nat)
  <2>1. \A x \in S : IsFiniteSet(0 .. x)
    BY FS_Interval
  <2> QED BY <2>1 DEF FiniteSubsetsOf
<1>2. T # {}
  OBVIOUS
<1>3. PICK U \in T : \A V \in T : ~ (<<V, U>> \in StrictSubsetOrdering(Nat))
  <2> HIDE DEF T
  <2> QED BY <1>1, <1>2, FS_StrictSubsetOrderingWellFounded, WFMin
<1>4. PICK x \in S : U = 0 .. x
  OBVIOUS
<1>5. ASSUME NEW y \in S, y < x
      PROVE  FALSE
  <2>1. <<0 .. y, 0 .. x>> \in StrictSubsetOrdering(Nat)
    BY <1>5 DEF StrictSubsetOrdering
  <2> QED BY <1>3, <1>4, <2>1
<1>6. \A y \in S : x <= y
  BY <1>5
<1> QED BY <1>6

LEMMA MinIsSmallest ==
  ASSUME NEW S \in SUBSET Nat, S # {}
  PROVE  Min(S) \in S /\ \A y \in S : Min(S) <= y
<1>1. PICK x \in S : \A y \in S : x =< y
  BY SmallestOne
<1> QED BY <1>1 DEF Min

\* The greatest element of a set of bounded numbers.
LEMMA MaxIsLargest ==
  ASSUME NEW c \in Nat, NEW S \in SUBSET (0 .. c), S # {}
  PROVE  Max(S) \in S /\ \A y \in S : Max(S) >= y
<1> DEFINE T == {c - x : x \in S}
<1>1. T \in SUBSET Nat /\ T # {}
  <2>1. \A x \in 0 .. c : c - x \in Nat
    OBVIOUS
  <2>2. \A x \in S : x \in 0 .. c
    OBVIOUS
  <2> QED BY <2>1, <2>2
<1>2. PICK m \in T : \A n \in T : m <= n
  BY <1>1, SmallestOne
<1>3. PICK x \in S : m = c - x
  OBVIOUS
<1>4. \A y \in S : x >= y
  <2>1. ASSUME NEW y \in S
        PROVE  x >= y
    <3>1. c - x <= c - y
      BY <1>2, <1>3
    <3>2. x \in 0 .. c /\ y \in 0 .. c
      OBVIOUS
    <3> QED BY <3>1, <3>2
  <2> QED BY <2>1
<1> QED BY <1>4 DEF Max

-----------------------------------------------------------------------------
(* What the transaction of a scan computes.                                *)

LEMMA Parsing ==
  ASSUME NEW o, NEW c \in Nat, OutputWell(o, c)
  PROVE  /\ DOMAIN Parsed(o.records) = PathsOf(o.records) \ Hidden
         /\ \A p \in DOMAIN Parsed(o.records) :
               p \in Paths /\ Parsed(o.records)[p] \in 0 .. c
<1>1. DOMAIN Parsed(o.records) = PathsOf(o.records) \ Hidden
  BY DEF Parsed, PathsOf
<1>2. ASSUME NEW p \in PathsOf(o.records) \ Hidden
      PROVE  p \in Paths /\ Parsed(o.records)[p] \in 0 .. c
  <2> DEFINE S == {r.activity : r \in {x \in o.records : x.path = p}}
  <2>1. PICK r \in o.records : r.path = p
    BY DEF PathsOf
  <2>2. S \in SUBSET (0 .. c) /\ S # {}
    BY <2>1 DEF OutputWell
  <2>3. Parsed(o.records)[p] = Max(S)
    BY DEF Parsed, PathsOf
  <2>4. Max(S) \in S
    BY <2>2, MaxIsLargest
  <2> QED BY <2>1, <2>2, <2>3, <2>4 DEF OutputWell
<1> QED BY <1>1, <1>2

\* An id has one of two forms.
LEMMA TwoForms ==
  ASSUME NEW i \in Ids
  PROVE  /\ i.path \in Paths
         /\ i = Root(i.path) \/ i = Marker(i.path)
         /\ i.form = "root" <=> i = Root(i.path)
BY DEF Ids, Root, Marker

LEMMA Forms ==
  \A p : /\ Root(p).path = p /\ Root(p).form = "root"
         /\ Marker(p).path = p /\ Marker(p) # Root(p)
         /\ \A q : (Root(p) = Root(q) => p = q) /\ Marker(p) # Root(q)
         /\ p \in Paths => Root(p) \in Ids /\ Marker(p) \in Ids
<1>1. \A p : /\ Root(p).path = p /\ Root(p).form = "root"
             /\ Marker(p).path = p /\ Marker(p).form = "marker"
             /\ p \in Paths => Root(p) \in Ids /\ Marker(p) \in Ids
  BY DEF Root, Marker, Ids
<1>2. \A p, q : Root(p) = Root(q) => p = q
  BY <1>1
<1>3. \A p, q : Marker(p) # Root(q)
  BY <1>1
<1> QED BY <1>1, <1>2, <1>3

\* The uses of the paths of a listing are then under their present ids, and
\* there is still one row for each of its tools.
LEMMA Migration ==
  ASSUME NEW c \in Nat, NEW us, RowsApart({}, us), RowsTyped({}, us, c),
         NEW s \in Servers, NEW listing
  PROVE  /\ RowsApart({}, Migrated(us, s, listing))
         /\ RowsTyped({}, Migrated(us, s, listing), c)
         /\ \A u \in Migrated(us, s, listing) :
               /\ u \in us \/ (u.server = s /\ u.id.path \in DOMAIN listing)
               /\ u.server = s /\ u.id.path \in DOMAIN listing =>
                     u.id = Root(u.id.path)
<1> DEFINE old == {u \in us : u.server = s /\ u.id.path \in DOMAIN listing}
           M(u) == Merged(us, s, u.id.path, u.tool)
<1>1. Migrated(us, s, listing) = (us \ old) \cup {M(u) : u \in old}
  BY DEF Migrated
<1>2. \A u \in us : u.server \in Servers /\ u.id \in Ids /\ u.at \in 0 .. c
  BY DEF RowsTyped
<1>3. ASSUME NEW u \in old
      PROVE  /\ M(u).server = s /\ M(u).id = Root(u.id.path) /\ M(u).tool = u.tool
             /\ M(u).at \in 0 .. c
  <2> DEFINE p == u.id.path
             both == {v \in UsagesOf(us, s, Root(p)) \cup UsagesOf(us, s, Marker(p)) :
                         v.tool = u.tool}
             S == {v.at : v \in both}
  <2>1. u \in both
    BY <1>2, TwoForms DEF UsagesOf
  <2>2. S \in SUBSET (0 .. c) /\ S # {}
    BY <1>2, <2>1 DEF UsagesOf
  <2>3. Max(S) \in 0 .. c
    BY <2>2, MaxIsLargest
  <2>4. /\ M(u).server = s /\ M(u).id = Root(p) /\ M(u).tool = u.tool
        /\ M(u).at = Max(S)
    BY DEF Merged
  <2> QED BY <2>3, <2>4
<1>4. \A u, v \in old : M(u).id = M(v).id /\ M(u).tool = M(v).tool => M(u) = M(v)
  <2>1. ASSUME NEW u \in old, NEW v \in old, M(u).id = M(v).id, M(u).tool = M(v).tool
        PROVE  M(u) = M(v)
    <3>1. u.id.path = v.id.path /\ u.tool = v.tool
      BY <1>3, <2>1, Forms
    <3> QED BY <3>1
  <2> QED BY <2>1
<1>5. \A u \in old : u.id.path \in DOMAIN listing /\ u.id.path \in Paths
  BY <1>2, TwoForms
<1>6. \A u \in us : u \in old <=> u.server = s /\ u.id.path \in DOMAIN listing
  OBVIOUS
<1>7. old \subseteq us
  OBVIOUS
<1> DEFINE new == Migrated(us, s, listing)
<1> HIDE DEF old, M, new
<1>8. \A u \in new : (u \in us /\ u \notin old) \/ \E v \in old : u = M(v)
  BY <1>1 DEF new
<1>9. \A v \in old : /\ M(v).id \in Ids /\ M(v).id.path = v.id.path
                     /\ M(v).id = Root(M(v).id.path)
  BY <1>3, <1>5, Forms
<1>10. \A u \in new : /\ u \in us \/ (u.server = s /\ u.id.path \in DOMAIN listing)
                      /\ u.server = s /\ u.id.path \in DOMAIN listing =>
                            u.id = Root(u.id.path)
  <2>1. ASSUME NEW v \in old
        PROVE  /\ M(v).server = s /\ M(v).id.path \in DOMAIN listing
               /\ M(v).id = Root(M(v).id.path)
    BY <1>3, <1>5, <1>9
  <2>2. \A u \in us : u \notin old => ~ (u.server = s /\ u.id.path \in DOMAIN listing)
    BY <1>6
  <2> QED BY <1>8, <2>1, <2>2
<1>11. \A u \in new : u.server \in Servers /\ u.id \in Ids /\ u.at \in 0 .. c
  BY <1>2, <1>3, <1>8, <1>9
<1>12. ASSUME NEW u \in new, NEW v \in new,
              u.server = v.server, u.id = v.id, u.tool = v.tool
       PROVE  u = v
  <2>1. CASE u \in us /\ u \notin old /\ v \in us /\ v \notin old
    BY <1>12, <2>1 DEF RowsApart
  <2>2. CASE \E x, y \in old : u = M(x) /\ v = M(y)
    BY <1>4, <1>12, <2>2
  <2>3. ASSUME NEW x \in us, x \notin old, NEW y \in old,
               x.server = M(y).server, x.id = M(y).id
        PROVE  FALSE
    BY <1>3, <1>5, <1>6, <1>9, <2>3
  <2> QED BY <1>8, <1>12, <2>1, <2>2, <2>3
<1> QED BY <1>10, <1>11, <1>12 DEF RowsApart, RowsTyped, new

LEMMA LastAccessCovers ==
  ASSUME NEW c \in Nat, NEW git \in 0 .. c, NEW used \in 0 .. c,
         NEW previous \in 0 .. c
  PROVE  /\ LastAccess(git, used, previous, c) \in 0 .. c
         /\ LastAccess(git, used, previous, c) >= used
BY DEF LastAccess, Later

LEMMA Snapshots ==
  ASSUME NEW c \in Nat, NEW prs, NEW us, RowsTyped(prs, us, c),
         NEW s \in Servers, NEW listing,
         \A p \in DOMAIN listing : p \in Paths /\ listing[p] \in 0 .. c,
         NEW r \in Snapshot(prs, us, s, listing, c)
  PROVE  /\ r \in [server : Servers, id : Ids, last : 0 .. c]
         /\ r.server = s
         /\ \E p \in DOMAIN listing : r.id = Root(p)
         /\ \A u \in us : u.server = s /\ u.id = r.id => r.last >= u.at
         /\ \A q \in Snapshot(prs, us, s, listing, c) : q.id = r.id => q = r
<1>1. PICK p \in DOMAIN listing :
         r = [server |-> s, id |-> Root(p),
              last |-> LastAccess(listing[p], LatestUse(us, s, p),
                                  PreviousAccess(prs, s, p), c)]
  BY DEF Snapshot
<1> DEFINE U == {0} \cup {u.at : u \in UsagesOf(us, s, Root(p))}
           at(id) == {x.last : x \in {y \in prs : y.server = s /\ y.id = id}}
           P == {0} \cup (IF at(Root(p)) /= {} THEN at(Root(p)) ELSE at(Marker(p)))
<1>2. U \in SUBSET (0 .. c) /\ U # {}
  BY DEF RowsTyped, UsagesOf
<1>3. P \in SUBSET (0 .. c) /\ P # {}
  <2>1. \A id : at(id) \subseteq 0 .. c
    BY DEF RowsTyped
  <2> QED BY <2>1
<1>4. /\ LatestUse(us, s, p) = Max(U) /\ Max(U) \in 0 .. c
      /\ \A u \in us : u.server = s /\ u.id = Root(p) => Max(U) >= u.at
  <2>1. Max(U) \in U /\ \A y \in U : Max(U) >= y
    BY <1>2, MaxIsLargest
  <2>2. \A u \in us : u.server = s /\ u.id = Root(p) => u.at \in U
    BY DEF UsagesOf
  <2> QED BY <1>2, <2>1, <2>2 DEF LatestUse
<1>5. PreviousAccess(prs, s, p) = Max(P) /\ Max(P) \in 0 .. c
  <2>1. Max(P) \in P
    BY <1>3, MaxIsLargest
  <2> QED BY <1>3, <2>1 DEF PreviousAccess
<1> DEFINE l == LastAccess(listing[p], LatestUse(us, s, p), PreviousAccess(prs, s, p), c)
<1> HIDE DEF U, P
<1>6. l \in 0 .. c /\ l >= Max(U)
  BY <1>4, <1>5, LastAccessCovers
<1>7. r = [server |-> s, id |-> Root(p), last |-> l]
  BY <1>1
<1> HIDE DEF l
<1>8. Root(p) \in Ids
  BY Forms
<1>9. r \in [server : Servers, id : Ids, last : 0 .. c] /\ r.server = s /\ r.id = Root(p)
      /\ r.last = l
  BY <1>6, <1>7, <1>8
<1>10. ASSUME NEW u \in us, u.server = s, u.id = r.id
       PROVE  r.last >= u.at
  <2>1. Max(U) >= u.at
    BY <1>4, <1>9, <1>10
  <2>2. Max(U) \in 0 .. c /\ u.at \in 0 .. c
    BY <1>4 DEF RowsTyped
  <2> QED BY <1>6, <1>9, <2>1, <2>2
<1>11. ASSUME NEW q \in Snapshot(prs, us, s, listing, c), q.id = r.id
       PROVE  q = r
  <2>1. PICK o \in DOMAIN listing :
           q = [server |-> s, id |-> Root(o),
                last |-> LastAccess(listing[o], LatestUse(us, s, o),
                                    PreviousAccess(prs, s, o), c)]
    BY DEF Snapshot
  <2>2. o = p
    BY <1>9, <1>11, <2>1, Forms
  <2> QED BY <1>1, <2>1, <2>2
<1> QED BY <1>9, <1>10, <1>11

-----------------------------------------------------------------------------
(* The hosts, the jobs and the tables.                                     *)

\* Steps that change neither a host nor a table.
LEMMA TablesStay ==
  ASSUME DatabaseWell, UNCHANGED <<clock, db>>
  PROVE  DatabaseWell'
BY DEF DatabaseWell, db

LEMMA LaterHosts ==
  ASSUME NEW c \in Nat, NEW d \in Nat, c <= d
  PROVE  /\ \A prs, us : RowsTyped(prs, us, c) => RowsTyped(prs, us, d)
         /\ \A o : OutputWell(o, c) => OutputWell(o, d)
<1>1. 0 .. c \subseteq 0 .. d
  OBVIOUS
<1> HIDE DEF RowsTyped
<1>2. ASSUME NEW prs, NEW us, RowsTyped(prs, us, c)
      PROVE  RowsTyped(prs, us, d)
  <2>1. prs \subseteq [server : Servers, id : Ids, last : 0 .. d]
    BY <1>1, <1>2 DEF RowsTyped
  <2> QED BY <1>1, <1>2, <2>1 DEF RowsTyped
<1>3. ASSUME NEW o, OutputWell(o, c)
      PROVE  OutputWell(o, d)
  BY <1>1, <1>3 DEF OutputWell
<1> QED BY <1>2, <1>3

LEMMA HostChangesKeeps ==
  ASSUME HostsWell, DatabaseWell, JobsWell, NEW s \in Servers, NEW p \in Paths,
         HostChanges(s, p)
  PROVE  HostsWell' /\ DatabaseWell' /\ JobsWell'
<1>1. /\ clock' = clock + 1 /\ clock \in Nat
      /\ tree \in [Servers -> [Paths -> Absent .. clock]]
      /\ UNCHANGED <<status, projects, usages, ignores, stage, target, output>>
  BY DEF HostChanges, HostsWell, db
<1>2. PICK e \in {Absent, 0, clock'} : tree' = [tree EXCEPT ![s][p] = e]
  BY DEF HostChanges
<1>3. clock' \in Nat /\ clock <= clock' /\ e \in Absent .. clock'
  BY <1>1 DEF Absent
<1>4. tree' \in [Servers -> [Paths -> Absent .. clock']]
  <2>1. \A q \in Servers : tree[q] \in [Paths -> Absent .. clock']
    BY <1>1, <1>3 DEF Absent
  <2>2. tree' = [tree EXCEPT ![s] = [tree[s] EXCEPT ![p] = e]]
    BY <1>1, <1>2
  <2> QED BY <1>1, <1>3, <2>1, <2>2
<1>5. RowsTyped(projects, usages, clock')
  BY <1>1, <1>3, LaterHosts DEF DatabaseWell
<1>6. \A j \in Jobs : OutputWell(output[j], clock')
  BY <1>1, <1>3, LaterHosts DEF JobsWell
<1>7. HostsWell'
  BY <1>3, <1>4 DEF HostsWell
<1>8. DatabaseWell'
  BY <1>1, <1>3, <1>5 DEF DatabaseWell
<1>9. JobsWell'
  BY <1>1, <1>6 DEF JobsWell
<1> QED BY <1>7, <1>8, <1>9

LEMMA AddServerKeeps ==
  ASSUME DatabaseWell, NEW s \in Servers, AddServer(s)
  PROVE  DatabaseWell'
<1>1. /\ status' = [status EXCEPT ![s] = "here"] /\ clock' = clock
      /\ UNCHANGED <<projects, usages, ignores>>
      /\ status \in [Servers -> {"never", "here", "gone"}]
  BY DEF AddServer, DatabaseWell, hosts
<1>2. \A r : status[r] = "here" /\ r \in Servers => status'[r] = "here"
  BY <1>1
<1>3. RowsKnown(projects, usages, ignores, status')
  BY <1>2 DEF DatabaseWell, RowsKnown, RowsTyped
<1>4. status' \in [Servers -> {"never", "here", "gone"}]
  BY <1>1
<1> QED BY <1>1, <1>3, <1>4 DEF DatabaseWell

\* Fewer rows are still well.
LEMMA FewerRows ==
  ASSUME NEW prs, NEW us, NEW fewer \in SUBSET prs, NEW less \in SUBSET us, NEW c
  PROVE  /\ RowsTyped(prs, us, c) => RowsTyped(fewer, less, c)
         /\ RowsApart(prs, us) => RowsApart(fewer, less)
         /\ UsesCovered(prs, us) => UsesCovered(fewer, less)
<1>1. RowsTyped(prs, us, c) => RowsTyped(fewer, less, c)
  BY DEF RowsTyped
<1>2. RowsApart(prs, us) => RowsApart(fewer, less)
  BY DEF RowsApart
<1>3. UsesCovered(prs, us) => UsesCovered(fewer, less)
  BY DEF UsesCovered
<1> QED BY <1>1, <1>2, <1>3

LEMMA DeleteServerKeeps ==
  ASSUME DatabaseWell, NEW s \in Servers, DeleteServer(s)
  PROVE  DatabaseWell'
<1>1. /\ status' = [status EXCEPT ![s] = "gone"] /\ clock' = clock
      /\ projects' = {r \in projects : r.server /= s}
      /\ usages' = {u \in usages : u.server /= s}
      /\ ignores' = ignores \ {s}
  BY DEF DeleteServer, hosts
<1>2. /\ clock \in Nat /\ ignores \subseteq Servers
      /\ status \in [Servers -> {"never", "here", "gone"}]
      /\ RowsTyped(projects, usages, clock) /\ RowsApart(projects, usages)
      /\ RowsKnown(projects, usages, ignores, status)
      /\ UsesCovered(projects, usages)
  BY DEF DatabaseWell
<1>3. projects' \in SUBSET projects /\ usages' \in SUBSET usages
  BY <1>1
<1>4. /\ RowsTyped(projects', usages', clock) /\ RowsApart(projects', usages')
      /\ UsesCovered(projects', usages')
  BY <1>2, <1>3, FewerRows
<1>5. \A r : r # s /\ r \in Servers => status'[r] = status[r]
  BY <1>1, <1>2
<1>6. RowsKnown(projects', usages', ignores', status')
  BY <1>1, <1>2, <1>5 DEF RowsKnown, RowsTyped
<1>7. status' \in [Servers -> {"never", "here", "gone"}] /\ ignores' \subseteq Servers
  BY <1>1, <1>2
<1> QED BY <1>1, <1>2, <1>4, <1>6, <1>7 DEF DatabaseWell

LEMMA IgnoresKeep ==
  ASSUME DatabaseWell, NEW s \in Servers, AddIgnore(s) \/ DeleteIgnore(s)
  PROVE  DatabaseWell'
<1>1. /\ UNCHANGED <<clock, status, projects, usages>>
      /\ \A r \in ignores' : r \in ignores \/ (r = s /\ status[s] = "here")
  BY DEF AddIgnore, DeleteIgnore, hosts
<1> QED BY <1>1 DEF DatabaseWell, RowsKnown

\* A launch makes its project the most recent one.
LEMMA RecordUsageKeeps ==
  ASSUME DatabaseWell, NEW s \in Servers, NEW p \in Paths, NEW t \in Tools,
         RecordUsage(s, Root(p), t)
  PROVE  DatabaseWell'
<1> DEFINE id == Root(p)
           row == {r \in projects : r.server = s /\ r.id = id}
           mine == {u \in UsagesOf(usages, s, id) : u.tool = t}
           c == clock + 1
           R(r) == [r EXCEPT !.last = c]
           new == [server |-> s, id |-> id, tool |-> t, at |-> c,
                   count |-> 1 + SumSet({u.count : u \in mine})]
<1>1. /\ clock' = c /\ row # {}
      /\ projects' = (projects \ row) \cup {R(r) : r \in row}
      /\ usages' = (usages \ mine) \cup {new}
      /\ UNCHANGED <<status, ignores>>
  BY DEF RecordUsage
<1>2. /\ clock \in Nat /\ status \in [Servers -> {"never", "here", "gone"}]
      /\ RowsTyped(projects, usages, clock) /\ RowsApart(projects, usages)
      /\ RowsKnown(projects, usages, ignores, status)
      /\ UsesCovered(projects, usages)
  BY DEF DatabaseWell
<1>3. c \in Nat /\ clock <= c /\ c \in 0 .. c
  BY <1>2
<1>4. RowsTyped(projects, usages, c)
  BY <1>2, <1>3, LaterHosts
<1>5. /\ new.server = s /\ new.id = id /\ new.tool = t /\ new.at = c
      /\ id \in Ids /\ id.form = "root" /\ id.path = p /\ id # Marker(p)
  BY Forms
<1>6. \A u \in usages : u \in mine <=> u.server = s /\ u.id = id /\ u.tool = t
  BY DEF UsagesOf
<1>7. \A r \in row : /\ R(r) \in [server : Servers, id : Ids, last : 0 .. c]
                     /\ R(r).server = s /\ R(r).id = id /\ R(r).last = c
  BY <1>3, <1>4 DEF RowsTyped
<1>8. \A r, q \in row : r = q
  BY <1>2 DEF RowsApart
<1>9. \A r \in projects : r \in row <=> r.server = s /\ r.id = id
  OBVIOUS
<1> HIDE DEF R, new, mine, row, c, id
<1>10. /\ \A q \in projects' : (q \in projects /\ q \notin row) \/ \E r \in row : q = R(r)
       /\ \A u \in usages' : (u \in usages /\ u \notin mine) \/ u = new
       /\ row \subseteq projects
  <2>1. row \subseteq projects
    BY DEF row
  <2> QED BY <1>1, <2>1
<1>11. RowsTyped(projects', usages', c)
  BY <1>3, <1>4, <1>5, <1>7, <1>10 DEF RowsTyped
<1>12. RowsApart(projects', usages')
  <2>1. ASSUME NEW x \in projects', NEW y \in projects',
               x.server = y.server, x.id = y.id
        PROVE  x = y
    <3>1. CASE x \in projects /\ x \notin row /\ y \in projects /\ y \notin row
      BY <1>2, <2>1, <3>1 DEF RowsApart
    <3>2. CASE \E r, q \in row : x = R(r) /\ y = R(q)
      BY <1>8, <3>2
    <3>3. ASSUME NEW z \in projects, z \notin row, NEW r \in row,
                 z.server = R(r).server, z.id = R(r).id
          PROVE  FALSE
      BY <1>7, <1>9, <3>3
    <3> QED BY <1>10, <2>1, <3>1, <3>2, <3>3
  <2>2. ASSUME NEW u \in usages', NEW v \in usages',
               u.server = v.server, u.id = v.id, u.tool = v.tool
        PROVE  u = v
    BY <1>2, <1>5, <1>6, <1>10, <2>2 DEF RowsApart
  <2> QED BY <2>1, <2>2 DEF RowsApart
<1>13. RowsKnown(projects', usages', ignores, status)
  <2>1. status[s] = "here"
    BY <1>1, <1>2, <1>9, <1>10 DEF RowsKnown
  <2> QED BY <1>2, <1>5, <1>7, <1>10, <2>1 DEF RowsKnown
<1>14. UsesCovered(projects', usages')
  <2>1. ASSUME NEW x \in projects', NEW u \in usages',
               x.id.form = "root", u.server = x.server
        PROVE  /\ u.id = x.id => x.last >= u.at
               /\ u.id # Marker(x.id.path)
    <3>1. CASE x \in projects /\ x \notin row
      <4>1. CASE u \in usages
        BY <1>2, <2>1, <3>1, <4>1 DEF UsesCovered
      <4>2. CASE u = new
        <5>1. u.id # x.id
          BY <1>5, <1>9, <2>1, <3>1, <4>2
        <5>2. u.id # Marker(x.id.path)
          BY <1>5, <4>2, Forms DEF id
        <5> QED BY <5>1, <5>2
      <4> QED BY <1>10, <4>1, <4>2
    <3>2. CASE \E r \in row : x = R(r)
      <4>1. PICK r \in row : x = R(r)
        BY <3>2
      <4>2. x.last = c /\ x.id = id /\ x.server = s
        BY <1>7, <4>1
      <4>3. x.last >= u.at
        <5>1. u.at \in 0 .. c
          BY <1>11 DEF RowsTyped
        <5> QED BY <1>3, <4>2, <5>1
      <4>4. u.id # Marker(x.id.path)
        <5>1. CASE u \in usages
          <6>1. r \in projects /\ r.server = s /\ r.id = id
            BY <1>9, <1>10, <4>1
          <6> QED BY <1>2, <1>5, <2>1, <4>2, <5>1, <6>1 DEF UsesCovered
        <5>2. CASE u = new
          BY <1>5, <4>2, <5>2
        <5> QED BY <1>10, <5>1, <5>2
      <4> QED BY <4>3, <4>4
    <3> QED BY <1>10, <3>1, <3>2
  <2> QED BY <2>1 DEF UsesCovered
<1>15. ignores \subseteq Servers
  BY DEF DatabaseWell
<1> QED BY <1>1, <1>2, <1>3, <1>11, <1>12, <1>13, <1>14, <1>15 DEF DatabaseWell

\* A scan replaces the rows of its server by rows that are not older than
\* what was used under them.
LEMMA StoreKeeps ==
  ASSUME DatabaseWell, JobsWell, NEW j \in Jobs, Store(j)
  PROVE  DatabaseWell'
<1> DEFINE s == target[j]
           listing == Parsed(output[j].records)
           us == Migrated(usages, s, listing)
           snapshot == Snapshot(projects, us, s, listing, clock)
           others == {r \in projects : r.server /= s}
<1>1. /\ status[s] = "here" /\ usages' = us /\ projects' = others \cup snapshot
      /\ UNCHANGED <<clock, status, ignores>>
  BY DEF Store, Replaced, hosts
<1>2. /\ clock \in Nat /\ status \in [Servers -> {"never", "here", "gone"}]
      /\ RowsTyped(projects, usages, clock) /\ RowsApart(projects, usages)
      /\ RowsKnown(projects, usages, ignores, status)
      /\ UsesCovered(projects, usages) /\ ignores \subseteq Servers
  BY DEF DatabaseWell
<1>3. s \in Servers /\ OutputWell(output[j], clock)
  BY DEF JobsWell
<1>4. \A p \in DOMAIN listing : p \in Paths /\ listing[p] \in 0 .. clock
  BY <1>2, <1>3, Parsing
<1> HIDE DEF s, listing
<1>5. /\ RowsApart({}, us) /\ RowsTyped({}, us, clock)
      /\ \A u \in us :
            /\ u \in usages \/ (u.server = s /\ u.id.path \in DOMAIN listing)
            /\ u.server = s /\ u.id.path \in DOMAIN listing =>
                  u.id = Root(u.id.path)
  <2>1. RowsApart({}, usages) /\ RowsTyped({}, usages, clock)
    BY <1>2 DEF RowsApart, RowsTyped
  <2> QED BY <1>2, <1>3, <2>1, Migration
<1> HIDE DEF us
<1>6. RowsTyped(projects, us, clock)
  BY <1>2, <1>5 DEF RowsTyped
<1>7. ASSUME NEW r \in snapshot
      PROVE  /\ r \in [server : Servers, id : Ids, last : 0 .. clock]
             /\ r.server = s
             /\ \E p \in DOMAIN listing : r.id = Root(p)
             /\ \A u \in us : u.server = s /\ u.id = r.id => r.last >= u.at
             /\ \A q \in snapshot : q.id = r.id => q = r
  BY <1>2, <1>3, <1>4, <1>6, Snapshots
<1>8. \A r \in others : r \in projects /\ r.server # s
  OBVIOUS
<1> HIDE DEF snapshot, others
<1>9. RowsTyped(projects', us, clock)
  BY <1>1, <1>6, <1>7, <1>8 DEF RowsTyped
<1>10. RowsApart(projects', us)
  <2>1. ASSUME NEW x \in projects', NEW y \in projects',
               x.server = y.server, x.id = y.id
        PROVE  x = y
    <3>1. CASE x \in others /\ y \in others
      BY <1>2, <1>8, <2>1, <3>1 DEF RowsApart
    <3>2. CASE x \in snapshot /\ y \in snapshot
      BY <1>7, <2>1, <3>2
    <3> QED BY <1>1, <1>7, <1>8, <2>1, <3>1, <3>2
  <2> QED BY <1>5, <2>1 DEF RowsApart
<1>11. RowsKnown(projects', us, ignores, status)
  BY <1>1, <1>2, <1>5, <1>7, <1>8 DEF RowsKnown
<1>12. UsesCovered(projects', us)
  <2>1. ASSUME NEW x \in projects', NEW u \in us,
               x.id.form = "root", u.server = x.server
        PROVE  /\ u.id = x.id => x.last >= u.at
               /\ u.id # Marker(x.id.path)
    <3>1. CASE x \in others
      BY <1>2, <1>5, <1>8, <2>1, <3>1 DEF UsesCovered
    <3>2. CASE x \in snapshot
      <4>1. PICK p \in DOMAIN listing : x.id = Root(p)
        BY <1>7, <3>2
      <4>2. u.server = s
        BY <1>7, <2>1, <3>2
      <4>3. u.id # Marker(p)
        BY <1>5, <4>2, Forms
      <4>4. x.id.path = p
        BY <4>1, Forms
      <4> QED BY <1>7, <3>2, <4>2, <4>3, <4>4
    <3> QED BY <1>1, <3>1, <3>2
  <2> QED BY <2>1 DEF UsesCovered
<1> QED BY <1>1, <1>2, <1>9, <1>10, <1>11, <1>12 DEF DatabaseWell

\* A step of job j: from then on it is at stage st, scans tg and has o.
LEMMA JobMoves ==
  ASSUME JobsWell, NEW j \in Jobs,
         NEW st \in {"idle", "ssh", "store", "dead"}, NEW tg \in Servers,
         NEW o, OutputWell(o, clock),
         stage' = [stage EXCEPT ![j] = st], target' = [target EXCEPT ![j] = tg],
         output' = [output EXCEPT ![j] = o], clock' = clock
  PROVE  JobsWell'
<1>1. /\ stage \in [Jobs -> {"idle", "ssh", "store", "dead"}]
      /\ target \in [Jobs -> Servers] /\ output = [k \in Jobs |-> output[k]]
  BY DEF JobsWell
<1>2. /\ stage' \in [Jobs -> {"idle", "ssh", "store", "dead"}]
      /\ target' \in [Jobs -> Servers] /\ output' = [k \in Jobs |-> output'[k]]
  BY <1>1
<1>3. \A k \in Jobs : output'[k] = o \/ output'[k] = output[k]
  BY <1>1
<1>4. \A k \in Jobs : OutputWell(output'[k], clock)
  BY <1>3 DEF JobsWell
<1> QED BY <1>2, <1>4 DEF JobsWell

LEMMA NoOutputWell == \A c : OutputWell(NoOutput, c)
BY DEF NoOutput, OutputWell

LEMMA ReturnJobs ==
  ASSUME RemoteAssumption, JobsWell, NEW j \in Jobs, NEW ok, Return(j, ok),
         clock' = clock
  PROVE  JobsWell'
<1>1. 1 \in Servers
  BY DEF RemoteAssumption, Servers
<1>2. /\ stage' = [stage EXCEPT ![j] = "idle"]
      /\ target' = [target EXCEPT ![j] = 1]
      /\ output' = [output EXCEPT ![j] = NoOutput]
  BY DEF Return
<1> QED BY <1>1, <1>2, JobMoves, NoOutputWell

LEMMA ReadServerJobs ==
  ASSUME JobsWell, NEW j \in Jobs, NEW s \in Servers, ReadServer(j, s)
  PROVE  JobsWell'
<1>1. /\ stage' = [stage EXCEPT ![j] = "ssh"]
      /\ target' = [target EXCEPT ![j] = s]
      /\ UNCHANGED <<output, clock>>
  BY DEF ReadServer, hosts
<1>2. OutputWell(output[j], clock) /\ output' = [output EXCEPT ![j] = output[j]]
  BY <1>1 DEF JobsWell
<1> QED BY <1>1, <1>2, JobMoves

LEMMA ListRemoteJobs ==
  ASSUME HostsWell, JobsWell, NEW j \in Jobs, ListRemote(j)
  PROVE  JobsWell'
<1> DEFINE s == target[j]
           there == {[path |-> p, activity |-> tree[s][p]] :
                        p \in {q \in Paths : tree[s][q] /= Absent}}
           O(part) == [success |-> part = there, records |-> part,
                       there |-> Visible(s)]
<1>1. PICK part \in SUBSET there : output' = [output EXCEPT ![j] = O(part)]
  BY DEF ListRemote
<1>2. /\ stage' = [stage EXCEPT ![j] = "store"]
      /\ UNCHANGED <<target, clock>>
  BY DEF ListRemote, hosts
<1>3. s \in Servers /\ target' = [target EXCEPT ![j] = s]
  BY <1>2 DEF JobsWell
<1>4. clock \in Nat /\ tree[s] \in [Paths -> Absent .. clock]
  BY <1>3 DEF HostsWell
<1>5. \A r \in there : r.path \in Paths /\ r.activity \in 0 .. clock
  <2>1. \A n \in Absent .. clock : n # Absent => n \in 0 .. clock
    BY <1>4 DEF Absent
  <2>2. \A p \in Paths : tree[s][p] \in Absent .. clock
    BY <1>4
  <2> HIDE DEF s
  <2> QED BY <2>1, <2>2
<1>6. PathsOf(there) \ Hidden = Visible(s)
  <2> DEFINE V == {q \in Paths : tree[s][q] /= Absent}
  <2>1. \A r \in there : r.path \in V
    OBVIOUS
  <2>2. \A q \in V : [path |-> q, activity |-> tree[s][q]] \in there
    OBVIOUS
  <2>3. \A q \in V : \E r \in there : r.path = q
    BY <2>2
  <2>4. \A q : q \in Visible(s) <=> q \in V /\ q \notin Hidden
    BY DEF Visible
  <2> HIDE DEF s, there, V
  <2> QED BY <2>1, <2>3, <2>4 DEF PathsOf
<1> HIDE DEF there
<1>7. /\ O(part).success = (part = there) /\ O(part).records = part
      /\ O(part).there = Visible(s)
  OBVIOUS
<1> HIDE DEF O
<1>8. OutputWell(O(part), clock)
  BY <1>5, <1>6, <1>7 DEF OutputWell
<1> QED BY <1>1, <1>2, <1>3, <1>8, JobMoves

-----------------------------------------------------------------------------
(* The batch.                                                              *)

LEMMA WorkersAreJobs ==
  /\ Workers \subseteq Jobs /\ Single \in Jobs /\ Single \notin Workers
BY DEF Workers, Jobs, Single

\* Steps of other jobs.
LEMMA OthersBatch ==
  ASSUME BatchWell, UNCHANGED batch,
         \A w \in Workers : \/ stage'[w] = stage[w] /\ target'[w] = target[w]
                            \/ stage'[w] # "idle" => target'[w] \in left[w]
  PROVE  BatchWell'
<1>1. UNCHANGED <<share, left, outcomes, landed>>
  BY DEF batch
<1>2. ASSUME NEW w \in Workers
      PROVE  ShareWell(stage'[w], target'[w], share[w], left[w], outcomes[w])
  BY DEF BatchWell, ShareWell
<1> QED BY <1>1, <1>2 DEF BatchWell

\* One more server of its share has an outcome, and is still to scan no more.
LEMMA OutcomeOf ==
  ASSUME BatchWell, NEW w \in Workers, NEW s \in left[w], NEW ok \in BOOLEAN,
         left' = [left EXCEPT ![w] = @ \ {s}],
         outcomes' = [outcomes EXCEPT ![w] = @ \cup {[server |-> s, ok |-> ok]}],
         share' = share,
         landed' = IF ok THEN landed \cup {s} ELSE landed,
         \A v \in Workers \ {w} : stage'[v] = stage[v] /\ target'[v] = target[v],
         stage'[w] = "idle"
  PROVE  BatchWell'
<1> DEFINE x == [server |-> s, ok |-> ok]
<1>1. /\ share \in [Workers -> SUBSET Servers] /\ left \in [Workers -> SUBSET Servers]
      /\ outcomes \in [Workers -> SUBSET [server : Servers, ok : BOOLEAN]]
      /\ SharesApart(share) /\ LandedWell(landed, outcomes)
      /\ \A v \in Workers :
            ShareWell(stage[v], target[v], share[v], left[v], outcomes[v])
  BY DEF BatchWell
<1>2. s \in Servers /\ s \in share[w]
  BY <1>1 DEF ShareWell
<1>3. x \in [server : Servers, ok : BOOLEAN] /\ x.server = s /\ x.ok = ok
  BY <1>2
<1>4. outcomes' = [outcomes EXCEPT ![w] = outcomes[w] \cup {x}]
  OBVIOUS
<1> HIDE DEF x
<1>5. /\ left' \in [Workers -> SUBSET Servers]
      /\ outcomes' \in [Workers -> SUBSET [server : Servers, ok : BOOLEAN]]
  BY <1>1, <1>3, <1>4
<1>6. /\ left'[w] = left[w] \ {s} /\ outcomes'[w] = outcomes[w] \cup {x}
      /\ \A v \in Workers : v # w => left'[v] = left[v] /\ outcomes'[v] = outcomes[v]
  BY <1>1, <1>4
<1>7. ASSUME NEW v \in Workers
      PROVE  ShareWell(stage'[v], target'[v], share[v], left'[v], outcomes'[v])
  <2>1. CASE v # w
    <3>1. stage'[v] = stage[v] /\ target'[v] = target[v]
      BY <2>1
    <3> QED BY <1>1, <1>6, <2>1, <3>1
  <2>2. CASE v = w
    <3>1. ShareWell(stage[w], target[w], share[w], left[w], outcomes[w])
      BY <1>1
    <3>2. ShareWell("idle", target'[w], share[w], left[w] \ {s}, outcomes[w] \cup {x})
      BY <1>2, <1>3, <3>1 DEF ShareWell
    <3> QED BY <1>6, <2>2, <3>2
  <2> QED BY <2>1, <2>2
<1>8. ASSUME NEW v \in Workers, NEW o \in outcomes'[v], o.ok
      PROVE  o.server \in landed'
  <2>1. CASE o \in outcomes[v]
    BY <1>1, <1>8, <2>1 DEF LandedWell
  <2>2. CASE v = w /\ o = x
    BY <1>3, <1>8, <2>2
  <2> QED BY <1>6, <1>8, <2>1, <2>2
<1>9. ASSUME NEW r \in landed'
      PROVE  \E v \in Workers : \E o \in outcomes'[v] : o.server = r /\ o.ok
  <2>1. CASE r \in landed
    BY <1>1, <1>6, <2>1 DEF LandedWell
  <2>2. CASE ok /\ r = s
    BY <1>3, <1>6, <2>2
  <2> QED BY <2>1, <2>2
<1>10. LandedWell(landed', outcomes')
  BY <1>8, <1>9 DEF LandedWell
<1> QED BY <1>1, <1>5, <1>7, <1>10 DEF BatchWell

LEMMA ReturnBatch ==
  ASSUME JobsWell, BatchWell, NEW j \in Jobs, NEW ok \in BOOLEAN,
         stage[j] # "idle", Return(j, ok)
  PROVE  BatchWell'
<1>1. /\ stage' = [stage EXCEPT ![j] = "idle"]
      /\ target' = [target EXCEPT ![j] = 1]
      /\ stage \in [Jobs -> {"idle", "ssh", "store", "dead"}]
      /\ target \in [Jobs -> Servers]
  BY DEF Return, JobsWell
<1>2. \A w \in Workers \ {j} : stage'[w] = stage[w] /\ target'[w] = target[w]
  BY <1>1, WorkersAreJobs
<1>3. CASE j = Single
  <2>1. UNCHANGED batch
    BY <1>3 DEF Return
  <2> QED BY <1>2, <1>3, <2>1, OthersBatch, WorkersAreJobs
<1>4. CASE j # Single
  <2>1. j \in Workers
    BY <1>4 DEF Jobs
  <2>2. target[j] \in left[j]
    BY <2>1 DEF BatchWell, ShareWell
  <2>3. /\ outcomes' = [outcomes EXCEPT ![j] = @ \cup {[server |-> target[j], ok |-> ok]}]
        /\ left' = [left EXCEPT ![j] = @ \ {target[j]}]
        /\ landed' = IF ok THEN landed \cup {target[j]} ELSE landed
        /\ share' = share
    BY <1>4 DEF Return
  <2>4. stage'[j] = "idle"
    BY <1>1
  <2> QED BY <1>2, <2>1, <2>2, <2>3, <2>4, OutcomeOf
<1> QED BY <1>3, <1>4

LEMMA TakeNextBatch ==
  ASSUME JobsWell, BatchWell, NEW w \in Workers, TakeNext(w)
  PROVE  BatchWell' /\ Min(left[w]) \in Servers
<1>1. left[w] \in SUBSET Nat /\ left[w] # {} /\ left[w] \subseteq Servers
  BY DEF TakeNext, BatchWell, Servers
<1>2. Min(left[w]) \in left[w]
  BY <1>1, MinIsSmallest
<1>3. /\ stage' = [stage EXCEPT ![w] = "ssh"]
      /\ target' = [target EXCEPT ![w] = Min(left[w])]
      /\ UNCHANGED batch
  BY DEF TakeNext, ReadServer
<1>4. \A v \in Workers : \/ stage'[v] = stage[v] /\ target'[v] = target[v]
                         \/ stage'[v] # "idle" => target'[v] \in left[v]
  BY <1>2, <1>3, WorkersAreJobs DEF JobsWell
<1> QED BY <1>1, <1>2, <1>3, <1>4, OthersBatch

LEMMA ServerNotFoundBatch ==
  ASSUME BatchWell, NEW w \in Workers, ServerNotFound(w)
  PROVE  BatchWell'
<1> DEFINE s == Min(left[w])
<1>1. left[w] \in SUBSET Nat /\ left[w] # {}
  BY DEF ServerNotFound, BatchWell, Servers
<1>2. s \in left[w]
  BY <1>1, MinIsSmallest
<1>3. /\ stage[w] = "idle" /\ left' = [left EXCEPT ![w] = @ \ {s}]
      /\ outcomes' = [outcomes EXCEPT ![w] = @ \cup {[server |-> s, ok |-> FALSE]}]
      /\ UNCHANGED <<stage, target, share, landed>>
  BY DEF ServerNotFound
<1> HIDE DEF s
<1> QED BY <1>2, <1>3, OutcomeOf

LEMMA PanicBatch ==
  ASSUME JobsWell, BatchWell, NEW w \in Workers, Panic(w)
  PROVE  BatchWell'
<1>1. /\ stage[w] = "ssh" /\ stage' = [stage EXCEPT ![w] = "dead"]
      /\ UNCHANGED <<target, batch>>
  BY DEF Panic
<1>2. target[w] \in left[w]
  BY <1>1 DEF BatchWell, ShareWell
<1>3. \A v \in Workers : \/ stage'[v] = stage[v] /\ target'[v] = target[v]
                         \/ stage'[v] # "idle" => target'[v] \in left[v]
  BY <1>1, <1>2, WorkersAreJobs DEF JobsWell
<1> QED BY <1>1, <1>3, OthersBatch

\* A worker without a share has nothing to scan and no outcomes, and is idle.
LEMMA Shareless ==
  ASSUME BatchWell, NEW w \in Workers, share[w] = {}
  PROVE  left[w] = {} /\ outcomes[w] = {} /\ stage[w] = "idle"
BY DEF BatchWell, ShareWell

LEMMA StartBatchBatch ==
  ASSUME BatchWell, StartBatch
  PROVE  BatchWell'
<1> DEFINE count == Min({MaxWorkers, Cardinality(Registered)})
<1>1. /\ \A w \in Workers : share[w] = {}
      /\ share' = [w \in Workers |-> {s \in Registered : Index(s) % count = w - 1}]
      /\ left' = share' /\ UNCHANGED <<stage, target, outcomes, landed>>
  BY DEF StartBatch
<1> HIDE DEF count
<1>2. \A w \in Workers : left[w] = {} /\ outcomes[w] = {} /\ stage[w] = "idle"
  BY <1>1, Shareless
<1>3. share' \in [Workers -> SUBSET Servers]
  BY <1>1 DEF Registered
<1>4. SharesApart(share')
  <2>1. ASSUME NEW w \in Workers, NEW v \in Workers, NEW s \in share'[w],
               s \in share'[v]
        PROVE  w = v
    <3>1. w - 1 = v - 1
      BY <1>1, <2>1
    <3> QED BY <3>1 DEF Workers
  <2> QED BY <2>1 DEF SharesApart
<1>5. LandedWell(landed, outcomes)
  BY DEF BatchWell
<1>6. ASSUME NEW w \in Workers
      PROVE  ShareWell(stage[w], target[w], share'[w], left'[w], outcomes[w])
  BY <1>1, <1>2 DEF ShareWell
<1> QED BY <1>1, <1>3, <1>4, <1>5, <1>6 DEF BatchWell

LEMMA EndBatchBatch ==
  ASSUME BatchWell, EndBatch
  PROVE  BatchWell'
<1>1. /\ stage' = [j \in Jobs |-> IF j = Single THEN stage[j] ELSE "idle"]
      /\ share' = [w \in Workers |-> {}] /\ left' = [w \in Workers |-> {}]
      /\ outcomes' = [w \in Workers |-> {}] /\ landed' = {}
  BY DEF EndBatch
<1>2. ASSUME NEW w \in Workers
      PROVE  ShareWell(stage'[w], target'[w], share'[w], left'[w], outcomes'[w])
  BY <1>1, WorkersAreJobs DEF ShareWell
<1>3. SharesApart(share') /\ LandedWell(landed', outcomes')
  BY <1>1 DEF SharesApart, LandedWell
<1> QED BY <1>1, <1>2, <1>3 DEF BatchWell

-----------------------------------------------------------------------------
(* The invariant holds.                                                    *)

LEMMA InitWell ==
  ASSUME RemoteAssumption, EarlierAssumption, Init
  PROVE  IInv
<1>1. PICK e \in Earlier :
         /\ tree = e.tree
         /\ projects = {[server |-> 1, id |-> i, last |-> clock] : i \in e.listed}
         /\ usages = {[server |-> 1, id |-> i, tool |-> t, count |-> 1,
                       at |-> IF i \in e.listed THEN clock ELSE 1] :
                         i \in e.used, t \in Tools}
  BY DEF Init
<1>2. /\ clock = 2 /\ status = [s \in Servers |-> IF s = 1 THEN "here" ELSE "never"]
      /\ ignores = {} /\ stage = [j \in Jobs |-> "idle"]
      /\ target = [j \in Jobs |-> 1] /\ output = [j \in Jobs |-> NoOutput]
      /\ share = [w \in Workers |-> {}] /\ left = [w \in Workers |-> {}]
      /\ outcomes = [w \in Workers |-> {}] /\ landed = {}
  BY DEF Init
<1>3. /\ e.tree \in [Servers -> [Paths -> Absent .. 2]]
      /\ e.listed \subseteq Ids /\ e.used \subseteq Ids
      /\ \A p \in Paths : Root(p) \in e.listed => Marker(p) \notin e.used
  BY EarlierAssumption
<1>4. 1 \in Servers /\ status[1] = "here"
  BY <1>2, RemoteAssumption DEF RemoteAssumption, Servers
<1>5. HostsWell
  BY <1>1, <1>2, <1>3 DEF HostsWell
<1>6. DatabaseWell
  <2>1. \A r \in projects : r.server = 1 /\ r.id \in e.listed /\ r.last = 2
    BY <1>1, <1>2
  <2>2. \A u \in usages : /\ u.server = 1 /\ u.id \in e.used /\ u.at \in 0 .. 2
                          /\ u.at <= 2
    BY <1>1, <1>2
  <2>3. RowsTyped(projects, usages, 2)
    BY <1>1, <1>2, <1>3, <1>4, <2>2 DEF RowsTyped
  <2>4. RowsApart(projects, usages)
    BY <1>1 DEF RowsApart
  <2>5. RowsKnown(projects, usages, ignores, status)
    BY <1>2, <1>4, <2>1, <2>2 DEF RowsKnown
  <2>6. UsesCovered(projects, usages)
    <3>1. ASSUME NEW r \in projects, NEW u \in usages, r.id.form = "root"
          PROVE  r.last >= u.at /\ u.id # Marker(r.id.path)
      <4>1. r.id \in Ids /\ r.id.path \in Paths /\ r.id = Root(r.id.path)
        BY <1>3, <2>1, <3>1, TwoForms
      <4> QED BY <1>3, <2>1, <2>2, <4>1
    <3> QED BY <3>1 DEF UsesCovered
  <2> QED BY <1>2, <2>3, <2>4, <2>5, <2>6 DEF DatabaseWell
<1>7. JobsWell
  BY <1>2, <1>4, NoOutputWell DEF JobsWell
<1>8. BatchWell
  <2>1. SharesApart(share) /\ LandedWell(landed, outcomes)
    BY <1>2 DEF SharesApart, LandedWell
  <2>2. \A w \in Workers :
           ShareWell(stage[w], target[w], share[w], left[w], outcomes[w])
    BY <1>2, WorkersAreJobs DEF ShareWell
  <2> QED BY <1>2, <2>1, <2>2 DEF BatchWell
<1> QED BY <1>5, <1>6, <1>7, <1>8 DEF IInv

LEMMA JobStepKeeps ==
  ASSUME RemoteAssumption, IInv, NEW j \in Jobs, JobStep(j)
  PROVE  IInv'
<1>1. HostsWell /\ DatabaseWell /\ JobsWell /\ BatchWell
  BY DEF IInv
<1>2. CASE ListRemote(j)
  <2>1. UNCHANGED <<clock, tree>> /\ UNCHANGED <<clock, db>>
        /\ UNCHANGED <<target, batch>> /\ stage[j] = "ssh"
        /\ stage' = [stage EXCEPT ![j] = "store"]
    BY <1>2 DEF ListRemote, hosts
  <2>2. JobsWell'
    BY <1>1, <1>2, ListRemoteJobs
  <2>3. \A w \in Workers : \/ stage'[w] = stage[w] /\ target'[w] = target[w]
                           \/ stage'[w] # "idle" => target'[w] \in left[w]
    BY <1>1, <2>1, WorkersAreJobs DEF JobsWell, BatchWell, ShareWell
  <2>4. BatchWell'
    BY <1>1, <2>1, <2>3, OthersBatch
  <2>5. HostsWell' /\ DatabaseWell'
    BY <1>1, <2>1, TablesStay DEF HostsWell
  <2> QED BY <2>2, <2>4, <2>5 DEF IInv
<1>3. ASSUME NEW ok \in BOOLEAN, Return(j, ok), stage[j] # "idle", UNCHANGED hosts,
             DatabaseWell'
      PROVE  IInv'
  <2>1. JobsWell'
    BY <1>1, <1>3, RemoteAssumption, ReturnJobs DEF hosts
  <2>2. BatchWell'
    BY <1>1, <1>3, ReturnBatch
  <2>3. HostsWell'
    BY <1>1, <1>3 DEF HostsWell, hosts
  <2> QED BY <1>3, <2>1, <2>2, <2>3 DEF IInv
<1>4. CASE SshFails(j) \/ StoreFails(j)
  <2>1. /\ Return(j, FALSE) /\ stage[j] # "idle" /\ UNCHANGED hosts
        /\ UNCHANGED <<clock, db>>
    BY <1>4 DEF SshFails, StoreFails, hosts
  <2>2. DatabaseWell'
    BY <1>1, <2>1, TablesStay
  <2> QED BY <1>3, <2>1, <2>2
<1>5. CASE Store(j)
  <2>1. Return(j, TRUE) /\ stage[j] # "idle" /\ UNCHANGED hosts
    BY <1>5 DEF Store
  <2>2. DatabaseWell'
    BY <1>1, <1>5, StoreKeeps
  <2> QED BY <1>3, <2>1, <2>2
<1> QED BY <1>2, <1>4, <1>5 DEF JobStep

\* The commands of the window leave jobs and batches alone.
LEMMA WindowKeeps ==
  ASSUME IInv, DatabaseWell', UNCHANGED <<tree, stage, target, output, batch>>,
         clock' \in Nat, clock <= clock'
  PROVE  IInv'
<1>1. clock \in Nat /\ HostsWell /\ JobsWell /\ BatchWell
  BY DEF IInv, HostsWell
<1>2. HostsWell'
  <2>1. Absent .. clock \subseteq Absent .. clock'
    BY <1>1 DEF Absent
  <2>2. \A s \in Servers : tree[s] \in [Paths -> Absent .. clock']
    BY <1>1, <2>1 DEF HostsWell
  <2> QED BY <1>1, <2>2 DEF HostsWell
<1>3. \A j \in Jobs : OutputWell(output[j], clock')
  BY <1>1, LaterHosts DEF JobsWell
<1>4. JobsWell'
  BY <1>1, <1>3 DEF JobsWell
<1>5. BatchWell'
  BY <1>1, OthersBatch
<1> QED BY <1>2, <1>4, <1>5 DEF IInv

LEMMA ServerStepKeeps ==
  ASSUME RemoteAssumption, IInv, NEW s \in Servers,
         \/ \E p \in Paths : HostChanges(s, p)
         \/ AddIgnore(s) \/ DeleteIgnore(s) \/ AddServer(s) \/ DeleteServer(s)
         \/ ReadServer(Single, s)
         \/ \E p \in Paths, t \in Tools : RecordUsage(s, Root(p), t)
  PROVE  IInv'
<1>1. HostsWell /\ DatabaseWell /\ JobsWell /\ BatchWell /\ clock \in Nat
  BY DEF IInv, HostsWell
<1>2. CASE \E p \in Paths : HostChanges(s, p)
  <2>1. PICK p \in Paths : HostChanges(s, p)
    BY <1>2
  <2>2. HostsWell' /\ DatabaseWell' /\ JobsWell'
    BY <1>1, <2>1, HostChangesKeeps
  <2>3. UNCHANGED <<stage, target, batch>>
    BY <2>1 DEF HostChanges
  <2>4. BatchWell'
    BY <1>1, <2>3, OthersBatch
  <2> QED BY <2>2, <2>4 DEF IInv
<1>3. CASE AddIgnore(s) \/ DeleteIgnore(s) \/ AddServer(s) \/ DeleteServer(s)
  <2>1. UNCHANGED <<tree, stage, target, output, batch>> /\ clock' = clock
    BY <1>3 DEF AddIgnore, DeleteIgnore, AddServer, DeleteServer, hosts
  <2>2. DatabaseWell'
    BY <1>1, <1>3, IgnoresKeep, AddServerKeeps, DeleteServerKeeps
  <2>3. clock' \in Nat /\ clock <= clock'
    BY <1>1, <2>1
  <2> QED BY <2>1, <2>2, <2>3, WindowKeeps
<1>4. CASE \E p \in Paths, t \in Tools : RecordUsage(s, Root(p), t)
  <2>1. PICK p \in Paths, t \in Tools : RecordUsage(s, Root(p), t)
    BY <1>4
  <2>2. UNCHANGED <<tree, stage, target, output, batch>> /\ clock' = clock + 1
    BY <2>1 DEF RecordUsage
  <2>3. DatabaseWell'
    BY <1>1, <2>1, RecordUsageKeeps
  <2>4. clock' \in Nat /\ clock <= clock'
    BY <1>1, <2>2
  <2> QED BY <2>2, <2>3, <2>4, WindowKeeps
<1>5. CASE ReadServer(Single, s)
  <2>1. /\ UNCHANGED <<clock, tree>> /\ UNCHANGED <<clock, db>> /\ UNCHANGED batch
        /\ stage' = [stage EXCEPT ![Single] = "ssh"]
        /\ target' = [target EXCEPT ![Single] = s]
    BY <1>5 DEF ReadServer, hosts
  <2>2. JobsWell'
    BY <1>1, <1>5, WorkersAreJobs, ReadServerJobs
  <2>3. \A w \in Workers : stage'[w] = stage[w] /\ target'[w] = target[w]
    BY <1>1, <2>1, WorkersAreJobs DEF JobsWell
  <2>4. BatchWell'
    BY <1>1, <2>1, <2>3, OthersBatch
  <2>5. HostsWell' /\ DatabaseWell'
    BY <1>1, <2>1, TablesStay DEF HostsWell
  <2> QED BY <2>2, <2>4, <2>5 DEF IInv
<1> QED BY <1>2, <1>3, <1>4, <1>5

\* The steps of a batch that are none of a scan's own.
LEMMA BatchStepKeeps ==
  ASSUME RemoteAssumption, IInv,
         \/ \E w \in Workers : TakeNext(w) \/ ServerNotFound(w) \/ Panic(w)
         \/ StartBatch \/ EndBatch
  PROVE  IInv'
<1>1. HostsWell /\ DatabaseWell /\ JobsWell /\ BatchWell
  BY DEF IInv
<1>2. UNCHANGED <<clock, tree>> /\ UNCHANGED <<clock, db>> /\ UNCHANGED output
  BY DEF TakeNext, ReadServer, ServerNotFound, Panic, StartBatch, EndBatch,
     hosts
<1>3. HostsWell' /\ DatabaseWell'
  BY <1>1, <1>2, TablesStay DEF HostsWell
<1>4. CASE \E w \in Workers : TakeNext(w) \/ ServerNotFound(w) \/ Panic(w)
  <2>1. PICK w \in Workers : TakeNext(w) \/ ServerNotFound(w) \/ Panic(w)
    BY <1>4
  <2>2. CASE TakeNext(w)
    <3>1. BatchWell' /\ Min(left[w]) \in Servers
      BY <1>1, <2>2, TakeNextBatch
    <3>2. ReadServer(w, Min(left[w])) /\ w \in Jobs
      BY <2>2, WorkersAreJobs DEF TakeNext
    <3>3. JobsWell'
      BY <1>1, <3>1, <3>2, ReadServerJobs
    <3> QED BY <1>3, <3>1, <3>3 DEF IInv
  <2>3. CASE ServerNotFound(w)
    <3>1. UNCHANGED <<stage, target>>
      BY <2>3 DEF ServerNotFound
    <3>2. JobsWell'
      BY <1>1, <1>2, <3>1 DEF JobsWell
    <3>3. BatchWell'
      BY <1>1, <2>3, ServerNotFoundBatch
    <3> QED BY <1>3, <3>2, <3>3 DEF IInv
  <2>4. CASE Panic(w)
    <3>1. stage' = [stage EXCEPT ![w] = "dead"] /\ UNCHANGED target
      BY <2>4 DEF Panic
    <3>2. JobsWell'
      BY <1>1, <1>2, <3>1 DEF JobsWell
    <3>3. BatchWell'
      BY <1>1, <2>4, PanicBatch
    <3> QED BY <1>3, <3>2, <3>3 DEF IInv
  <2> QED BY <2>1, <2>2, <2>3, <2>4
<1>5. CASE StartBatch
  <2>1. UNCHANGED <<stage, target>>
    BY <1>5 DEF StartBatch
  <2>2. JobsWell'
    BY <1>1, <1>2, <2>1 DEF JobsWell
  <2>3. BatchWell'
    BY <1>1, <1>5, StartBatchBatch
  <2> QED BY <1>3, <2>2, <2>3 DEF IInv
<1>6. CASE EndBatch
  <2>1. /\ stage' = [j \in Jobs |-> IF j = Single THEN stage[j] ELSE "idle"]
        /\ target' = [j \in Jobs |-> IF j = Single THEN target[j] ELSE 1]
    BY <1>6 DEF EndBatch
  <2>2. 1 \in Servers
    BY RemoteAssumption DEF RemoteAssumption, Servers
  <2>3. JobsWell'
    BY <1>1, <1>2, <2>1, <2>2 DEF JobsWell
  <2>4. BatchWell'
    BY <1>1, <1>6, EndBatchBatch
  <2> QED BY <1>3, <2>3, <2>4 DEF IInv
<1> QED BY <1>4, <1>5, <1>6

LEMMA StepKeeps ==
  ASSUME RemoteAssumption, IInv, [Next]_vars
  PROVE  IInv'
<1>1. CASE UNCHANGED vars
  <2>1. /\ UNCHANGED <<tree, stage, target, output, batch>> /\ clock' = clock
        /\ UNCHANGED <<clock, db>>
    BY <1>1 DEF vars, hosts
  <2>2. clock' \in Nat /\ clock <= clock' /\ DatabaseWell'
    BY <2>1, TablesStay DEF IInv, HostsWell
  <2> QED BY <2>1, <2>2, WindowKeeps
<1>2. ASSUME NEW w \in Workers, WorkerStep(w) \/ Panic(w)
      PROVE  IInv'
  <2>1. CASE JobStep(w)
    BY <2>1, RemoteAssumption, WorkersAreJobs, JobStepKeeps
  <2>2. CASE TakeNext(w) \/ ServerNotFound(w) \/ Panic(w)
    BY <2>2, RemoteAssumption, BatchStepKeeps
  <2> QED BY <1>2, <2>1, <2>2 DEF WorkerStep
<1>3. CASE JobStep(Single)
  BY <1>3, RemoteAssumption, WorkersAreJobs, JobStepKeeps
<1>4. CASE StartBatch \/ EndBatch
  BY <1>4, RemoteAssumption, BatchStepKeeps
<1> QED BY <1>1, <1>2, <1>3, <1>4, RemoteAssumption, ServerStepKeeps DEF Next

\* The inductive invariant holds of every state of the servers, their tables and
\* the scans that run.
THEOREM Invariant == Spec => []IInv
<1>1. Init => IInv
  BY RemoteAssumption, EarlierAssumption, InitWell
<1>2. IInv /\ [Next]_vars => IInv'
  BY RemoteAssumption, StepKeeps
<1> QED BY <1>1, <1>2, PTL DEF Spec

-----------------------------------------------------------------------------
(* What it says of the program.                                            *)

\* Nothing is left of a deleted server, a project and a tool have one row
\* each, and a project that is listed is never older than the launches shown
\* with it, none of which is left under the old id.
THEOREM TablesStayConsistent == Spec => []RemoteTablesConsistent
<1>1. ASSUME IInv
      PROVE  RemoteTablesConsistent
  <2>1. /\ RowsTyped(projects, usages, clock) /\ RowsApart(projects, usages)
        /\ RowsKnown(projects, usages, ignores, status)
        /\ UsesCovered(projects, usages)
    BY <1>1 DEF IInv, DatabaseWell
  <2>2. RowsHaveServers /\ OneRowPerProject
    BY <2>1 DEF RowsHaveServers, OneRowPerProject, RowsKnown, RowsApart
  <2>3. ASSUME NEW row \in ListRemoteProjects
        PROVE  /\ \A u \in row.usages : row.last >= u.at
               /\ UsagesOf(usages, row.server, Marker(row.id.path)) = {}
    <3> DEFINE rows == {r \in projects : ~Excluded(r.server, r.id)}
               K(r) == [server |-> r.server, id |-> r.id]
               used == UsagesById({K(r) : r \in rows})
    <3>1. PICK r \in rows :
             row = [server |-> r.server, id |-> r.id, last |-> r.last,
                    usages |-> used[K(r)]]
      BY DEF ListRemoteProjects
    <3>2. used[K(r)] = UsagesOf(usages, r.server, r.id)
      BY DEF UsagesById
    <3>3. /\ row.server = r.server /\ row.id = r.id /\ row.last = r.last
          /\ row.usages = UsagesOf(usages, r.server, r.id)
      BY <3>1, <3>2
    <3>4. r \in projects /\ r.id \in Ids /\ r.id.form = "root"
      BY <2>1 DEF RowsTyped, Excluded, Ids
    <3> QED BY <2>1, <3>3, <3>4 DEF UsesCovered, UsagesOf
  <2> QED BY <2>2, <2>3 DEF RemoteTablesConsistent, RecencyCoversUse
<1> QED BY <1>1, Invariant, PTL

-----------------------------------------------------------------------------
(* What a listing shows.                                                   *)

\* The paths of the rows of server s.
ListedIn(prs, s) == {r.id.path : r \in {x \in prs : x.server = s}}

LEMMA Listing ==
  \A s : ListedOf(s) = ListedIn(projects, s) /\ ListedOf(s)' = ListedIn(projects', s)
BY DEF ListedOf, ListedIn

\* A scan lists what was there when its find ran, and leaves other servers.
LEMMA StoreLists ==
  ASSUME IInv, NEW j \in Jobs, Store(j), NEW s
  PROVE  \/ ListedIn(projects', s) = ListedIn(projects, s)
         \/ s = target[j] /\ ListedIn(projects', s) = output[j].there
<1> DEFINE t == target[j]
           listing == Parsed(output[j].records)
           us == Migrated(usages, t, listing)
           snapshot == Snapshot(projects, us, t, listing, clock)
<1>1. /\ output[j].success
      /\ projects' = {r \in projects : r.server /= t} \cup snapshot
  BY DEF Store, Replaced
<1>2. OutputWell(output[j], clock) /\ clock \in Nat
  BY DEF IInv, JobsWell, HostsWell
<1>3. DOMAIN listing = output[j].there
  BY <1>1, <1>2, Parsing DEF OutputWell
<1>4. \A r \in snapshot : \E p \in DOMAIN listing : r.server = t /\ r.id = Root(p)
  BY DEF Snapshot
<1>5. ASSUME NEW p \in DOMAIN listing
      PROVE  \E r \in snapshot : r.server = t /\ r.id = Root(p)
  <2> DEFINE x == [server |-> t, id |-> Root(p),
                   last |-> LastAccess(listing[p], LatestUse(us, t, p),
                                       PreviousAccess(projects, t, p), clock)]
  <2> HIDE DEF t, listing, us
  <2>1. x \in snapshot
    BY DEF Snapshot
  <2> QED BY <2>1
<1> HIDE DEF t, listing, us, snapshot
<1>6. CASE s # t
  <2>1. \A r : r \in projects' /\ r.server = s <=> r \in projects /\ r.server = s
    BY <1>1, <1>4, <1>6
  <2>2. {x \in projects' : x.server = s} = {x \in projects : x.server = s}
    BY <2>1
  <2> QED BY <2>2 DEF ListedIn
<1>7. CASE s = t
  <2>1. {x \in projects' : x.server = s} = snapshot
    BY <1>1, <1>4, <1>7
  <2>2. ListedIn(projects', s) = {r.id.path : r \in snapshot}
    BY <2>1 DEF ListedIn
  <2>3. \A r \in snapshot : r.id.path \in DOMAIN listing
    BY <1>4, Forms
  <2>4. \A p \in DOMAIN listing : \E r \in snapshot : r.id.path = p
    BY <1>5, Forms
  <2>5. {r.id.path : r \in snapshot} = DOMAIN listing
    BY <2>3, <2>4
  <2> QED BY <1>3, <1>7, <2>2, <2>5 DEF t
<1> QED BY <1>6, <1>7

\* A launch makes a row later and lists what was listed.
LEMMA RecordUsageLists ==
  ASSUME IInv, NEW s, NEW id, NEW t, RecordUsage(s, id, t), NEW q
  PROVE  ListedIn(projects', q) = ListedIn(projects, q)
<1> DEFINE row == {r \in projects : r.server = s /\ r.id = id}
           L(r) == [r EXCEPT !.last = clock']
<1>1. projects' = (projects \ row) \cup {L(r) : r \in row}
  BY DEF RecordUsage
<1>2. \A r \in projects : L(r).server = r.server /\ L(r).id = r.id
  BY DEF IInv, DatabaseWell, RowsTyped
<1>3. row \subseteq projects
  OBVIOUS
<1> HIDE DEF row, L
<1>4. \A x \in projects' : \E r \in projects : x.server = r.server /\ x.id = r.id
  BY <1>1, <1>2, <1>3
<1>5. \A r \in projects : \E x \in projects' : x.server = r.server /\ x.id = r.id
  BY <1>1, <1>2, <1>3
<1>6. \A p \in ListedIn(projects', q) : p \in ListedIn(projects, q)
  BY <1>4 DEF ListedIn
<1>7. \A p \in ListedIn(projects, q) : p \in ListedIn(projects', q)
  BY <1>5 DEF ListedIn
<1> QED BY <1>6, <1>7

\* What a server shows changes with its deletion, and else only by a scan whose
\* find succeeded, to all that was there when the find ran.
THEOREM ListingsAreWhole == Spec => OnlyWholeListings
<1> DEFINE Whole(s) == \/ status'[s] = "gone"
                       \/ \E j \in Jobs : /\ target[j] = s
                                          /\ stage[j] = "store"
                                          /\ ListedIn(projects', s) = output[j].there
<1>1. ASSUME IInv, [Next]_vars, NEW s \in Servers,
             ListedIn(projects', s) # ListedIn(projects, s)
      PROVE  Whole(s)
  <2>1. ASSUME NEW j \in Jobs, JobStep(j)
        PROVE  Whole(s)
    <3>1. CASE Store(j)
      <4>1. stage[j] = "store"
        BY <3>1 DEF Store
      <4> QED BY <1>1, <3>1, <4>1, StoreLists
    <3>2. CASE ListRemote(j) \/ SshFails(j) \/ StoreFails(j)
      BY <1>1, <3>2 DEF ListRemote, SshFails, StoreFails, db
    <3> QED BY <2>1, <3>1, <3>2 DEF JobStep
  <2>2. ASSUME NEW w \in Workers, WorkerStep(w) \/ Panic(w)
        PROVE  Whole(s)
    <3>1. CASE JobStep(w)
      BY <2>1, <3>1, WorkersAreJobs
    <3>2. CASE TakeNext(w) \/ ServerNotFound(w) \/ Panic(w)
      BY <1>1, <3>2 DEF TakeNext, ReadServer, ServerNotFound, Panic, db
    <3> QED BY <2>2, <3>1, <3>2 DEF WorkerStep
  <2>3. ASSUME NEW q \in Servers, DeleteServer(q)
        PROVE  Whole(s)
    <3>1. /\ status' = [status EXCEPT ![q] = "gone"]
          /\ projects' = {r \in projects : r.server /= q}
      BY <2>3 DEF DeleteServer
    <3>2. CASE q = s
      BY <1>1, <3>1, <3>2 DEF IInv, DatabaseWell
    <3>3. CASE q # s
      <4>1. {x \in projects' : x.server = s} = {x \in projects : x.server = s}
        BY <3>1, <3>3
      <4> QED BY <1>1, <4>1 DEF ListedIn
    <3> QED BY <3>2, <3>3
  <2>4. ASSUME NEW q \in Servers, NEW p \in Paths, NEW t \in Tools,
               RecordUsage(q, Root(p), t)
        PROVE  Whole(s)
    BY <1>1, <2>4, RecordUsageLists
  <2>5. ASSUME NEW q \in Servers,
               \/ \E p \in Paths : HostChanges(q, p)
               \/ AddIgnore(q) \/ DeleteIgnore(q) \/ AddServer(q)
               \/ ReadServer(Single, q)
        PROVE  Whole(s)
    BY <1>1, <2>5
    DEF HostChanges, AddIgnore, DeleteIgnore, AddServer, ReadServer, db
  <2>6. CASE StartBatch \/ EndBatch \/ UNCHANGED vars
    BY <1>1, <2>6 DEF StartBatch, EndBatch, vars, db
  <2> HIDE DEF Whole
  <2> QED
    BY <1>1, <2>1, <2>2, <2>3, <2>4, <2>5, <2>6, WorkersAreJobs DEF Next
<1>2. IInv /\ [Next]_vars =>
        [\A s \in Servers : ListedOf(s)' /= ListedOf(s) =>
            \/ status'[s] = "gone"
            \/ \E j \in Jobs : /\ target[j] = s
                               /\ stage[j] = "store"
                               /\ ListedOf(s)' = output[j].there]_vars
  BY <1>1, Listing
<1> QED BY <1>2, Invariant, PTL DEF Spec, OnlyWholeListings

-----------------------------------------------------------------------------
(* What a batch reports.                                                   *)

\* What the join of a worker gives, when a batch may end: the servers of its
\* share, each once.
LEMMA JoinedWell ==
  ASSUME BatchWell, NEW w \in Workers,
         stage[w] = "dead" \/ (stage[w] = "idle" /\ left[w] = {})
  PROVE  /\ \A o \in Joined(w) : o.server \in share[w]
         /\ \A s \in share[w] : \E o \in Joined(w) : o.server = s
         /\ \A o, q \in Joined(w) : o.server = q.server => o = q
         /\ \A o \in Joined(w) : o.ok => o \in outcomes[w]
         /\ stage[w] # "dead" => Joined(w) = outcomes[w]
<1>1. ShareWell(stage[w], target[w], share[w], left[w], outcomes[w])
  BY DEF BatchWell
<1>2. CASE stage[w] = "dead"
  <2>1. Joined(w) = {[server |-> s, ok |-> FALSE] : s \in share[w]}
    BY <1>2 DEF Joined
  <2>2. \A s \in share[w] : [server |-> s, ok |-> FALSE] \in Joined(w)
    BY <2>1
  <2>3. \A o \in Joined(w) : o.server \in share[w] /\ ~ o.ok
    BY <2>1
  <2>4. \A s \in share[w] : \E o \in Joined(w) : o.server = s
    BY <2>2
  <2>5. ASSUME NEW o \in Joined(w), NEW q \in Joined(w), o.server = q.server
        PROVE  o = q
    <3>1. PICK s \in share[w] : o = [server |-> s, ok |-> FALSE]
      BY <2>1
    <3>2. PICK r \in share[w] : q = [server |-> r, ok |-> FALSE]
      BY <2>1
    <3> QED BY <2>5, <3>1, <3>2
  <2> QED BY <1>2, <2>3, <2>4, <2>5
<1>3. CASE stage[w] # "dead"
  <2>1. Joined(w) = outcomes[w] /\ left[w] = {}
    BY <1>3 DEF Joined
  <2> QED BY <1>1, <2>1 DEF ShareWell
<1> QED BY <1>2, <1>3

\* The result names each server of the batch once; what it calls a success is
\* in the tables, and a failure is not unless its worker died.
LEMMA ReportTells ==
  ASSUME BatchWell, EndBatch
  PROVE  /\ {o.server : o \in Report} = UNION {share[w] : w \in Workers}
         /\ \A o, q \in Report : o.server = q.server => o = q
         /\ \A o \in Report : o.ok => o.server \in landed
         /\ (\A w \in Workers : stage[w] /= "dead") =>
               \A o \in Report : o.ok <=> o.server \in landed
<1>1. \A w \in Workers :
         /\ \A o \in Joined(w) : o.server \in share[w]
         /\ \A s \in share[w] : \E o \in Joined(w) : o.server = s
         /\ \A o, q \in Joined(w) : o.server = q.server => o = q
         /\ \A o \in Joined(w) : o.ok => o \in outcomes[w]
         /\ stage[w] # "dead" => Joined(w) = outcomes[w]
  BY JoinedWell DEF EndBatch
<1>2. \A o : o \in Report <=> \E w \in Workers : o \in Joined(w)
  BY DEF Report
<1>3. SharesApart(share) /\ LandedWell(landed, outcomes)
  BY DEF BatchWell
<1>4. {o.server : o \in Report} = UNION {share[w] : w \in Workers}
  <2>1. \A o \in Report : \E w \in Workers : o.server \in share[w]
    BY <1>1, <1>2
  <2>2. \A w \in Workers : \A s \in share[w] : \E o \in Report : o.server = s
    BY <1>1, <1>2
  <2> QED BY <2>1, <2>2
<1>5. ASSUME NEW o \in Report, NEW q \in Report, o.server = q.server
      PROVE  o = q
  <2>1. PICK w \in Workers : o \in Joined(w)
    BY <1>2
  <2>2. PICK v \in Workers : q \in Joined(v)
    BY <1>2
  <2>3. w = v
    BY <1>1, <1>3, <1>5, <2>1, <2>2 DEF SharesApart
  <2> QED BY <1>1, <1>5, <2>1, <2>2, <2>3
<1>6. ASSUME NEW o \in Report, o.ok
      PROVE  o.server \in landed
  <2>1. PICK w \in Workers : o \in Joined(w)
    BY <1>2
  <2> QED BY <1>1, <1>3, <1>6, <2>1 DEF LandedWell
<1>7. ASSUME \A w \in Workers : stage[w] /= "dead", NEW o \in Report,
             o.server \in landed
      PROVE  o.ok
  <2>1. PICK w \in Workers : \E q \in outcomes[w] : q.server = o.server /\ q.ok
    BY <1>3, <1>7 DEF LandedWell
  <2>2. PICK q \in outcomes[w] : q.server = o.server /\ q.ok
    BY <2>1
  <2>3. q \in Report
    BY <1>1, <1>2, <1>7, <2>2
  <2>4. q = o
    BY <1>5, <2>2, <2>3
  <2> QED BY <2>2, <2>4
<1>8. ASSUME \A w \in Workers : stage[w] /= "dead", NEW o \in Report
      PROVE  o.ok <=> o.server \in landed
  <2>1. o.ok \in BOOLEAN
    BY <1>1, <1>2, <1>8 DEF BatchWell
  <2> QED BY <1>6, <1>7, <1>8, <2>1
<1> QED BY <1>4, <1>5, <1>6, <1>8

\* When a batch ends its result names each server it was given once, a success
\* is in the tables, and if no worker died what is in the tables is a success.
THEOREM BatchIsHonest == Spec => BatchTellsTheTruth
<1>1. IInv /\ [Next]_vars =>
        [EndBatch =>
            /\ {o.server : o \in Report} = UNION {share[w] : w \in Workers}
            /\ \A o, q \in Report : o.server = q.server => o = q
            /\ \A o \in Report : o.ok => o.server \in landed
            /\ (\A w \in Workers : stage[w] /= "dead") =>
                  \A o \in Report : o.ok <=> o.server \in landed]_vars
  BY ReportTells DEF IInv
<1> QED BY <1>1, Invariant, PTL DEF Spec, BatchTellsTheTruth

-----------------------------------------------------------------------------
(* The catalog.  A count is summed over the rows of a tool under an id, of *)
(* which there is at most one: the sums are unfolded for no row and one.   *)

LEMMA SumOfNone == SumSet({}) = 0
<1> DEFINE F(g) == [s \in SUBSET {} |->
                      IF s = {} THEN 0
                      ELSE LET x == CHOOSE y \in s : TRUE IN x + g[s \ {x}]]
           h == [s \in SUBSET {} |-> 0]
           k == CHOOSE g : g = F(g)
<1>1. h = F(h)
  OBVIOUS
<1>2. k = F(k)
  <2> HIDE DEF F, h
  <2> QED BY <1>1
<1>3. SumSet({}) = k[{}]
  BY DEF SumSet, FoldSet, MapThenFoldSet
<1> HIDE DEF k
<1> QED BY <1>2, <1>3

LEMMA SumOfOne ==
  ASSUME NEW a \in Int
  PROVE  SumSet({a}) = a
<1> DEFINE F(g) == [s \in SUBSET {a} |->
                      IF s = {} THEN 0
                      ELSE LET x == CHOOSE y \in s : TRUE IN x + g[s \ {x}]]
           h == [s \in SUBSET {a} |-> IF s = {} THEN 0 ELSE a]
           k == CHOOSE g : g = F(g)
<1>1. \A s \in SUBSET {a} : s # {} => s = {a} /\ (CHOOSE y \in s : TRUE) = a
  OBVIOUS
<1>2. h = F(h)
  <2>1. \A s \in SUBSET {a} : h[s] = F(h)[s]
    BY <1>1
  <2> QED BY <2>1
<1>3. k = F(k)
  <2> HIDE DEF F, h
  <2> QED BY <1>2
<1>4. SumSet({a}) = k[{a}]
  BY DEF SumSet, FoldSet, MapThenFoldSet
<1> HIDE DEF k
<1>5. k[{}] = 0
  BY <1>3
<1>6. k[{a}] = a + k[{a} \ {a}]
  BY <1>1, <1>3
<1> QED BY <1>4, <1>5, <1>6

UsesCounted(us) == \A u \in us : u.count \in Nat /\ u.tool \in Tools

\* The rows of a tool under an id, and what they count.
UsesWith(us, s, id, t) == {u \in UsagesOf(us, s, id) : u.tool = t}
CountOf(us, s, id, t)  == SumSet({u.count : u \in UsesWith(us, s, id, t)})
Total(us, s, p, t)     == CountOf(us, s, Root(p), t) + CountOf(us, s, Marker(p), t)

LEMMA CountOfOneRow ==
  ASSUME NEW us, RowsApart({}, us), UsesCounted(us), NEW s, NEW id, NEW t
  PROVE  /\ \A u \in UsesWith(us, s, id, t) : CountOf(us, s, id, t) = u.count
         /\ UsesWith(us, s, id, t) = {} => CountOf(us, s, id, t) = 0
         /\ CountOf(us, s, id, t) \in Nat
<1>1. ASSUME NEW u \in UsesWith(us, s, id, t)
      PROVE  CountOf(us, s, id, t) = u.count /\ u.count \in Nat
  <2>1. UsesWith(us, s, id, t) = {u}
    BY <1>1 DEF UsesWith, UsagesOf, RowsApart
  <2>2. {v.count : v \in UsesWith(us, s, id, t)} = {u.count}
    BY <2>1
  <2>3. u.count \in Nat
    BY <1>1 DEF UsesWith, UsagesOf, UsesCounted
  <2> QED BY <2>2, <2>3, SumOfOne DEF CountOf
<1>2. ASSUME UsesWith(us, s, id, t) = {}
      PROVE  CountOf(us, s, id, t) = 0
  <2>1. {v.count : v \in UsesWith(us, s, id, t)} = {}
    BY <1>2
  <2> QED BY <2>1, SumOfNone DEF CountOf
<1> QED BY <1>1, <1>2

\* Rows that are the same for an id give the same count.
LEMMA SameRowsSameCount ==
  ASSUME NEW us, NEW vs, NEW s, NEW id, NEW t,
         \A u : u.server = s /\ u.id = id /\ u.tool = t => (u \in us <=> u \in vs)
  PROVE  CountOf(us, s, id, t) = CountOf(vs, s, id, t)
<1>1. UsesWith(us, s, id, t) = UsesWith(vs, s, id, t)
  BY DEF UsesWith, UsagesOf
<1> QED BY <1>1 DEF CountOf

\* The migration of a listing moves uses to their present ids and counts each
\* of them once.
LEMMA MigrationCounts ==
  ASSUME NEW c \in Nat, NEW us, RowsApart({}, us), RowsTyped({}, us, c),
         UsesCounted(us), NEW s \in Servers, NEW listing
  PROVE  /\ UsesCounted(Migrated(us, s, listing))
         /\ \A q, p, t : Total(Migrated(us, s, listing), q, p, t) = Total(us, q, p, t)
<1> DEFINE old == {u \in us : u.server = s /\ u.id.path \in DOMAIN listing}
           M(u) == Merged(us, s, u.id.path, u.tool)
           new == Migrated(us, s, listing)
<1>1. new = (us \ old) \cup {M(u) : u \in old}
  BY DEF Migrated
<1>2. \A u \in us : u.id \in Ids
  BY DEF RowsTyped
<1>3. ASSUME NEW u \in old
      PROVE  /\ M(u).server = s /\ M(u).id = Root(u.id.path) /\ M(u).tool = u.tool
             /\ M(u).count = Total(us, s, u.id.path, u.tool)
  <2> DEFINE p == u.id.path
             both == {v \in UsagesOf(us, s, Root(p)) \cup UsagesOf(us, s, Marker(p)) :
                         v.tool = u.tool}
  <2>1. /\ UsagesOf(both, s, Root(p)) = UsesWith(us, s, Root(p), u.tool)
        /\ UsagesOf(both, s, Marker(p)) = UsesWith(us, s, Marker(p), u.tool)
    BY DEF UsagesOf, UsesWith
  <2>2. /\ M(u).server = s /\ M(u).id = Root(p) /\ M(u).tool = u.tool
        /\ M(u).count = SumSet({v.count : v \in UsagesOf(both, s, Root(p))})
                          + SumSet({v.count : v \in UsagesOf(both, s, Marker(p))})
    BY DEF Merged
  <2> QED BY <2>1, <2>2 DEF Total, CountOf
<1>4. \A q, id, t : CountOf(us, q, id, t) \in Nat
  BY CountOfOneRow
<1>5. \A q, p, t : Total(us, q, p, t) \in Nat
  BY <1>4 DEF Total
<1>6. \A u \in us : u \in old <=> u.server = s /\ u.id.path \in DOMAIN listing
  OBVIOUS
<1>7. old \subseteq us
  OBVIOUS
<1>8. /\ RowsApart({}, new)
      /\ \A u \in new : u.server = s /\ u.id.path \in DOMAIN listing =>
            u.id = Root(u.id.path)
  BY Migration
<1> HIDE DEF old, M, new
<1>9. UsesCounted(new)
  BY <1>1, <1>3, <1>5, <1>7 DEF UsesCounted
<1>10. ASSUME NEW q, NEW p, NEW t, q # s \/ p \notin DOMAIN listing
       PROVE  Total(new, q, p, t) = Total(us, q, p, t)
  <2>1. ASSUME NEW id \in {Root(p), Marker(p)}
        PROVE  CountOf(new, q, id, t) = CountOf(us, q, id, t)
    <3>1. id.path = p
      BY Forms
    <3>2. \A u \in old : M(u).id.path \in DOMAIN listing
      BY <1>3, <1>6, <1>7, Forms
    <3>3. \A u : u.server = q /\ u.id = id /\ u.tool = t => (u \in new <=> u \in us)
      BY <1>1, <1>3, <1>6, <1>7, <1>10, <3>1, <3>2
    <3> QED BY <3>3, SameRowsSameCount
  <2> QED BY <2>1 DEF Total
<1>11. ASSUME NEW p \in DOMAIN listing, NEW t
       PROVE  Total(new, s, p, t) = Total(us, s, p, t)
  <2>1. UsesWith(new, s, Marker(p), t) = {}
    BY <1>8, <1>11, Forms DEF UsesWith, UsagesOf
  <2>2. CountOf(new, s, Marker(p), t) = 0
    BY <1>8, <1>9, <2>1, CountOfOneRow
  <2>3. CASE \E u \in old : u.id.path = p /\ u.tool = t
    <3>1. PICK u \in old : u.id.path = p /\ u.tool = t
      BY <2>3
    <3>2. M(u) \in UsesWith(new, s, Root(p), t) /\ M(u).count = Total(us, s, p, t)
      BY <1>1, <1>3, <3>1 DEF UsesWith, UsagesOf
    <3>3. CountOf(new, s, Root(p), t) = M(u).count
      BY <1>8, <1>9, <3>2, CountOfOneRow
    <3> QED BY <1>5, <2>2, <3>2, <3>3 DEF Total
  <2>4. CASE ~ \E u \in old : u.id.path = p /\ u.tool = t
    <3>1. /\ UsesWith(us, s, Root(p), t) = {}
          /\ UsesWith(us, s, Marker(p), t) = {}
      BY <1>6, <1>11, <2>4, Forms DEF UsesWith, UsagesOf
    <3>2. UsesWith(new, s, Root(p), t) = {}
      BY <1>1, <1>3, <1>6, <1>11, <2>4, Forms DEF UsesWith, UsagesOf
    <3>3. /\ CountOf(us, s, Root(p), t) = 0 /\ CountOf(us, s, Marker(p), t) = 0
          /\ CountOf(new, s, Root(p), t) = 0
      BY <1>8, <1>9, <3>1, <3>2, CountOfOneRow
    <3> QED BY <2>2, <3>3 DEF Total
  <2> QED BY <2>3, <2>4
<1> QED BY <1>9, <1>10, <1>11 DEF new

\* A launch counts one session, of its project and tool.
LEMMA LaunchCounts ==
  ASSUME IInv, UsesCounted(usages), NEW s \in Servers, NEW p \in Paths,
         NEW t \in Tools, RecordUsage(s, Root(p), t)
  PROVE  /\ UsesCounted(usages')
         /\ Total(usages', s, p, t) = Total(usages, s, p, t) + 1
         /\ \A q, o, k : q # s \/ o # p \/ k # t =>
               Total(usages', q, o, k) = Total(usages, q, o, k)
<1> DEFINE mine == UsesWith(usages, s, Root(p), t)
           new == [server |-> s, id |-> Root(p), tool |-> t, at |-> clock',
                   count |-> 1 + CountOf(usages, s, Root(p), t)]
<1>1. usages' = (usages \ mine) \cup {new}
  BY DEF RecordUsage, UsesWith, CountOf
<1>2. RowsApart({}, usages) /\ RowsApart({}, usages')
  BY RecordUsageKeeps DEF IInv, DatabaseWell, RowsApart
<1>3. \A q, id, k : CountOf(usages, q, id, k) \in Nat
  BY <1>2, CountOfOneRow
<1>4. /\ new.server = s /\ new.id = Root(p) /\ new.tool = t
      /\ new.count = 1 + CountOf(usages, s, Root(p), t)
  OBVIOUS
<1>5. \A u \in usages : u \in mine <=> u.server = s /\ u.id = Root(p) /\ u.tool = t
  BY DEF UsesWith, UsagesOf
<1> HIDE DEF mine, new
<1>6. UsesCounted(usages')
  BY <1>1, <1>3, <1>4 DEF UsesCounted
<1>7. ASSUME NEW q, NEW id, NEW k, q # s \/ id # Root(p) \/ k # t
      PROVE  CountOf(usages', q, id, k) = CountOf(usages, q, id, k)
  <2>1. \A u : u.server = q /\ u.id = id /\ u.tool = k =>
                  (u \in usages' <=> u \in usages)
    BY <1>1, <1>4, <1>5, <1>7
  <2> QED BY <2>1, SameRowsSameCount
<1>8. CountOf(usages', s, Root(p), t) = 1 + CountOf(usages, s, Root(p), t)
  <2>1. new \in UsesWith(usages', s, Root(p), t)
    BY <1>1, <1>4 DEF UsesWith, UsagesOf
  <2> QED BY <1>2, <1>4, <1>6, <2>1, CountOfOneRow
<1>9. Total(usages', s, p, t) = Total(usages, s, p, t) + 1
  <2>1. CountOf(usages', s, Marker(p), t) = CountOf(usages, s, Marker(p), t)
    BY <1>7, Forms
  <2> QED BY <1>3, <1>8, <2>1 DEF Total
<1>10. ASSUME NEW q, NEW o, NEW k, q # s \/ o # p \/ k # t
       PROVE  Total(usages', q, o, k) = Total(usages, q, o, k)
  <2>1. CountOf(usages', q, Root(o), k) = CountOf(usages, q, Root(o), k)
    BY <1>7, <1>10, Forms
  <2>2. CountOf(usages', q, Marker(o), k) = CountOf(usages, q, Marker(o), k)
    BY <1>7, Forms
  <2> QED BY <2>1, <2>2 DEF Total
<1> QED BY <1>6, <1>9, <1>10

\* The tables of the catalog, of rows prs and us.
CatalogLists(prs)   == [s \in Servers |-> ListedIn(prs, s)]
CatalogSessions(us) ==
    [s \in Servers |-> [p \in Paths |-> [t \in Tools |-> Total(us, s, p, t)]]]

LEMMA CatalogTables ==
  /\ [s \in Servers |-> ListedOf(s)] = CatalogLists(projects)
  /\ [s \in Servers |-> ListedOf(s)]' = CatalogLists(projects')
  /\ [s \in Servers |-> [p \in Paths |-> [t \in Tools |-> SessionsOf(s, p, t)]]] =
        CatalogSessions(usages)
  /\ [s \in Servers |-> [p \in Paths |-> [t \in Tools |-> SessionsOf(s, p, t)]]]' =
        CatalogSessions(usages')
<1>1. \A s, p, t : /\ SessionsOf(s, p, t) = Total(usages, s, p, t)
                   /\ SessionsOf(s, p, t)' = Total(usages', s, p, t)
  BY DEF SessionsOf, Total, CountOf, UsesWith, UsagesOf
<1> QED BY <1>1, Listing DEF CatalogLists, CatalogSessions

LEMMA RegistersIt ==
  ASSUME IInv, NEW s \in Servers, AddServer(s)
  PROVE  Catalog!Register(s)
<1>1. projects' = projects /\ usages' = usages
  BY DEF AddServer
<1> QED BY <1>1, CatalogTables DEF AddServer, Catalog!Register

LEMMA DeletesIt ==
  ASSUME IInv, NEW s \in Servers, DeleteServer(s)
  PROVE  Catalog!Delete(s)
<1>1. /\ projects' = {r \in projects : r.server /= s}
      /\ usages' = {u \in usages : u.server /= s}
  BY DEF DeleteServer
<1>2. \A q \in Servers :
         ListedIn(projects', q) = IF q = s THEN {} ELSE ListedIn(projects, q)
  <2>1. ASSUME NEW q \in Servers, q # s
        PROVE  ListedIn(projects', q) = ListedIn(projects, q)
    <3>1. {x \in projects' : x.server = q} = {x \in projects : x.server = q}
      BY <1>1, <2>1
    <3> QED BY <3>1 DEF ListedIn
  <2>2. ListedIn(projects', s) = {}
    BY <1>1 DEF ListedIn
  <2> QED BY <2>1, <2>2
<1>3. CatalogLists(projects') = [CatalogLists(projects) EXCEPT ![s] = {}]
  BY <1>2 DEF CatalogLists
<1>4. \A q, p, t : Total(usages', q, p, t) = IF q = s THEN 0 ELSE Total(usages, q, p, t)
  <2>1. ASSUME NEW q, NEW id, NEW t, q # s
        PROVE  CountOf(usages', q, id, t) = CountOf(usages, q, id, t)
    <3>1. \A u : u.server = q /\ u.id = id /\ u.tool = t =>
                    (u \in usages' <=> u \in usages)
      BY <1>1, <2>1
    <3> QED BY <3>1, SameRowsSameCount
  <2>2. ASSUME NEW id, NEW t
        PROVE  CountOf(usages', s, id, t) = 0
    <3>1. {u.count : u \in UsesWith(usages', s, id, t)} = {}
      BY <1>1 DEF UsesWith, UsagesOf
    <3> QED BY <3>1, SumOfNone DEF CountOf
  <2> QED BY <2>1, <2>2 DEF Total
<1>5. CatalogSessions(usages') =
         [CatalogSessions(usages) EXCEPT ![s] = Catalog!NoSessions]
  <2>1. \A q \in Servers :
           CatalogSessions(usages')[q] =
              IF q = s THEN Catalog!NoSessions ELSE CatalogSessions(usages)[q]
    BY <1>4 DEF CatalogSessions, Catalog!NoSessions
  <2>2. /\ CatalogSessions(usages) = [q \in Servers |-> CatalogSessions(usages)[q]]
        /\ CatalogSessions(usages') = [q \in Servers |-> CatalogSessions(usages')[q]]
    BY DEF CatalogSessions
  <2> QED BY <2>1, <2>2
<1> QED BY <1>3, <1>5, CatalogTables DEF DeleteServer, Catalog!Delete

LEMMA PublishesIt ==
  ASSUME IInv, UsesCounted(usages), NEW j \in Jobs, Store(j)
  PROVE  UsesCounted(usages') /\ Catalog!Publish(target[j])
<1> DEFINE s == target[j]
           listing == Parsed(output[j].records)
<1>1. /\ status[s] = "here" /\ UNCHANGED status
      /\ usages' = Migrated(usages, s, listing)
  BY DEF Store, Replaced
<1>2. /\ s \in Servers /\ clock \in Nat
      /\ RowsApart({}, usages) /\ RowsTyped({}, usages, clock)
  BY DEF IInv, JobsWell, DatabaseWell, RowsApart, RowsTyped
<1>3. UsesCounted(usages')
      /\ \A q, p, t : Total(usages', q, p, t) = Total(usages, q, p, t)
  <2> HIDE DEF s, listing
  <2> QED BY <1>1, <1>2, MigrationCounts
<1>4. CatalogSessions(usages') = CatalogSessions(usages)
  BY <1>3 DEF CatalogSessions
<1> DEFINE L == ListedIn(projects', s)
<1>5. L \in SUBSET Paths
  <2>1. RowsTyped(projects', usages', clock')
    BY StoreKeeps DEF IInv, DatabaseWell
  <2>2. \A r \in projects' : r.id.path \in Paths
    BY <2>1, TwoForms DEF RowsTyped
  <2> QED BY <2>2 DEF ListedIn
<1>6. \A q \in Servers : q # s => ListedIn(projects', q) = ListedIn(projects, q)
  BY StoreLists
<1>7. CatalogLists(projects') = [CatalogLists(projects) EXCEPT ![s] = L]
  <2> HIDE DEF s
  <2> QED BY <1>2, <1>6 DEF CatalogLists
<1> HIDE DEF L, s
<1>8. Catalog!Publish(s)
  BY <1>1, <1>4, <1>5, <1>7, CatalogTables DEF Catalog!Publish
<1> QED BY <1>3, <1>8 DEF s

LEMMA LaunchesIt ==
  ASSUME IInv, UsesCounted(usages), NEW s \in Servers, NEW p \in Paths,
         NEW t \in Tools, RecordUsage(s, Root(p), t)
  PROVE  UsesCounted(usages') /\ Catalog!Launch(s, p, t)
<1>1. \A q \in Servers : ListedIn(projects', q) = ListedIn(projects, q)
  BY RecordUsageLists
<1>2. CatalogLists(projects') = CatalogLists(projects)
  BY <1>1 DEF CatalogLists
<1>3. p \in CatalogLists(projects)[s]
  <2>1. PICK r \in projects : r.server = s /\ r.id = Root(p)
    BY DEF RecordUsage
  <2>2. p \in ListedIn(projects, s)
    BY <2>1, Forms DEF ListedIn
  <2> QED BY <2>2 DEF CatalogLists
<1>4. /\ UsesCounted(usages')
      /\ Total(usages', s, p, t) = Total(usages, s, p, t) + 1
      /\ \A q, o, k : q # s \/ o # p \/ k # t =>
            Total(usages', q, o, k) = Total(usages, q, o, k)
  BY LaunchCounts
<1>5. CatalogSessions(usages') = [CatalogSessions(usages) EXCEPT ![s][p][t] = @ + 1]
  <2> DEFINE old == CatalogSessions(usages)
             row == [k \in Tools |-> IF k = t THEN old[s][p][t] + 1 ELSE old[s][p][k]]
             cat == [o \in Paths |-> IF o = p THEN row ELSE old[s][o]]
             new == [q \in Servers |-> IF q = s THEN cat ELSE old[q]]
  <2>1. \A q \in Servers, o \in Paths, k \in Tools :
           old[q][o][k] = Total(usages, q, o, k)
    BY DEF CatalogSessions
  <2>2. CatalogSessions(usages') = new
    BY <1>4, <2>1 DEF CatalogSessions
  <2>3. /\ old = [q \in Servers |-> old[q]]
        /\ \A q \in Servers : /\ old[q] = [o \in Paths |-> old[q][o]]
                               /\ \A o \in Paths : old[q][o] = [k \in Tools |-> old[q][o][k]]
    BY DEF CatalogSessions
  <2> HIDE DEF old
  <2>4. /\ [old[s][p] EXCEPT ![t] = @ + 1] = row
        /\ [old[s] EXCEPT ![p] = row] = cat
        /\ [old EXCEPT ![s] = cat] = new
    BY <2>3
  <2>5. [old EXCEPT ![s][p][t] = @ + 1] =
           [old EXCEPT ![s] = [old[s] EXCEPT ![p] = [old[s][p] EXCEPT ![t] = @ + 1]]]
    BY <2>3
  <2>6. CatalogSessions(usages') = [old EXCEPT ![s][p][t] = @ + 1]
    <3> HIDE DEF row, cat, new
    <3> QED BY <2>2, <2>4, <2>5
  <2> QED BY <2>6 DEF old
<1>6. UNCHANGED status
  BY DEF RecordUsage
<1> QED BY <1>2, <1>3, <1>4, <1>5, <1>6, CatalogTables DEF Catalog!Launch

LEMMA CatalogStep ==
  ASSUME IInv, UsesCounted(usages), [Next]_vars
  PROVE  UsesCounted(usages') /\ [Catalog!Next]_Catalog!vars
<1>1. ASSUME UNCHANGED <<status, projects, usages>>
      PROVE  UsesCounted(usages') /\ UNCHANGED Catalog!vars
  BY <1>1, CatalogTables DEF Catalog!vars
<1>2. ASSUME NEW j \in Jobs, JobStep(j)
      PROVE  UsesCounted(usages') /\ [Catalog!Next]_Catalog!vars
  <2>1. CASE Store(j)
    <3>1. target[j] \in Servers
      BY DEF IInv, JobsWell
    <3> QED BY <2>1, <3>1, PublishesIt DEF Catalog!Next
  <2>2. CASE ListRemote(j) \/ SshFails(j) \/ StoreFails(j)
    BY <1>1, <2>2 DEF ListRemote, SshFails, StoreFails, db
  <2> QED BY <1>2, <2>1, <2>2 DEF JobStep
<1>3. ASSUME NEW w \in Workers, WorkerStep(w) \/ Panic(w)
      PROVE  UsesCounted(usages') /\ [Catalog!Next]_Catalog!vars
  <2>1. CASE JobStep(w)
    BY <1>2, <2>1, WorkersAreJobs
  <2>2. CASE TakeNext(w) \/ ServerNotFound(w) \/ Panic(w)
    BY <1>1, <2>2 DEF TakeNext, ReadServer, ServerNotFound, Panic, db
  <2> QED BY <1>3, <2>1, <2>2 DEF WorkerStep
<1>4. ASSUME NEW s \in Servers, AddServer(s) \/ DeleteServer(s)
      PROVE  UsesCounted(usages') /\ [Catalog!Next]_Catalog!vars
  <2>1. UsesCounted(usages')
    BY <1>4 DEF AddServer, DeleteServer, UsesCounted
  <2> QED BY <1>4, <2>1, RegistersIt, DeletesIt DEF Catalog!Next
<1>5. ASSUME NEW s \in Servers, NEW p \in Paths, NEW t \in Tools,
             RecordUsage(s, Root(p), t)
      PROVE  UsesCounted(usages') /\ [Catalog!Next]_Catalog!vars
  BY <1>5, LaunchesIt DEF Catalog!Next
<1>6. ASSUME NEW s \in Servers,
             \/ \E p \in Paths : HostChanges(s, p)
             \/ AddIgnore(s) \/ DeleteIgnore(s) \/ ReadServer(Single, s)
      PROVE  UsesCounted(usages') /\ [Catalog!Next]_Catalog!vars
  BY <1>1, <1>6 DEF HostChanges, AddIgnore, DeleteIgnore, ReadServer, db
<1>7. CASE StartBatch \/ EndBatch \/ UNCHANGED vars
  BY <1>1, <1>7 DEF StartBatch, EndBatch, vars, db
<1> QED BY <1>2, <1>3, <1>4, <1>5, <1>6, <1>7, WorkersAreJobs DEF Next

LEMMA CatalogBegins ==
  ASSUME IInv, Init
  PROVE  UsesCounted(usages) /\ Catalog!Init
<1>1. PICK e \in Earlier :
         /\ projects = {[server |-> 1, id |-> i, last |-> clock] : i \in e.listed}
         /\ usages = {[server |-> 1, id |-> i, tool |-> t, count |-> 1,
                       at |-> IF i \in e.listed THEN clock ELSE 1] :
                         i \in e.used, t \in Tools}
  BY DEF Init
<1>2. \A u \in usages : u.server = 1 /\ u.count = 1 /\ u.tool \in Tools
  BY <1>1
<1>3. UsesCounted(usages)
  BY <1>2 DEF UsesCounted
<1>4. RowsApart({}, usages)
  BY DEF IInv, DatabaseWell, RowsApart
<1>5. ASSUME NEW s, NEW id, NEW t
      PROVE  CountOf(usages, s, id, t) \in 0 .. 1 /\ (s # 1 => CountOf(usages, s, id, t) = 0)
  <2>1. \A u \in UsesWith(usages, s, id, t) : u.count = 1 /\ s = 1
    BY <1>2 DEF UsesWith, UsagesOf
  <2>2. CASE UsesWith(usages, s, id, t) = {}
    BY <1>3, <1>4, <2>2, CountOfOneRow
  <2>3. CASE UsesWith(usages, s, id, t) # {}
    <3>1. PICK u \in UsesWith(usages, s, id, t) : TRUE
      BY <2>3
    <3>2. CountOf(usages, s, id, t) = u.count
      BY <1>3, <1>4, CountOfOneRow
    <3> QED BY <2>1, <3>1, <3>2
  <2> QED BY <2>2, <2>3
<1>6. \A s, p, t : /\ Total(usages, s, p, t) \in 0 .. 2
                   /\ s # 1 => Total(usages, s, p, t) = 0
  <2>1. ASSUME NEW s, NEW p, NEW t
        PROVE  /\ Total(usages, s, p, t) \in 0 .. 2
               /\ s # 1 => Total(usages, s, p, t) = 0
    <3>1. /\ CountOf(usages, s, Root(p), t) \in 0 .. 1
          /\ CountOf(usages, s, Marker(p), t) \in 0 .. 1
          /\ s # 1 => /\ CountOf(usages, s, Root(p), t) = 0
                      /\ CountOf(usages, s, Marker(p), t) = 0
      BY <1>5
    <3> QED BY <3>1 DEF Total
  <2> QED BY <2>1
<1>7. \A r \in projects : r.server = 1 /\ r.id.path \in Paths
  BY <1>1, TwoForms DEF IInv, DatabaseWell, RowsTyped
<1>8. \A s \in Servers : ListedIn(projects, s) \subseteq Paths
                         /\ (s # 1 => ListedIn(projects, s) = {})
  BY <1>7 DEF ListedIn
<1>9. /\ status \in [Servers -> {"never", "here"}]
      /\ \A s \in Servers : status[s] = "never" => s # 1
  BY DEF Init
<1>10. CatalogLists(projects) \in [Servers -> SUBSET Paths]
  BY <1>8 DEF CatalogLists
<1>11. CatalogSessions(usages) \in [Servers -> [Paths -> [Tools -> 0 .. 2]]]
  BY <1>6 DEF CatalogSessions
<1>12. \A s \in Servers : s # 1 =>
          /\ CatalogLists(projects)[s] = {}
          /\ CatalogSessions(usages)[s] = Catalog!NoSessions
  BY <1>6, <1>8 DEF CatalogLists, CatalogSessions, Catalog!NoSessions
<1>13. \A s \in Servers : status[s] = "never" =>
          /\ CatalogLists(projects)[s] = {}
          /\ CatalogSessions(usages)[s] = Catalog!NoSessions
  BY <1>9, <1>12
<1> DEFINE lists == CatalogLists(projects)
           counts == CatalogSessions(usages)
<1>14. /\ [s \in Servers |-> ListedOf(s)] = lists
       /\ [s \in Servers |-> [p \in Paths |-> [t \in Tools |-> SessionsOf(s, p, t)]]] = counts
  BY CatalogTables
<1> HIDE DEF lists, counts
<1> QED BY <1>3, <1>9, <1>10, <1>11, <1>13, <1>14 DEF Catalog!Init, lists, counts

\* The tables implement the catalog: a scan replaces what a server shows and no
\* count of it, whatever ids older versions used; a launch counts one session of
\* a project that is shown; only a deletion loses any.
THEOREM ServersAreACatalog == Spec => ImplementsServerCatalog
<1>1. Init => IInv /\ UsesCounted(usages) /\ Catalog!Init
  BY RemoteAssumption, EarlierAssumption, InitWell, CatalogBegins
<1>2. IInv /\ UsesCounted(usages) /\ [Next]_vars =>
         /\ IInv' /\ UsesCounted(usages')
         /\ [Catalog!Next]_Catalog!vars
  BY RemoteAssumption, StepKeeps, CatalogStep
<1> DEFINE Counted == UsesCounted(usages)
<1>3. Init => IInv /\ Counted /\ Catalog!Init
  BY <1>1
<1>4. IInv /\ Counted /\ [Next]_vars =>
         IInv' /\ Counted' /\ [Catalog!Next]_Catalog!vars
  BY <1>2
<1> HIDE DEF Counted
<1> QED BY <1>3, <1>4, PTL DEF Spec, ImplementsServerCatalog, Catalog!Spec
=============================================================================
