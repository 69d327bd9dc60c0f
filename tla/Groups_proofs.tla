---------------------------- MODULE Groups_proofs ----------------------------
(***************************************************************************)
(* Groups and manual orders for every set of windows, projects, catalogs   *)
(* and earlier tables.  The tables stay consistent because each transaction*)
(* takes consistent tables to consistent ones.  A move lands where it was  *)
(* dropped because ranks follow the order they are counted from.  And the  *)
(* revision check protects a window because the revision counts exactly    *)
(* the changes, and because whatever a window shows of a single state comes*)
(* with that state's revision (RevisionsAreHonest).                        *)
(***************************************************************************)
EXTENDS Groups, FiniteSetTheorems, WellFoundedInduction, TLAPS

-----------------------------------------------------------------------------
(* The inductive invariant.                                                *)

Rows == {NoRow} \cup [key : Buckets, at : Nat \ {0}]

CallsByTask == call = [w \in Windows |-> [t \in Tasks |-> call[w][t]]]

\* Lists that are of one state came with the revision of that state.
Honest(v) == v.seen /= Mixed => v.seen = v.revision

RevisionsAreHonest ==
    /\ revision = changes
    /\ \A w \in Windows :
          /\ Honest(view[w])
          /\ pc[w]["drag"] = "sent" => Honest(call[w]["drag"].shown)
          /\ \A t \in Tasks : pc[w][t] = "show" => Honest(got[w][t])

IInv ==
    /\ PositionsFollowBuckets
    /\ CallsByTask
    /\ RevisionsAreHonest

-----------------------------------------------------------------------------
(* Lemmas about the operators of the model.                                *)

\* A finite set has an element where a function to the naturals is largest.
LEMMA FiniteMax ==
  ASSUME NEW S, IsFiniteSet(S), S /= {}, NEW f, \A p \in S : f[p] \in Nat
  PROVE  \E p \in S : \A q \in S : f[q] <= f[p]
<1> DEFINE HasMax(U) == \E p \in U : \A q \in U : f[q] <= f[p]
           T == {U \in FiniteSubsetsOf(S) : U /= {} /\ ~ HasMax(U)}
<1>1. S \in FiniteSubsetsOf(S)
  BY DEF FiniteSubsetsOf
<1>2. SUFFICES ASSUME T /= {} PROVE FALSE
  BY <1>1
<1>3. PICK U \in T : \A V \in T : ~ (<<V, U>> \in StrictSubsetOrdering(S))
  <2>1. T \subseteq FiniteSubsetsOf(S)
    OBVIOUS
  <2> HIDE DEF T
  <2> QED BY <1>2, <2>1, FS_StrictSubsetOrderingWellFounded, WFMin
<1>4. U \subseteq S /\ IsFiniteSet(U) /\ U /= {} /\ ~ HasMax(U)
  BY DEF FiniteSubsetsOf
<1>5. PICK x \in U : TRUE
  BY <1>4
<1> DEFINE V == U \ {x}
<1>6. V \in FiniteSubsetsOf(S)
  BY <1>4, FS_RemoveElement DEF FiniteSubsetsOf
<1>7. <<V, U>> \in StrictSubsetOrdering(S)
  BY <1>4, <1>5 DEF StrictSubsetOrdering
<1>8. V = {} \/ HasMax(V)
  BY <1>3, <1>6, <1>7
<1>9. CASE V = {}
  <2>1. \A q \in U : q = x
    BY <1>9
  <2> QED BY <1>4, <1>5, <2>1
<1>10. CASE HasMax(V)
  <2>1. PICK m \in V : \A q \in V : f[q] <= f[m]
    BY <1>10
  <2>2. \A q \in U : f[q] \in Nat
    BY <1>4
  <2>3. CASE f[x] <= f[m]
    BY <1>4, <2>1, <2>3
  <2>4. CASE f[m] < f[x]
    <3>1. \A q \in U : f[q] <= f[x]
      BY <1>5, <2>1, <2>2, <2>4
    <3> QED BY <1>4, <1>5, <3>1
  <2> QED BY <1>5, <2>1, <2>2, <2>3, <2>4
<1> QED BY <1>8, <1>9, <1>10

Listed(c) == {c[i] : i \in DOMAIN c}

\* A catalog lists projects, each at one place.
LEMMA PlacesInCatalog ==
  ASSUME GroupsAssumption, NEW c \in Catalogs
  PROVE  /\ Listed(c) \subseteq Projects
         /\ \A p \in Listed(c) :
               /\ PositionIn(c, p) \in Nat \ {0}
               /\ c[PositionIn(c, p)] = p
<1>1. c \in Seq(Projects)
  BY DEF GroupsAssumption
<1>2. \A i \in DOMAIN c : i \in Nat \ {0} /\ c[i] \in Projects
  BY <1>1
<1>3. ASSUME NEW p \in Listed(c)
      PROVE  PositionIn(c, p) \in DOMAIN c /\ c[PositionIn(c, p)] = p
  BY <1>3 DEF Listed, PositionIn
<1> QED BY <1>2, <1>3 DEF Listed

\* Ranks follow the order they count: it is a strict and total one.
LEMMA RanksFollowOrder ==
  ASSUME GroupsAssumption, NEW c \in Catalogs, NEW S \in SUBSET Listed(c),
         NEW rows \in [Projects -> Rows]
  PROVE  /\ \A p \in S : Rank(S, rows, c, p) \in Nat \ {0}
         /\ \A p, q \in S : Precedes(rows, c, p, q) <=>
                               Rank(S, rows, c, p) < Rank(S, rows, c, q)
         /\ \A p, q \in S : Rank(S, rows, c, p) = Rank(S, rows, c, q) => p = q
<1> DEFINE Before(p) == {q \in S : Precedes(rows, c, q, p)}
<1>1. IsFiniteSet(S) /\ S \subseteq Projects
  BY PlacesInCatalog, FS_Subset DEF GroupsAssumption
<1>2. \A p \in S : IsFiniteSet(Before(p)) /\ Cardinality(Before(p)) \in Nat
  BY <1>1, FS_Subset, FS_CardinalityType
<1>3. \A p \in S : /\ rows[p].at \in Nat
                   /\ rows[p] = NoRow <=> rows[p].at = 0
                   /\ PositionIn(c, p) \in Nat
  BY <1>1, PlacesInCatalog DEF Rows, NoRow
<1>4. \A p, q \in S : p /= q => PositionIn(c, p) /= PositionIn(c, q)
  BY PlacesInCatalog
<1> DEFINE at(p)    == rows[p].at
           place(p) == PositionIn(c, p)
<1>5. ASSUME NEW p \in S, NEW q \in S
      PROVE  Precedes(rows, c, p, q) <=>
                \/ at(p) /= 0 /\ (at(q) = 0 \/ at(p) < at(q))
                \/ at(p) = at(q) /\ place(p) < place(q)
  <2>1. /\ at(p) \in Nat /\ at(q) \in Nat
        /\ rows[p] = NoRow <=> at(p) = 0
        /\ rows[q] = NoRow <=> at(q) = 0
    BY <1>3
  <2> QED BY <2>1 DEF Precedes
<1>6. /\ \A p \in S : at(p) \in Nat /\ place(p) \in Nat
      /\ \A p, q \in S : p /= q => place(p) /= place(q)
  BY <1>3, <1>4
<1> HIDE DEF at, place
<1>7. ASSUME NEW p \in S, NEW q \in S, NEW r \in S,
             Precedes(rows, c, p, q), Precedes(rows, c, q, r)
      PROVE  Precedes(rows, c, p, r)
  BY <1>5, <1>6, <1>7
<1>8. ASSUME NEW p \in S PROVE ~ Precedes(rows, c, p, p)
  BY <1>5, <1>6
<1>9. ASSUME NEW p \in S, NEW q \in S, p /= q
      PROVE  Precedes(rows, c, p, q) \/ Precedes(rows, c, q, p)
  BY <1>5, <1>6, <1>9
<1>10. ASSUME NEW p \in S, NEW q \in S, Precedes(rows, c, p, q)
      PROVE  Cardinality(Before(p)) < Cardinality(Before(q))
  <2>1. Before(p) \subseteq Before(q)
    BY <1>7, <1>10
  <2>2. p \in Before(q) /\ p \notin Before(p)
    BY <1>8, <1>10
  <2>3. Cardinality(Before(p)) /= Cardinality(Before(q))
    BY <1>2, <2>1, <2>2, FS_Subset
  <2>4. Cardinality(Before(p)) <= Cardinality(Before(q))
    BY <1>2, <2>1, FS_Subset
  <2>5. Cardinality(Before(p)) \in Nat /\ Cardinality(Before(q)) \in Nat
    BY <1>2
  <2> HIDE DEF Before
  <2> QED BY <2>3, <2>4, <2>5
<1>11. \A p \in S : Rank(S, rows, c, p) = Cardinality(Before(p)) + 1
  BY DEF Rank
<1> HIDE DEF Before
<1>12. \A p, q \in S : Precedes(rows, c, p, q) =>
                         Cardinality(Before(p)) < Cardinality(Before(q))
  BY <1>10
<1>13. ASSUME NEW p \in S, NEW q \in S
       PROVE  /\ Precedes(rows, c, p, q) <=>
                     Rank(S, rows, c, p) < Rank(S, rows, c, q)
              /\ Rank(S, rows, c, p) = Rank(S, rows, c, q) => p = q
  <2>1. ~ (Precedes(rows, c, p, q) /\ Precedes(rows, c, q, p))
    BY <1>7, <1>8
  <2> QED BY <1>2, <1>9, <1>11, <1>12, <2>1
<1> QED BY <1>2, <1>11, <1>13

-----------------------------------------------------------------------------
(* What a transaction gives: tables that agree again.                      *)

TablesAgree(g, s) ==
    /\ g \in [Projects -> Buckets]
    /\ s \in [Projects -> Rows]
    /\ \A p \in Projects : s[p] /= NoRow => s[p].key = g[p]

LEMMA RowsAreRecords ==
  ASSUME NEW r \in Rows
  PROVE  /\ r.at \in Nat
         /\ r = NoRow <=> r.at = 0
         /\ r = NoRow <=> r.key = -1
         /\ r /= NoRow => r.key \in Buckets
BY DEF Rows, NoRow, Buckets

LEMMA LastPositionType ==
  ASSUME GroupsAssumption, NEW s \in [Projects -> Rows], NEW k,
         MembersOf(k, s) /= {}
  PROVE  LastPosition(k, s) \in Nat
<1> DEFINE f == [p \in Projects |-> s[p].at]
<1>1. IsFiniteSet(MembersOf(k, s)) /\ MembersOf(k, s) \subseteq Projects
  BY FS_Subset DEF GroupsAssumption, MembersOf
<1>2. \A p \in Projects : f[p] = s[p].at /\ f[p] \in Nat
  BY RowsAreRecords
<1> HIDE DEF f
<1>3. PICK p \in MembersOf(k, s) : \A q \in MembersOf(k, s) : f[q] <= f[p]
  BY <1>1, <1>2, FiniteMax
<1>4. s[p].at \in {s[q].at : q \in MembersOf(k, s)}
  OBVIOUS
<1>5. \A q \in MembersOf(k, s) : s[q].at <= s[p].at
  BY <1>1, <1>2, <1>3
<1>6. LastPosition(k, s) \in {s[q].at : q \in MembersOf(k, s)}
  BY <1>4, <1>5 DEF LastPosition
<1> QED BY <1>1, <1>2, <1>6

\* A project is assigned: it alone changes its group, and its position if it
\* gets one is in that group.
LEMMA AssignedAgrees ==
  ASSUME GroupsAssumption, NEW g, NEW s, TablesAgree(g, s),
         NEW p \in Projects, NEW k \in Buckets,
         NEW t, t = Assigned([group |-> g, sort |-> s], p, k)
  PROVE  /\ TablesAgree(t.group, t.sort)
         /\ t.group[p] = k
         /\ \A q \in Projects \ {p} : t.group[q] = g[q] /\ t.sort[q] = s[q]
<1> DEFINE last == LastPosition(k, s)
           row == IF k /= 0 /\ MembersOf(k, s) /= {}
                  THEN [key |-> k, at |-> last + 1] ELSE NoRow
<1>1. g \in [Projects -> Buckets] /\ s \in [Projects -> Rows]
  BY DEF TablesAgree
<1>2. row \in Rows /\ (row /= NoRow => row.key = k)
  <2>1. CASE k /= 0 /\ MembersOf(k, s) /= {}
    <3>1. last \in Nat
      BY <1>1, <2>1, LastPositionType
    <3> QED BY <2>1, <3>1 DEF Rows
  <2>2. CASE ~ (k /= 0 /\ MembersOf(k, s) /= {})
    BY <2>2 DEF Rows
  <2> QED BY <2>1, <2>2
<1>3. t.group = [g EXCEPT ![p] = k] /\ t.sort = [s EXCEPT ![p] = row]
  BY DEF Assigned
<1> HIDE DEF row
<1>4. \A q \in Projects \ {p} : t.group[q] = g[q] /\ t.sort[q] = s[q]
  BY <1>1, <1>3
<1>5. t.group[p] = k /\ t.sort[p] = row
  BY <1>1, <1>3
<1>6. t.group \in [Projects -> Buckets] /\ t.sort \in [Projects -> Rows]
  BY ZenonT(40), <1>1, <1>2, <1>3
<1> QED BY <1>2, <1>4, <1>5, <1>6 DEF TablesAgree

\* The rows of a bucket are those of the projects that are in it.
LEMMA RowsOfBucket ==
  ASSUME TablesAgree(group, sort), NEW k
  PROVE  /\ RowsOf(k) \in [Projects -> Rows]
         /\ \A q \in Projects : group[q] = k => RowsOf(k)[q] = sort[q]
<1>1. sort \in [Projects -> Rows]
  BY DEF TablesAgree
<1>2. NoRow \in Rows
  BY DEF Rows
<1>3. \A q \in Projects :
         RowsOf(k)[q] = IF sort[q].key = k THEN sort[q] ELSE NoRow
  BY DEF RowsOf
<1>4. RowsOf(k) \in [Projects -> Rows]
  BY <1>1, <1>2 DEF RowsOf
<1>5. \A q \in Projects : group[q] = k => RowsOf(k)[q] = sort[q]
  BY <1>3 DEF TablesAgree
<1> QED BY <1>4, <1>5

\* Others(d): what is shown of the bucket a drag goes to, without its project.
Others(d) == Shown(group, d.key, d.catalog) \ {d.project}

Target(d) == Rank(Others(d), sort, d.catalog, d.anchor)
                + (IF d.after THEN 1 ELSE 0)

Beside(d, q) ==
    LET r == Rank(Others(d), sort, d.catalog, q)
    IN  IF r >= Target(d) THEN r + 1 ELSE r

LEMMA OthersType ==
  ASSUME GroupsAssumption, NEW d \in Moves, MoveAllowed(d)
  PROVE  /\ d.project \in Projects /\ d.project \in Listed(d.catalog)
         /\ d.catalog \in Catalogs /\ d.key \in Buckets
         /\ d.after \in BOOLEAN
         /\ d.anchor \in Others(d)
         /\ Others(d) \subseteq Listed(d.catalog)
         /\ Others(d) \subseteq Projects
         /\ d.project \notin Others(d)
         /\ \A q \in Others(d) : group[q] = d.key
<1>1. /\ d.project \in Projects /\ d.anchor \in Projects
      /\ d.catalog \in Catalogs /\ d.key \in Buckets /\ d.after \in BOOLEAN
  BY DEF Moves
<1>2. /\ d.project /= d.anchor /\ group[d.anchor] = d.key
      /\ d.project \in Listed(d.catalog) /\ d.anchor \in Listed(d.catalog)
  BY DEF MoveAllowed, Listed
<1>3. Others(d) = {q \in Listed(d.catalog) : group[q] = d.key} \ {d.project}
  BY DEF Others, Shown, Listed
<1>4. Listed(d.catalog) \subseteq Projects
  BY <1>1, PlacesInCatalog
<1> QED BY <1>1, <1>2, <1>3, <1>4

\* What the placement gives, project by project.
LEMMA PlacedAt ==
  ASSUME GroupsAssumption, TablesAgree(group, sort),
         NEW d \in Moves, MoveAllowed(d), NEW old,
         NEW new, new = Placed(d, old)
  PROVE  /\ new[d.project] = [key |-> d.key, at |-> Target(d)]
         /\ \A q \in Others(d) :
               new[q] = [key |-> d.key, at |-> Beside(d, q)]
         /\ \A q \in Projects \ (Others(d) \cup {d.project}) :
               new[q] = old[q]
         /\ DOMAIN new = Projects
<1> DEFINE c == d.catalog
           rows == RowsOf(d.key)
           others == {q \in {c[i] : i \in DOMAIN c} \ {d.project} :
                        group[q] = d.key}
           target == Rank(others, rows, c, d.anchor)
                       + (IF d.after THEN 1 ELSE 0)
           place(q) == LET r == Rank(others, rows, c, q)
                       IN  IF r >= target THEN r + 1 ELSE r
<1>1. others = Others(d)
  BY DEF Others, Shown
<1>2. new = [q \in Projects |->
               IF q = d.project THEN [key |-> d.key, at |-> target]
               ELSE IF q \in others THEN [key |-> d.key, at |-> place(q)]
               ELSE old[q]]
  BY DEF Placed
<1>3. \A q \in Others(d) : rows[q] = sort[q]
  BY RowsOfBucket, OthersType
<1>4. ASSUME NEW q \in Others(d)
      PROVE  Rank(others, rows, c, q) = Rank(Others(d), sort, c, q)
  <2>1. \A p \in Others(d) : Precedes(rows, c, p, q) <=> Precedes(sort, c, p, q)
    BY <1>3, <1>4 DEF Precedes
  <2>2. {p \in Others(d) : Precedes(rows, c, p, q)}
           = {p \in Others(d) : Precedes(sort, c, p, q)}
    BY <2>1
  <2> QED BY <1>1, <2>2 DEF Rank
<1>5. target = Target(d)
  BY <1>4, OthersType DEF Target
<1>6. \A q \in Others(d) : place(q) = Beside(d, q)
  BY <1>4, <1>5 DEF Beside
<1> HIDE DEF place, target, others
<1> QED BY <1>1, <1>2, <1>5, <1>6, OthersType

\* A move: its project is assigned and placed, and the tables agree.
LEMMA MovedAgrees ==
  ASSUME GroupsAssumption, TablesAgree(group, sort),
         NEW d \in Moves, MoveAllowed(d), NEW t, t = Moved(d)
  PROVE  /\ TablesAgree(t.group, t.sort)
         /\ t.group[d.project] = d.key
         /\ \A q \in Projects \ {d.project} : t.group[q] = group[q]
         /\ t.sort[d.project] = [key |-> d.key, at |-> Target(d)]
         /\ \A q \in Others(d) :
               t.sort[q] = [key |-> d.key, at |-> Beside(d, q)]
         /\ \A q \in Projects \ (Others(d) \cup {d.project}) :
               t.sort[q] = sort[q]
<1> DEFINE a == Assigned([group |-> group, sort |-> sort], d.project, d.key)
<1>1. d.project \in Projects /\ d.key \in Buckets
  BY OthersType
<1>2. /\ TablesAgree(a.group, a.sort)
      /\ a.group[d.project] = d.key
      /\ \A q \in Projects \ {d.project} :
            a.group[q] = group[q] /\ a.sort[q] = sort[q]
  <2> HIDE DEF a
  <2>1. a = Assigned([group |-> group, sort |-> sort], d.project, d.key)
    BY DEF a
  <2> QED BY <1>1, <2>1, AssignedAgrees
<1>3. t.group = a.group /\ t.sort = Placed(d, a.sort)
  BY DEF Moved, Assigned
<1> HIDE DEF a
<1>4. /\ t.sort[d.project] = [key |-> d.key, at |-> Target(d)]
      /\ \A q \in Others(d) :
            t.sort[q] = [key |-> d.key, at |-> Beside(d, q)]
      /\ \A q \in Projects \ (Others(d) \cup {d.project}) :
            t.sort[q] = a.sort[q]
      /\ DOMAIN t.sort = Projects
  BY <1>3, PlacedAt
<1>5. t.sort = [q \in Projects |-> t.sort[q]]
  BY <1>3 DEF Placed
<1>6. Target(d) \in Nat \ {0} /\ \A q \in Others(d) : Beside(d, q) \in Nat \ {0}
  <2>1. sort \in [Projects -> Rows]
    BY DEF TablesAgree
  <2>2. \A q \in Others(d) : Rank(Others(d), sort, d.catalog, q) \in Nat \ {0}
    BY <2>1, OthersType, RanksFollowOrder
  <2> QED BY <2>2, OthersType DEF Target, Beside
<1>7. ASSUME NEW q \in Projects
      PROVE  /\ t.sort[q] \in Rows
             /\ t.sort[q] /= NoRow => t.sort[q].key = t.group[q]
  <2>1. CASE q = d.project
    BY <1>1, <1>2, <1>3, <1>4, <1>6, <2>1 DEF Rows
  <2>2. CASE q \in Others(d)
    <3>1. t.sort[q] = [key |-> d.key, at |-> Beside(d, q)]
      BY <1>4, <2>2
    <3>2. t.group[q] = d.key
      BY <1>2, <1>3, <2>2, OthersType
    <3>3. Beside(d, q) \in Nat \ {0}
      BY <1>6, <2>2
    <3> QED BY <1>1, <3>1, <3>2, <3>3 DEF Rows
  <2>3. CASE q \notin Others(d) /\ q /= d.project
    BY <1>2, <1>3, <1>4, <2>3 DEF TablesAgree
  <2> QED BY <2>1, <2>2, <2>3
<1>8. TablesAgree(t.group, t.sort)
  BY <1>2, <1>3, <1>5, <1>7 DEF TablesAgree
<1>9. \A q \in Projects \ (Others(d) \cup {d.project}) : t.sort[q] = sort[q]
  BY <1>2, <1>4
<1> QED BY <1>2, <1>3, <1>4, <1>8, <1>9

\* A new order: the listed projects are in the bucket, each at its place.
LEMMA OrderedAgrees ==
  ASSUME GroupsAssumption, TablesAgree(group, sort),
         NEW k \in Buckets, NEW s \in Catalogs, NEW t, t = Ordered(k, s)
  PROVE  /\ TablesAgree(t.group, t.sort)
         /\ \A p \in Projects : t.group[p] \in {k, group[p]}
<1>1. /\ t.group = [p \in Projects |-> IF p \in Listed(s) THEN k ELSE group[p]]
      /\ t.sort = [p \in Projects |->
                     IF p \in Listed(s)
                     THEN [key |-> k, at |-> PositionIn(s, p)] ELSE sort[p]]
  BY DEF Ordered, Listed
<1>2. \A p \in Listed(s) : PositionIn(s, p) \in Nat \ {0}
  BY PlacesInCatalog
<1>3. \A p \in Projects : /\ group[p] \in Buckets
                          /\ sort[p] \in Rows
                          /\ sort[p] /= NoRow => sort[p].key = group[p]
  BY DEF TablesAgree
<1>4. \A p \in Listed(s) : [key |-> k, at |-> PositionIn(s, p)] \in Rows
  BY <1>2 DEF Rows
<1> QED BY <1>1, <1>3, <1>4 DEF TablesAgree

\* A deleted group takes its assignments and its positions along.
LEMMA DeletedAgrees ==
  ASSUME TablesAgree(group, sort), NEW g, NEW t, t = DeletedGroup(g)
  PROVE  /\ TablesAgree(t.group, t.sort)
         /\ \A p \in Projects : t.group[p] = 0 \/ (t.group[p] = group[p]
                                                      /\ group[p] /= g)
<1>1. /\ t.group = [p \in Projects |-> IF group[p] = g THEN 0 ELSE group[p]]
      /\ t.sort = [p \in Projects |->
                     IF sort[p].key = g THEN NoRow ELSE sort[p]]
  BY DEF DeletedGroup
<1>2. \A p \in Projects : /\ group[p] \in Buckets
                          /\ sort[p] \in Rows
                          /\ sort[p] /= NoRow => sort[p].key = group[p]
  BY DEF TablesAgree
<1>3. 0 \in Buckets /\ NoRow \in Rows
  BY GroupsAssumption DEF Buckets, Rows, GroupsAssumption
<1> QED BY <1>1, <1>2, <1>3 DEF TablesAgree

-----------------------------------------------------------------------------
(* The invariant, as what it says of the database and of the windows.      *)

Labels == {"idle", "sent", "assignments", "orders", "revision", "show"}

DatabaseWell ==
    /\ names \in [Ids -> Names \cup {NoName}]
    /\ lastId \in Buckets
    /\ TablesAgree(group, sort)
    /\ \A p \in Projects : group[p] /= 0 => Exists(group[p])
    /\ \A g \in Ids : Exists(g) => g <= lastId
    /\ changes \in 0 .. MaxChanges
    /\ revision = changes

WindowsWell ==
    /\ view \in [Windows -> Views]
    /\ got \in [Windows -> [Tasks -> Views]]
    /\ pc \in [Windows -> [Tasks -> Labels]]
    /\ CallsByTask
    /\ \A w \in Windows :
          /\ Honest(view[w])
          /\ pc[w]["drag"] = "sent" => /\ call[w]["drag"] \in Moves
                                       /\ Honest(call[w]["drag"].shown)
          /\ pc[w]["assign"] = "sent" => call[w]["assign"] \in Assignments
          /\ \A t \in Tasks : pc[w][t] = "show" => Honest(got[w][t])

LEMMA Halves == IInv <=> DatabaseWell /\ WindowsWell
BY DEF IInv, PositionsFollowBuckets, TypeOK, RevisionsAreHonest, DatabaseWell,
       WindowsWell, TablesAgree, Rows, Labels

\* A transaction that leaves the groups alone and names only those there are.
LEMMA Committed ==
  ASSUME DatabaseWell, NEW t, Commit(t), TablesAgree(t.group, t.sort),
         GroupsAssumption,
         \A p \in Projects : t.group[p] /= 0 => Exists(t.group[p]),
         UNCHANGED <<names, lastId>>
  PROVE  DatabaseWell'
<1>1. /\ changes' \in 0 .. MaxChanges
      /\ revision' = changes'
  BY DEF Commit, DatabaseWell, GroupsAssumption
<1>2. group' = t.group /\ sort' = t.sort
  BY DEF Commit
<1>3. TablesAgree(group', sort')
  BY <1>2
<1>4. \A p \in Projects : group'[p] /= 0 => names'[group'[p]] /= NoName
  BY <1>2 DEF Exists
<1> QED BY <1>1, <1>3, <1>4 DEF DatabaseWell, TablesAgree, Exists

\* A step of task t of window w: it goes to l with command x sent, what its
\* load has read is y, and the window shows v.
TaskStep(w, t, l, x, y, v) ==
    /\ l \in Labels
    /\ pc' = [pc EXCEPT ![w][t] = l]
    /\ call' = [call EXCEPT ![w][t] = x]
    /\ got' = [got EXCEPT ![w][t] = y]
    /\ view' = [view EXCEPT ![w] = v]
    /\ y \in Views /\ v \in Views /\ Honest(v)
    /\ l = "sent" /\ t = "drag" => x \in Moves /\ Honest(x.shown)
    /\ l = "sent" /\ t = "assign" => x \in Assignments
    /\ l = "show" => Honest(y)

LEMMA TaskMoves ==
  ASSUME WindowsWell, NEW w \in Windows, NEW t \in Tasks,
         NEW l, NEW x, NEW y, NEW v, TaskStep(w, t, l, x, y, v)
  PROVE  WindowsWell'
<1>0. /\ l \in Labels
      /\ pc' = [pc EXCEPT ![w][t] = l]
      /\ call' = [call EXCEPT ![w][t] = x]
      /\ got' = [got EXCEPT ![w][t] = y]
      /\ view' = [view EXCEPT ![w] = v]
      /\ y \in Views /\ v \in Views /\ Honest(v)
      /\ l = "sent" /\ t = "drag" => x \in Moves /\ Honest(x.shown)
      /\ l = "sent" /\ t = "assign" => x \in Assignments
      /\ l = "show" => Honest(y)
  BY DEF TaskStep
<1>1. /\ view \in [Windows -> Views]
      /\ got \in [Windows -> [Tasks -> Views]]
      /\ pc \in [Windows -> [Tasks -> Labels]]
      /\ call = [u \in Windows |-> [s \in Tasks |-> call[u][s]]]
  BY DEF WindowsWell, CallsByTask
<1>2. /\ view' \in [Windows -> Views]
      /\ got' \in [Windows -> [Tasks -> Views]]
      /\ pc' \in [Windows -> [Tasks -> Labels]]
  BY <1>0, <1>1
<1>3. /\ view'[w] = v
      /\ got'[w][t] = y /\ pc'[w][t] = l /\ call'[w][t] = x
  BY <1>0, <1>1
<1>4. \A u \in Windows \ {w} : view'[u] = view[u]
  BY <1>0, <1>1
<1>5. \A u \in Windows, s \in Tasks : u /= w \/ s /= t =>
         /\ got'[u][s] = got[u][s]
         /\ pc'[u][s] = pc[u][s]
         /\ call'[u][s] = call[u][s]
  BY <1>0, <1>1
<1>6. call' = [u \in Windows |-> [s \in Tasks |-> call'[u][s]]]
  BY <1>0, <1>1
<1>7. ASSUME NEW u \in Windows
      PROVE  /\ Honest(view'[u])
             /\ pc'[u]["drag"] = "sent" => /\ call'[u]["drag"] \in Moves
                                           /\ Honest(call'[u]["drag"].shown)
             /\ pc'[u]["assign"] = "sent" => call'[u]["assign"] \in Assignments
             /\ \A s \in Tasks : pc'[u][s] = "show" => Honest(got'[u][s])
  <2>1. /\ Honest(view[u])
        /\ pc[u]["drag"] = "sent" => /\ call[u]["drag"] \in Moves
                                     /\ Honest(call[u]["drag"].shown)
        /\ pc[u]["assign"] = "sent" => call[u]["assign"] \in Assignments
        /\ \A s \in Tasks : pc[u][s] = "show" => Honest(got[u][s])
    BY DEF WindowsWell
  <2>2. "drag" \in Tasks /\ "assign" \in Tasks
    BY DEF Tasks
  <2>3. Honest(view'[u])
    BY <1>0, <1>3, <1>4, <2>1
  <2>4. pc'[u]["drag"] = "sent" => /\ call'[u]["drag"] \in Moves
                                   /\ Honest(call'[u]["drag"].shown)
    BY <1>0, <1>3, <1>5, <2>1, <2>2
  <2>5. pc'[u]["assign"] = "sent" => call'[u]["assign"] \in Assignments
    BY <1>0, <1>3, <1>5, <2>1, <2>2
  <2>6. \A s \in Tasks : pc'[u][s] = "show" => Honest(got'[u][s])
    BY <1>0, <1>3, <1>5, <2>1
  <2> QED BY <2>3, <2>4, <2>5, <2>6
<1>8. ASSUME NEW u \in Windows
      PROVE  /\ Honest(view[u])'
             /\ (pc[u]["drag"] = "sent" => /\ call[u]["drag"] \in Moves
                                           /\ Honest(call[u]["drag"].shown))'
             /\ (pc[u]["assign"] = "sent" => call[u]["assign"] \in Assignments)'
             /\ (\A s \in Tasks : pc[u][s] = "show" => Honest(got[u][s]))'
  BY <1>7 DEF Honest, Moves, Assignments
<1> QED BY <1>2, <1>6, <1>8 DEF WindowsWell, CallsByTask, Honest, Views, Labels,
                                Moves, Assignments

LEMMA Unmoved ==
  ASSUME WindowsWell, NEW w \in Windows, NEW t \in Tasks
  PROVE  /\ call = [call EXCEPT ![w][t] = call[w][t]]
         /\ got = [got EXCEPT ![w][t] = got[w][t]]
         /\ view = [view EXCEPT ![w] = view[w]]
         /\ got[w][t] \in Views /\ view[w] \in Views /\ Honest(view[w])
BY DEF WindowsWell, CallsByTask

LEMMA WindowsUnchanged == WindowsWell /\ UNCHANGED windows => WindowsWell'
<1>1. SUFFICES ASSUME WindowsWell, UNCHANGED <<view, pc, call, got>>
               PROVE  WindowsWell'
  BY DEF windows
<1>2. CallsByTask'
  BY <1>1 DEF WindowsWell, CallsByTask
<1> QED BY <1>1, <1>2 DEF WindowsWell, Honest

LEMMA DatabaseUnchanged == DatabaseWell /\ UNCHANGED db => DatabaseWell'
BY DEF DatabaseWell, db, TablesAgree, Exists

-----------------------------------------------------------------------------
(* It holds at first.                                                      *)

\* The ids in use are the first ones: their number bounds them.
LEMMA FirstIds ==
  ASSUME GroupsAssumption, NEW S \in SUBSET Ids,
         \A g, h \in Ids : h \in S /\ g < h => g \in S
  PROVE  /\ Cardinality(S) \in Buckets
         /\ \A g \in S : g <= Cardinality(S)
<1>1. MaxGroups \in Nat
  BY DEF GroupsAssumption
<1>2. /\ IsFiniteSet(Ids) /\ Cardinality(Ids) = MaxGroups
  <2>1. IsFiniteSet(1 .. MaxGroups)
        /\ Cardinality(1 .. MaxGroups)
             = IF 1 > MaxGroups THEN 0 ELSE MaxGroups - 1 + 1
    BY <1>1, FS_Interval
  <2> QED BY <1>1, <2>1 DEF Ids
<1>3. /\ IsFiniteSet(S)
      /\ Cardinality(S) \in Nat
      /\ Cardinality(S) <= MaxGroups
  BY <1>2, FS_Subset, FS_CardinalityType
<1>4. ASSUME NEW g \in S PROVE g <= Cardinality(S)
  <2>1. g \in Nat /\ 1 <= g /\ g <= MaxGroups
    BY <1>1 DEF Ids
  <2>2. (1 .. g) \subseteq S
    BY <1>1, <2>1 DEF Ids
  <2>3. IsFiniteSet(1 .. g) /\ Cardinality(1 .. g) = g
    <3>1. Cardinality(1 .. g) = IF 1 > g THEN 0 ELSE g - 1 + 1
      BY <2>1, FS_Interval
    <3>2. IsFiniteSet(1 .. g)
      BY <2>1, FS_Interval
    <3> QED BY <2>1, <3>1, <3>2
  <2>4. Cardinality(1 .. g) <= Cardinality(S)
    BY <1>3, <2>2, FS_Subset
  <2> QED BY <2>3, <2>4
<1> QED BY <1>1, <1>3, <1>4 DEF Buckets

LEMMA InitWell ==
  ASSUME GroupsAssumption, EarlierAssumption, Init
  PROVE  DatabaseWell /\ WindowsWell
<1>1. PICK t \in Earlier : names = t.names /\ group = t.group /\ sort = t.sort
  BY DEF Init
<1>2. /\ t.names \in [Ids -> Names \cup {NoName}]
      /\ TablesAgree(t.group, t.sort)
      /\ \A g, h \in Ids : t.names[h] /= NoName /\ g < h => t.names[g] /= NoName
      /\ \A p \in Projects : t.group[p] /= 0 => t.names[t.group[p]] /= NoName
  <2>1. t \in [names : [Ids -> Names \cup {NoName}],
               group : [Projects -> Buckets],
               sort : [Projects -> {NoRow} \cup
                                   [key : Buckets, at : Nat \ {0}]]]
    BY DEF EarlierAssumption
  <2>2. /\ \A g, h \in Ids : t.names[h] /= NoName /\ g < h
                                => t.names[g] /= NoName
        /\ \A p \in Projects :
              /\ t.group[p] /= 0 => t.names[t.group[p]] /= NoName
              /\ t.sort[p] /= NoRow => t.sort[p].key = t.group[p]
    BY DEF EarlierAssumption
  <2> QED BY <2>1, <2>2 DEF TablesAgree, Rows
<1>3. /\ lastId \in Buckets
      /\ \A g \in Ids : Exists(g) => g <= lastId
  <2> DEFINE S == {g \in Ids : Exists(g)}
  <2>1. \A g, h \in Ids : h \in S /\ g < h => g \in S
    BY <1>1, <1>2 DEF Exists
  <2>2. lastId = Cardinality(S)
    BY DEF Init
  <2>3. \A g \in Ids : Exists(g) => g \in S
    OBVIOUS
  <2> HIDE DEF S
  <2>4. S \in SUBSET Ids
    BY DEF S
  <2> QED BY <2>1, <2>2, <2>3, <2>4, FirstIds
<1>4. changes = 0 /\ revision = 0 /\ 0 \in 0 .. MaxChanges
  BY DEF Init, GroupsAssumption
<1>5. DatabaseWell
  BY <1>1, <1>2, <1>3, <1>4 DEF DatabaseWell, Exists
<1>6. WindowsWell
  <2>1. [seen |-> 0, revision |-> 0] \in Views /\ NothingRead \in Views
    BY DEF Views, NothingRead, Mixed, GroupsAssumption
  <2>2. /\ view = [w \in Windows |-> [seen |-> 0, revision |-> 0]]
        /\ pc = [w \in Windows |-> [k \in Tasks |-> "idle"]]
        /\ call = [w \in Windows |-> [k \in Tasks |-> NoCall]]
        /\ got = [w \in Windows |-> [k \in Tasks |-> NothingRead]]
    BY DEF Init
  <2>3. \A w \in Windows : pc[w]["drag"] = "idle" /\ pc[w]["assign"] = "idle"
                             /\ \A u \in Tasks : pc[w][u] = "idle"
    BY <2>2 DEF Tasks
  <2>4. CallsByTask
    BY <2>2 DEF CallsByTask
  <2>5. \A w \in Windows : Honest(view[w])
    BY <2>2 DEF Honest
  <2>6. /\ view \in [Windows -> Views]
        /\ got \in [Windows -> [Tasks -> Views]]
        /\ pc \in [Windows -> [Tasks -> Labels]]
    BY <2>1, <2>2 DEF Labels
  <2> QED BY <2>3, <2>4, <2>5, <2>6 DEF WindowsWell
<1> QED BY <1>5, <1>6

-----------------------------------------------------------------------------
(* Every step keeps it.                                                    *)

\* The dialogs: each is a transaction, and no window takes part in it.
LEMMA DialogsKeep ==
  ASSUME GroupsAssumption, DatabaseWell,
         \/ \E n \in Names : CreateGroup(n)
         \/ \E g \in Ids : DeleteGroup(g) \/ \E n \in Names : RenameGroup(g, n)
         \/ \E k \in Buckets, s \in Catalogs : SetGroupOrder(k, s)
  PROVE  DatabaseWell' /\ UNCHANGED windows
<1>1. /\ names \in [Ids -> Names \cup {NoName}]
      /\ lastId \in Buckets
      /\ TablesAgree(group, sort)
      /\ \A p \in Projects : group[p] /= 0 => Exists(group[p])
      /\ \A g \in Ids : Exists(g) => g <= lastId
  BY DEF DatabaseWell
<1>2. \A p \in Projects : /\ group[p] \in Buckets
                          /\ group[p] /= 0 => group[p] \in Ids
  BY <1>1 DEF TablesAgree, Buckets, Ids, GroupsAssumption
<1>3. \A n \in Names : n /= NoName
  BY DEF GroupsAssumption, NoName
<1>4. ASSUME NEW t, Commit(t)
      PROVE  /\ changes' \in 0 .. MaxChanges /\ revision' = changes'
             /\ group' = t.group /\ sort' = t.sort
  BY <1>4 DEF Commit, DatabaseWell, GroupsAssumption
<1>5. ASSUME NEW n \in Names, CreateGroup(n)
      PROVE  DatabaseWell' /\ UNCHANGED windows
  <2>1. /\ lastId < MaxGroups
        /\ names' = [names EXCEPT ![lastId + 1] = n]
        /\ lastId' = lastId + 1
        /\ UNCHANGED <<group, sort, windows>>
        /\ changes' \in 0 .. MaxChanges /\ revision' = changes'
    BY <1>4, <1>5 DEF CreateGroup
  <2>2. /\ lastId' \in Buckets /\ lastId + 1 \in Ids
        /\ \A g \in Ids : g <= lastId => g <= lastId + 1
    BY <1>1, <2>1 DEF Buckets, Ids, GroupsAssumption
  <2>3. \A g \in Ids : names'[g] = IF g = lastId + 1 THEN n ELSE names[g]
    BY <1>1, <2>1
  <2>4. names' \in [Ids -> Names \cup {NoName}]
    BY <1>1, <2>1
  <2>5. \A g \in Ids : Exists(g) => names'[g] /= NoName
    BY <1>3, <2>3 DEF Exists
  <2>6. \A g \in Ids : names'[g] /= NoName => g <= lastId'
    BY <1>1, <2>1, <2>2, <2>3 DEF Exists, Ids, Buckets
  <2>7. \A p \in Projects : group'[p] /= 0 => names'[group'[p]] /= NoName
    BY <1>1, <1>2, <2>1, <2>5
  <2> QED BY <1>1, <2>1, <2>2, <2>4, <2>6, <2>7
          DEF DatabaseWell, TablesAgree, Exists
<1>6. ASSUME NEW g \in Ids, NEW n \in Names, RenameGroup(g, n)
      PROVE  DatabaseWell' /\ UNCHANGED windows
  <2>1. /\ Exists(g)
        /\ names' = [names EXCEPT ![g] = n]
        /\ UNCHANGED <<lastId, group, sort, windows>>
        /\ changes' \in 0 .. MaxChanges /\ revision' = changes'
    BY <1>4, <1>6 DEF RenameGroup
  <2>2. \A h \in Ids : names'[h] /= NoName <=> Exists(h)
    BY <1>1, <1>3, <2>1 DEF Exists
  <2>3. names' \in [Ids -> Names \cup {NoName}]
    BY <1>1, <2>1
  <2> QED BY <1>1, <1>2, <2>1, <2>2, <2>3 DEF DatabaseWell, TablesAgree, Exists
<1>7. ASSUME NEW g \in Ids, DeleteGroup(g)
      PROVE  DatabaseWell' /\ UNCHANGED windows
  <2> DEFINE t == DeletedGroup(g)
  <2>1. /\ names' = [names EXCEPT ![g] = NoName]
        /\ UNCHANGED <<lastId, windows>>
        /\ changes' \in 0 .. MaxChanges /\ revision' = changes'
        /\ group' = t.group /\ sort' = t.sort
    BY <1>4, <1>7 DEF DeleteGroup
  <2>2. /\ TablesAgree(t.group, t.sort)
        /\ \A p \in Projects :
              t.group[p] = 0 \/ (t.group[p] = group[p] /\ group[p] /= g)
    BY <1>1, DeletedAgrees
  <2> HIDE DEF t
  <2>3. \A h \in Ids : names'[h] = IF h = g THEN NoName ELSE names[h]
    BY <1>1, <2>1
  <2>4. names' \in [Ids -> Names \cup {NoName}]
    BY <1>1, <2>1
  <2>5. \A p \in Projects : group'[p] /= 0 => names'[group'[p]] /= NoName
    BY <1>1, <1>2, <2>1, <2>2, <2>3 DEF Exists
  <2>6. \A h \in Ids : names'[h] /= NoName => h <= lastId
    BY <1>1, <2>3 DEF Exists
  <2>7. TablesAgree(group', sort')
    BY <2>1, <2>2
  <2> QED BY <1>1, <2>1, <2>4, <2>5, <2>6, <2>7
          DEF DatabaseWell, TablesAgree, Exists
<1>8. ASSUME NEW k \in Buckets, NEW s \in Catalogs, SetGroupOrder(k, s)
      PROVE  DatabaseWell' /\ UNCHANGED windows
  <2> DEFINE t == Ordered(k, s)
  <2>1. /\ ValidKey(k) /\ Commit(t) /\ UNCHANGED <<names, lastId, windows>>
    BY <1>8 DEF SetGroupOrder, OrderAllowed
  <2>2. /\ TablesAgree(t.group, t.sort)
        /\ \A p \in Projects : t.group[p] \in {k, group[p]}
    BY <1>1, OrderedAgrees
  <2> HIDE DEF t
  <2>3. \A p \in Projects : t.group[p] /= 0 => Exists(t.group[p])
    BY <1>1, <2>1, <2>2 DEF ValidKey
  <2> QED BY <2>1, <2>2, <2>3, Committed
<1> QED BY <1>5, <1>6, <1>7, <1>8

\* The windows: a step is one of one task, and at most one transaction.
LEMMA MoveAcceptedKeeps ==
  ASSUME GroupsAssumption, DatabaseWell, WindowsWell,
         NEW w \in Windows, MoveAccepted(w)
  PROVE  DatabaseWell' /\ WindowsWell'
<1> DEFINE d == call[w]["drag"]
           t == Moved(d)
<1>1. /\ pc[w]["drag"] = "sent" /\ MoveAllowed(d) /\ Commit(t)
      /\ UNCHANGED <<names, lastId, got>>
  BY DEF MoveAccepted
<1>2. d \in Moves
  BY <1>1 DEF WindowsWell
<1>3. TablesAgree(group, sort)
  BY DEF DatabaseWell
<1>4. /\ TablesAgree(t.group, t.sort)
      /\ t.group[d.project] = d.key
      /\ \A q \in Projects \ {d.project} : t.group[q] = group[q]
  <2> HIDE DEF d, t
  <2>1. t = Moved(d)
    BY DEF t
  <2> QED BY <1>1, <1>2, <1>3, <2>1, MovedAgrees
<1>5. \A p \in Projects : t.group[p] /= 0 => Exists(t.group[p])
  <2>1. ValidKey(d.key)
    BY <1>1 DEF MoveAllowed
  <2> HIDE DEF d, t
  <2> QED BY <1>4, <2>1 DEF ValidKey, DatabaseWell
<1>6. DatabaseWell'
  <2> HIDE DEF d, t
  <2> QED BY <1>1, <1>4, <1>5, Committed
<1>7. WindowsWell'
  <2> DEFINE v == [seen |-> Mixed, revision |-> revision']
  <2>1. revision' \in 0 .. MaxChanges
    BY <1>6 DEF DatabaseWell
  <2>2. v \in Views /\ Honest(v)
    BY <2>1 DEF Views, Honest, Mixed, GroupsAssumption
  <2>3. view' = [view EXCEPT ![w] = v]
    BY DEF MoveAccepted
  <2>4. /\ call' = [call EXCEPT ![w]["drag"] = NoCall]
        /\ pc' = [pc EXCEPT ![w]["drag"] = "assignments"]
    BY DEF MoveAccepted, Goto
  <2>5. "drag" \in Tasks /\ "assignments" \in Labels
    BY DEF Tasks, Labels
  <2>6. got' = [got EXCEPT ![w]["drag"] = got[w]["drag"]]
        /\ got[w]["drag"] \in Views
    BY <1>1, <2>5, Unmoved
  <2> HIDE DEF v
  <2>7. TaskStep(w, "drag", "assignments", NoCall, got[w]["drag"], v)
    BY <2>2, <2>3, <2>4, <2>5, <2>6 DEF TaskStep
  <2> QED BY <2>5, <2>7, TaskMoves
<1> QED BY <1>6, <1>7

LEMMA AssignDoneKeeps ==
  ASSUME GroupsAssumption, DatabaseWell, WindowsWell,
         NEW w \in Windows, AssignDone(w)
  PROVE  DatabaseWell' /\ WindowsWell'
<1> DEFINE a == call[w]["assign"]
           t == Assigned([group |-> group, sort |-> sort], a.project, a.group)
<1>1. /\ pc[w]["assign"] = "sent" /\ ValidKey(a.group) /\ Commit(t)
      /\ UNCHANGED <<names, lastId, view, got>>
  BY DEF AssignDone
<1>2. a.project \in Projects /\ a.group \in Buckets
  BY <1>1 DEF WindowsWell, Assignments
<1>3. TablesAgree(group, sort)
  BY DEF DatabaseWell
<1>4. /\ TablesAgree(t.group, t.sort)
      /\ t.group[a.project] = a.group
      /\ \A q \in Projects \ {a.project} : t.group[q] = group[q]
  <2>1. t = Assigned([group |-> group, sort |-> sort], a.project, a.group)
    OBVIOUS
  <2> HIDE DEF a, t
  <2> QED BY <1>2, <1>3, <2>1, AssignedAgrees
<1>5. \A p \in Projects : t.group[p] /= 0 => Exists(t.group[p])
  <2> HIDE DEF a, t
  <2> QED BY <1>1, <1>4 DEF ValidKey, DatabaseWell
<1>6. DatabaseWell'
  <2> HIDE DEF a, t
  <2> QED BY <1>1, <1>4, <1>5, Committed
<1>7. WindowsWell'
  <2>1. /\ call' = [call EXCEPT ![w]["assign"] = NoCall]
        /\ pc' = [pc EXCEPT ![w]["assign"] = "assignments"]
    BY DEF AssignDone, Goto
  <2>2. "assign" \in Tasks /\ "assignments" \in Labels
    BY DEF Tasks, Labels
  <2>3. /\ got' = [got EXCEPT ![w]["assign"] = got[w]["assign"]]
        /\ view' = [view EXCEPT ![w] = view[w]]
        /\ got[w]["assign"] \in Views /\ view[w] \in Views /\ Honest(view[w])
    BY <1>1, <2>2, Unmoved
  <2>4. TaskStep(w, "assign", "assignments", NoCall,
                 got[w]["assign"], view[w])
    BY <2>1, <2>2, <2>3 DEF TaskStep
  <2> QED BY <2>2, <2>4, TaskMoves
<1> QED BY <1>6, <1>7

LEMMA SendMoveKeeps ==
  ASSUME WindowsWell, NEW w \in Windows, NEW p \in Projects, NEW a \in Projects,
         NEW k \in Buckets, NEW after \in BOOLEAN, NEW c \in Catalogs,
         SendMove(w, p, a, k, after, c)
  PROVE  UNCHANGED db /\ WindowsWell'
<1> DEFINE x == [project |-> p, anchor |-> a, key |-> k, after |-> after,
                 catalog |-> c, shown |-> view[w]]
<1>1. /\ call' = [call EXCEPT ![w]["drag"] = x]
      /\ pc' = [pc EXCEPT ![w]["drag"] = "sent"]
      /\ UNCHANGED <<db, view, got>>
  BY DEF SendMove, Goto
<1>2. "drag" \in Tasks /\ "sent" \in Labels
  BY DEF Tasks, Labels
<1>3. /\ got' = [got EXCEPT ![w]["drag"] = got[w]["drag"]]
      /\ view' = [view EXCEPT ![w] = view[w]]
      /\ got[w]["drag"] \in Views /\ view[w] \in Views /\ Honest(view[w])
  BY <1>1, <1>2, Unmoved
<1>4. x \in Moves /\ Honest(x.shown)
  BY <1>3 DEF Moves
<1> HIDE DEF x
<1>5. TaskStep(w, "drag", "sent", x, got[w]["drag"], view[w])
  BY <1>1, <1>2, <1>3, <1>4 DEF TaskStep
<1>6. WindowsWell'
  BY <1>2, <1>5, TaskMoves
<1> QED BY <1>1, <1>6

LEMMA MoveRefusedKeeps ==
  ASSUME WindowsWell, NEW w \in Windows, MoveRefused(w)
  PROVE  UNCHANGED db /\ WindowsWell'
<1>1. /\ call' = [call EXCEPT ![w]["drag"] = NoCall]
      /\ pc' = [pc EXCEPT ![w]["drag"] = "assignments"]
      /\ UNCHANGED <<db, view, got>>
  BY DEF MoveRefused, Goto
<1>2. "drag" \in Tasks /\ "assignments" \in Labels
  BY DEF Tasks, Labels
<1>3. /\ got' = [got EXCEPT ![w]["drag"] = got[w]["drag"]]
      /\ view' = [view EXCEPT ![w] = view[w]]
      /\ got[w]["drag"] \in Views /\ view[w] \in Views /\ Honest(view[w])
  BY <1>1, <1>2, Unmoved
<1>4. TaskStep(w, "drag", "assignments", NoCall, got[w]["drag"], view[w])
  BY <1>1, <1>2, <1>3 DEF TaskStep
<1>5. WindowsWell'
  BY <1>2, <1>4, TaskMoves
<1> QED BY <1>1, <1>5

\* A change shown before it is sent: the window shows no single state.
LEMMA MixedView ==
  ASSUME WindowsWell, NEW w \in Windows,
         view' = [view EXCEPT ![w].seen = Mixed], GroupsAssumption
  PROVE  \E v \in Views : Honest(v) /\ view' = [view EXCEPT ![w] = v]
<1> DEFINE v == [seen |-> Mixed, revision |-> view[w].revision]
<1>1. view \in [Windows -> Views]
  BY DEF WindowsWell
<1>2. v \in Views /\ Honest(v)
  BY <1>1 DEF Views, Honest, Mixed, GroupsAssumption
<1>3. view' = [view EXCEPT ![w] = v]
  <2>1. [view[w] EXCEPT !.seen = Mixed] = v
    BY <1>1 DEF Views
  <2> QED BY <2>1
<1> HIDE DEF v
<1> QED BY <1>2, <1>3

LEMMA SendAssignKeeps ==
  ASSUME GroupsAssumption, WindowsWell, NEW w \in Windows, NEW p \in Projects,
         NEW g \in Buckets, SendAssign(w, p, g)
  PROVE  UNCHANGED db /\ WindowsWell'
<1> DEFINE x == [project |-> p, group |-> g]
<1>1. /\ call' = [call EXCEPT ![w]["assign"] = x]
      /\ pc' = [pc EXCEPT ![w]["assign"] = "sent"]
      /\ view' = [view EXCEPT ![w].seen = Mixed]
      /\ UNCHANGED <<db, got>>
  BY DEF SendAssign, Goto
<1>2. "assign" \in Tasks /\ "sent" \in Labels /\ x \in Assignments
  BY DEF Tasks, Labels, Assignments
<1>3. PICK v \in Views : Honest(v) /\ view' = [view EXCEPT ![w] = v]
  BY <1>1, MixedView
<1>4. /\ got' = [got EXCEPT ![w]["assign"] = got[w]["assign"]]
      /\ got[w]["assign"] \in Views
  BY <1>1, <1>2, Unmoved
<1> HIDE DEF x
<1>5. TaskStep(w, "assign", "sent", x, got[w]["assign"], v)
  BY <1>1, <1>2, <1>3, <1>4 DEF TaskStep
<1>6. WindowsWell'
  BY <1>2, <1>5, TaskMoves
<1> QED BY <1>1, <1>6

LEMMA AssignFailsKeeps ==
  ASSUME GroupsAssumption, WindowsWell, NEW w \in Windows, AssignFails(w)
  PROVE  UNCHANGED db /\ WindowsWell'
<1>1. /\ call' = [call EXCEPT ![w]["assign"] = NoCall]
      /\ pc' = [pc EXCEPT ![w]["assign"] = "idle"]
      /\ view' = [view EXCEPT ![w].seen = Mixed]
      /\ UNCHANGED <<db, got>>
  BY DEF AssignFails, Goto
<1>2. "assign" \in Tasks /\ "idle" \in Labels
  BY DEF Tasks, Labels
<1>3. PICK v \in Views : Honest(v) /\ view' = [view EXCEPT ![w] = v]
  BY <1>1, MixedView
<1>4. /\ got' = [got EXCEPT ![w]["assign"] = got[w]["assign"]]
      /\ got[w]["assign"] \in Views
  BY <1>1, <1>2, Unmoved
<1>5. TaskStep(w, "assign", "idle", NoCall, got[w]["assign"], v)
  BY <1>1, <1>2, <1>3, <1>4 DEF TaskStep
<1>6. WindowsWell'
  BY <1>2, <1>5, TaskMoves
<1> QED BY <1>1, <1>6

\* A load reads the changes committed so far, its revision with them.
LEMMA LoadsKeep ==
  ASSUME GroupsAssumption, DatabaseWell, WindowsWell,
         NEW w \in Windows, NEW t \in Tasks,
         \/ ReadAssignments(w, t) \/ ReadOrders(w, t)
         \/ ReadRevision(w, t) \/ ShowLoaded(w, t) \/ LoadFails(w, t)
  PROVE  UNCHANGED db /\ WindowsWell'
<1>1. /\ got \in [Windows -> [Tasks -> Views]] /\ view \in [Windows -> Views]
      /\ changes \in 0 .. MaxChanges /\ revision = changes
  BY DEF WindowsWell, DatabaseWell
<1>2. /\ call = [call EXCEPT ![w][t] = call[w][t]]
      /\ view = [view EXCEPT ![w] = view[w]]
      /\ got[w][t] \in Views /\ view[w] \in Views /\ Honest(view[w])
  BY Unmoved
<1>3. /\ got[w][t].seen \in Mixed .. MaxChanges
      /\ got[w][t].revision \in 0 .. MaxChanges
  BY <1>2 DEF Views
<1>4. NothingRead \in Views
  BY DEF Views, NothingRead, Mixed, GroupsAssumption
<1>5. changes \in Mixed .. MaxChanges /\ Mixed \in Mixed .. MaxChanges
  BY <1>1 DEF Mixed, GroupsAssumption
<1>6. ASSUME NEW l \in Labels \ {"sent", "show"}, NEW y \in Views,
             pc' = [pc EXCEPT ![w][t] = l],
             got' = [got EXCEPT ![w][t] = y], UNCHANGED <<db, view, call>>
      PROVE  UNCHANGED db /\ WindowsWell'
  <2>1. call' = [call EXCEPT ![w][t] = call[w][t]]
        /\ view' = [view EXCEPT ![w] = view[w]]
    BY <1>2, <1>6
  <2>2. TaskStep(w, t, l, call[w][t], y, view[w])
    BY <1>2, <1>6, <2>1 DEF TaskStep
  <2>3. WindowsWell'
    BY <2>2, TaskMoves
  <2> QED BY <1>6, <2>3
<1>7. CASE ReadAssignments(w, t)
  <2> DEFINE y == [seen |-> changes, revision |-> got[w][t].revision]
  <2>1. y \in Views
    BY <1>3, <1>5 DEF Views
  <2>2. got' = [got EXCEPT ![w][t] = y]
    <3>1. [got[w][t] EXCEPT !.seen = changes] = y
      BY <1>2 DEF Views
    <3> QED BY <3>1, <1>7 DEF ReadAssignments
  <2>3. pc' = [pc EXCEPT ![w][t] = "orders"] /\ UNCHANGED <<db, view, call>>
    BY <1>7 DEF ReadAssignments, Goto
  <2> HIDE DEF y
  <2> QED BY <1>6, <2>1, <2>2, <2>3 DEF Labels
<1>8. CASE ReadOrders(w, t)
  <2> DEFINE y == [seen |-> IF got[w][t].seen = changes THEN got[w][t].seen
                            ELSE Mixed,
                   revision |-> got[w][t].revision]
  <2>1. y \in Views
    BY <1>3, <1>5 DEF Views
  <2>2. got' = [got EXCEPT ![w][t] = y]
    <3>1. [got[w][t] EXCEPT !.seen =
             IF got[w][t].seen = changes THEN got[w][t].seen ELSE Mixed] = y
      BY SMTT(30), <1>2 DEF Views
    <3> QED BY <3>1, <1>8 DEF ReadOrders
  <2>3. pc' = [pc EXCEPT ![w][t] = "revision"] /\ UNCHANGED <<db, view, call>>
    BY <1>8 DEF ReadOrders, Goto
  <2> HIDE DEF y
  <2> QED BY <1>6, <2>1, <2>2, <2>3 DEF Labels
<1>9. CASE ReadRevision(w, t)
  <2> DEFINE y == [seen |-> IF got[w][t].seen = changes THEN got[w][t].seen
                            ELSE Mixed,
                   revision |-> revision]
  <2>1. y \in Views
    BY <1>1, <1>3, <1>5 DEF Views
  <2>2. got' = [got EXCEPT ![w][t] = y]
    BY <1>1, <1>9 DEF ReadRevision
  <2>3. /\ pc' = [pc EXCEPT ![w][t] = "show"]
        /\ UNCHANGED <<db, view>> /\ call' = [call EXCEPT ![w][t] = call[w][t]]
        /\ view' = [view EXCEPT ![w] = view[w]]
    BY <1>2, <1>9 DEF ReadRevision, Goto
  <2>4. Honest(y) /\ "show" \in Labels
    BY <1>1 DEF Honest, Labels
  <2> HIDE DEF y
  <2>5. TaskStep(w, t, "show", call[w][t], y, view[w])
    BY <1>2, <2>1, <2>2, <2>3, <2>4 DEF TaskStep
  <2>6. WindowsWell'
    BY <2>5, TaskMoves
  <2> QED BY <2>3, <2>6
<1>10. CASE ShowLoaded(w, t)
  <2>1. Honest(got[w][t]) /\ "idle" \in Labels
    BY <1>10 DEF ShowLoaded, WindowsWell, Labels
  <2>2. /\ view' = [view EXCEPT ![w] = got[w][t]]
        /\ got' = [got EXCEPT ![w][t] = NothingRead]
        /\ pc' = [pc EXCEPT ![w][t] = "idle"]
        /\ UNCHANGED <<db, call>>
    BY <1>10 DEF ShowLoaded, Goto
  <2>3. call' = [call EXCEPT ![w][t] = call[w][t]]
    BY <1>2, <2>2
  <2>4. TaskStep(w, t, "idle", call[w][t], NothingRead, got[w][t])
    BY <1>2, <1>4, <2>1, <2>2, <2>3 DEF TaskStep
  <2>5. WindowsWell'
    BY <2>4, TaskMoves
  <2> QED BY <2>2, <2>5
<1>11. CASE LoadFails(w, t)
  <2>1. /\ got' = [got EXCEPT ![w][t] = NothingRead]
        /\ pc' = [pc EXCEPT ![w][t] = "idle"]
        /\ UNCHANGED <<db, view, call>>
    BY <1>11 DEF LoadFails, Goto
  <2> QED BY <1>4, <1>6, <2>1 DEF Labels
<1> QED BY <1>7, <1>8, <1>9, <1>10, <1>11

LEMMA StepKeeps ==
  ASSUME GroupsAssumption, IInv, [Next]_vars
  PROVE  IInv'
<1>1. DatabaseWell /\ WindowsWell
  BY Halves
<1>2. ASSUME DatabaseWell', WindowsWell'
      PROVE  IInv'
  BY <1>2, Halves, PTL
<1>3. CASE \/ \E n \in Names : CreateGroup(n)
           \/ \E g \in Ids : \/ DeleteGroup(g)
                             \/ \E n \in Names : RenameGroup(g, n)
           \/ \E k \in Buckets, s \in Catalogs : SetGroupOrder(k, s)
  BY <1>1, <1>2, <1>3, DialogsKeep, WindowsUnchanged
<1>4. ASSUME NEW w \in Windows, MoveAccepted(w) \/ AssignDone(w)
      PROVE  IInv'
  BY <1>1, <1>2, <1>4, MoveAcceptedKeeps, AssignDoneKeeps
<1>5. ASSUME NEW w \in Windows,
             \/ \E p, a \in Projects, k \in Buckets, after \in BOOLEAN,
                   c \in Catalogs : SendMove(w, p, a, k, after, c)
             \/ MoveRefused(w) \/ AssignFails(w)
             \/ \E p \in Projects, g \in Buckets : SendAssign(w, p, g)
             \/ \E t \in Tasks :
                   \/ ReadAssignments(w, t) \/ ReadOrders(w, t)
                   \/ ReadRevision(w, t) \/ ShowLoaded(w, t) \/ LoadFails(w, t)
      PROVE  IInv'
  <2>1. UNCHANGED db /\ WindowsWell'
    BY <1>1, <1>5, SendMoveKeeps, MoveRefusedKeeps, SendAssignKeeps,
       AssignFailsKeeps, LoadsKeep
  <2> QED BY <1>1, <1>2, <2>1, DatabaseUnchanged
<1>6. CASE UNCHANGED vars
  BY <1>1, <1>2, <1>6, DatabaseUnchanged, WindowsUnchanged DEF vars
<1> QED BY <1>3, <1>4, <1>5, <1>6 DEF Next

-----------------------------------------------------------------------------
(* Where a move puts its project.                                          *)

\* The placement keeps the order of the others and leaves the target free.
LEMMA BesideFollowsRanks ==
  ASSUME GroupsAssumption, TablesAgree(group, sort),
         NEW d \in Moves, MoveAllowed(d),
         NEW r, r = [q \in Others(d) |-> Rank(Others(d), sort, d.catalog, q)]
  PROVE  /\ \A q \in Others(d) : r[q] \in Nat \ {0} /\ Beside(d, q) \in Nat \ {0}
         /\ Target(d) \in Nat \ {0}
         /\ Target(d) = r[d.anchor] + (IF d.after THEN 1 ELSE 0)
         /\ \A q \in Others(d) : /\ Beside(d, q) /= Target(d)
                                 /\ Beside(d, q) < Target(d) <=> r[q] < Target(d)
         /\ \A p, q \in Others(d) :
               /\ Precedes(sort, d.catalog, p, q) <=> r[p] < r[q]
               /\ Precedes(sort, d.catalog, p, q)
                     <=> Beside(d, p) < Beside(d, q)
               /\ Beside(d, p) = Beside(d, q) => p = q
               /\ r[p] = r[q] => p = q
<1>1. sort \in [Projects -> Rows]
  BY DEF TablesAgree
<1>2. d.catalog \in Catalogs /\ Others(d) \in SUBSET Listed(d.catalog)
      /\ d.anchor \in Others(d)
  BY OthersType
<1>3. \A q \in Others(d) : r[q] = Rank(Others(d), sort, d.catalog, q)
  OBVIOUS
<1>4. /\ \A q \in Others(d) : r[q] \in Nat \ {0}
      /\ \A p, q \in Others(d) : /\ Precedes(sort, d.catalog, p, q) <=> r[p] < r[q]
                                 /\ r[p] = r[q] => p = q
  <2> DEFINE O == Others(d)
             c == d.catalog
  <2>1. /\ \A p \in O : Rank(O, sort, c, p) \in Nat \ {0}
        /\ \A p, q \in O : Precedes(sort, c, p, q) <=>
                              Rank(O, sort, c, p) < Rank(O, sort, c, q)
        /\ \A p, q \in O : Rank(O, sort, c, p) = Rank(O, sort, c, q) => p = q
    <3> HIDE DEF O, c
    <3>1. c \in Catalogs /\ O \in SUBSET Listed(c)
      BY <1>2 DEF O, c
    <3> QED BY <1>1, <3>1, RanksFollowOrder
  <2> QED BY <1>3, <2>1
<1>5. Target(d) = r[d.anchor] + (IF d.after THEN 1 ELSE 0)
  BY <1>2, <1>3 DEF Target
<1>6. Target(d) \in Nat \ {0}
  BY <1>2, <1>4, <1>5
<1>7. \A q \in Others(d) : Beside(d, q) = IF r[q] >= Target(d) THEN r[q] + 1
                                          ELSE r[q]
  BY <1>3 DEF Beside
<1>8. \A q \in Others(d) : /\ Beside(d, q) \in Nat \ {0}
                           /\ Beside(d, q) /= Target(d)
                           /\ Beside(d, q) < Target(d) <=> r[q] < Target(d)
  BY <1>4, <1>6, <1>7
<1>9. ASSUME NEW p \in Others(d), NEW q \in Others(d)
      PROVE  /\ r[p] < r[q] <=> Beside(d, p) < Beside(d, q)
             /\ Beside(d, p) = Beside(d, q) => r[p] = r[q]
  <2>1. r[p] \in Nat /\ r[q] \in Nat /\ Target(d) \in Nat
    BY <1>4, <1>6
  <2>2. /\ Beside(d, p) = IF r[p] >= Target(d) THEN r[p] + 1 ELSE r[p]
        /\ Beside(d, q) = IF r[q] >= Target(d) THEN r[q] + 1 ELSE r[q]
    BY <1>7
  <2> QED BY <2>1, <2>2
<1> QED BY <1>4, <1>5, <1>6, <1>8, <1>9

\* It is shown beside its anchor.
LEMMA MovedRank ==
  ASSUME GroupsAssumption, TablesAgree(group, sort),
         NEW d \in Moves, MoveAllowed(d), NEW t, t = Moved(d)
  PROVE  Rank(Shown(t.group, d.key, d.catalog), t.sort, d.catalog, d.project)
           = Target(d)
<1> DEFINE r == [q \in Others(d) |-> Rank(Others(d), sort, d.catalog, q)]
           before == {q \in Others(d) : Precedes(sort, d.catalog, q, d.anchor)}
           now == Shown(t.group, d.key, d.catalog)
           nowBefore == {q \in now : Precedes(t.sort, d.catalog, q, d.project)}
<1>1. /\ d.project \in Projects /\ d.project \in Listed(d.catalog)
      /\ d.catalog \in Catalogs /\ d.anchor \in Others(d)
      /\ d.project \notin Others(d)
      /\ Others(d) \subseteq Projects /\ Others(d) \subseteq Listed(d.catalog)
      /\ d.after \in BOOLEAN
  BY OthersType
<1>2. /\ t.group[d.project] = d.key
      /\ \A q \in Projects \ {d.project} : t.group[q] = group[q]
      /\ t.sort[d.project] = [key |-> d.key, at |-> Target(d)]
      /\ \A q \in Others(d) :
            t.sort[q] = [key |-> d.key, at |-> Beside(d, q)]
  BY MovedAgrees
<1>3. Listed(d.catalog) \subseteq Projects
  BY <1>1, PlacesInCatalog
<1>4. now = Others(d) \cup {d.project}
  <2>1. now = {q \in Listed(d.catalog) : t.group[q] = d.key}
    BY DEF Shown, Listed
  <2>2. Others(d) = {q \in Listed(d.catalog) : group[q] = d.key} \ {d.project}
    BY DEF Others, Shown, Listed
  <2> HIDE DEF now
  <2> QED BY <1>1, <1>2, <1>3, <2>1, <2>2
<1>5. /\ \A q \in Others(d) : r[q] \in Nat \ {0} /\ Beside(d, q) \in Nat \ {0}
      /\ Target(d) \in Nat \ {0}
      /\ Target(d) = r[d.anchor] + (IF d.after THEN 1 ELSE 0)
      /\ \A q \in Others(d) : /\ Beside(d, q) /= Target(d)
                              /\ Beside(d, q) < Target(d) <=> r[q] < Target(d)
      /\ \A p, q \in Others(d) :
            /\ Precedes(sort, d.catalog, p, q) <=> r[p] < r[q]
            /\ r[p] = r[q] => p = q
  <2>1. r = [q \in Others(d) |-> Rank(Others(d), sort, d.catalog, q)]
    OBVIOUS
  <2> HIDE DEF r
  <2> QED BY <2>1, BesideFollowsRanks
<1>6. r[d.anchor] = Cardinality(before) + 1
  BY <1>1 DEF Rank
<1> HIDE DEF r
<1>7. PositionIn(d.catalog, d.project) \in Nat
  BY <1>1, PlacesInCatalog
<1>8. ~ Precedes(t.sort, d.catalog, d.project, d.project)
  <2>1. t.sort[d.project].at = Target(d) /\ t.sort[d.project] /= NoRow
    BY <1>2, <1>5 DEF NoRow
  <2>2. Target(d) \in Nat
    BY <1>5
  <2> QED BY <1>7, <2>1, <2>2 DEF Precedes
<1>9. ASSUME NEW q \in Others(d)
      PROVE  Precedes(t.sort, d.catalog, q, d.project) <=> r[q] < Target(d)
  <2>1. t.sort[q].at = Beside(d, q) /\ t.sort[d.project].at = Target(d)
    <3>1. t.sort[q] = [key |-> d.key, at |-> Beside(d, q)]
      BY <1>2
    <3>2. t.sort[d.project] = [key |-> d.key, at |-> Target(d)]
      BY <1>2
    <3> QED BY <3>1, <3>2
  <2>2. t.sort[q] /= NoRow /\ t.sort[d.project] /= NoRow
    BY <1>2, <1>5, <2>1 DEF NoRow
  <2> QED BY <1>5, <2>1, <2>2 DEF Precedes
<1>10. nowBefore = {q \in Others(d) : r[q] < Target(d)}
  BY <1>4, <1>8, <1>9
<1>11. before = {q \in Others(d) : r[q] < r[d.anchor]}
  BY <1>1, <1>5
<1>12. IsFiniteSet(before) /\ Cardinality(before) \in Nat
  <2>1. IsFiniteSet(Others(d))
    BY <1>1, FS_Subset DEF GroupsAssumption
  <2> QED BY <2>1, FS_Subset, FS_CardinalityType
<1>13. Rank(now, t.sort, d.catalog, d.project) = Cardinality(nowBefore) + 1
  BY DEF Rank
<1> HIDE DEF now, nowBefore, before
<1>14. CASE ~ d.after
  <2>1. Target(d) = r[d.anchor]
    BY <1>5, <1>14, <1>1
  <2>2. nowBefore = before
    BY <1>10, <1>11, <2>1
  <2> QED BY <1>6, <1>13, <2>1, <2>2 DEF now
<1>15. CASE d.after
  <2>1. Target(d) = r[d.anchor] + 1
    BY <1>5, <1>15
  <2>2. \A q \in Others(d) : r[q] < r[d.anchor] + 1
                                <=> r[q] < r[d.anchor] \/ q = d.anchor
    BY <1>1, <1>5
  <2>3. nowBefore = before \cup {d.anchor} /\ d.anchor \notin before
    BY <1>1, <1>5, <1>10, <1>11, <2>1, <2>2
  <2>4. Cardinality(nowBefore) = Cardinality(before) + 1
    BY <1>12, <2>3, FS_AddElement
  <2> QED BY <1>6, <1>12, <1>13, <2>1, <2>4 DEF now
<1> QED BY <1>1, <1>14, <1>15

\* The other projects stay in their buckets, in the order they had.
LEMMA MovedOthers ==
  ASSUME GroupsAssumption, TablesAgree(group, sort),
         NEW d \in Moves, MoveAllowed(d), NEW t, t = Moved(d)
  PROVE  \A k \in Buckets :
           \A p, q \in Shown(group, k, d.catalog) \ {d.project} :
              /\ t.group[p] = k
              /\ Precedes(sort, d.catalog, p, q)
                   <=> Precedes(t.sort, d.catalog, p, q)
<1> SUFFICES ASSUME NEW k \in Buckets,
                    NEW p \in Shown(group, k, d.catalog) \ {d.project},
                    NEW q \in Shown(group, k, d.catalog) \ {d.project}
             PROVE  /\ t.group[p] = k
                    /\ Precedes(sort, d.catalog, p, q)
                         <=> Precedes(t.sort, d.catalog, p, q)
  OBVIOUS
<1>1. /\ d.catalog \in Catalogs /\ \A x \in Others(d) : group[x] = d.key
  BY OthersType
<1>2. /\ p \in Listed(d.catalog) /\ q \in Listed(d.catalog)
      /\ group[p] = k /\ group[q] = k
      /\ p /= d.project /\ q /= d.project
  BY DEF Shown, Listed
<1>3. p \in Projects /\ q \in Projects
  BY <1>1, <1>2, PlacesInCatalog
<1>4. /\ \A x \in Projects \ {d.project} : t.group[x] = group[x]
      /\ \A x \in Others(d) :
            t.sort[x] = [key |-> d.key, at |-> Beside(d, x)]
      /\ \A x \in Projects \ (Others(d) \cup {d.project}) :
            t.sort[x] = sort[x]
  <2>1. \A x \in Projects \ {d.project} : t.group[x] = group[x]
    BY ZenonT(40), MovedAgrees
  <2>2. \A x \in Others(d) : t.sort[x] = [key |-> d.key, at |-> Beside(d, x)]
    BY MovedAgrees
  <2>3. \A x \in Projects \ (Others(d) \cup {d.project}) : t.sort[x] = sort[x]
    BY ZenonT(40), MovedAgrees
  <2> QED BY <2>1, <2>2, <2>3
<1>5. CASE k = d.key
  <2>1. p \in Others(d) /\ q \in Others(d)
    BY <1>5 DEF Others
  <2> DEFINE r == [x \in Others(d) |-> Rank(Others(d), sort, d.catalog, x)]
  <2>2. /\ Beside(d, p) \in Nat \ {0} /\ Beside(d, q) \in Nat \ {0}
        /\ Precedes(sort, d.catalog, p, q) <=> Beside(d, p) < Beside(d, q)
        /\ Beside(d, p) = Beside(d, q) => p = q
    <3>1. r = [x \in Others(d) |-> Rank(Others(d), sort, d.catalog, x)]
      OBVIOUS
    <3> HIDE DEF r
    <3>2. \A x \in Others(d) : r[x] \in Nat \ {0} /\ Beside(d, x) \in Nat \ {0}
      BY <3>1, BesideFollowsRanks
    <3>3. \A x, y \in Others(d) :
             /\ Precedes(sort, d.catalog, x, y) <=> r[x] < r[y]
             /\ Precedes(sort, d.catalog, x, y)
                   <=> Beside(d, x) < Beside(d, y)
             /\ Beside(d, x) = Beside(d, y) => x = y
             /\ r[x] = r[y] => x = y
      BY <3>1, BesideFollowsRanks
    <3> QED BY <2>1, <3>2, <3>3
  <2>3. t.sort[p].at = Beside(d, p) /\ t.sort[q].at = Beside(d, q)
    <3>1. t.sort[p] = [key |-> d.key, at |-> Beside(d, p)]
      BY <1>4, <2>1
    <3>2. t.sort[q] = [key |-> d.key, at |-> Beside(d, q)]
      BY <1>4, <2>1
    <3> QED BY <3>1, <3>2
  <2>4. t.sort[p] /= NoRow /\ t.sort[q] /= NoRow
    BY <2>2, <2>3 DEF NoRow
  <2>5. PositionIn(d.catalog, p) \in Nat
    BY <1>1, <1>2, PlacesInCatalog
  <2>6. Precedes(t.sort, d.catalog, p, q) <=> Beside(d, p) < Beside(d, q)
    <3>1. CASE p = q
      BY <2>2, <2>3, <2>4, <2>5, <3>1 DEF Precedes
    <3>2. CASE p /= q
      BY <2>2, <2>3, <2>4, <3>2 DEF Precedes
    <3> QED BY <3>1, <3>2
  <2> QED BY <1>2, <1>3, <1>4, <2>2, <2>6
<1>6. CASE k /= d.key
  <2>1. p \notin Others(d) /\ q \notin Others(d)
    BY <1>1, <1>2, <1>6
  <2>2. t.sort[p] = sort[p] /\ t.sort[q] = sort[q]
    BY <1>2, <1>3, <1>4, <2>1
  <2> QED BY <1>2, <1>3, <1>4, <2>2 DEF Precedes
<1> QED BY <1>5, <1>6

-----------------------------------------------------------------------------
(* The theorems.                                                           *)

\* The inductive invariant holds of every state of Groups: what its commands and
\* the windows' loads (lib.rs 2883-3430) leave behind, in every order.
THEOREM Invariant == Spec => []IInv
<1>1. Init => IInv
  BY InitWell, Halves, GroupsAssumption, EarlierAssumption
<1>2. IInv /\ [Next]_vars => IInv'
  BY StepKeeps, GroupsAssumption
<1> QED BY <1>1, <1>2, PTL DEF Spec

\* Whatever groups are created, renamed and deleted, and whatever windows
\* assign, move and order: an assignment names a group that exists and a
\* position belongs to the bucket its project is in.
THEOREM TablesConsistent == Spec => []PositionsFollowBuckets
BY Invariant, PTL DEF IInv

\* A move accepted from a window that showed one state of the tables was
\* accepted on exactly that state.
THEOREM RevisionProtects == Spec => AcceptedOnWhatWasShown
<1> DEFINE Ok == \A w \in Windows :
                   LET d == call[w]["drag"]
                   IN MoveAccepted(w) /\ d.shown.seen /= Mixed
                        => d.shown.seen = changes
<1>1. IInv /\ [Next]_vars => [Ok]_vars
  <2>1. ASSUME IInv, NEW w \in Windows, MoveAccepted(w),
               call[w]["drag"].shown.seen /= Mixed
        PROVE  call[w]["drag"].shown.seen = changes
    <3>1. /\ pc[w]["drag"] = "sent"
          /\ call[w]["drag"].shown.revision = revision
      BY <2>1 DEF MoveAccepted
    <3>2. Honest(call[w]["drag"].shown) /\ revision = changes
      BY <2>1, <3>1 DEF IInv, RevisionsAreHonest
    <3> QED BY <2>1, <3>1, <3>2 DEF Honest
  <2> QED BY <2>1
<1> QED BY <1>1, Invariant, PTL DEF Spec, AcceptedOnWhatWasShown

\* An accepted move puts its project beside its anchor, in the anchor's
\* bucket, and keeps the order of everything else.
THEOREM MovesLand == Spec => MoveLandsAtItsAnchor
<1> DEFINE Lands(w) ==
      LET d == call[w]["drag"]
          others(k) == Shown(group, k, d.catalog) \ {d.project}
      IN MoveAccepted(w) =>
           /\ group'[d.project] = d.key
           /\ Rank(Shown(group', d.key, d.catalog), sort', d.catalog, d.project)
                = Rank(others(d.key), sort, d.catalog, d.anchor)
                    + (IF d.after THEN 1 ELSE 0)
           /\ \A k \in Buckets : \A p, q \in others(k) :
                 /\ group'[p] = k
                 /\ Precedes(sort, d.catalog, p, q)
                      <=> Precedes(sort', d.catalog, p, q)
<1>1. IInv /\ [Next]_vars => [\A w \in Windows : Lands(w)]_vars
  <2>1. SUFFICES ASSUME IInv, NEW w \in Windows, MoveAccepted(w)
                 PROVE  Lands(w)
    OBVIOUS
  <2> DEFINE d == call[w]["drag"]
             t == Moved(d)
  <2>2. /\ pc[w]["drag"] = "sent" /\ MoveAllowed(d)
        /\ group' = t.group /\ sort' = t.sort
    BY <2>1 DEF MoveAccepted, Commit
  <2>3. DatabaseWell /\ WindowsWell
    BY <2>1, Halves
  <2>4. d \in Moves /\ TablesAgree(group, sort)
    BY <2>2, <2>3 DEF DatabaseWell, WindowsWell
  <2>5. t = Moved(d)
    OBVIOUS
  <2>6. Target(d) = Rank(Shown(group, d.key, d.catalog) \ {d.project}, sort,
                         d.catalog, d.anchor) + (IF d.after THEN 1 ELSE 0)
    BY DEF Target, Others
  <2> HIDE DEF d, t
  <2>7. /\ group'[d.project] = d.key
        /\ Rank(Shown(group', d.key, d.catalog), sort', d.catalog, d.project)
             = Target(d)
    BY <2>2, <2>4, <2>5, MovedAgrees, MovedRank, GroupsAssumption
  <2>8. \A k \in Buckets :
          \A p, q \in Shown(group, k, d.catalog) \ {d.project} :
             /\ t.group[p] = k
             /\ Precedes(sort, d.catalog, p, q)
                  <=> Precedes(t.sort, d.catalog, p, q)
    BY SMTT(30), <2>2, <2>4, <2>5, MovedOthers, GroupsAssumption
  <2>9. ASSUME NEW k \in Buckets,
               NEW p \in Shown(group, k, d.catalog) \ {d.project},
               NEW q \in Shown(group, k, d.catalog) \ {d.project}
        PROVE  /\ group'[p] = k
               /\ Precedes(sort, d.catalog, p, q)
                    <=> Precedes(sort', d.catalog, p, q)
    <3>1. /\ t.group[p] = k
          /\ Precedes(sort, d.catalog, p, q)
               <=> Precedes(t.sort, d.catalog, p, q)
      BY <2>8
    <3>2. Precedes(t.sort, d.catalog, p, q)
            <=> Precedes(sort', d.catalog, p, q)
      BY <2>2
    <3> QED BY <2>2, <3>1, <3>2
  <2> QED BY <2>6, <2>7, <2>9 DEF d
<1> QED BY <1>1, Invariant, PTL DEF Spec, MoveLandsAtItsAnchor

=============================================================================
