------------------------------- MODULE Groups -------------------------------
(***************************************************************************)
(* Project groups, the manual order inside a group, and the windows that   *)
(* show and change them.  The tables live in prefs.db, which several       *)
(* application processes may have open; every command that changes them is *)
(* one IMMEDIATE transaction and so one action.  A window shows a copy it  *)
(* loads with several reads, changes it before the database does           *)
(* (setProjectGroup), and sends a drag with the revision it knows.  Of what*)
(* a window shows the model keeps where it comes from: the number of       *)
(* changes committed when it was read, or Mixed.                           *)
(*                                                                         *)
(* A position is the row's rank: the code writes multiples of ten and never*)
(* a value between two of them.  Group names matter for their uniqueness   *)
(* only; group 0 is the bucket "ungrouped".                                *)
(***************************************************************************)
EXTENDS Integers, Sequences, FiniteSets

CONSTANTS Windows,      \* windows that show groups
          Projects,     \* project ids the tables may mention
          Catalogs,     \* lists of projects a window may show, recent first
          Names,        \* group names
          Earlier,      \* tables an earlier session may have left in prefs.db
          MaxGroups,    \* bound: ids AUTOINCREMENT has given out
          MaxChanges    \* bound: committed changes

ASSUME GroupsAssumption ==
    /\ MaxGroups \in Nat
    /\ MaxChanges \in Nat
    /\ "none" \notin Names
    /\ IsFiniteSet(Projects)
    /\ \A c \in Catalogs :
          /\ c \in Seq(Projects)
          /\ \A i, j \in DOMAIN c : c[i] = c[j] => i = j

VARIABLES
    names,      \* project_groups: id -> name, NoName when there is no such row
    lastId,     \* the AUTOINCREMENT counter of project_groups
    group,      \* project_group_assignments: project -> group, 0 for no row
    sort,       \* project_sort: project -> bucket and position, or NoRow
    revision,   \* prefs_revisions, scope 'groups'
    changes,    \* history: transactions that changed one of these tables
    view,       \* what each window shows, and the revision it knows
       \* drags that wait in the window's mutation queue
    pc,         \* the window's two kinds of task: a drag, an assignment
    call,       \* the command each task has sent
    got         \* what the load of each task has read so far

db      == <<names, lastId, group, sort, revision, changes>>
windows == <<view, pc, call, got>>
vars    == <<db, windows>>

NoName  == "none"
NoRow   == [key |-> -1, at |-> 0]
NoCall  == "none"
Mixed   == -1   \* shown: lists of several states, or a change not committed
NothingRead == [seen |-> Mixed, revision |-> 0]
Tasks   == {"drag", "assign"}
Ids     == 1 .. MaxGroups
Buckets == 0 .. MaxGroups
Exists(g) == names[g] /= NoName

\* Tables the commands can have left: see PositionsFollowBuckets.
ASSUME EarlierAssumption ==
    \A t \in Earlier :
        /\ t \in [names : [Ids -> Names \cup {NoName}],
                  group : [Projects -> Buckets],
                  sort : [Projects -> {NoRow} \cup
                                      [key : Buckets, at : Nat \ {0}]]]
        /\ \A g, h \in Ids : t.names[h] /= NoName /\ g < h
                                => t.names[g] /= NoName
        /\ \A p \in Projects :
              /\ t.group[p] /= 0 => t.names[t.group[p]] /= NoName
              /\ t.sort[p] /= NoRow => t.sort[p].key = t.group[p]

\* validate_group_key.
ValidKey(k) == k = 0 \/ (k \in Ids /\ Exists(k))

-----------------------------------------------------------------------------
(* The order inside a bucket.                                              *)

PositionIn(c, p) == CHOOSE i \in DOMAIN c : c[i] = p

\* Rows with a position first, by position; the others as in the catalog.
Precedes(rows, c, p, q) ==
    \/ rows[p] /= NoRow /\ rows[q] = NoRow
    \/ rows[p] /= NoRow /\ rows[q] /= NoRow /\ rows[p].at < rows[q].at
    \/ /\ rows[p].at = rows[q].at
       /\ PositionIn(c, p) < PositionIn(c, q)

Rank(S, rows, c, p) == Cardinality({q \in S : Precedes(rows, c, q, p)}) + 1

RowsOf(k) == [p \in Projects |-> IF sort[p].key = k THEN sort[p] ELSE NoRow]

MembersOf(k, rows) == {p \in Projects : rows[p].key = k}

LastPosition(k, rows) ==
    CHOOSE n \in {rows[p].at : p \in MembersOf(k, rows)} :
        \A p \in MembersOf(k, rows) : rows[p].at <= n

-----------------------------------------------------------------------------
(* The transactions.  Each gives the tables after it.                      *)

\* assign_project_to_group_tx: appended to a bucket in manual order, without
\* a position of its own in any other.
Assigned(t, p, g) ==
    [group |-> [t.group EXCEPT ![p] = g],
     sort  |-> [t.sort EXCEPT ![p] =
                  IF g /= 0 /\ MembersOf(g, t.sort) /= {}
                  THEN [key |-> g, at |-> LastPosition(g, t.sort) + 1]
                  ELSE NoRow]]

\* move_group_project_tx: the active members of the target, in the order the
\* tables give them, with the project put next to its anchor.
MoveAllowed(d) ==
    /\ ValidKey(d.key)
    /\ d.project /= d.anchor
    /\ {d.project, d.anchor} \subseteq {d.catalog[i] : i \in DOMAIN d.catalog}
    /\ group[d.anchor] = d.key

Placed(d, old) ==
    LET c      == d.catalog
        rows   == RowsOf(d.key)
        others == {q \in {c[i] : i \in DOMAIN c} \ {d.project} :
                        group[q] = d.key}
        target == Rank(others, rows, c, d.anchor)
                    + (IF d.after THEN 1 ELSE 0)
        place(q) == LET r == Rank(others, rows, c, q)
                    IN  IF r >= target THEN r + 1 ELSE r
    IN
    [q \in Projects |->
        IF q = d.project THEN [key |-> d.key, at |-> target]
        ELSE IF q \in others THEN [key |-> d.key, at |-> place(q)]
        ELSE old[q]]

\* A slip: the project is assigned after the positions were written.
MovedAssignLast(d) ==
    Assigned([group |-> group, sort |-> Placed(d, sort)], d.project, d.key)

Moved(d) ==
    [Assigned([group |-> group, sort |-> sort], d.project, d.key)
        EXCEPT !.sort = Placed(d, @)]

\* set_group_order_tx: the list must name every project that is a member.
OrderAllowed(k, s) ==
    /\ ValidKey(k)
    /\ \A i, j \in DOMAIN s : s[i] = s[j] => i = j
    /\ \A p \in Projects :
          (IF k = 0 THEN sort[p].key = 0 ELSE group[p] = k)
             => \E i \in DOMAIN s : s[i] = p

Ordered(k, s) ==
    LET listed == {s[i] : i \in DOMAIN s}
    IN
    [group |-> [p \in Projects |-> IF p \in listed THEN k ELSE group[p]],
     sort  |-> [p \in Projects |-> IF p \in listed
                                   THEN [key |-> k, at |-> PositionIn(s, p)]
                                   ELSE sort[p]]]

Commit(t) ==
    /\ changes < MaxChanges
    /\ changes' = changes + 1
    /\ revision' = revision + 1
    /\ group' = t.group
    /\ sort' = t.sort

-----------------------------------------------------------------------------
(* Commands no window of the model waits for: the group dialogs, and the   *)
(* windows of another process.                                             *)

\* create_group, with a name that is new; an existing one changes nothing.
CreateGroup(n) ==
    /\ lastId < MaxGroups
    /\ \A g \in Ids : names[g] /= n
    /\ names' = [names EXCEPT ![lastId + 1] = n]
    /\ lastId' = lastId + 1
    /\ Commit([group |-> group, sort |-> sort])
    /\ UNCHANGED windows

\* rename_group: the name is UNIQUE.
RenameGroup(g, n) ==
    /\ Exists(g)
    /\ \A h \in Ids \ {g} : names[h] /= n
    /\ names' = [names EXCEPT ![g] = n]
    /\ Commit([group |-> group, sort |-> sort])
    /\ UNCHANGED <<lastId, windows>>

\* A slip: the positions are left to the cascade, which does not know them.
DeletedGroupOnly(g) ==
    [group |-> [p \in Projects |-> IF group[p] = g THEN 0 ELSE group[p]],
     sort  |-> sort]

\* delete_group: assignments cascade, the bucket's positions are deleted.
DeletedGroup(g) ==
    [group |-> [p \in Projects |-> IF group[p] = g THEN 0 ELSE group[p]],
     sort  |-> [p \in Projects |->
                  IF sort[p].key = g THEN NoRow ELSE sort[p]]]

DeleteGroup(g) ==
    /\ Exists(g)
    /\ names' = [names EXCEPT ![g] = NoName]
    /\ Commit(DeletedGroup(g))
    /\ UNCHANGED <<lastId, windows>>

SetGroupOrder(k, s) ==
    /\ s /= <<>>
    /\ OrderAllowed(k, s)
    /\ Commit(Ordered(k, s))
    /\ UNCHANGED <<names, lastId, windows>>

-----------------------------------------------------------------------------
(* A window.                                                               *)

Init ==
    /\ \E t \in Earlier :
          /\ names = t.names
          /\ group = t.group
          /\ sort = t.sort
    /\ lastId = Cardinality({g \in Ids : Exists(g)})
    /\ revision = 0
    /\ changes = 0
    /\ view = [w \in Windows |-> [seen |-> 0, revision |-> 0]]
    /\ pc = [w \in Windows |-> [t \in Tasks |-> "idle"]]
    /\ call = [w \in Windows |-> [t \in Tasks |-> NoCall]]
    /\ got = [w \in Windows |-> [t \in Tasks |-> NothingRead]]

Goto(w, t, l) == pc' = [pc EXCEPT ![w][t] = l]

\* A drag: moves run one after the other in the window's mutation queue, so
\* catalog and revision are read when the one before has ended.  The bucket is
\* the one the window showed the anchor in when the project was dropped, which
\* an earlier move or a load may have changed since.
SendMove(w, p, a, k, after, c) ==
    /\ pc[w]["drag"] = "idle"
    /\ p /= a
    /\ call' = [call EXCEPT ![w]["drag"] =
                  [project |-> p, anchor |-> a, key |-> k, after |-> after,
                   catalog |-> c, shown |-> view[w]]]
    /\ Goto(w, "drag", "sent")
    /\ UNCHANGED <<db, view, got>>

\* A slip: the revision is not compared.
MoveAcceptedAnyway(w) ==
    LET d == call[w]["drag"]
    IN
    /\ pc[w]["drag"] = "sent"
    /\ MoveAllowed(d)
    /\ Commit(Moved(d))
    /\ view' = [view EXCEPT ![w] = [seen |-> Mixed, revision |-> revision']]
    /\ call' = [call EXCEPT ![w]["drag"] = NoCall]
    /\ Goto(w, "drag", "assignments")
    /\ UNCHANGED <<names, lastId, got>>

\* move_group_project: the revision check and the move are one transaction.
\* The reply sets the window's revision before the lists are loaded again.
MoveAccepted(w) ==
    LET d == call[w]["drag"]
    IN
    /\ pc[w]["drag"] = "sent"
    /\ d.shown.revision = revision
    /\ MoveAllowed(d)
    /\ Commit(Moved(d))
    /\ view' = [view EXCEPT ![w] = [seen |-> Mixed, revision |-> revision']]
    /\ call' = [call EXCEPT ![w]["drag"] = NoCall]
    /\ Goto(w, "drag", "assignments")
    /\ UNCHANGED <<names, lastId, got>>

\* A conflict, a refused argument, or a database that stays busy.
MoveRefused(w) ==
    /\ pc[w]["drag"] = "sent"
    /\ call' = [call EXCEPT ![w]["drag"] = NoCall]
    /\ Goto(w, "drag", "assignments")
    /\ UNCHANGED <<db, view, got>>

\* setProjectGroup is in no queue: it shows its effect and then sends it.
SendAssign(w, p, g) ==
    /\ pc[w]["assign"] = "idle"
    /\ call' = [call EXCEPT ![w]["assign"] =
                  [project |-> p, group |-> g]]
    /\ view' = [view EXCEPT ![w].seen = Mixed]
    /\ Goto(w, "assign", "sent")
    /\ UNCHANGED <<db, got>>

AssignDone(w) ==
    LET a == call[w]["assign"]
    IN
    /\ pc[w]["assign"] = "sent"
    /\ ValidKey(a.group)
    /\ Commit(Assigned([group |-> group, sort |-> sort], a.project, a.group))
    /\ call' = [call EXCEPT ![w]["assign"] = NoCall]
    /\ Goto(w, "assign", "assignments")
    /\ UNCHANGED <<names, lastId, view, got>>

\* The group is gone, or the database busy: the window takes its change back
\* and loads nothing.
AssignFails(w) ==
    /\ pc[w]["assign"] = "sent"
    /\ view' = [view EXCEPT ![w].seen = Mixed]
    /\ call' = [call EXCEPT ![w]["assign"] = NoCall]
    /\ Goto(w, "assign", "idle")
    /\ UNCHANGED <<db, got>>

(* loadGroups: separate reads, shown together when the last has answered.  *)

ReadAssignments(w, t) ==
    /\ pc[w][t] = "assignments"
    /\ got' = [got EXCEPT ![w][t].seen = changes]
    /\ Goto(w, t, "orders")
    /\ UNCHANGED <<db, view, call>>

ReadOrders(w, t) ==
    /\ pc[w][t] = "orders"
    /\ got' = [got EXCEPT ![w][t].seen = IF @ = changes THEN @ ELSE Mixed]
    /\ Goto(w, t, "revision")
    /\ UNCHANGED <<db, view, call>>

\* The revision is read last and may be newer than the lists.
ReadRevision(w, t) ==
    /\ pc[w][t] = "revision"
    /\ got' = [got EXCEPT ![w][t] =
                 [seen |-> IF @.seen = changes THEN @.seen ELSE Mixed,
                  revision |-> revision]]
    /\ Goto(w, t, "show")
    /\ UNCHANGED <<db, view, call>>

\* Of two loads the one that read first may be the one shown last.
ShowLoaded(w, t) ==
    /\ pc[w][t] = "show"
    /\ view' = [view EXCEPT ![w] = got[w][t]]
    /\ got' = [got EXCEPT ![w][t] = NothingRead]
    /\ Goto(w, t, "idle")
    /\ UNCHANGED <<db, call>>

\* A read fails: the window keeps what it shows.
LoadFails(w, t) ==
    /\ pc[w][t] \in {"assignments", "orders", "revision"}
    /\ got' = [got EXCEPT ![w][t] = NothingRead]
    /\ Goto(w, t, "idle")
    /\ UNCHANGED <<db, view, call>>

-----------------------------------------------------------------------------
Next ==
    \/ \E n \in Names : CreateGroup(n)
    \/ \E g \in Ids : DeleteGroup(g) \/ \E n \in Names : RenameGroup(g, n)
    \/ \E k \in Buckets, s \in Catalogs : SetGroupOrder(k, s)
    \/ \E w \in Windows :
          \/ \E p, a \in Projects, k \in Buckets, after \in BOOLEAN,
                c \in Catalogs : SendMove(w, p, a, k, after, c)
          \/ MoveAccepted(w) \/ MoveRefused(w)
          \/ \E p \in Projects, g \in Buckets : SendAssign(w, p, g)
          \/ AssignDone(w) \/ AssignFails(w)
          \/ \E t \in Tasks :
                \/ ReadAssignments(w, t) \/ ReadOrders(w, t)
                \/ ReadRevision(w, t) \/ ShowLoaded(w, t) \/ LoadFails(w, t)

Spec == Init /\ [][Next]_vars

-----------------------------------------------------------------------------
(* Properties.                                                             *)

Views == [seen : Mixed .. MaxChanges, revision : 0 .. MaxChanges]
Moves == [project : Projects, anchor : Projects, key : Buckets,
          after : BOOLEAN, catalog : Catalogs, shown : Views]
Assignments == [project : Projects, group : Buckets]

\* The tables and the windows' copies of them have the shape their code gives
\* them: positions start at one, an id was given out before it is used.
TypeOK ==
    /\ names \in [Ids -> Names \cup {NoName}]
    /\ lastId \in Buckets
    /\ group \in [Projects -> Buckets]
    /\ sort \in [Projects -> {NoRow} \cup [key : Buckets, at : Nat \ {0}]]
    /\ revision \in 0 .. MaxChanges
    /\ changes \in 0 .. MaxChanges
    /\ view \in [Windows -> Views]
    /\ got \in [Windows -> [Tasks -> Views]]
    /\ pc \in [Windows -> [Tasks -> {"idle", "sent", "assignments", "orders",
                                     "revision", "show"}]]
    /\ \A w \in Windows :
          /\ pc[w]["drag"] = "sent" => call[w]["drag"] \in Moves
          /\ pc[w]["assign"] = "sent" => call[w]["assign"] \in Assignments
    /\ \A g \in Ids : Exists(g) => g <= lastId

\* Groups are deleted, ids cached in windows are not: an assignment names a
\* group that exists, and a position belongs to the bucket its project is in
\* (app.js flattens list_sort_orders on the strength of that).
PositionsFollowBuckets ==
    /\ TypeOK
    /\ \A p \in Projects :
          /\ group[p] /= 0 => Exists(group[p])
          /\ sort[p] /= NoRow => sort[p].key = group[p]

\* What a window shows of bucket k of catalog c, under the assignments g.
Shown(g, k, c) == {p \in {c[i] : i \in DOMAIN c} : g[p] = k}

\* A move that is accepted shows the project exactly where it was dropped:
\* beside its anchor, in the anchor's bucket, with the other shown projects
\* of every bucket in the order they had.
MoveLandsAtItsAnchor ==
    [][\A w \in Windows :
         LET d == call[w]["drag"]
             others(k) == Shown(group, k, d.catalog) \ {d.project}
         IN MoveAccepted(w) =>
              /\ group'[d.project] = d.key
              /\ Rank(Shown(group', d.key, d.catalog), sort', d.catalog, d.project)
                   = Rank(others(d.key), sort, d.catalog, d.anchor)
                       + (IF d.after THEN 1 ELSE 0)
              /\ \A k \in Buckets : \A p, q \in others(k) :
                    /\ group'[p] = k
                    /\ Precedes(sort, d.catalog, p, q)
                         <=> Precedes(sort', d.catalog, p, q)
      ]_vars

\* The revision check does what it is for: a move sent from a window whose
\* load met no change and that has shown no unconfirmed change since is
\* accepted only on the very tables that window showed.
AcceptedOnWhatWasShown ==
    [][\A w \in Windows :
         LET d == call[w]["drag"]
         IN MoveAccepted(w) /\ d.shown.seen /= Mixed
              => d.shown.seen = changes]_vars
=============================================================================
