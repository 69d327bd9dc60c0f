-------------------------- MODULE Terminals_proofs --------------------------
(***************************************************************************)
(* The terminals, on both sides of the commands between them: first the    *)
(* tabs of the window (TerminalTabs), for every set of terminals, servers  *)
(* and sessions, then the sessions of the backend (PtySession), for every  *)
(* set of sessions and callers, every channel size and amount of output.   *)
(*                                                                         *)
(* The argument about the tabs rests on the queue of a server: of its      *)
(* terminals one at a time is being opened, so that what a request found   *)
(* when it had its turn (no tab, or one to be switched) is still so when   *)
(* its replies come, whatever else the window did in between.  What the    *)
(* theorems of the backend need in common is who has a session's reader in *)
(* hand (Handshake), how far its threads are (Stages), and who has its     *)
(* child (Ownership).                                                      *)
(***************************************************************************)
EXTENDS TerminalTabs, PtySession, FiniteSetTheorems, TLAPS

-----------------------------------------------------------------------------
(* The window's tabs, and their inductive invariant.                       *)

TabType == [open : BOOLEAN, terminal : Terminals \cup {None},
            dead : BOOLEAN, switching : BOOLEAN]

TypeOK ==
    /\ ready \in BOOLEAN
    /\ tabs \in [Sessions -> TabType]
    /\ opening \in [Terminals ->
                      [stage : {"none", "waiting", "spawn", "attach", "switch"},
                       session : Sessions \cup {None},
                       reply : {"none", "done", "failed"}]]
    /\ waiting \in [Servers -> Seq(Remotes)]
    /\ sent \subseteq Sessions
    /\ registry \in [Sessions -> {"gone", "fresh", "running"}]
    /\ shows \in [Sessions -> Terminals \cup {None}]
    /\ exits \subseteq Sessions

Active(k) == opening[k].stage \in {"spawn", "attach", "switch"}

\* Requests for remote terminals are in the queue of their server, and the one
\* that runs is the first.
TurnsAreTaken ==
    \A k \in Remotes :
       LET q == waiting[ServerOf[k]] IN
       /\ opening[k] /= NoRequest => \E i \in 1 .. Len(q) : q[i] = k
       /\ Active(k) => q[1] = k

\* The live tabs, and those that are shown, live or dead.
Live  == {p \in Sessions : Alive(p)}
Shown == {p \in Sessions : tabs[p].open}

SameServer(k, l) == k \in Remotes /\ l \in Remotes /\ ServerOf[k] = ServerOf[l]

\* A new session is as the backend made it until its tab is there.
JustSpawned(p, k) ==
    registry[p] = "fresh" /\ shows[p] = k /\ p \notin Shown \cup sent \cup exits

NoTabFor(k) ==
    \A p \in Live : tabs[p].terminal /= k /\ ~ SameServer(tabs[p].terminal, k)

\* What a request found when it had its turn.
WaitsWell(k) ==
    opening[k].stage \in {"none", "waiting"} =>
       opening[k].session = None /\ opening[k].reply = "none"

SpawnsWell(k) ==
    opening[k].stage = "spawn" =>
       /\ NoTabFor(k)
       /\ IF opening[k].reply = "done"
          THEN /\ opening[k].session \in Sessions
               /\ JustSpawned(opening[k].session, k)
          ELSE opening[k].session = None

AttachesWell(k) ==
    opening[k].stage = "attach" =>
       /\ opening[k].session \in Sessions
       /\ opening[k].session \in Live => tabs[opening[k].session].terminal = k

SwitchesWell(k) ==
    opening[k].stage = "switch" =>
       LET p == opening[k].session IN
       /\ k \in Remotes /\ p \in Sessions
       /\ p \in Live => /\ SameServer(tabs[p].terminal, k)
                        /\ opening[k].reply = "done" /\ registry[p] /= "gone" =>
                              shows[p] = k

\* A session that is being spawned or attached is in nobody else's hands.
OwnSession ==
    \A k, l \in Terminals :
       /\ k /= l /\ opening[k].session = opening[l].session
       /\ opening[k].session /= None
       => opening[k].stage = "switch" /\ opening[l].stage = "switch"

RequestsGoWell ==
    /\ \A k \in Terminals :
          WaitsWell(k) /\ SpawnsWell(k) /\ AttachesWell(k) /\ SwitchesWell(k)
    /\ OwnSession

\* No two live tabs are of one terminal or of one server.
TabsAreApart ==
    \A p, q \in Live :
       p /= q => /\ tabs[p].terminal /= tabs[q].terminal
                 /\ ~ SameServer(tabs[p].terminal, tabs[q].terminal)

\* The name of a tab is what its session shows, or a switch is coming back.
NamesAreRight ==
    \A p \in Sessions :
       /\ p \in Live => tabs[p].terminal \in Terminals
       /\ registry[p] /= "gone" => shows[p] \in Terminals
       /\ p \in Live /\ registry[p] /= "gone" /\ shows[p] /= tabs[p].terminal =>
             /\ Replied(shows[p], "switch", "done")
             /\ opening[shows[p]].session = p

\* A session has a live tab, or a kill, or the reply that will make its tab.
NoneIsForgotten ==
    \A p \in Sessions :
       /\ p \in exits => registry[p] = "gone"
       /\ p \in sent => p \notin Live
       /\ registry[p] /= "gone" =>
             \/ p \in Live \cup sent
             \/ \E k \in Terminals : /\ Replied(k, "spawn", "done")
                                     /\ opening[k].session = p
       /\ p \in Live /\ registry[p] = "gone" =>
             \/ p \in exits
             \/ \E k \in Terminals : /\ Replied(k, "attach", "failed")
                                     /\ opening[k].session = p

IInv ==
    /\ TypeOK
    /\ TurnsAreTaken
    /\ RequestsGoWell
    /\ TabsAreApart
    /\ NamesAreRight
    /\ NoneIsForgotten

-----------------------------------------------------------------------------
(* Proofs.                                                                 *)

LEMMA NoneIsNoSession == None \notin Sessions
BY DEF None, Sessions

LEMMA InitInv == TabsAssumption => (Init => IInv)
<1> SUFFICES ASSUME TabsAssumption, Init PROVE IInv
  OBVIOUS
<1>1. TypeOK
  <2>1. \A s \in Servers : <<>> \in Seq(Remotes)
    OBVIOUS
  <2> QED BY <2>1 DEF TypeOK, TabType, Init, NoTab, NoRequest
<1>2. \A k \in Remotes : k \in Terminals
  BY DEF Terminals
<1>3. TurnsAreTaken
  BY <1>2 DEF TurnsAreTaken, Init, NoRequest, Active
<1> Live = {}
  BY DEF Live, Init, Alive, NoTab
<1>4. RequestsGoWell
  BY DEF RequestsGoWell, WaitsWell, SpawnsWell, AttachesWell, SwitchesWell,
         OwnSession, Init, NoRequest
<1>5. TabsAreApart /\ NamesAreRight
  BY DEF TabsAreApart, NamesAreRight, Init
<1>6. NoneIsForgotten
  BY DEF NoneIsForgotten, Init
<1> QED BY <1>1, <1>3, <1>4, <1>5, <1>6 DEF IInv

-----------------------------------------------------------------------------
(* Every action keeps the types and the turns.                             *)

\* A request that leaves is the first of its queue, and the others move up.
LEMMA LeavingMovesUp ==
  ASSUME TabsAssumption, TypeOK, TurnsAreTaken, NEW k \in Terminals,
         opening[k] /= NoRequest, IsFirst(k) \/ Active(k), Leaves(k)
  PROVE  /\ waiting' \in [Servers -> Seq(Remotes)]
         /\ opening' = [opening EXCEPT ![k] = NoRequest]
         /\ TurnsAreTaken'
<1>1. \A l \in Remotes : ServerOf[l] \in Servers /\ l \in Terminals
  BY DEF TabsAssumption, Terminals
<1>2. waiting \in [Servers -> Seq(Remotes)]
  BY DEF TypeOK
<1>3. opening' = [opening EXCEPT ![k] = NoRequest]
  BY DEF Leaves
<1>4. \A l \in Terminals : opening'[l] = IF l = k THEN NoRequest ELSE opening[l]
  BY <1>3 DEF TypeOK
<1>5. \A l \in Remotes : /\ opening'[l] /= NoRequest => opening[l] /= NoRequest
                         /\ l /= k \/ opening'[l] = NoRequest
                         /\ Active(l)' => Active(l) /\ l /= k
  BY <1>1, <1>4 DEF Active, NoRequest
<1>6. CASE k \in Locals
  <2>1. waiting' = waiting
    BY <1>6 DEF Leaves
  <2> QED BY <1>2, <1>3, <1>5, <2>1 DEF TurnsAreTaken
<1>7. CASE k \notin Locals
  <2> DEFINE s == ServerOf[k]
             q == waiting[s]
  <2>1. k \in Remotes /\ s \in Servers
    BY <1>1, <1>7 DEF Terminals
  <2>2. q \in Seq(Remotes) /\ q /= <<>> /\ q[1] = k
    BY <1>2, <2>1 DEF TurnsAreTaken, IsFirst
  <2>3. waiting' = [waiting EXCEPT ![s] = Tail(q)]
    BY <1>7 DEF Leaves
  <2> HIDE DEF s, q
  <2>4. /\ Tail(q) \in Seq(Remotes) /\ Len(Tail(q)) = Len(q) - 1
        /\ \A i \in 1 .. Len(Tail(q)) : Tail(q)[i] = q[i + 1]
    BY <2>2
  <2>5. waiting' \in [Servers -> Seq(Remotes)]
    BY <1>2, <2>1, <2>3, <2>4
  <2>6. \A t \in Servers : waiting'[t] = IF t = s THEN Tail(q) ELSE waiting[t]
    BY <1>2, <2>3
  <2>7. ASSUME NEW l \in Remotes, opening'[l] /= NoRequest
        PROVE  \E i \in 1 .. Len(waiting'[ServerOf[l]]) :
                  waiting'[ServerOf[l]][i] = l
    <3>1. /\ l /= k
          /\ \E i \in 1 .. Len(waiting[ServerOf[l]]) : waiting[ServerOf[l]][i] = l
      BY <1>5, <2>7 DEF TurnsAreTaken
    <3>2. CASE ServerOf[l] /= s
      BY <1>1, <2>6, <3>1, <3>2
    <3>3. CASE ServerOf[l] = s
      <4>1. PICK i \in 1 .. Len(q) : q[i] = l
        BY <3>1, <3>3 DEF q
      <4>2. i - 1 \in 1 .. Len(Tail(q)) /\ Tail(q)[i - 1] = l
        BY <2>2, <2>4, <3>1, <4>1
      <4> QED BY <1>1, <2>6, <3>3, <4>2
    <3> QED BY <3>2, <3>3
  <2>8. ASSUME NEW l \in Remotes, Active(l)' PROVE waiting'[ServerOf[l]][1] = l
    <3>1. l /= k /\ waiting[ServerOf[l]][1] = l
      BY <1>5, <2>8 DEF TurnsAreTaken
    <3>2. ServerOf[l] /= s
      BY <2>2, <3>1 DEF q
    <3> QED BY <1>1, <2>6, <3>1, <3>2
  <2> QED BY <1>3, <2>5, <2>7, <2>8 DEF TurnsAreTaken
<1> QED BY <1>6, <1>7

LEMMA JoiningIsLast ==
  ASSUME TabsAssumption, TypeOK, TurnsAreTaken, NEW k \in Terminals, Open(k)
  PROVE  waiting' \in [Servers -> Seq(Remotes)] /\ TurnsAreTaken'
<1>1. \A l \in Remotes : ServerOf[l] \in Servers /\ l \in Terminals
  BY DEF TabsAssumption, Terminals
<1>2. waiting \in [Servers -> Seq(Remotes)]
  BY DEF TypeOK
<1>3. \A l \in Terminals \ {k} : opening'[l] = opening[l]
  BY DEF Open, TypeOK
<1>4. opening'[k].stage = "waiting"
  BY DEF Open, TypeOK
<1>5. CASE k \in Locals
  <2>1. waiting' = waiting /\ k \notin Remotes
    BY <1>5 DEF Open, TabsAssumption
  <2> QED BY <1>1, <1>2, <1>3, <2>1 DEF TurnsAreTaken, Active
<1>6. CASE k \notin Locals
  <2> DEFINE s == ServerOf[k]
             q == waiting[s]
  <2>1. k \in Remotes /\ s \in Servers /\ q \in Seq(Remotes)
    BY <1>1, <1>2, <1>6 DEF Terminals
  <2>2. waiting' = [waiting EXCEPT ![s] = Append(q, k)]
    BY <1>6 DEF Open
  <2> HIDE DEF s, q
  <2>3. /\ Append(q, k) \in Seq(Remotes) /\ Len(Append(q, k)) = Len(q) + 1
        /\ \A i \in 1 .. Len(q) : Append(q, k)[i] = q[i]
        /\ Append(q, k)[Len(q) + 1] = k /\ Len(q) \in Nat
    BY <2>1
  <2>4. waiting' \in [Servers -> Seq(Remotes)]
    BY <1>2, <2>1, <2>2, <2>3
  <2>5. \A t \in Servers :
           waiting'[t] = IF t = s THEN Append(q, k) ELSE waiting[t]
    BY <1>2, <2>2
  <2>6. ASSUME NEW l \in Remotes, opening'[l] /= NoRequest
        PROVE  \E i \in 1 .. Len(waiting'[ServerOf[l]]) :
                  waiting'[ServerOf[l]][i] = l
    <3>1. CASE l = k
      <4>1. waiting'[ServerOf[l]] = Append(q, k)
        BY <2>1, <2>5, <3>1 DEF s
      <4>2. Len(q) + 1 \in 1 .. Len(Append(q, k))
        BY <2>3
      <4> QED BY <2>3, <3>1, <4>1, <4>2
    <3>2. CASE l /= k
      <4>1. \E i \in 1 .. Len(waiting[ServerOf[l]]) : waiting[ServerOf[l]][i] = l
        BY <1>1, <1>3, <2>6, <3>2 DEF TurnsAreTaken
      <4>2. CASE ServerOf[l] /= s
        BY <1>1, <2>5, <4>1, <4>2
      <4>3. CASE ServerOf[l] = s
        <5>1. PICK i \in 1 .. Len(q) : q[i] = l
          BY <4>1, <4>3 DEF q
        <5>2. i \in 1 .. Len(Append(q, k)) /\ Append(q, k)[i] = l
          BY <2>3, <5>1
        <5> QED BY <1>1, <2>5, <4>3, <5>2
      <4> QED BY <4>2, <4>3
    <3> QED BY <3>1, <3>2
  <2>7. ASSUME NEW l \in Remotes, Active(l)' PROVE waiting'[ServerOf[l]][1] = l
    <3>1. l /= k /\ Active(l)
      BY <1>1, <1>3, <1>4, <2>7 DEF Active
    <3>2. /\ waiting[ServerOf[l]][1] = l
          /\ \E i \in 1 .. Len(waiting[ServerOf[l]]) : waiting[ServerOf[l]][i] = l
      BY <3>1 DEF TurnsAreTaken, Active, NoRequest
    <3>3. CASE ServerOf[l] /= s
      BY <1>1, <2>5, <3>2, <3>3
    <3>4. CASE ServerOf[l] = s
      <4>1. 1 \in 1 .. Len(q) /\ q[1] = l
        BY <2>3, <3>2, <3>4 DEF q
      <4> QED BY <1>1, <2>3, <2>5, <3>4, <4>1
    <3> QED BY <3>3, <3>4
  <2> QED BY <2>4, <2>6, <2>7 DEF TurnsAreTaken
<1> QED BY <1>5, <1>6

-----------------------------------------------------------------------------
(* What an action does to the tabs that are alive and to their names.      *)

SameTabs ==
    /\ Live' = Live /\ Shown' = Shown
    /\ \A q \in Sessions : tabs'[q].terminal = tabs[q].terminal

Loses(p) ==
    /\ Live' = Live \ {p} /\ Shown' \subseteq Shown
    /\ \A q \in Sessions \ {p} : tabs'[q].terminal = tabs[q].terminal

Gains(p, k) ==
    /\ Live' = Live \cup {p} /\ Shown' = Shown \cup {p}
    /\ \A q \in Sessions \ {p} : tabs'[q].terminal = tabs[q].terminal
    /\ tabs'[p].terminal = k

Renames(p, k) ==
    /\ Live' = Live /\ Shown' = Shown
    /\ \A q \in Sessions \ {p} : tabs'[q].terminal = tabs[q].terminal
    /\ tabs'[p].terminal = k

LEMMA TabsKept == ASSUME tabs' = tabs PROVE SameTabs
BY DEF SameTabs, Live, Shown, Alive

LEMMA SwitchingTab ==
  ASSUME tabs \in [Sessions -> TabType], NEW p \in Sessions, NEW b \in BOOLEAN,
         tabs' = [tabs EXCEPT ![p].switching = b]
  PROVE  SameTabs /\ tabs' \in [Sessions -> TabType]
<1>1. tabs' \in [Sessions -> TabType]
  BY DEF TabType
<1>2. ASSUME NEW q \in Sessions
      PROVE  /\ tabs'[q].dead = tabs[q].dead /\ tabs'[q].open = tabs[q].open
             /\ tabs'[q].terminal = tabs[q].terminal
  BY DEF TabType
<1> QED BY <1>1, <1>2 DEF SameTabs, Live, Shown, Alive

LEMMA RenamedTab ==
  ASSUME tabs \in [Sessions -> TabType], NEW p \in Sessions,
         NEW k \in Terminals, NEW b \in BOOLEAN,
         tabs' = [tabs EXCEPT ![p].switching = b, ![p].terminal = k]
  PROVE  Renames(p, k) /\ tabs' \in [Sessions -> TabType]
<1>1. tabs' \in [Sessions -> TabType]
  BY DEF TabType
<1>2. ASSUME NEW q \in Sessions
      PROVE  /\ tabs'[q].dead = tabs[q].dead /\ tabs'[q].open = tabs[q].open
             /\ tabs'[q].terminal = IF q = p THEN k ELSE tabs[q].terminal
  BY DEF TabType
<1> QED BY <1>1, <1>2 DEF Renames, Live, Shown, Alive

LEMMA DeadTab ==
  ASSUME tabs \in [Sessions -> TabType], NEW p \in Sessions,
         tabs' = [tabs EXCEPT ![p].dead = TRUE]
  PROVE  Loses(p) /\ tabs' \in [Sessions -> TabType]
<1>1. tabs' \in [Sessions -> TabType]
  BY DEF TabType
<1>2. ASSUME NEW q \in Sessions
      PROVE  /\ q /= p => tabs'[q].dead = tabs[q].dead
             /\ tabs'[q].open = tabs[q].open
             /\ tabs'[q].terminal = tabs[q].terminal
  BY DEF TabType
<1>3. tabs'[p].dead
  BY DEF TabType
<1> QED BY <1>1, <1>2, <1>3 DEF Loses, Live, Shown, Alive

LEMMA ClosedTab ==
  ASSUME tabs \in [Sessions -> TabType], NEW p \in Sessions,
         tabs' = [tabs EXCEPT ![p] = NoTab]
  PROVE  Loses(p) /\ tabs' \in [Sessions -> TabType]
<1>1. NoTab \in TabType /\ ~ NoTab.open
  BY DEF NoTab, TabType
<1>2. tabs' \in [Sessions -> TabType]
  BY <1>1
<1>3. \A q \in Sessions : tabs'[q] = IF q = p THEN NoTab ELSE tabs[q]
  OBVIOUS
<1> QED BY <1>1, <1>2, <1>3 DEF Loses, Live, Shown, Alive

LEMMA NewTab ==
  ASSUME tabs \in [Sessions -> TabType], NEW p \in Sessions,
         NEW k \in Terminals,
         tabs' = [tabs EXCEPT ![p] = [NoTab EXCEPT !.open = TRUE, !.terminal = k]]
  PROVE  Gains(p, k) /\ tabs' \in [Sessions -> TabType]
<1> DEFINE t == [NoTab EXCEPT !.open = TRUE, !.terminal = k]
<1>1. t \in TabType /\ t.open /\ ~ t.dead /\ t.terminal = k
  BY DEF NoTab, TabType
<1> HIDE DEF t
<1>2. tabs' \in [Sessions -> TabType]
  BY <1>1 DEF t
<1>3. \A q \in Sessions : tabs'[q] = IF q = p THEN t ELSE tabs[q]
  BY DEF t
<1>4. \A q \in Sessions \ {p} : tabs'[q] = tabs[q]
  BY <1>3
<1>5. tabs'[p] = t
  BY <1>3
<1>6. /\ \A q \in Sessions \ {p} : /\ tabs'[q].open = tabs[q].open
                                 /\ tabs'[q].dead = tabs[q].dead
      /\ tabs'[p].open /\ ~ tabs'[p].dead
  BY <1>1, <1>4, <1>5
<1>7. Live' = Live \cup {p} /\ Shown' = Shown \cup {p}
  BY <1>6 DEF Live, Shown, Alive
<1>8. /\ \A q \in Sessions \ {p} : tabs'[q].terminal = tabs[q].terminal
      /\ tabs'[p].terminal = k
  BY <1>1, <1>4, <1>5
<1> QED BY <1>2, <1>7, <1>8 DEF Gains

\* The session a reply is about.
LEMMA RepliesNameSessions ==
  ASSUME IInv, NEW k \in Terminals, Active(k),
         opening[k].stage = "spawn" => opening[k].reply = "done"
  PROVE  opening[k].session \in Sessions
BY DEF IInv, RequestsGoWell, SpawnsWell, AttachesWell, SwitchesWell, Active

LEMMA SpawnReturnsTab ==
  ASSUME IInv, NEW k \in Terminals, SpawnReturns(k)
  PROVE  /\ opening[k].session \in Sessions /\ Gains(opening[k].session, k)
         /\ tabs' \in [Sessions -> TabType]
<1>1. opening[k].session \in Sessions
  BY RepliesNameSessions DEF SpawnReturns, Replied, Active
<1> QED BY <1>1, NewTab DEF SpawnReturns, IInv, TypeOK

LEMMA AttachReturnsErrorTab ==
  ASSUME IInv, NEW k \in Terminals, AttachReturnsError(k), NEW p,
         p = opening[k].session
  PROVE  /\ p \in Sessions /\ Loses(p) /\ tabs' \in [Sessions -> TabType]
         /\ \/ p \in Shown /\ sent' = sent \cup {p}
            \/ p \notin Shown /\ sent' = sent
<1>1. p \in Sessions
  BY RepliesNameSessions DEF AttachReturnsError, Replied, Active
<1>2. tabs \in [Sessions -> TabType]
  BY DEF IInv, TypeOK
<1>3. CASE tabs[p].open
  BY <1>1, <1>2, <1>3, DeadTab DEF AttachReturnsError, Shown
<1>4. CASE ~ tabs[p].open
  <2>1. tabs' = tabs /\ sent' = sent /\ ~ Alive(p)
    BY <1>4 DEF AttachReturnsError, Alive
  <2>2. SameTabs
    BY <2>1, TabsKept
  <2>3. p \notin Live
    BY <2>1 DEF Live
  <2> QED BY <1>1, <1>2, <1>4, <2>1, <2>2, <2>3 DEF SameTabs, Loses, Shown
<1> QED BY <1>3, <1>4 DEF Shown

LEMMA SwitchReturnsTab ==
  ASSUME IInv, NEW k \in Terminals, SwitchReturns(k), NEW p,
         p = opening[k].session
  PROVE  /\ p \in Sessions /\ tabs' \in [Sessions -> TabType]
         /\ p \in Live => Renames(p, k)
         /\ p \notin Live => SameTabs
<1>1. p \in Sessions
  BY RepliesNameSessions DEF SwitchReturns, Replied, Active
<1>2. tabs \in [Sessions -> TabType]
  BY DEF IInv, TypeOK
<1>3. CASE Alive(p)
  <2>1. tabs' = [tabs EXCEPT ![p].switching = FALSE, ![p].terminal = k]
    BY <1>3 DEF SwitchReturns, Alive
  <2> QED BY <1>1, <1>2, <1>3, <2>1, RenamedTab DEF Live
<1>4. CASE ~ Alive(p) /\ tabs[p].open /\ tabs[p].dead
  <2>1. tabs' = [tabs EXCEPT ![p].switching = FALSE]
    BY <1>4 DEF SwitchReturns
  <2> QED BY <1>1, <1>2, <1>4, <2>1, SwitchingTab DEF Live
<1>5. CASE ~ Alive(p) /\ ~ (tabs[p].open /\ tabs[p].dead)
  <2>1. tabs' = tabs
    BY <1>5 DEF SwitchReturns
  <2> QED BY <1>1, <1>2, <1>5, <2>1, TabsKept DEF Live
<1> QED BY <1>1, <1>3, <1>4, <1>5

LEMMA SwitchReturnsErrorTab ==
  ASSUME IInv, NEW k \in Terminals, SwitchReturnsError(k)
  PROVE  /\ opening[k].session \in Sessions
         /\ SameTabs /\ tabs' \in [Sessions -> TabType]
<1>1. opening[k].session \in Sessions
  BY RepliesNameSessions DEF SwitchReturnsError, Replied, Active
<1>2. tabs \in [Sessions -> TabType]
  BY DEF IInv, TypeOK
<1>3. CASE tabs[opening[k].session].open
  BY <1>1, <1>2, <1>3, SwitchingTab DEF SwitchReturnsError
<1>4. CASE ~ tabs[opening[k].session].open
  BY <1>1, <1>2, <1>4, TabsKept DEF SwitchReturnsError
<1> QED BY <1>3, <1>4

LEMMA RunSwitchTab ==
  ASSUME IInv, NEW k \in Terminals, NEW p \in Sessions, RunSwitch(k, p)
  PROVE  SameTabs /\ tabs' \in [Sessions -> TabType]
BY SwitchingTab DEF RunSwitch, IInv, TypeOK

LEMMA CloseTab ==
  ASSUME IInv, NEW p \in Sessions, Close(p)
  PROVE  Loses(p) /\ tabs' \in [Sessions -> TabType]
BY ClosedTab DEF Close, IInv, TypeOK

LEMMA ExitArrivesTab ==
  ASSUME IInv, NEW p \in Sessions, ExitArrives(p)
  PROVE  Loses(p) /\ tabs' \in [Sessions -> TabType]
<1>1. tabs \in [Sessions -> TabType]
  BY DEF IInv, TypeOK
<1>2. CASE Alive(p)
  BY <1>1, <1>2, DeadTab DEF ExitArrives
<1>3. CASE ~ Alive(p)
  <2>1. tabs' = tabs
    BY <1>3 DEF ExitArrives
  <2>2. SameTabs
    BY <2>1, TabsKept
  <2>3. p \notin Live
    BY <1>3 DEF Live
  <2> QED BY <1>1, <1>3, <2>1, <2>2, <2>3 DEF SameTabs, Loses
<1> QED BY <1>2, <1>3

-----------------------------------------------------------------------------
(* Every action keeps the invariant: a lemma for each, or for those that do *)
(* the same.                                                               *)

LEMMA LiveIsShown == Live \subseteq Shown /\ Shown \subseteq Sessions
BY DEF Live, Shown, Alive

LEMMA NoTabIsLive ==
  ASSUME NEW k \in Terminals, TabsOf(k) = {}, Reusable(k) = {}
  PROVE  NoTabFor(k)
BY DEF NoTabFor, TabsOf, Reusable, SameServer, Live

LEMMA TurnsKept ==
  ASSUME TabsAssumption, TypeOK, TurnsAreTaken, waiting' = waiting,
         NEW k \in Terminals, opening[k].stage /= "none", IsFirst(k) \/ Active(k),
         \A l \in Terminals \ {k} : opening'[l] = opening[l]
  PROVE  TurnsAreTaken'
<1>1. \A l \in Remotes : l \in Terminals /\ ServerOf[l] \in Servers
  BY DEF TabsAssumption, Terminals
<1>2. opening[k] /= NoRequest
  BY DEF NoRequest
<1>3. ASSUME NEW l \in Remotes, opening'[l] /= NoRequest
      PROVE  \E i \in 1 .. Len(waiting[ServerOf[l]]) : waiting[ServerOf[l]][i] = l
  BY <1>1, <1>2, <1>3 DEF TurnsAreTaken
<1>4. ASSUME NEW l \in Remotes, Active(l)' PROVE waiting[ServerOf[l]][1] = l
  <2>1. CASE l = k
    BY <1>1, <1>2, <2>1 DEF TurnsAreTaken, IsFirst, TypeOK
  <2>2. CASE l /= k
    BY <1>1, <1>4, <2>2 DEF TurnsAreTaken, Active
  <2> QED BY <2>1, <2>2
<1> QED BY <1>1, <1>3, <1>4 DEF TurnsAreTaken

LEMMA OpenKeeps ==
  ASSUME TabsAssumption, IInv, NEW k \in Terminals, Open(k)
  PROVE  IInv'
<1>1. /\ \A l \in Terminals \ {k} : opening'[l] = opening[l]
      /\ opening'[k].stage = "waiting"
      /\ opening'[k].session = opening[k].session
      /\ opening'[k].reply = opening[k].reply
      /\ opening[k].session = None /\ opening[k].reply = "none"
      /\ opening[k].stage = "none"
  BY DEF Open, IInv, TypeOK, NoRequest
<1>2. registry' = registry /\ shows' = shows /\ sent' = sent /\ exits' = exits
  BY DEF Open, backend
<1>3. tabs' = tabs /\ SameTabs
  BY TabsKept DEF Open
<1>4. TypeOK'
  BY <1>1, <1>2, <1>3, JoiningIsLast DEF Open, backend, IInv, TypeOK
<1>5. TurnsAreTaken'
  BY JoiningIsLast DEF IInv
<1>6. ASSUME NEW l \in Terminals PROVE WaitsWell(l)'
  <2>1. WaitsWell(l)
    BY DEF IInv, RequestsGoWell
  <2>2. CASE l = k
    BY <2>1, <2>2, <1>1, <1>2, <1>3, NoneIsNoSession DEF WaitsWell
  <2>3. CASE l /= k
    BY <2>1, <2>3, <1>1, <1>2, <1>3, NoneIsNoSession DEF WaitsWell
  <2> QED BY <2>2, <2>3
<1>7. ASSUME NEW l \in Terminals PROVE SpawnsWell(l)'
  <2>1. SpawnsWell(l)
    BY DEF IInv, RequestsGoWell
  <2>2. CASE l = k
    BY <2>1, <2>2, <1>1, <1>2, <1>3, NoneIsNoSession, LiveIsShown
    DEF SpawnsWell, JustSpawned, NoTabFor, SameTabs
  <2>3. CASE l /= k
    BY <2>1, <2>3, <1>1, <1>2, <1>3, NoneIsNoSession, LiveIsShown
    DEF SpawnsWell, JustSpawned, NoTabFor, SameTabs
  <2> QED BY <2>2, <2>3
<1>8. ASSUME NEW l \in Terminals PROVE AttachesWell(l)'
  <2>1. AttachesWell(l)
    BY DEF IInv, RequestsGoWell
  <2>2. CASE l = k
    BY <2>1, <2>2, <1>1, <1>2, <1>3, NoneIsNoSession, LiveIsShown
    DEF AttachesWell, SameTabs
  <2>3. CASE l /= k
    BY <2>1, <2>3, <1>1, <1>2, <1>3, NoneIsNoSession, LiveIsShown
    DEF AttachesWell, SameTabs
  <2> QED BY <2>2, <2>3
<1>9. ASSUME NEW l \in Terminals PROVE SwitchesWell(l)'
  <2>1. SwitchesWell(l)
    BY DEF IInv, RequestsGoWell
  <2>2. CASE l = k
    BY <2>1, <2>2, <1>1, <1>2, <1>3, NoneIsNoSession, LiveIsShown
    DEF SwitchesWell, SameTabs
  <2>3. CASE l /= k
    BY <2>1, <2>3, <1>1, <1>2, <1>3, NoneIsNoSession, LiveIsShown
    DEF SwitchesWell, SameTabs
  <2> QED BY <2>2, <2>3
<1>10. OwnSession'
  BY <1>1, <1>2, <1>3, NoneIsNoSession DEF IInv, RequestsGoWell, OwnSession
<1>11. TabsAreApart'
  BY <1>1, <1>2, <1>3, LiveIsShown DEF IInv, TabsAreApart, SameTabs
<1>12. NamesAreRight'
  BY <1>1, <1>2, <1>3, LiveIsShown DEF IInv, NamesAreRight, Replied, SameTabs
<1>13. NoneIsForgotten'
  BY <1>1, <1>2, <1>3, LiveIsShown DEF IInv, NoneIsForgotten, Replied, SameTabs
<1> QED BY <1>4, <1>5, <1>6, <1>7, <1>8, <1>9, <1>10, <1>11, <1>12, <1>13
DEF IInv, RequestsGoWell

\* A request leaves that nobody waits for.
LEMMA LeavingKeeps ==
  ASSUME TabsAssumption, IInv, NEW k \in Terminals, Leaves(k),
         opening[k] /= NoRequest, IsFirst(k) \/ Active(k), SameTabs,
         tabs' \in [Sessions -> TabType],
         UNCHANGED <<ready, sent, backend, exits>>,
         ~ Replied(k, "spawn", "done"), ~ Replied(k, "attach", "failed"),
         ~ Replied(k, "switch", "done")
  PROVE  IInv'
<1>1. /\ \A l \in Terminals \ {k} : opening'[l] = opening[l]
      /\ opening'[k].stage = "none"
      /\ opening'[k].session = None
      /\ opening'[k].reply = "none"
  BY DEF Leaves, IInv, TypeOK, NoRequest
<1>2. registry' = registry /\ shows' = shows /\ sent' = sent /\ exits' = exits
  BY DEF backend
<1>3. TypeOK'
  BY <1>1, <1>2, LeavingMovesUp DEF backend, IInv, TypeOK, NoRequest
<1>4. TurnsAreTaken'
  BY LeavingMovesUp DEF IInv
<1>5. ASSUME NEW l \in Terminals PROVE WaitsWell(l)'
  <2>1. WaitsWell(l)
    BY DEF IInv, RequestsGoWell
  <2>2. CASE l = k
    BY <2>1, <2>2, <1>1, <1>2, NoneIsNoSession DEF WaitsWell
  <2>3. CASE l /= k
    BY <2>1, <2>3, <1>1, <1>2, NoneIsNoSession DEF WaitsWell
  <2> QED BY <2>2, <2>3
<1>6. ASSUME NEW l \in Terminals PROVE SpawnsWell(l)'
  <2>1. SpawnsWell(l)
    BY DEF IInv, RequestsGoWell
  <2>2. CASE l = k
    BY <2>1, <2>2, <1>1, <1>2, NoneIsNoSession, LiveIsShown
    DEF SpawnsWell, JustSpawned, NoTabFor, SameTabs, Replied
  <2>3. CASE l /= k
    BY <2>1, <2>3, <1>1, <1>2, NoneIsNoSession, LiveIsShown
    DEF SpawnsWell, JustSpawned, NoTabFor, SameTabs, Replied
  <2> QED BY <2>2, <2>3
<1>7. ASSUME NEW l \in Terminals PROVE AttachesWell(l)'
  <2>1. AttachesWell(l)
    BY DEF IInv, RequestsGoWell
  <2>2. CASE l = k
    BY <2>1, <2>2, <1>1, <1>2, NoneIsNoSession, LiveIsShown
    DEF AttachesWell, SameTabs, Replied
  <2>3. CASE l /= k
    BY <2>1, <2>3, <1>1, <1>2, NoneIsNoSession, LiveIsShown
    DEF AttachesWell, SameTabs, Replied
  <2> QED BY <2>2, <2>3
<1>8. ASSUME NEW l \in Terminals PROVE SwitchesWell(l)'
  <2>1. SwitchesWell(l)
    BY DEF IInv, RequestsGoWell
  <2>2. CASE l = k
    BY <2>1, <2>2, <1>1, <1>2, NoneIsNoSession, LiveIsShown
    DEF SwitchesWell, SameTabs, Replied
  <2>3. CASE l /= k
    BY <2>1, <2>3, <1>1, <1>2, NoneIsNoSession, LiveIsShown
    DEF SwitchesWell, SameTabs, Replied
  <2> QED BY <2>2, <2>3
<1>9. OwnSession'
  BY <1>1, <1>2, NoneIsNoSession DEF IInv, RequestsGoWell, OwnSession
<1>10. TabsAreApart'
  BY <1>1, <1>2, LiveIsShown DEF IInv, TabsAreApart, SameTabs
<1>11. NamesAreRight'
  BY <1>1, <1>2, LiveIsShown DEF IInv, NamesAreRight, Replied, SameTabs
<1>12. NoneIsForgotten'
  BY <1>1, <1>2, LiveIsShown DEF IInv, NoneIsForgotten, Replied, SameTabs
<1> QED BY <1>3, <1>4, <1>5, <1>6, <1>7, <1>8, <1>9, <1>10, <1>11, <1>12
DEF IInv, RequestsGoWell

\* A command fails that has changed nothing.
LEMMA FailingKeeps ==
  ASSUME TabsAssumption, IInv, NEW k \in Terminals, Active(k),
         NEW p, p = opening[k].session,
         opening[k].reply = "none", Replies(k, p, "failed"),
         UNCHANGED <<ready, tabs, waiting, sent, backend, exits>>
  PROVE  IInv'
<1>1. /\ \A l \in Terminals \ {k} : opening'[l] = opening[l]
      /\ opening'[k].stage = opening[k].stage
      /\ opening'[k].session = opening[k].session
      /\ opening'[k].reply = "failed"
  BY DEF Replies, IInv, TypeOK
<1>2. /\ registry' = registry /\ shows' = shows /\ sent' = sent
      /\ exits' = exits /\ SameTabs
  BY TabsKept DEF backend
<1>3. TypeOK'
  BY DEF Replies, backend, IInv, TypeOK
<1>4. TurnsAreTaken'
  BY <1>1, <1>2, TurnsKept DEF IInv, Active
<1>5. ASSUME NEW l \in Terminals PROVE WaitsWell(l)'
  <2>1. WaitsWell(l)
    BY DEF IInv, RequestsGoWell
  <2>2. CASE l = k
    BY <2>1, <2>2, <1>1, <1>2, NoneIsNoSession DEF WaitsWell, Active
  <2>3. CASE l /= k
    BY <2>1, <2>3, <1>1, <1>2, NoneIsNoSession DEF WaitsWell, Active
  <2> QED BY <2>2, <2>3
<1>6. ASSUME NEW l \in Terminals PROVE SpawnsWell(l)'
  <2>1. SpawnsWell(l)
    BY DEF IInv, RequestsGoWell
  <2>2. CASE l = k
    BY <2>1, <2>2, <1>1, <1>2, NoneIsNoSession, LiveIsShown
    DEF SpawnsWell, JustSpawned, NoTabFor, SameTabs
  <2>3. CASE l /= k
    BY <2>1, <2>3, <1>1, <1>2, NoneIsNoSession, LiveIsShown
    DEF SpawnsWell, JustSpawned, NoTabFor, SameTabs
  <2> QED BY <2>2, <2>3
<1>7. ASSUME NEW l \in Terminals PROVE AttachesWell(l)'
  <2>1. AttachesWell(l)
    BY DEF IInv, RequestsGoWell
  <2>2. CASE l = k
    BY <2>1, <2>2, <1>1, <1>2, NoneIsNoSession, LiveIsShown
    DEF AttachesWell, SameTabs
  <2>3. CASE l /= k
    BY <2>1, <2>3, <1>1, <1>2, NoneIsNoSession, LiveIsShown
    DEF AttachesWell, SameTabs
  <2> QED BY <2>2, <2>3
<1>8. ASSUME NEW l \in Terminals PROVE SwitchesWell(l)'
  <2>1. SwitchesWell(l)
    BY DEF IInv, RequestsGoWell
  <2>2. CASE l = k
    BY <2>1, <2>2, <1>1, <1>2, NoneIsNoSession, LiveIsShown
    DEF SwitchesWell, SameTabs
  <2>3. CASE l /= k
    BY <2>1, <2>3, <1>1, <1>2, NoneIsNoSession, LiveIsShown
    DEF SwitchesWell, SameTabs
  <2> QED BY <2>2, <2>3
<1>9. OwnSession'
  BY <1>1, <1>2, NoneIsNoSession DEF IInv, RequestsGoWell, OwnSession
<1>10. TabsAreApart'
  BY <1>1, <1>2, LiveIsShown DEF IInv, TabsAreApart, SameTabs
<1>11. NamesAreRight'
  BY <1>1, <1>2, LiveIsShown DEF IInv, NamesAreRight, Replied, SameTabs
<1>12. NoneIsForgotten'
  BY <1>1, <1>2, LiveIsShown DEF IInv, NoneIsForgotten, Replied, SameTabs
<1> QED BY <1>3, <1>4, <1>5, <1>6, <1>7, <1>8, <1>9, <1>10, <1>11, <1>12
DEF IInv, RequestsGoWell

LEMMA RunSwitchKeeps ==
  ASSUME TabsAssumption, IInv, NEW k \in Terminals, NEW p \in Sessions,
         RunSwitch(k, p)
  PROVE  IInv'
<1>1. /\ \A l \in Terminals \ {k} : opening'[l] = opening[l]
      /\ opening'[k].stage = "switch"
      /\ opening'[k].session = p
      /\ opening'[k].reply = "none"
      /\ opening[k].stage = "waiting" /\ opening[k].session = None
  BY DEF RunSwitch, Sends, HasTurn, IInv, TypeOK, RequestsGoWell, WaitsWell
<1>2. registry' = registry /\ shows' = shows /\ sent' = sent /\ exits' = exits
  BY DEF RunSwitch, backend
<1>3. SameTabs /\ tabs' \in [Sessions -> TabType]
  BY RunSwitchTab
<1>4. waiting' = waiting /\ IsFirst(k)
  BY DEF RunSwitch, Sends, HasTurn
<1>5. k \in Remotes /\ p \in Live /\ SameServer(tabs[p].terminal, k)
  BY DEF RunSwitch, Reusable, Live, SameServer
<1>6. \A l \in Terminals : opening[l].session = p => opening[l].stage = "switch"
  <2>1. ASSUME NEW l \in Terminals, opening[l].session = p,
               opening[l].stage = "attach"
        PROVE  FALSE
    <3>1. SameServer(l, k)
      BY <1>5, <2>1 DEF IInv, RequestsGoWell, AttachesWell
    <3>2. waiting[ServerOf[k]][1] = l
      BY <2>1, <3>1 DEF IInv, TurnsAreTaken, Active, SameServer
    <3>3. waiting[ServerOf[k]] \in Seq(Remotes) /\ waiting[ServerOf[k]] /= <<>>
      BY <1>1, <1>5 DEF IInv, TurnsAreTaken, TypeOK, NoRequest, TabsAssumption
    <3> QED BY <1>1, <1>4, <1>5, <2>1, <3>2, <3>3 DEF IsFirst
  <2> QED BY <2>1, <1>5, NoneIsNoSession, LiveIsShown
         DEF IInv, RequestsGoWell, WaitsWell, SpawnsWell, JustSpawned, TypeOK
<1>7. TypeOK'
  BY <1>1, <1>2, <1>3, <1>4, <1>5, <1>6
  DEF IInv, TypeOK, RunSwitch, Sends, backend
<1>8. TurnsAreTaken'
  BY <1>1, <1>2, <1>3, <1>4, <1>5, <1>6, TurnsKept DEF IInv
<1>9. ASSUME NEW l \in Terminals PROVE WaitsWell(l)'
  <2>1. WaitsWell(l)
    BY DEF IInv, RequestsGoWell
  <2>2. CASE l = k
    BY <2>1, <2>2, <1>1, <1>2, <1>3, <1>4, <1>5, <1>6, NoneIsNoSession
    DEF WaitsWell
  <2>3. CASE l /= k
    BY <2>1, <2>3, <1>1, <1>2, <1>3, <1>4, <1>5, <1>6, NoneIsNoSession
    DEF WaitsWell
  <2> QED BY <2>2, <2>3
<1>10. ASSUME NEW l \in Terminals PROVE SpawnsWell(l)'
  <2>1. SpawnsWell(l)
    BY DEF IInv, RequestsGoWell
  <2>2. CASE l = k
    BY <2>1, <2>2, <1>1, <1>2, <1>3, <1>4, <1>5, <1>6, NoneIsNoSession,
       LiveIsShown DEF SpawnsWell, JustSpawned, NoTabFor, SameTabs
  <2>3. CASE l /= k
    BY <2>1, <2>3, <1>1, <1>2, <1>3, <1>4, <1>5, <1>6, NoneIsNoSession,
       LiveIsShown DEF SpawnsWell, JustSpawned, NoTabFor, SameTabs
  <2> QED BY <2>2, <2>3
<1>11. ASSUME NEW l \in Terminals PROVE AttachesWell(l)'
  <2>1. AttachesWell(l)
    BY DEF IInv, RequestsGoWell
  <2>2. CASE l = k
    BY <2>1, <2>2, <1>1, <1>2, <1>3, <1>4, <1>5, <1>6, NoneIsNoSession,
       LiveIsShown DEF AttachesWell, SameTabs
  <2>3. CASE l /= k
    BY <2>1, <2>3, <1>1, <1>2, <1>3, <1>4, <1>5, <1>6, NoneIsNoSession,
       LiveIsShown DEF AttachesWell, SameTabs
  <2> QED BY <2>2, <2>3
<1>12. ASSUME NEW l \in Terminals PROVE SwitchesWell(l)'
  <2>1. SwitchesWell(l)
    BY DEF IInv, RequestsGoWell
  <2>2. CASE l = k
    BY <2>1, <2>2, <1>1, <1>2, <1>3, <1>4, <1>5, <1>6, NoneIsNoSession,
       LiveIsShown DEF SwitchesWell, SameTabs
  <2>3. CASE l /= k
    BY <2>1, <2>3, <1>1, <1>2, <1>3, <1>4, <1>5, <1>6, NoneIsNoSession,
       LiveIsShown DEF SwitchesWell, SameTabs
  <2> QED BY <2>2, <2>3
<1>13. OwnSession'
  BY <1>1, <1>2, <1>3, <1>4, <1>5, <1>6, NoneIsNoSession
  DEF IInv, RequestsGoWell, OwnSession
<1>14. TabsAreApart'
  BY <1>1, <1>2, <1>3, <1>4, <1>5, <1>6, LiveIsShown
  DEF IInv, TabsAreApart, SameTabs
<1>15. NamesAreRight'
  BY <1>1, <1>2, <1>3, <1>4, <1>5, <1>6, LiveIsShown
  DEF IInv, NamesAreRight, Replied, SameTabs
<1>16. NoneIsForgotten'
  BY <1>1, <1>2, <1>3, <1>4, <1>5, <1>6, LiveIsShown
  DEF IInv, NoneIsForgotten, Replied, SameTabs
<1> QED BY <1>7, <1>8, <1>9, <1>10, <1>11, <1>12, <1>13, <1>14, <1>15, <1>16
DEF IInv, RequestsGoWell

LEMMA RunSpawnKeeps ==
  ASSUME TabsAssumption, IInv, NEW k \in Terminals, RunSpawn(k)
  PROVE  IInv'
<1>1. /\ \A l \in Terminals \ {k} : opening'[l] = opening[l]
      /\ opening'[k].stage = "spawn"
      /\ opening'[k].session = None
      /\ opening'[k].reply = "none"
      /\ opening[k].stage = "waiting" /\ opening[k].session = None
  BY DEF RunSpawn, Sends, HasTurn, IInv, TypeOK, RequestsGoWell, WaitsWell
<1>2. /\ registry' = registry /\ shows' = shows /\ sent' = sent
      /\ exits' = exits /\ SameTabs
  BY TabsKept DEF RunSpawn, backend
<1>3. waiting' = waiting /\ IsFirst(k)
  BY DEF RunSpawn, Sends, HasTurn
<1>4. NoTabFor(k)
  BY NoTabIsLive DEF RunSpawn
<1>5. TypeOK'
  BY <1>1, <1>2, <1>3, <1>4 DEF IInv, TypeOK, RunSpawn, Sends, backend
<1>6. TurnsAreTaken'
  BY <1>1, <1>2, <1>3, <1>4, TurnsKept DEF IInv
<1>7. ASSUME NEW l \in Terminals PROVE WaitsWell(l)'
  <2>1. WaitsWell(l)
    BY DEF IInv, RequestsGoWell
  <2>2. CASE l = k
    BY <2>1, <2>2, <1>1, <1>2, <1>3, <1>4, NoneIsNoSession DEF WaitsWell
  <2>3. CASE l /= k
    BY <2>1, <2>3, <1>1, <1>2, <1>3, <1>4, NoneIsNoSession DEF WaitsWell
  <2> QED BY <2>2, <2>3
<1>8. ASSUME NEW l \in Terminals PROVE SpawnsWell(l)'
  <2>1. SpawnsWell(l)
    BY DEF IInv, RequestsGoWell
  <2>2. CASE l = k
    BY <2>1, <2>2, <1>1, <1>2, <1>3, <1>4, NoneIsNoSession, LiveIsShown
    DEF SpawnsWell, JustSpawned, NoTabFor, SameTabs
  <2>3. CASE l /= k
    BY <2>1, <2>3, <1>1, <1>2, <1>3, <1>4, NoneIsNoSession, LiveIsShown
    DEF SpawnsWell, JustSpawned, NoTabFor, SameTabs
  <2> QED BY <2>2, <2>3
<1>9. ASSUME NEW l \in Terminals PROVE AttachesWell(l)'
  <2>1. AttachesWell(l)
    BY DEF IInv, RequestsGoWell
  <2>2. CASE l = k
    BY <2>1, <2>2, <1>1, <1>2, <1>3, <1>4, NoneIsNoSession, LiveIsShown
    DEF AttachesWell, SameTabs
  <2>3. CASE l /= k
    BY <2>1, <2>3, <1>1, <1>2, <1>3, <1>4, NoneIsNoSession, LiveIsShown
    DEF AttachesWell, SameTabs
  <2> QED BY <2>2, <2>3
<1>10. ASSUME NEW l \in Terminals PROVE SwitchesWell(l)'
  <2>1. SwitchesWell(l)
    BY DEF IInv, RequestsGoWell
  <2>2. CASE l = k
    BY <2>1, <2>2, <1>1, <1>2, <1>3, <1>4, NoneIsNoSession, LiveIsShown
    DEF SwitchesWell, SameTabs
  <2>3. CASE l /= k
    BY <2>1, <2>3, <1>1, <1>2, <1>3, <1>4, NoneIsNoSession, LiveIsShown
    DEF SwitchesWell, SameTabs
  <2> QED BY <2>2, <2>3
<1>11. OwnSession'
  BY <1>1, <1>2, <1>3, <1>4, NoneIsNoSession
  DEF IInv, RequestsGoWell, OwnSession
<1>12. TabsAreApart'
  BY <1>1, <1>2, <1>3, <1>4, LiveIsShown DEF IInv, TabsAreApart, SameTabs
<1>13. NamesAreRight'
  BY <1>1, <1>2, <1>3, <1>4, LiveIsShown
  DEF IInv, NamesAreRight, Replied, SameTabs
<1>14. NoneIsForgotten'
  BY <1>1, <1>2, <1>3, <1>4, LiveIsShown
  DEF IInv, NoneIsForgotten, Replied, SameTabs
<1> QED BY <1>5, <1>6, <1>7, <1>8, <1>9, <1>10, <1>11, <1>12, <1>13, <1>14
DEF IInv, RequestsGoWell

LEMMA SpawnedKeeps ==
  ASSUME TabsAssumption, IInv, NEW k \in Terminals, NEW p \in Sessions,
         Spawned(k, p)
  PROVE  IInv'
<1>1. /\ \A l \in Terminals \ {k} : opening'[l] = opening[l]
      /\ opening'[k].stage = "spawn"
      /\ opening'[k].session = p
      /\ opening'[k].reply = "done"
      /\ opening[k].stage = "spawn" /\ opening[k].reply = "none"
  BY DEF Spawned, Replies, Pending, IInv, TypeOK
<1>2. /\ \A q \in Sessions \ {p} :
            registry'[q] = registry[q] /\ shows'[q] = shows[q]
      /\ registry'[p] = "fresh" /\ shows'[p] = k
      /\ sent' = sent /\ exits' = exits /\ SameTabs
  BY TabsKept DEF Spawned, IInv, TypeOK
<1>3. /\ p \notin Shown \cup sent \cup exits
      /\ \A l \in Terminals : opening[l].session /= p
  BY DEF Spawned, Unknown, InHand, Shown
<1>4. TypeOK'
  BY <1>1, <1>2, <1>3 DEF IInv, TypeOK, Spawned, Replies
<1>5. TurnsAreTaken'
  BY <1>1, <1>2, <1>3, TurnsKept DEF IInv, Active, Spawned
<1>6. ASSUME NEW l \in Terminals PROVE WaitsWell(l)'
  <2>1. WaitsWell(l)
    BY DEF IInv, RequestsGoWell
  <2>2. CASE l = k
    BY <2>1, <2>2, <1>1, <1>2, <1>3, NoneIsNoSession DEF WaitsWell
  <2>3. CASE l /= k
    BY <2>1, <2>3, <1>1, <1>2, <1>3, NoneIsNoSession DEF WaitsWell
  <2> QED BY <2>2, <2>3
<1>7. ASSUME NEW l \in Terminals PROVE SpawnsWell(l)'
  <2>1. SpawnsWell(l)
    BY DEF IInv, RequestsGoWell
  <2>2. CASE l = k
    BY <2>1, <2>2, <1>1, <1>2, <1>3, NoneIsNoSession, LiveIsShown
    DEF SpawnsWell, JustSpawned, NoTabFor, SameTabs
  <2>3. CASE l /= k
    BY <2>1, <2>3, <1>1, <1>2, <1>3, NoneIsNoSession, LiveIsShown
    DEF SpawnsWell, JustSpawned, NoTabFor, SameTabs
  <2> QED BY <2>2, <2>3
<1>8. ASSUME NEW l \in Terminals PROVE AttachesWell(l)'
  <2>1. AttachesWell(l)
    BY DEF IInv, RequestsGoWell
  <2>2. CASE l = k
    BY <2>1, <2>2, <1>1, <1>2, <1>3, NoneIsNoSession, LiveIsShown
    DEF AttachesWell, SameTabs
  <2>3. CASE l /= k
    BY <2>1, <2>3, <1>1, <1>2, <1>3, NoneIsNoSession, LiveIsShown
    DEF AttachesWell, SameTabs
  <2> QED BY <2>2, <2>3
<1>9. ASSUME NEW l \in Terminals PROVE SwitchesWell(l)'
  <2>1. SwitchesWell(l)
    BY DEF IInv, RequestsGoWell
  <2>2. CASE l = k
    BY <2>1, <2>2, <1>1, <1>2, <1>3, NoneIsNoSession, LiveIsShown
    DEF SwitchesWell, SameTabs
  <2>3. CASE l /= k
    BY <2>1, <2>3, <1>1, <1>2, <1>3, NoneIsNoSession, LiveIsShown
    DEF SwitchesWell, SameTabs
  <2> QED BY <2>2, <2>3
<1>10. OwnSession'
  BY <1>1, <1>2, <1>3, NoneIsNoSession DEF IInv, RequestsGoWell, OwnSession
<1>11. TabsAreApart'
  BY <1>1, <1>2, <1>3, LiveIsShown DEF IInv, TabsAreApart, SameTabs
<1>12. NamesAreRight'
  BY <1>1, <1>2, <1>3, LiveIsShown DEF IInv, NamesAreRight, Replied, SameTabs
<1>13. NoneIsForgotten'
  BY <1>1, <1>2, <1>3, LiveIsShown DEF IInv, NoneIsForgotten, Replied, SameTabs
<1> QED BY <1>4, <1>5, <1>6, <1>7, <1>8, <1>9, <1>10, <1>11, <1>12, <1>13
DEF IInv, RequestsGoWell

LEMMA AttachedKeeps ==
  ASSUME TabsAssumption, IInv, NEW k \in Terminals, NEW p,
         p = opening[k].session, Attached(k)
  PROVE  IInv'
<1>1. /\ \A l \in Terminals \ {k} : opening'[l] = opening[l]
      /\ opening'[k].stage = "attach"
      /\ opening'[k].session = p
      /\ opening'[k].reply = "done"
      /\ opening[k].stage = "attach" /\ opening[k].reply = "none"
  BY DEF Attached, Replies, Pending, IInv, TypeOK
<1>2. p \in Sessions
  BY <1>1 DEF IInv, RequestsGoWell, AttachesWell
<1>3. /\ \A q \in Sessions \ {p} : registry'[q] = registry[q]
      /\ registry[p] = "fresh" /\ registry'[p] = "running"
      /\ shows' = shows /\ sent' = sent /\ exits' = exits /\ SameTabs
  BY <1>2, TabsKept DEF Attached, IInv, TypeOK
<1>4. \A l \in Terminals \ {k} : opening[l].session /= p
  BY <1>1, <1>2, NoneIsNoSession DEF IInv, RequestsGoWell, OwnSession
<1>5. TypeOK'
  BY <1>1, <1>2, <1>3, <1>4 DEF IInv, TypeOK, Attached, Replies
<1>6. TurnsAreTaken'
  BY <1>1, <1>2, <1>3, <1>4, TurnsKept DEF IInv, Active, Attached
<1>7. ASSUME NEW l \in Terminals PROVE WaitsWell(l)'
  <2>1. WaitsWell(l)
    BY DEF IInv, RequestsGoWell
  <2>2. CASE l = k
    BY <2>1, <2>2, <1>1, <1>2, <1>3, <1>4, NoneIsNoSession DEF WaitsWell
  <2>3. CASE l /= k
    BY <2>1, <2>3, <1>1, <1>2, <1>3, <1>4, NoneIsNoSession DEF WaitsWell
  <2> QED BY <2>2, <2>3
<1>8. ASSUME NEW l \in Terminals PROVE SpawnsWell(l)'
  <2>1. SpawnsWell(l)
    BY DEF IInv, RequestsGoWell
  <2>2. CASE l = k
    BY <2>1, <2>2, <1>1, <1>2, <1>3, <1>4, NoneIsNoSession, LiveIsShown
    DEF SpawnsWell, JustSpawned, NoTabFor, SameTabs, OwnSession
  <2>3. CASE l /= k
    BY <2>1, <2>3, <1>1, <1>2, <1>3, <1>4, NoneIsNoSession, LiveIsShown
    DEF SpawnsWell, JustSpawned, NoTabFor, SameTabs, OwnSession
  <2> QED BY <2>2, <2>3
<1>9. ASSUME NEW l \in Terminals PROVE AttachesWell(l)'
  <2>1. AttachesWell(l)
    BY DEF IInv, RequestsGoWell
  <2>2. CASE l = k
    BY <2>1, <2>2, <1>1, <1>2, <1>3, <1>4, NoneIsNoSession, LiveIsShown
    DEF AttachesWell, SameTabs
  <2>3. CASE l /= k
    BY <2>1, <2>3, <1>1, <1>2, <1>3, <1>4, NoneIsNoSession, LiveIsShown
    DEF AttachesWell, SameTabs
  <2> QED BY <2>2, <2>3
<1>10. ASSUME NEW l \in Terminals PROVE SwitchesWell(l)'
  <2>1. SwitchesWell(l)
    BY DEF IInv, RequestsGoWell
  <2>2. CASE l = k
    BY <2>1, <2>2, <1>1, <1>2, <1>3, <1>4, NoneIsNoSession, LiveIsShown
    DEF SwitchesWell, SameTabs
  <2>3. CASE l /= k
    BY <2>1, <2>3, <1>1, <1>2, <1>3, <1>4, NoneIsNoSession, LiveIsShown
    DEF SwitchesWell, SameTabs
  <2> QED BY <2>2, <2>3
<1>11. OwnSession'
  BY <1>1, <1>2, <1>3, <1>4, NoneIsNoSession
  DEF IInv, RequestsGoWell, OwnSession
<1>12. TabsAreApart'
  BY <1>1, <1>2, <1>3, <1>4, LiveIsShown DEF IInv, TabsAreApart, SameTabs
<1>13. NamesAreRight'
  BY <1>1, <1>2, <1>3, <1>4, LiveIsShown
  DEF IInv, NamesAreRight, Replied, SameTabs
<1>14. NoneIsForgotten'
  BY <1>1, <1>2, <1>3, <1>4, LiveIsShown
  DEF IInv, NoneIsForgotten, Replied, SameTabs
<1> QED BY <1>5, <1>6, <1>7, <1>8, <1>9, <1>10, <1>11, <1>12, <1>13, <1>14
DEF IInv, RequestsGoWell

LEMMA AttachFailsKeeps ==
  ASSUME TabsAssumption, IInv, NEW k \in Terminals, NEW p,
         p = opening[k].session, AttachFails(k)
  PROVE  IInv'
<1>1. /\ \A l \in Terminals \ {k} : opening'[l] = opening[l]
      /\ opening'[k].stage = "attach"
      /\ opening'[k].session = p
      /\ opening'[k].reply = "failed"
      /\ opening[k].stage = "attach" /\ opening[k].reply = "none"
  BY DEF AttachFails, Replies, Pending, IInv, TypeOK
<1>2. p \in Sessions
  BY <1>1 DEF IInv, RequestsGoWell, AttachesWell
<1>3. /\ \A q \in Sessions \ {p} :
            registry'[q] = registry[q] /\ shows'[q] = shows[q]
      /\ registry'[p] = "gone" /\ shows'[p] = None
      /\ sent' = sent /\ exits \subseteq exits' /\ exits' \subseteq exits \cup {p}
      /\ SameTabs
  BY <1>2, TabsKept DEF AttachFails, Removes, IInv, TypeOK
<1>4. \A l \in Terminals \ {k} : opening[l].session /= p
  BY <1>1, <1>2, NoneIsNoSession DEF IInv, RequestsGoWell, OwnSession
<1>5. TypeOK'
  BY <1>1, <1>2, <1>3, <1>4 DEF IInv, TypeOK, AttachFails, Replies, Removes
<1>6. TurnsAreTaken'
  BY <1>1, <1>2, <1>3, <1>4, TurnsKept DEF IInv, Active, AttachFails
<1>7. ASSUME NEW l \in Terminals PROVE WaitsWell(l)'
  <2>1. WaitsWell(l)
    BY DEF IInv, RequestsGoWell
  <2>2. CASE l = k
    BY <2>1, <2>2, <1>1, <1>2, <1>3, <1>4, NoneIsNoSession DEF WaitsWell
  <2>3. CASE l /= k
    BY <2>1, <2>3, <1>1, <1>2, <1>3, <1>4, NoneIsNoSession DEF WaitsWell
  <2> QED BY <2>2, <2>3
<1>8. ASSUME NEW l \in Terminals PROVE SpawnsWell(l)'
  <2>1. SpawnsWell(l)
    BY DEF IInv, RequestsGoWell
  <2>2. CASE l = k
    BY <2>1, <2>2, <1>1, <1>2, <1>3, <1>4, NoneIsNoSession, LiveIsShown
    DEF SpawnsWell, JustSpawned, NoTabFor, SameTabs, OwnSession
  <2>3. CASE l /= k
    BY <2>1, <2>3, <1>1, <1>2, <1>3, <1>4, NoneIsNoSession, LiveIsShown
    DEF SpawnsWell, JustSpawned, NoTabFor, SameTabs, OwnSession
  <2> QED BY <2>2, <2>3
<1>9. ASSUME NEW l \in Terminals PROVE AttachesWell(l)'
  <2>1. AttachesWell(l)
    BY DEF IInv, RequestsGoWell
  <2>2. CASE l = k
    BY <2>1, <2>2, <1>1, <1>2, <1>3, <1>4, NoneIsNoSession, LiveIsShown
    DEF AttachesWell, SameTabs
  <2>3. CASE l /= k
    BY <2>1, <2>3, <1>1, <1>2, <1>3, <1>4, NoneIsNoSession, LiveIsShown
    DEF AttachesWell, SameTabs
  <2> QED BY <2>2, <2>3
<1>10. ASSUME NEW l \in Terminals PROVE SwitchesWell(l)'
  <2>1. SwitchesWell(l)
    BY DEF IInv, RequestsGoWell
  <2>2. CASE l = k
    BY <2>1, <2>2, <1>1, <1>2, <1>3, <1>4, NoneIsNoSession, LiveIsShown
    DEF SwitchesWell, SameTabs
  <2>3. CASE l /= k
    BY <2>1, <2>3, <1>1, <1>2, <1>3, <1>4, NoneIsNoSession, LiveIsShown
    DEF SwitchesWell, SameTabs
  <2> QED BY <2>2, <2>3
<1>11. OwnSession'
  BY <1>1, <1>2, <1>3, <1>4, NoneIsNoSession
  DEF IInv, RequestsGoWell, OwnSession
<1>12. TabsAreApart'
  BY <1>1, <1>2, <1>3, <1>4, LiveIsShown DEF IInv, TabsAreApart, SameTabs
<1>13. NamesAreRight'
  BY <1>1, <1>2, <1>3, <1>4, LiveIsShown
  DEF IInv, NamesAreRight, Replied, SameTabs
<1>14. NoneIsForgotten'
  BY <1>1, <1>2, <1>3, <1>4, LiveIsShown
  DEF IInv, NoneIsForgotten, Replied, SameTabs
<1> QED BY <1>5, <1>6, <1>7, <1>8, <1>9, <1>10, <1>11, <1>12, <1>13, <1>14
DEF IInv, RequestsGoWell

LEMMA SwitchedKeeps ==
  ASSUME TabsAssumption, IInv, NEW k \in Terminals, NEW p,
         p = opening[k].session, Switched(k)
  PROVE  IInv'
<1>1. /\ \A l \in Terminals \ {k} : opening'[l] = opening[l]
      /\ opening'[k].stage = "switch"
      /\ opening'[k].session = p
      /\ opening'[k].reply = "done"
      /\ opening[k].stage = "switch" /\ opening[k].reply = "none"
  BY DEF Switched, Replies, Pending, IInv, TypeOK
<1>2. p \in Sessions /\ k \in Remotes
  BY <1>1 DEF IInv, RequestsGoWell, SwitchesWell
<1>3. /\ \A q \in Sessions \ {p} : shows'[q] = shows[q]
      /\ registry[p] = "running" /\ shows'[p] = k
      /\ registry' = registry /\ sent' = sent /\ exits' = exits /\ SameTabs
  BY <1>2, TabsKept DEF Switched, IInv, TypeOK
<1>4. \A l \in Terminals \ {k} :
         opening[l].stage = "switch" => opening[l].session /= p \/ p \notin Live
  <2> SUFFICES ASSUME NEW l \in Terminals \ {k}, opening[l].stage = "switch",
                      opening[l].session = p, p \in Live
               PROVE  FALSE
    OBVIOUS
  <2>1. SameServer(k, l)
    BY <1>1, <1>2 DEF IInv, RequestsGoWell, SwitchesWell, SameServer
  <2> QED BY <1>1, <2>1 DEF IInv, TurnsAreTaken, Active, SameServer
<1>5. TypeOK'
  BY <1>1, <1>2, <1>3, <1>4 DEF IInv, TypeOK, Switched, Replies
<1>6. TurnsAreTaken'
  BY <1>1, <1>2, <1>3, <1>4, TurnsKept DEF IInv, Active, Switched
<1>7. ASSUME NEW l \in Terminals PROVE WaitsWell(l)'
  <2>1. WaitsWell(l)
    BY DEF IInv, RequestsGoWell
  <2>2. CASE l = k
    BY <2>1, <2>2, <1>1, <1>2, <1>3, <1>4, NoneIsNoSession DEF WaitsWell
  <2>3. CASE l /= k
    BY <2>1, <2>3, <1>1, <1>2, <1>3, <1>4, NoneIsNoSession DEF WaitsWell
  <2> QED BY <2>2, <2>3
<1>8. ASSUME NEW l \in Terminals PROVE SpawnsWell(l)'
  <2>1. SpawnsWell(l)
    BY DEF IInv, RequestsGoWell
  <2>2. CASE l = k
    BY <2>1, <2>2, <1>1, <1>2, <1>3, <1>4, NoneIsNoSession, LiveIsShown
    DEF SpawnsWell, JustSpawned, NoTabFor, SameTabs, OwnSession
  <2>3. CASE l /= k
    BY <2>1, <2>3, <1>1, <1>2, <1>3, <1>4, NoneIsNoSession, LiveIsShown
    DEF SpawnsWell, JustSpawned, NoTabFor, SameTabs, OwnSession
  <2> QED BY <2>2, <2>3
<1>9. ASSUME NEW l \in Terminals PROVE AttachesWell(l)'
  <2>1. AttachesWell(l)
    BY DEF IInv, RequestsGoWell
  <2>2. CASE l = k
    BY <2>1, <2>2, <1>1, <1>2, <1>3, <1>4, NoneIsNoSession, LiveIsShown
    DEF AttachesWell, SameTabs
  <2>3. CASE l /= k
    BY <2>1, <2>3, <1>1, <1>2, <1>3, <1>4, NoneIsNoSession, LiveIsShown
    DEF AttachesWell, SameTabs
  <2> QED BY <2>2, <2>3
<1>10. ASSUME NEW l \in Terminals PROVE SwitchesWell(l)'
  <2>1. SwitchesWell(l)
    BY DEF IInv, RequestsGoWell
  <2>2. CASE l = k
    BY <2>1, <2>2, <1>1, <1>2, <1>3, <1>4, NoneIsNoSession, LiveIsShown
    DEF SwitchesWell, SameTabs
  <2>3. CASE l /= k
    BY <2>1, <2>3, <1>1, <1>2, <1>3, <1>4, NoneIsNoSession, LiveIsShown
    DEF SwitchesWell, SameTabs
  <2> QED BY <2>2, <2>3
<1>11. OwnSession'
  BY <1>1, <1>2, <1>3, <1>4, NoneIsNoSession
  DEF IInv, RequestsGoWell, OwnSession
<1>12. TabsAreApart'
  BY <1>1, <1>2, <1>3, <1>4, LiveIsShown DEF IInv, TabsAreApart, SameTabs
<1>13. NamesAreRight'
  BY <1>1, <1>2, <1>3, <1>4, LiveIsShown
  DEF IInv, NamesAreRight, Replied, SameTabs
<1>14. NoneIsForgotten'
  BY <1>1, <1>2, <1>3, <1>4, LiveIsShown
  DEF IInv, NoneIsForgotten, Replied, SameTabs
<1> QED BY <1>5, <1>6, <1>7, <1>8, <1>9, <1>10, <1>11, <1>12, <1>13, <1>14
DEF IInv, RequestsGoWell

LEMMA SpawnReturnsKeeps ==
  ASSUME TabsAssumption, IInv, NEW k \in Terminals, NEW p,
         p = opening[k].session, SpawnReturns(k)
  PROVE  IInv'
<1>1. /\ \A l \in Terminals \ {k} : opening'[l] = opening[l]
      /\ opening'[k].stage = "attach"
      /\ opening'[k].session = p
      /\ opening'[k].reply = "none"
      /\ opening[k].stage = "spawn" /\ opening[k].reply = "done"
  BY DEF SpawnReturns, Sends, Replied, IInv, TypeOK
<1>2. p \in Sessions /\ JustSpawned(p, k) /\ NoTabFor(k)
  BY <1>1 DEF IInv, RequestsGoWell, SpawnsWell
<1>3. registry' = registry /\ shows' = shows /\ sent' = sent /\ exits' = exits
  BY DEF SpawnReturns, backend
<1>4. Gains(p, k) /\ tabs' \in [Sessions -> TabType]
  BY SpawnReturnsTab
<1>5. \A l \in Terminals \ {k} : /\ Active(l) => ~ SameServer(k, l)
                                 /\ opening[l].session /= p
  BY <1>1, <1>2, NoneIsNoSession
  DEF IInv, RequestsGoWell, OwnSession, TurnsAreTaken, Active, SameServer
<1>6. TypeOK'
  BY <1>1, <1>2, <1>3, <1>4, <1>5
  DEF IInv, TypeOK, SpawnReturns, Sends, backend
<1>7. TurnsAreTaken'
  BY <1>1, <1>2, <1>3, <1>4, <1>5, TurnsKept
  DEF IInv, Active, SpawnReturns, Sends
<1>8. ASSUME NEW l \in Terminals PROVE WaitsWell(l)'
  <2>1. WaitsWell(l)
    BY DEF IInv, RequestsGoWell
  <2>2. CASE l = k
    BY <2>1, <2>2, <1>1, <1>2, <1>3, <1>4, <1>5, NoneIsNoSession DEF WaitsWell
  <2>3. CASE l /= k
    BY <2>1, <2>3, <1>1, <1>2, <1>3, <1>4, <1>5, NoneIsNoSession DEF WaitsWell
  <2> QED BY <2>2, <2>3
<1>9. ASSUME NEW l \in Terminals PROVE SpawnsWell(l)'
  <2>1. SpawnsWell(l)
    BY DEF IInv, RequestsGoWell
  <2>2. CASE l = k
    BY <2>1, <2>2, <1>1, <1>2, <1>3, <1>4, <1>5, NoneIsNoSession, LiveIsShown
    DEF SpawnsWell, JustSpawned, NoTabFor, Gains, Active, SameServer
  <2>3. CASE l /= k
    BY <2>1, <2>3, <1>1, <1>2, <1>3, <1>4, <1>5, NoneIsNoSession, LiveIsShown
    DEF SpawnsWell, JustSpawned, NoTabFor, Gains, Active, SameServer
  <2> QED BY <2>2, <2>3
<1>10. ASSUME NEW l \in Terminals PROVE AttachesWell(l)'
  <2>1. AttachesWell(l)
    BY DEF IInv, RequestsGoWell
  <2>2. CASE l = k
    BY <2>1, <2>2, <1>1, <1>2, <1>3, <1>4, <1>5, NoneIsNoSession, LiveIsShown
    DEF AttachesWell, Gains, JustSpawned
  <2>3. CASE l /= k
    BY <2>1, <2>3, <1>1, <1>2, <1>3, <1>4, <1>5, NoneIsNoSession, LiveIsShown
    DEF AttachesWell, Gains, JustSpawned
  <2> QED BY <2>2, <2>3
<1>11. ASSUME NEW l \in Terminals PROVE SwitchesWell(l)'
  <2>1. SwitchesWell(l)
    BY DEF IInv, RequestsGoWell
  <2>2. CASE l = k
    BY <2>1, <2>2, <1>1, <1>2, <1>3, <1>4, <1>5, NoneIsNoSession, LiveIsShown
    DEF SwitchesWell, Gains, JustSpawned
  <2>3. CASE l /= k
    BY <2>1, <2>3, <1>1, <1>2, <1>3, <1>4, <1>5, NoneIsNoSession, LiveIsShown
    DEF SwitchesWell, Gains, JustSpawned
  <2> QED BY <2>2, <2>3
<1>12. OwnSession'
  BY <1>1, <1>2, <1>3, <1>4, <1>5, NoneIsNoSession
  DEF IInv, RequestsGoWell, OwnSession
<1>13. TabsAreApart'
  BY <1>1, <1>2, <1>3, <1>4, <1>5, LiveIsShown
  DEF IInv, TabsAreApart, Gains, NoTabFor, SameServer
<1>14. NamesAreRight'
  BY <1>1, <1>2, <1>3, <1>4, <1>5, LiveIsShown
  DEF IInv, NamesAreRight, Replied, Gains, JustSpawned
<1>15. NoneIsForgotten'
  BY <1>1, <1>2, <1>3, <1>4, <1>5, LiveIsShown
  DEF IInv, NoneIsForgotten, Replied, Gains, JustSpawned
<1> QED BY <1>6, <1>7, <1>8, <1>9, <1>10, <1>11, <1>12, <1>13, <1>14, <1>15
DEF IInv, RequestsGoWell

LEMMA AttachReturnsErrorKeeps ==
  ASSUME TabsAssumption, IInv, NEW k \in Terminals, NEW p,
         p = opening[k].session, AttachReturnsError(k)
  PROVE  IInv'
<1>1. /\ \A l \in Terminals \ {k} : opening'[l] = opening[l]
      /\ opening'[k].stage = "none"
      /\ opening'[k].session = None
      /\ opening'[k].reply = "none"
      /\ opening[k].stage = "attach" /\ opening[k].reply = "failed"
  BY DEF AttachReturnsError, Leaves, Replied, NoRequest, IInv, TypeOK
<1>2. /\ p \in Sessions /\ Loses(p) /\ tabs' \in [Sessions -> TabType]
      /\ \/ p \in Shown /\ sent' = sent \cup {p}
         \/ p \notin Shown /\ sent' = sent
  BY AttachReturnsErrorTab
<1>3. registry' = registry /\ shows' = shows /\ exits' = exits
  BY DEF AttachReturnsError, backend
<1>4. Leaves(k) /\ Active(k) /\ opening[k] /= NoRequest
  BY <1>1 DEF AttachReturnsError, Active, NoRequest
<1>5. TypeOK'
  <2>1. /\ waiting' \in [Servers -> Seq(Remotes)]
        /\ opening' = [opening EXCEPT ![k] = NoRequest]
    BY <1>4, LeavingMovesUp DEF IInv
  <2>2. ready' = ready
    BY DEF AttachReturnsError
  <2> QED BY <1>2, <1>3, <2>1, <2>2 DEF IInv, TypeOK, NoRequest
<1>6. TurnsAreTaken'
  BY <1>4, LeavingMovesUp DEF IInv
<1>7. ASSUME NEW l \in Terminals PROVE WaitsWell(l)'
  <2>1. WaitsWell(l)
    BY DEF IInv, RequestsGoWell
  <2>2. CASE l = k
    BY <2>1, <2>2, <1>1, <1>2, <1>3, <1>4, NoneIsNoSession DEF WaitsWell
  <2>3. CASE l /= k
    BY <2>1, <2>3, <1>1, <1>2, <1>3, <1>4, NoneIsNoSession DEF WaitsWell
  <2> QED BY <2>2, <2>3
<1>8. ASSUME NEW l \in Terminals PROVE SpawnsWell(l)'
  <2>1. SpawnsWell(l)
    BY DEF IInv, RequestsGoWell
  <2>2. CASE l = k
    BY <2>1, <2>2, <1>1, <1>2, <1>3, <1>4, NoneIsNoSession, LiveIsShown
    DEF SpawnsWell, JustSpawned, NoTabFor, Loses, OwnSession
  <2>3. CASE l /= k
    BY <2>1, <2>3, <1>1, <1>2, <1>3, <1>4, NoneIsNoSession, LiveIsShown
    DEF SpawnsWell, JustSpawned, NoTabFor, Loses, OwnSession
  <2> QED BY <2>2, <2>3
<1>9. ASSUME NEW l \in Terminals PROVE AttachesWell(l)'
  <2>1. AttachesWell(l)
    BY DEF IInv, RequestsGoWell
  <2>2. CASE l = k
    BY <2>1, <2>2, <1>1, <1>2, <1>3, <1>4, NoneIsNoSession, LiveIsShown
    DEF AttachesWell, Loses
  <2>3. CASE l /= k
    BY <2>1, <2>3, <1>1, <1>2, <1>3, <1>4, NoneIsNoSession, LiveIsShown
    DEF AttachesWell, Loses
  <2> QED BY <2>2, <2>3
<1>10. ASSUME NEW l \in Terminals PROVE SwitchesWell(l)'
  <2>1. SwitchesWell(l)
    BY DEF IInv, RequestsGoWell
  <2>2. CASE l = k
    BY <2>1, <2>2, <1>1, <1>2, <1>3, <1>4, NoneIsNoSession, LiveIsShown
    DEF SwitchesWell, Loses
  <2>3. CASE l /= k
    BY <2>1, <2>3, <1>1, <1>2, <1>3, <1>4, NoneIsNoSession, LiveIsShown
    DEF SwitchesWell, Loses
  <2> QED BY <2>2, <2>3
<1>11. OwnSession'
  BY <1>1, <1>2, <1>3, <1>4, NoneIsNoSession
  DEF IInv, RequestsGoWell, OwnSession
<1>12. TabsAreApart'
  BY <1>1, <1>2, <1>3, <1>4, LiveIsShown DEF IInv, TabsAreApart, Loses
<1>13. NamesAreRight'
  BY <1>1, <1>2, <1>3, <1>4, LiveIsShown
  DEF IInv, NamesAreRight, Replied, Loses
<1>14. NoneIsForgotten'
  BY <1>1, <1>2, <1>3, <1>4, LiveIsShown, NoneIsNoSession
  DEF IInv, NoneIsForgotten, Replied, Loses, RequestsGoWell, OwnSession
<1> QED BY <1>5, <1>6, <1>7, <1>8, <1>9, <1>10, <1>11, <1>12, <1>13, <1>14
DEF IInv, RequestsGoWell

LEMMA SwitchReturnsKeeps ==
  ASSUME TabsAssumption, IInv, NEW k \in Terminals, NEW p,
         p = opening[k].session, SwitchReturns(k)
  PROVE  IInv'
<1>1. /\ \A l \in Terminals \ {k} : opening'[l] = opening[l]
      /\ opening'[k].stage = "none"
      /\ opening'[k].session = None
      /\ opening'[k].reply = "none"
      /\ opening[k].stage = "switch" /\ opening[k].reply = "done"
  BY DEF SwitchReturns, Leaves, Replied, NoRequest, IInv, TypeOK
<1>2. /\ p \in Sessions /\ tabs' \in [Sessions -> TabType]
      /\ p \in Live => Renames(p, k)
      /\ p \notin Live => SameTabs
  BY SwitchReturnsTab
<1>3. registry' = registry /\ shows' = shows /\ sent' = sent /\ exits' = exits
  BY DEF SwitchReturns, backend
<1>4. Leaves(k) /\ Active(k) /\ opening[k] /= NoRequest
  BY <1>1 DEF SwitchReturns, Active, NoRequest
<1>5. p \in Live => /\ SameServer(tabs[p].terminal, k)
                    /\ registry[p] /= "gone" => shows[p] = k
  BY <1>1 DEF IInv, RequestsGoWell, SwitchesWell
<1>6. \A l \in Terminals \ {k} : Active(l) => ~ SameServer(k, l)
  BY <1>1, <1>4 DEF IInv, TurnsAreTaken, Active, SameServer
<1>7. \A l \in Terminals \ {k} :
         opening[l].session = p => opening[l].stage = "switch"
  BY <1>1, <1>2, NoneIsNoSession DEF IInv, RequestsGoWell, OwnSession
<1>8. TypeOK'
  <2>1. /\ waiting' \in [Servers -> Seq(Remotes)]
        /\ opening' = [opening EXCEPT ![k] = NoRequest]
    BY <1>4, LeavingMovesUp DEF IInv
  <2>2. ready' = ready
    BY DEF SwitchReturns
  <2> QED BY <1>2, <1>3, <2>1, <2>2 DEF IInv, TypeOK, NoRequest
<1>9. TurnsAreTaken'
  BY <1>4, LeavingMovesUp DEF IInv
<1>10. ASSUME NEW l \in Terminals PROVE WaitsWell(l)'
  <2>1. WaitsWell(l)
    BY DEF IInv, RequestsGoWell
  <2>2. CASE l = k
    BY <2>1, <2>2, <1>1, <1>2, <1>3, <1>4, <1>5, <1>6, <1>7, NoneIsNoSession
    DEF WaitsWell
  <2>3. CASE l /= k
    BY <2>1, <2>3, <1>1, <1>2, <1>3, <1>4, <1>5, <1>6, <1>7, NoneIsNoSession
    DEF WaitsWell
  <2> QED BY <2>2, <2>3
<1>11. ASSUME NEW l \in Terminals PROVE SpawnsWell(l)'
  <2>1. SpawnsWell(l)
    BY DEF IInv, RequestsGoWell
  <2>2. CASE l = k
    BY <2>1, <2>2, <1>1, <1>2, <1>3, <1>4, <1>5, <1>6, <1>7, NoneIsNoSession,
       LiveIsShown
    DEF SpawnsWell, JustSpawned, NoTabFor, SameTabs, Renames, Active,
        SameServer
  <2>3. CASE l /= k
    BY <2>1, <2>3, <1>1, <1>2, <1>3, <1>4, <1>5, <1>6, <1>7, NoneIsNoSession,
       LiveIsShown
    DEF SpawnsWell, JustSpawned, NoTabFor, SameTabs, Renames, Active,
        SameServer
  <2> QED BY <2>2, <2>3
<1>12. ASSUME NEW l \in Terminals PROVE AttachesWell(l)'
  <2>1. AttachesWell(l)
    BY DEF IInv, RequestsGoWell
  <2>2. CASE l /= k /\ p \in Live
    <3>1. Renames(p, k)
      BY <1>2, <2>2
    <3> QED BY <2>1, <2>2, <3>1, <1>1, <1>3, <1>5, <1>6, <1>7, LiveIsShown
        DEF AttachesWell, Renames, Active, SameServer
  <2>3. CASE l /= k /\ p \notin Live
    <3>1. SameTabs
      BY <1>2, <2>3
    <3> QED BY <2>1, <2>3, <3>1, <1>1, <1>3, LiveIsShown
            DEF AttachesWell, SameTabs
  <2>4. CASE l = k
    BY <1>1, <2>4 DEF AttachesWell
  <2> QED BY <2>2, <2>3, <2>4
<1>13. ASSUME NEW l \in Terminals PROVE SwitchesWell(l)'
  <2>1. SwitchesWell(l)
    BY DEF IInv, RequestsGoWell
  <2>2. CASE l /= k /\ p \in Live
    <3>1. Renames(p, k)
      BY <1>2, <2>2
    <3>2. opening[l].stage = "switch" => opening[l].session /= p
      BY <2>1, <2>2, <1>5, <1>6 DEF SwitchesWell, Active, SameServer
    <3> QED BY <2>1, <2>2, <3>1, <3>2, <1>1, <1>3, LiveIsShown
        DEF SwitchesWell, Renames
  <2>3. CASE l /= k /\ p \notin Live
    <3>1. SameTabs
      BY <1>2, <2>3
    <3> QED BY <2>1, <2>3, <3>1, <1>1, <1>3, LiveIsShown
            DEF SwitchesWell, SameTabs
  <2>4. CASE l = k
    BY <1>1, <2>4 DEF SwitchesWell
  <2> QED BY <2>2, <2>3, <2>4
<1>14. OwnSession'
  BY <1>1, <1>2, <1>3, <1>4, <1>5, <1>6, <1>7, NoneIsNoSession
  DEF IInv, RequestsGoWell, OwnSession
<1>15. TabsAreApart'
  <2>1. CASE p \in Live
    <3>1. Renames(p, k)
      BY <1>2, <2>1
    <3>2. \A q \in Live \ {p} : /\ tabs[q].terminal /= k
                                /\ ~ SameServer(tabs[q].terminal, k)
      BY <1>5, <2>1 DEF IInv, TabsAreApart, SameServer
    <3> QED BY <3>1, <3>2, LiveIsShown
        DEF IInv, TabsAreApart, Renames, SameServer
  <2>2. CASE p \notin Live
    <3>1. SameTabs
      BY <1>2, <2>2
    <3> QED BY <1>1, <1>3, <2>2, <3>1, LiveIsShown
        DEF IInv, TabsAreApart, SameTabs
  <2> QED BY <2>1, <2>2
<1>16. NamesAreRight'
  <2>1. CASE p \in Live
    <3>1. Renames(p, k)
      BY <1>2, <2>1
    <3>2. ASSUME NEW q \in Sessions \ {p},
                 q \in Live, registry[q] /= "gone",
                 shows[q] /= tabs[q].terminal
          PROVE  /\ Replied(shows[q], "switch", "done")'
                 /\ opening'[shows'[q]].session = q
      BY <1>1, <1>3, <3>2 DEF IInv, NamesAreRight, Replied
    <3> QED BY <1>3, <1>5, <2>1, <3>1, <3>2, LiveIsShown
        DEF IInv, NamesAreRight, Replied, Renames
  <2>2. CASE p \notin Live
    <3>1. SameTabs
      BY <1>2, <2>2
    <3> QED BY <1>1, <1>3, <2>2, <3>1, LiveIsShown
        DEF IInv, NamesAreRight, Replied, SameTabs
  <2> QED BY <2>1, <2>2
<1>17. NoneIsForgotten'
  BY <1>1, <1>2, <1>3, <1>4, <1>5, <1>6, <1>7, LiveIsShown
  DEF IInv, NoneIsForgotten, Replied, SameTabs, Renames, Active, SameServer
<1> QED BY <1>8, <1>9, <1>10, <1>11, <1>12, <1>13, <1>14, <1>15, <1>16, <1>17
DEF IInv, RequestsGoWell

LEMMA CloseKeeps ==
  ASSUME TabsAssumption, IInv, NEW p \in Sessions, Close(p)
  PROVE  IInv'
<1>1. Loses(p) /\ tabs' \in [Sessions -> TabType] /\ p \in Shown
  BY CloseTab DEF Close, Shown
<1>2. /\ registry' = registry /\ shows' = shows
      /\ exits' = exits /\ sent' = sent \cup {p}
      /\ opening' = opening /\ waiting' = waiting
  BY DEF Close, backend
<1>3. TypeOK'
  BY <1>1, <1>2 DEF IInv, TypeOK, Close, backend
<1>4. TurnsAreTaken'
  BY <1>2 DEF IInv, TurnsAreTaken, Active
<1>5. ASSUME NEW l \in Terminals PROVE WaitsWell(l)'
  <2>1. WaitsWell(l)
    BY DEF IInv, RequestsGoWell
  <2> QED BY <2>1, <1>1, <1>2, NoneIsNoSession DEF WaitsWell
<1>6. ASSUME NEW l \in Terminals PROVE SpawnsWell(l)'
  <2>1. SpawnsWell(l)
    BY DEF IInv, RequestsGoWell
  <2> QED BY <2>1, <1>1, <1>2, NoneIsNoSession, LiveIsShown
  DEF SpawnsWell, JustSpawned, NoTabFor, Loses
<1>7. ASSUME NEW l \in Terminals PROVE AttachesWell(l)'
  <2>1. AttachesWell(l)
    BY DEF IInv, RequestsGoWell
  <2> QED BY <2>1, <1>1, <1>2, NoneIsNoSession, LiveIsShown
          DEF AttachesWell, Loses
<1>8. ASSUME NEW l \in Terminals PROVE SwitchesWell(l)'
  <2>1. SwitchesWell(l)
    BY DEF IInv, RequestsGoWell
  <2> QED BY <2>1, <1>1, <1>2, NoneIsNoSession, LiveIsShown
          DEF SwitchesWell, Loses
<1>9. OwnSession'
  BY <1>1, <1>2, NoneIsNoSession DEF IInv, RequestsGoWell, OwnSession
<1>10. TabsAreApart'
  BY <1>1, <1>2, LiveIsShown DEF IInv, TabsAreApart, Loses
<1>11. NamesAreRight'
  BY <1>1, <1>2, LiveIsShown DEF IInv, NamesAreRight, Replied, Loses
<1>12. NoneIsForgotten'
  BY <1>1, <1>2, LiveIsShown DEF IInv, NoneIsForgotten, Replied, Loses
<1> QED BY <1>3, <1>4, <1>5, <1>6, <1>7, <1>8, <1>9, <1>10, <1>11, <1>12
DEF IInv, RequestsGoWell

LEMMA ExitArrivesKeeps ==
  ASSUME TabsAssumption, IInv, NEW p \in Sessions, ExitArrives(p)
  PROVE  IInv'
<1>1. Loses(p) /\ tabs' \in [Sessions -> TabType] /\ p \in exits
  BY ExitArrivesTab DEF ExitArrives
<1>2. /\ registry' = registry /\ shows' = shows
      /\ exits' = exits \ {p} /\ sent' = sent
      /\ opening' = opening /\ waiting' = waiting
  BY DEF ExitArrives, backend
<1>3. TypeOK'
  BY <1>1, <1>2 DEF IInv, TypeOK, ExitArrives, backend
<1>4. TurnsAreTaken'
  BY <1>2 DEF IInv, TurnsAreTaken, Active
<1>5. ASSUME NEW l \in Terminals PROVE WaitsWell(l)'
  <2>1. WaitsWell(l)
    BY DEF IInv, RequestsGoWell
  <2> QED BY <2>1, <1>1, <1>2, NoneIsNoSession DEF WaitsWell
<1>6. ASSUME NEW l \in Terminals PROVE SpawnsWell(l)'
  <2>1. SpawnsWell(l)
    BY DEF IInv, RequestsGoWell
  <2> QED BY <2>1, <1>1, <1>2, NoneIsNoSession, LiveIsShown
  DEF SpawnsWell, JustSpawned, NoTabFor, Loses
<1>7. ASSUME NEW l \in Terminals PROVE AttachesWell(l)'
  <2>1. AttachesWell(l)
    BY DEF IInv, RequestsGoWell
  <2> QED BY <2>1, <1>1, <1>2, NoneIsNoSession, LiveIsShown
          DEF AttachesWell, Loses
<1>8. ASSUME NEW l \in Terminals PROVE SwitchesWell(l)'
  <2>1. SwitchesWell(l)
    BY DEF IInv, RequestsGoWell
  <2> QED BY <2>1, <1>1, <1>2, NoneIsNoSession, LiveIsShown
          DEF SwitchesWell, Loses
<1>9. OwnSession'
  BY <1>1, <1>2, NoneIsNoSession DEF IInv, RequestsGoWell, OwnSession
<1>10. TabsAreApart'
  BY <1>1, <1>2, LiveIsShown DEF IInv, TabsAreApart, Loses
<1>11. NamesAreRight'
  BY <1>1, <1>2, LiveIsShown DEF IInv, NamesAreRight, Replied, Loses
<1>12. NoneIsForgotten'
  BY <1>1, <1>2, LiveIsShown DEF IInv, NoneIsForgotten, Replied, Loses
<1> QED BY <1>3, <1>4, <1>5, <1>6, <1>7, <1>8, <1>9, <1>10, <1>11, <1>12
DEF IInv, RequestsGoWell

LEMMA SessionEndsKeeps ==
  ASSUME TabsAssumption, IInv, NEW p \in Sessions, SessionEnds(p)
  PROVE  IInv'
<1>1. /\ \A q \in Sessions \ {p} :
            registry'[q] = registry[q] /\ shows'[q] = shows[q]
      /\ registry'[p] = "gone" /\ shows'[p] = None
      /\ registry[p] = "running" /\ sent' = sent /\ exits' = exits \cup {p}
  BY DEF SessionEnds, Removes, IInv, TypeOK
<1>2. tabs' = tabs /\ SameTabs /\ opening' = opening /\ waiting' = waiting
  BY TabsKept DEF SessionEnds, window
<1>3. TypeOK'
  BY <1>1, <1>2 DEF IInv, TypeOK, SessionEnds, Removes, window
<1>4. TurnsAreTaken'
  BY <1>2 DEF IInv, TurnsAreTaken, Active
<1>5. ASSUME NEW l \in Terminals PROVE WaitsWell(l)'
  <2>1. WaitsWell(l)
    BY DEF IInv, RequestsGoWell
  <2> QED BY <2>1, <1>1, <1>2, NoneIsNoSession DEF WaitsWell
<1>6. ASSUME NEW l \in Terminals PROVE SpawnsWell(l)'
  <2>1. SpawnsWell(l)
    BY DEF IInv, RequestsGoWell
  <2> QED BY <2>1, <1>1, <1>2, NoneIsNoSession, LiveIsShown
  DEF SpawnsWell, JustSpawned, NoTabFor, SameTabs
<1>7. ASSUME NEW l \in Terminals PROVE AttachesWell(l)'
  <2>1. AttachesWell(l)
    BY DEF IInv, RequestsGoWell
  <2> QED BY <2>1, <1>1, <1>2, NoneIsNoSession, LiveIsShown
          DEF AttachesWell, SameTabs
<1>8. ASSUME NEW l \in Terminals PROVE SwitchesWell(l)'
  <2>1. SwitchesWell(l)
    BY DEF IInv, RequestsGoWell
  <2> QED BY <2>1, <1>1, <1>2, NoneIsNoSession, LiveIsShown
          DEF SwitchesWell, SameTabs
<1>9. OwnSession'
  BY <1>1, <1>2, NoneIsNoSession DEF IInv, RequestsGoWell, OwnSession
<1>10. TabsAreApart'
  BY <1>1, <1>2, LiveIsShown DEF IInv, TabsAreApart, SameTabs
<1>11. NamesAreRight'
  BY <1>1, <1>2, LiveIsShown DEF IInv, NamesAreRight, Replied, SameTabs
<1>12. NoneIsForgotten'
  BY <1>1, <1>2, LiveIsShown DEF IInv, NoneIsForgotten, Replied, SameTabs
<1> QED BY <1>3, <1>4, <1>5, <1>6, <1>7, <1>8, <1>9, <1>10, <1>11, <1>12
DEF IInv, RequestsGoWell

LEMMA KilledKeeps ==
  ASSUME TabsAssumption, IInv, NEW p \in Sessions, Killed(p)
  PROVE  IInv'
<1>1. /\ \A q \in Sessions \ {p} :
            registry'[q] = registry[q] /\ shows'[q] = shows[q]
      /\ registry'[p] = "gone" /\ shows'[p] = None
      /\ p \in sent /\ sent' = sent \ {p}
      /\ exits \subseteq exits' /\ exits' \subseteq exits \cup {p}
      /\ registry[p] = "running" => p \in exits'
  BY DEF Killed, Removes, IInv, TypeOK
<1>2. tabs' = tabs /\ SameTabs /\ opening' = opening /\ waiting' = waiting
  BY TabsKept DEF Killed, window
<1>3. TypeOK'
  BY <1>1, <1>2 DEF IInv, TypeOK, Killed, Removes, window
<1>4. TurnsAreTaken'
  BY <1>2 DEF IInv, TurnsAreTaken, Active
<1>5. ASSUME NEW l \in Terminals PROVE WaitsWell(l)'
  <2>1. WaitsWell(l)
    BY DEF IInv, RequestsGoWell
  <2> QED BY <2>1, <1>1, <1>2, NoneIsNoSession DEF WaitsWell
<1>6. ASSUME NEW l \in Terminals PROVE SpawnsWell(l)'
  <2>1. SpawnsWell(l)
    BY DEF IInv, RequestsGoWell
  <2> QED BY <2>1, <1>1, <1>2, NoneIsNoSession, LiveIsShown
  DEF SpawnsWell, JustSpawned, NoTabFor, SameTabs
<1>7. ASSUME NEW l \in Terminals PROVE AttachesWell(l)'
  <2>1. AttachesWell(l)
    BY DEF IInv, RequestsGoWell
  <2> QED BY <2>1, <1>1, <1>2, NoneIsNoSession, LiveIsShown
          DEF AttachesWell, SameTabs
<1>8. ASSUME NEW l \in Terminals PROVE SwitchesWell(l)'
  <2>1. SwitchesWell(l)
    BY DEF IInv, RequestsGoWell
  <2> QED BY <2>1, <1>1, <1>2, NoneIsNoSession, LiveIsShown
          DEF SwitchesWell, SameTabs
<1>9. OwnSession'
  BY <1>1, <1>2, NoneIsNoSession DEF IInv, RequestsGoWell, OwnSession
<1>10. TabsAreApart'
  BY <1>1, <1>2, LiveIsShown DEF IInv, TabsAreApart, SameTabs
<1>11. NamesAreRight'
  BY <1>1, <1>2, LiveIsShown DEF IInv, NamesAreRight, Replied, SameTabs
<1>12. NoneIsForgotten'
  BY <1>1, <1>2, LiveIsShown DEF IInv, NoneIsForgotten, Replied, SameTabs
<1> QED BY <1>3, <1>4, <1>5, <1>6, <1>7, <1>8, <1>9, <1>10, <1>11, <1>12
DEF IInv, RequestsGoWell

LEMMA IdleKeeps ==
  ASSUME TabsAssumption, IInv, EventsReady \/ UNCHANGED vars
  PROVE  IInv'
<1>1. registry' = registry /\ shows' = shows /\ sent' = sent /\ exits' = exits
      /\ opening' = opening /\ waiting' = waiting /\ tabs' = tabs
  BY DEF EventsReady, vars, window, backend
<1>2. SameTabs
  BY <1>1, TabsKept
<1>3. TypeOK'
  BY <1>1, <1>2 DEF IInv, TypeOK, EventsReady, vars, window
<1>4. TurnsAreTaken'
  BY <1>1 DEF IInv, TurnsAreTaken, Active
<1>5. ASSUME NEW l \in Terminals PROVE WaitsWell(l)'
  <2>1. WaitsWell(l)
    BY DEF IInv, RequestsGoWell
  <2> QED BY <2>1, <1>1, <1>2, NoneIsNoSession DEF WaitsWell
<1>6. ASSUME NEW l \in Terminals PROVE SpawnsWell(l)'
  <2>1. SpawnsWell(l)
    BY DEF IInv, RequestsGoWell
  <2> QED BY <2>1, <1>1, <1>2, NoneIsNoSession, LiveIsShown
  DEF SpawnsWell, JustSpawned, NoTabFor, SameTabs
<1>7. ASSUME NEW l \in Terminals PROVE AttachesWell(l)'
  <2>1. AttachesWell(l)
    BY DEF IInv, RequestsGoWell
  <2> QED BY <2>1, <1>1, <1>2, NoneIsNoSession, LiveIsShown
          DEF AttachesWell, SameTabs
<1>8. ASSUME NEW l \in Terminals PROVE SwitchesWell(l)'
  <2>1. SwitchesWell(l)
    BY DEF IInv, RequestsGoWell
  <2> QED BY <2>1, <1>1, <1>2, NoneIsNoSession, LiveIsShown
          DEF SwitchesWell, SameTabs
<1>9. OwnSession'
  BY <1>1, <1>2, NoneIsNoSession DEF IInv, RequestsGoWell, OwnSession
<1>10. TabsAreApart'
  BY <1>1, <1>2, LiveIsShown DEF IInv, TabsAreApart, SameTabs
<1>11. NamesAreRight'
  BY <1>1, <1>2, LiveIsShown DEF IInv, NamesAreRight, Replied, SameTabs
<1>12. NoneIsForgotten'
  BY <1>1, <1>2, LiveIsShown DEF IInv, NoneIsForgotten, Replied, SameTabs
<1> QED BY <1>3, <1>4, <1>5, <1>6, <1>7, <1>8, <1>9, <1>10, <1>11, <1>12
DEF IInv, RequestsGoWell

-----------------------------------------------------------------------------
(* The theorems.                                                           *)

LEMMA RunKeeps ==
  ASSUME TabsAssumption, IInv, NEW k \in Terminals, Runs(k)
  PROVE  IInv'
<1>1. CASE RunEnds(k)
  <2>1. tabs' = tabs /\ tabs' \in [Sessions -> TabType] /\ SameTabs
    BY <1>1, TabsKept DEF RunEnds, IInv, TypeOK
  <2> QED BY <1>1, <2>1, LeavingKeeps DEF RunEnds, HasTurn, Replied, NoRequest
<1>2. CASE RunSpawn(k)
  BY <1>2, RunSpawnKeeps
<1>3. ASSUME NEW p \in Sessions, RunSwitch(k, p) PROVE IInv'
  BY <1>3, RunSwitchKeeps
<1> QED BY <1>1, <1>2, <1>3 DEF Runs

LEMMA AnswerKeeps ==
  ASSUME TabsAssumption, IInv, NEW k \in Terminals, Answers(k)
  PROVE  IInv'
<1>1. CASE SpawnFails(k)
  <2>1. opening[k].session = None
    BY <1>1 DEF SpawnFails, Pending, IInv, RequestsGoWell, SpawnsWell
  <2> QED BY <1>1, <2>1, FailingKeeps DEF SpawnFails, Pending, Active
<1>2. CASE AttachRejected(k)
  BY <1>2, FailingKeeps DEF AttachRejected, Pending, Active
<1>3. CASE SwitchFails(k)
  BY <1>3, FailingKeeps DEF SwitchFails, Pending, Active
<1>4. ASSUME NEW p \in Sessions, Spawned(k, p) PROVE IInv'
  BY <1>4, SpawnedKeeps
<1>5. CASE Attached(k) \/ AttachFails(k) \/ Switched(k)
  BY <1>5, AttachedKeeps, AttachFailsKeeps, SwitchedKeeps
<1> QED BY <1>1, <1>2, <1>3, <1>4, <1>5 DEF Answers

LEMMA ReturnKeeps ==
  ASSUME TabsAssumption, IInv, NEW k \in Terminals, Returns(k)
  PROVE  IInv'
<1>1. CASE SpawnReturnsError(k) \/ AttachReturns(k)
  <2>1. tabs' = tabs /\ tabs' \in [Sessions -> TabType] /\ SameTabs
    BY <1>1, TabsKept DEF SpawnReturnsError, AttachReturns, IInv, TypeOK
  <2>2. Active(k) /\ opening[k] /= NoRequest
    BY <1>1 DEF SpawnReturnsError, AttachReturns, Replied, Active, NoRequest
  <2> QED BY <1>1, <2>1, <2>2, LeavingKeeps
          DEF SpawnReturnsError, AttachReturns, Replied
<1>2. CASE SwitchReturnsError(k)
  <2>1. Active(k) /\ opening[k] /= NoRequest
    BY <1>2 DEF SwitchReturnsError, Replied, Active, NoRequest
  <2> QED BY <1>2, <2>1, SwitchReturnsErrorTab, LeavingKeeps
          DEF SwitchReturnsError, Replied
<1>3. CASE \/ SpawnReturns(k) \/ AttachReturnsError(k) \/ SwitchReturns(k)
  BY <1>3, SpawnReturnsKeeps, AttachReturnsErrorKeeps, SwitchReturnsKeeps
<1> QED BY <1>1, <1>2, <1>3 DEF Returns

LEMMA StepInv ==
  ASSUME TabsAssumption, IInv, [Next]_vars
  PROVE  IInv'
<1>1. ASSUME NEW k \in Terminals, Open(k) \/ Runs(k) \/ Answers(k) \/ Returns(k)
      PROVE  IInv'
  BY <1>1, OpenKeeps, RunKeeps, AnswerKeeps, ReturnKeeps
<1>2. ASSUME NEW p \in Sessions,
             Close(p) \/ ExitArrives(p) \/ SessionEnds(p) \/ Killed(p)
      PROVE  IInv'
  BY <1>2, CloseKeeps, ExitArrivesKeeps, SessionEndsKeeps, KilledKeeps
<1>3. ASSUME EventsReady \/ UNCHANGED vars PROVE IInv'
  BY <1>3, IdleKeeps
<1> QED BY <1>1, <1>2, <1>3 DEF Next

LEMMA Invariant == TabsAssumption => (Spec => []IInv)
<1> SUFFICES ASSUME TabsAssumption PROVE Spec => []IInv
  OBVIOUS
<1>1. Init => IInv
  BY InitInv
<1>2. IInv /\ [Next]_vars => IInv'
  BY StepInv
<1> QED BY <1>1, <1>2, PTL DEF Spec

\* Tabs, requests, queues and the sessions of the backend keep their types.
THEOREM TypeCorrect == Spec => []TypeOK
<1>1. IInv => TypeOK
  BY DEF IInv
<1> QED BY <1>1, Invariant, TabsAssumption, PTL

\* openTerminalTab, switchRemoteTerminalTab and createMutationQueue: however
\* requests, replies, closed tabs and exits interleave, no terminal and no
\* server has two live tabs, and a live tab is named after what its session
\* shows.
THEOREM OneTabForEach == Spec => []OneTabPerTerminal
<1>1. IInv => OneTabPerTerminal
  <2> SUFFICES ASSUME IInv, NEW p \in Live
               PROVE  /\ registry[p] = "running" /\ shows[p] /= tabs[p].terminal =>
                            /\ Replied(shows[p], "switch", "done")
                            /\ opening[shows[p]].session = p
                      /\ \A q \in Live \ {p} :
                            /\ tabs[p].terminal /= tabs[q].terminal
                            /\ ~ SameServer(tabs[p].terminal, tabs[q].terminal)
    BY DEF OneTabPerTerminal, Live, SameServer
  <2>1. p \in Sessions
    BY LiveIsShown
  <2> QED BY <2>1 DEF IInv, NamesAreRight, TabsAreApart
<1> QED BY <1>1, Invariant, TabsAssumption, PTL

\* closeTab, the pty-exit listener and the error path of pty_attach: every
\* session of the backend is seen, in hand or being killed, and every live tab
\* whose session is gone will hear of it.
THEOREM NoSessionIsForgotten == Spec => []TabsFollowSessions
<1>1. IInv => TabsFollowSessions
  <2> SUFFICES ASSUME IInv, NEW p \in Sessions
               PROVE  /\ registry[p] \in {"fresh", "running"} =>
                            p \in Live \/ InHand(p) \/ p \in sent
                      /\ p \in Live /\ registry[p] = "gone" =>
                            p \in exits \/ InHand(p)
    BY DEF TabsFollowSessions, Live
  <2> QED BY DEF IInv, NoneIsForgotten, InHand
<1> QED BY <1>1, Invariant, TabsAssumption, PTL

-----------------------------------------------------------------------------
(* The backend's sessions, and their inductive invariant.                   *)

\* Where a caller has the reader of a session in hand.
Attaching == {"launch", "output", "reader"}

\* Only one caller at a time has it, nothing reads yet, and the command line
\* was not written before it comes to that.
Handshake ==
    \A c \in Callers :
        pc[c] \in Attaching =>
            /\ reader[arg[c]] = "taken"
            /\ pc[c] = "launch" => launched[arg[c]] = 0
            /\ pc[c] \in {"launch", "output"} => output[arg[c]] = "none"
            /\ \A d \in Callers :
                  pc[d] \in Attaching /\ arg[d] = arg[c] => d = c

\* How far the child, the reader and the output thread of a session are, and
\* what that says of the chunks on their way.
Stages ==
    \A s \in Ptys :
        /\ child[s] = "none" => reader[s] = "none"
        /\ reader[s] \in {"none", "slot"} =>
              /\ launched[s] = 0 /\ output[s] = "none"
              /\ queued[s] = 0 /\ pending[s] = 0 /\ shown[s] = 0
        /\ launched[s] <= 1
        /\ output[s] /= "gone" => reports[s] = 0
        /\ reports[s] <= 1
        /\ output[s] \notin {"none", "receiving"} =>
              reader[s] = "gone" /\ queued[s] = 0 /\ pending[s] = 0

\* The child was not waited for.
Unreaped(s) == child[s] \in {"running", "dead"}

\* A caller, the output thread, or the shutdown has session s in hand.
InCaller(c, s) == pc[c] \in {"lock", "wait"} /\ arg[c] = s
InOutput(s)    == output[s] \in {"lock", "wait"}
Owned(s)       == (\E c \in Callers : InCaller(c, s)) \/ InOutput(s) \/ s \in drained

AtMostOne(s) ==
    /\ \A c \in Callers : InCaller(c, s) =>
          /\ ~ InOutput(s) /\ s \notin drained
          /\ \A d \in Callers : InCaller(d, s) => d = c
    /\ InOutput(s) => s \notin drained

\* The registry, or exactly one of them, has a child that was not reaped.
HandedOver(s) ==
    /\ lock[s] = "shutdown" => s \in drained
    /\ Owned(s) <=> Unreaped(s) /\ s \notin store
    /\ AtMostOne(s)

Ownership ==
    /\ app = "running" => drained = {}
    /\ \A s \in store : Unreaped(s)
    /\ app /= "gone" => \A s \in Ptys : HandedOver(s)

PtyInv == PtyTypeOK /\ Handshake /\ Stages /\ OutputAccounted /\ Ownership

-----------------------------------------------------------------------------
LEMMA PtyInitInv == BoundsAssumption => (PtyInit => PtyInv)
<1> SUFFICES ASSUME BoundsAssumption, PtyInit PROVE PtyInv
  OBVIOUS
<1>1. PtyTypeOK
  <2>1. tty \in [Ptys -> BOOLEAN]
    BY DEF PtyInit
  <2>2. lock \in [Ptys -> Callers \cup {"output", "shutdown", Nobody}]
    BY DEF PtyInit
  <2>3. queued \in [Ptys -> 0 .. ChannelSize]
        /\ written \in [Ptys -> 0 .. MaxOutput]
    BY DEF BoundsAssumption, PtyInit
  <2> QED BY <2>1, <2>2, <2>3 DEF PtyInit, PtyTypeOK
<1>2. Handshake /\ Stages
  BY DEF PtyInit, Handshake, Attaching, Stages
<1>3. OutputAccounted
  BY DEF PtyInit, OutputAccounted, InTransit
<1>4. Ownership
  BY DEF BoundsAssumption, PtyInit, Ownership, HandedOver, Owned, InCaller,
         InOutput, AtMostOne, Unreaped
<1> QED BY <1>1, <1>2, <1>3, <1>4 DEF PtyInv

\* Every action, by itself, keeps the types.
LEMMA TypeStep ==
  ASSUME BoundsAssumption, PtyInv, [PtyNext]_ptyVars
  PROVE  PtyTypeOK'
<1> USE DEF PtyInv, PtyTypeOK, BoundsAssumption
<1>1. ASSUME NEW s \in Ptys, ChildWrites(s) PROVE PtyTypeOK'
  BY <1>1 DEF ChildWrites, calls, stream
<1>2. ASSUME NEW s \in Ptys, ChildExits(s) PROVE PtyTypeOK'
  BY <1>2 DEF ChildExits, calls, stream
<1>3. ASSUME NEW s \in Ptys, TtyCloses(s) PROVE PtyTypeOK'
  BY <1>3 DEF TtyCloses, calls, stream
<1>4. ASSUME NEW c \in Callers, NEW s \in Ptys, Spawn(c, s) PROVE PtyTypeOK'
  BY <1>4 DEF Spawn, Ready, calls, stream
<1>5. ASSUME NEW c \in Callers, NEW s \in Ptys, Attach(c, s) PROVE PtyTypeOK'
  BY <1>5 DEF Attach, Go, Begin, Ready, stream, process
<1>6. ASSUME NEW c \in Callers, Take(c) PROVE PtyTypeOK'
  BY <1>6 DEF Take, Go, Return, At, stream, process
<1>7. ASSUME NEW c \in Callers, Launch(c) PROVE PtyTypeOK'
  BY <1>7 DEF Launch, Go, At, stream, process
<1>8. ASSUME NEW c \in Callers, StartOutput(c) PROVE PtyTypeOK'
  BY <1>8 DEF StartOutput, Go, At, stream, process
<1>9. ASSUME NEW c \in Callers, StartReader(c) PROVE PtyTypeOK'
  BY <1>9 DEF StartReader, Go, Return, At, stream, process
<1>10. ASSUME NEW c \in Callers, AttachAborts(c) PROVE PtyTypeOK'
  BY <1>10 DEF AttachAborts, Go, stream, process
<1>11. ASSUME NEW c \in Callers, NEW s \in Ptys, Write(c, s) PROVE PtyTypeOK'
  BY <1>11 DEF Write, Go, Begin, Ready, stream, process
<1>12. ASSUME NEW c \in Callers, WriteReturns(c) PROVE PtyTypeOK'
  BY <1>12 DEF WriteReturns, Go, Return, At, stream, process
<1>13. ASSUME NEW c \in Callers, NEW s \in Ptys, Kill(c, s) PROVE PtyTypeOK'
  BY <1>13 DEF Kill, Go, Begin, Ready, stream, process
<1>14. ASSUME NEW c \in Callers, CallerRemoves(c) PROVE PtyTypeOK'
  BY <1>14 DEF CallerRemoves, Go, Return, At, stream, process
<1>15. ASSUME NEW c \in Callers, CallerKills(c) PROVE PtyTypeOK'
  BY <1>15 DEF CallerKills, Go, At, stream
<1>16. ASSUME NEW c \in Callers, CallerReaps(c) PROVE PtyTypeOK'
  BY <1>16 DEF CallerReaps, Go, Return, At, stream
<1>17. ASSUME Exit PROVE PtyTypeOK'
  BY <1>17 DEF Exit, calls, stream, process
<1>18. ASSUME NEW s \in Ptys, ShutdownKills(s) PROVE PtyTypeOK'
  BY <1>18 DEF ShutdownKills, calls, stream
<1>19. ASSUME NEW s \in Ptys, ShutdownReaps(s) PROVE PtyTypeOK'
  BY <1>19 DEF ShutdownReaps, calls, stream
<1>20. ASSUME Leave PROVE PtyTypeOK'
  BY <1>20 DEF Leave, calls, stream, process
<1>21. ASSUME NEW s \in Ptys, Read(s) PROVE PtyTypeOK'
  BY <1>21 DEF Read, calls, stream
<1>22. ASSUME NEW s \in Ptys, Send(s) PROVE PtyTypeOK'
  BY <1>22 DEF Send, Room, calls, process
<1>23. ASSUME NEW s \in Ptys, ReadEnds(s) PROVE PtyTypeOK'
  BY <1>23 DEF ReadEnds, calls, stream, process
<1>24. ASSUME NEW s \in Ptys, SendDone(s) PROVE PtyTypeOK'
  BY <1>24 DEF SendDone, Room, calls, process
<1>25. ASSUME NEW s \in Ptys, Receive(s) PROVE PtyTypeOK'
  BY <1>25 DEF Receive, Push, calls, process
<1>26. ASSUME NEW s \in Ptys, Flush(s) PROVE PtyTypeOK'
  BY <1>26 DEF Flush, calls, process
<1>27. ASSUME NEW s \in Ptys, StreamEnds(s) PROVE PtyTypeOK'
  BY <1>27 DEF StreamEnds, calls, process
<1>28. ASSUME NEW s \in Ptys, OutputRemoves(s) PROVE PtyTypeOK'
  BY <1>28 DEF OutputRemoves, calls, stream, process
<1>29. ASSUME NEW s \in Ptys, OutputLocks(s) PROVE PtyTypeOK'
  BY <1>29 DEF OutputLocks, calls, stream
<1>30. ASSUME NEW s \in Ptys, OutputReaps(s) PROVE PtyTypeOK'
  BY <1>30 DEF OutputReaps, calls, stream
<1>31. ASSUME NEW s \in Ptys, Report(s) PROVE PtyTypeOK'
  BY <1>31 DEF Report, calls, process
<1>32. ASSUME UNCHANGED ptyVars
      PROVE  PtyTypeOK'
  <2>1. UNCHANGED <<app, drained, store, pc, arg, launched, writer, lock,
                  reader, output, queued, last, pending, shown, reports,
                  child, killed, tty, written, unread>>
    BY <1>32 DEF ptyVars, calls, stream, process
  <2> QED BY <2>1
<1> QED BY <1>1, <1>2, <1>3, <1>4, <1>5, <1>6, <1>7, <1>8, <1>9,
           <1>10, <1>11, <1>12, <1>13, <1>14, <1>15, <1>16, <1>17, <1>18,
           <1>19, <1>20, <1>21, <1>22, <1>23, <1>24, <1>25, <1>26, <1>27,
           <1>28, <1>29, <1>30, <1>31, <1>32 DEF PtyNext, Child, Request, Command,
           Shutdown, Reader, Output

\* The reader leaves its slot once, for the hands of one caller.
LEMMA HandshakeStep ==
  ASSUME BoundsAssumption, PtyInv, [PtyNext]_ptyVars
  PROVE  Handshake'
<1> USE DEF PtyInv, PtyTypeOK, Handshake, Stages, Attaching
<1>1. ASSUME NEW c \in Callers, NEW s \in Ptys, Spawn(c, s) PROVE Handshake'
  BY <1>1 DEF Spawn, Ready, calls, stream
<1>2. ASSUME NEW c \in Callers, NEW s \in Ptys, Attach(c, s) PROVE Handshake'
  BY <1>2 DEF Attach, Go, Begin, Ready, stream, process
<1>3. ASSUME NEW c \in Callers, Take(c) PROVE Handshake'
  BY <1>3 DEF Take, Go, Return, At, stream, process
<1>4. ASSUME NEW c \in Callers, Launch(c) PROVE Handshake'
  BY <1>4 DEF Launch, Go, At, stream, process
<1>5. ASSUME NEW c \in Callers, StartOutput(c) PROVE Handshake'
  BY <1>5 DEF StartOutput, Go, At, stream, process
<1>6. ASSUME NEW c \in Callers, StartReader(c) PROVE Handshake'
  BY <1>6 DEF StartReader, Go, Return, At, stream, process
<1>7. ASSUME NEW c \in Callers, AttachAborts(c) PROVE Handshake'
  BY <1>7 DEF AttachAborts, Go, stream, process
<1>8. ASSUME NEW c \in Callers, NEW s \in Ptys, Write(c, s) PROVE Handshake'
  BY <1>8 DEF Write, Go, Begin, Ready, stream, process
<1>9. ASSUME NEW c \in Callers, WriteReturns(c) PROVE Handshake'
  BY <1>9 DEF WriteReturns, Go, Return, At, stream, process
<1>10. ASSUME NEW c \in Callers, NEW s \in Ptys, Kill(c, s) PROVE Handshake'
  BY <1>10 DEF Kill, Go, Begin, Ready, stream, process
<1>11. ASSUME NEW c \in Callers, CallerRemoves(c) PROVE Handshake'
  BY <1>11 DEF CallerRemoves, Go, Return, At, stream, process
<1>12. ASSUME NEW c \in Callers, CallerKills(c) PROVE Handshake'
  BY <1>12 DEF CallerKills, Go, At, stream
<1>13. ASSUME NEW c \in Callers, CallerReaps(c) PROVE Handshake'
  BY <1>13 DEF CallerReaps, Go, Return, At, stream
<1>14. ASSUME NEW s \in Ptys, Read(s) PROVE Handshake'
  BY <1>14 DEF Read, calls, stream
<1>15. ASSUME NEW s \in Ptys, Send(s) PROVE Handshake'
  BY <1>15 DEF Send, Room, calls, process
<1>16. ASSUME NEW s \in Ptys, ReadEnds(s) PROVE Handshake'
  BY <1>16 DEF ReadEnds, calls, stream, process
<1>17. ASSUME NEW s \in Ptys, SendDone(s) PROVE Handshake'
  BY <1>17 DEF SendDone, Room, calls, process
<1>18. ASSUME NEW s \in Ptys, StreamEnds(s) PROVE Handshake'
  BY <1>18 DEF StreamEnds, calls, process
<1>19. ASSUME NEW s \in Ptys, OutputRemoves(s) PROVE Handshake'
  BY <1>19 DEF OutputRemoves, calls, stream, process
<1>20. ASSUME NEW s \in Ptys, OutputLocks(s) PROVE Handshake'
  BY <1>20 DEF OutputLocks, calls, stream
<1>21. ASSUME NEW s \in Ptys, OutputReaps(s) PROVE Handshake'
  BY <1>21 DEF OutputReaps, calls, stream
<1>22. ASSUME NEW s \in Ptys, Report(s) PROVE Handshake'
  BY <1>22 DEF Report, calls, process
<1>23. ASSUME NEW s \in Ptys,
              ChildWrites(s) \/ ChildExits(s) \/ TtyCloses(s)
              \/ ShutdownKills(s) \/ ShutdownReaps(s) \/ Receive(s)
              \/ Flush(s)
      PROVE  Handshake'
  <2>1. UNCHANGED <<pc, arg, reader, launched, output>>
    BY <1>23 DEF ChildWrites, ChildExits, TtyCloses, ShutdownKills,
            ShutdownReaps, Receive, Push, Flush, calls, stream, process
  <2> QED BY <2>1
<1>24. ASSUME Exit \/ Leave \/ UNCHANGED ptyVars
      PROVE  Handshake'
  <2>1. UNCHANGED <<pc, arg, reader, launched, output>>
    BY <1>24 DEF Exit, Leave, ptyVars, calls, stream, process
  <2> QED BY <2>1
<1> QED BY <1>1, <1>2, <1>3, <1>4, <1>5, <1>6, <1>7, <1>8, <1>9, <1>10,
           <1>11, <1>12, <1>13, <1>14, <1>15, <1>16, <1>17, <1>18, <1>19,
           <1>20, <1>21, <1>22, <1>23, <1>24 DEF PtyNext, Child, Request, Command,
           Shutdown, Reader, Output

\* A session's reader and its output thread only ever go forward.
LEMMA StagesStep ==
  ASSUME BoundsAssumption, PtyInv, [PtyNext]_ptyVars
  PROVE  Stages'
<1> USE DEF PtyInv, PtyTypeOK, Handshake, Stages, Attaching
<1>1. ASSUME NEW s \in Ptys, ChildExits(s) PROVE Stages'
  BY <1>1 DEF ChildExits, calls, stream
<1>2. ASSUME NEW c \in Callers, NEW s \in Ptys, Spawn(c, s) PROVE Stages'
  BY <1>2 DEF Spawn, Ready, calls, stream
<1>3. ASSUME NEW c \in Callers, Take(c) PROVE Stages'
  BY <1>3 DEF Take, Go, Return, At, stream, process
<1>4. ASSUME NEW c \in Callers, Launch(c) PROVE Stages'
  BY <1>4 DEF Launch, Go, At, stream, process
<1>5. ASSUME NEW c \in Callers, StartOutput(c) PROVE Stages'
  BY <1>5 DEF StartOutput, Go, At, stream, process
<1>6. ASSUME NEW c \in Callers, StartReader(c) PROVE Stages'
  BY <1>6 DEF StartReader, Go, Return, At, stream, process
<1>7. ASSUME NEW c \in Callers, AttachAborts(c) PROVE Stages'
  BY <1>7 DEF AttachAborts, Go, stream, process
<1>8. ASSUME NEW c \in Callers, CallerReaps(c) PROVE Stages'
  BY <1>8 DEF CallerReaps, Go, Return, At, stream
<1>9. ASSUME NEW s \in Ptys, ShutdownReaps(s) PROVE Stages'
  BY <1>9 DEF ShutdownReaps, calls, stream
<1>10. ASSUME NEW s \in Ptys, Read(s) PROVE Stages'
  BY <1>10 DEF Read, calls, stream
<1>11. ASSUME NEW s \in Ptys, Send(s) PROVE Stages'
  BY <1>11 DEF Send, Room, calls, process
<1>12. ASSUME NEW s \in Ptys, ReadEnds(s) PROVE Stages'
  BY <1>12 DEF ReadEnds, calls, stream, process
<1>13. ASSUME NEW s \in Ptys, SendDone(s) PROVE Stages'
  BY <1>13 DEF SendDone, Room, calls, process
<1>14. ASSUME NEW s \in Ptys, Receive(s) PROVE Stages'
  BY <1>14 DEF Receive, Push, calls, process
<1>15. ASSUME NEW s \in Ptys, Flush(s) PROVE Stages'
  BY <1>15 DEF Flush, calls, process
<1>16. ASSUME NEW s \in Ptys, StreamEnds(s) PROVE Stages'
  BY <1>16 DEF StreamEnds, calls, process
<1>17. ASSUME NEW s \in Ptys, OutputRemoves(s) PROVE Stages'
  BY <1>17 DEF OutputRemoves, calls, stream, process
<1>18. ASSUME NEW s \in Ptys, OutputLocks(s) PROVE Stages'
  BY <1>18 DEF OutputLocks, calls, stream
<1>19. ASSUME NEW s \in Ptys, OutputReaps(s) PROVE Stages'
  BY <1>19 DEF OutputReaps, calls, stream
<1>20. ASSUME NEW s \in Ptys, Report(s) PROVE Stages'
  BY <1>20 DEF Report, calls, process
<1>21. ASSUME NEW s \in Ptys,
              ChildWrites(s) \/ TtyCloses(s) \/ ShutdownKills(s)
      PROVE  Stages'
  <2>1. UNCHANGED <<child, reader, launched, output, queued, pending, shown,
                  reports>>
    BY <1>21 DEF ChildWrites, TtyCloses, ShutdownKills, calls, stream
  <2> QED BY <2>1
<1>22. ASSUME NEW c \in Callers, NEW s \in Ptys,
              Attach(c, s) \/ Write(c, s)
              \/ Kill(c, s)
      PROVE  Stages'
  <2>1. UNCHANGED <<child, reader, launched, output, queued, pending, shown,
                  reports>>
    BY <1>22 DEF Attach, Write, Kill, Ready, calls,
            stream, process, Go, Begin
  <2> QED BY <2>1
<1>23. ASSUME NEW c \in Callers,
              WriteReturns(c) \/ CallerRemoves(c) \/ CallerKills(c)
      PROVE  Stages'
  <2>1. UNCHANGED <<child, reader, launched, output, queued, pending, shown,
                  reports>>
    BY <1>23 DEF WriteReturns, CallerRemoves, CallerKills, Go, Return, At,
            stream, process
  <2> QED BY <2>1
<1>24. ASSUME Exit \/ Leave \/ UNCHANGED ptyVars
      PROVE  Stages'
  <2>1. UNCHANGED <<child, reader, launched, output, queued, pending, shown,
                  reports>>
    BY <1>24 DEF Exit, Leave, ptyVars, calls, stream, process
  <2> QED BY <2>1
<1> QED BY <1>1, <1>2, <1>3, <1>4, <1>5, <1>6, <1>7, <1>8, <1>9, <1>10,
           <1>11, <1>12, <1>13, <1>14, <1>15, <1>16, <1>17, <1>18, <1>19,
           <1>20, <1>21, <1>22, <1>23, <1>24 DEF PtyNext, Child, Request, Command,
           Shutdown, Reader, Output

\* A chunk moves to the next station, or stays where it is.
LEMMA AccountedStep ==
  ASSUME BoundsAssumption, PtyInv, [PtyNext]_ptyVars
  PROVE  OutputAccounted'
<1> USE DEF PtyInv, PtyTypeOK, Handshake, Stages, OutputAccounted, InTransit,
           Attaching
<1>1. ASSUME NEW s \in Ptys, ChildWrites(s) PROVE OutputAccounted'
  <2>1. /\ written' = [written EXCEPT ![s] = @ + 1]
        /\ unread' = [unread EXCEPT ![s] = @ + 1]
        /\ UNCHANGED <<reader, queued, pending, shown>>
    BY <1>1 DEF ChildWrites, stream
  <2>2. ASSUME NEW r \in Ptys
        PROVE  written'[r] = unread'[r] + InTransit(r)' + shown'[r]
    <3>1. InTransit(r)' = InTransit(r) /\ InTransit(r) \in Nat
      BY <2>1
    <3>2. written[r] = unread[r] + InTransit(r) + shown[r]
          /\ written[r] \in Nat /\ unread[r] \in Nat /\ shown[r] \in Nat
      OBVIOUS
    <3>3. \/ written'[r] = written[r] /\ unread'[r] = unread[r]
          \/ written'[r] = written[r] + 1 /\ unread'[r] = unread[r] + 1
      BY <2>1
    <3> HIDE DEF InTransit
    <3> QED BY <2>1, <3>1, <3>2, <3>3
  <2> QED BY <2>2
<1>2. ASSUME NEW c \in Callers, NEW s \in Ptys, Spawn(c, s) PROVE OutputAccounted'
  BY <1>2 DEF Spawn, Ready, calls, stream
<1>3. ASSUME NEW c \in Callers, Take(c) PROVE OutputAccounted'
  BY <1>3 DEF Take, Go, Return, At, stream, process
<1>4. ASSUME NEW c \in Callers, StartReader(c) PROVE OutputAccounted'
  BY <1>4 DEF StartReader, Go, Return, At, stream, process
<1>5. ASSUME NEW c \in Callers, AttachAborts(c) PROVE OutputAccounted'
  BY <1>5 DEF AttachAborts, Go, stream, process
<1>6. ASSUME NEW s \in Ptys, Read(s) PROVE OutputAccounted'
  BY <1>6 DEF Read, calls, stream
<1>7. ASSUME NEW s \in Ptys, Send(s) PROVE OutputAccounted'
  BY <1>7 DEF Send, Room, calls, process
<1>8. ASSUME NEW s \in Ptys, ReadEnds(s) PROVE OutputAccounted'
  BY <1>8 DEF ReadEnds, calls, stream, process
<1>9. ASSUME NEW s \in Ptys, SendDone(s) PROVE OutputAccounted'
  BY <1>9 DEF SendDone, Room, calls, process
<1>10. ASSUME NEW s \in Ptys, Receive(s) PROVE OutputAccounted'
  BY <1>10 DEF Receive, Push, calls, process
<1>11. ASSUME NEW s \in Ptys, Flush(s) PROVE OutputAccounted'
  BY <1>11 DEF Flush, calls, process
<1>12. ASSUME NEW s \in Ptys, StreamEnds(s) PROVE OutputAccounted'
  BY <1>12 DEF StreamEnds, calls, process
<1>13. ASSUME NEW s \in Ptys,
              ChildExits(s) \/ TtyCloses(s) \/ ShutdownKills(s)
              \/ ShutdownReaps(s) \/ OutputRemoves(s) \/ OutputLocks(s)
              \/ OutputReaps(s) \/ Report(s)
      PROVE  OutputAccounted'
  <2>1. UNCHANGED <<written, unread, reader, queued, pending, shown>>
    BY <1>13 DEF ChildExits, TtyCloses, ShutdownKills, ShutdownReaps,
            OutputRemoves, OutputLocks, OutputReaps, Report, calls, stream,
            process
  <2> QED BY <2>1
<1>14. ASSUME NEW c \in Callers, NEW s \in Ptys,
              Attach(c, s) \/ Write(c, s)
              \/ Kill(c, s)
      PROVE  OutputAccounted'
  <2>1. UNCHANGED <<written, unread, reader, queued, pending, shown>>
    BY <1>14 DEF Attach, Write, Kill, Ready, calls,
            stream, process, Go, Begin
  <2> QED BY <2>1
<1>15. ASSUME NEW c \in Callers,
              Launch(c) \/ StartOutput(c) \/ WriteReturns(c)
              \/ CallerRemoves(c) \/ CallerKills(c) \/ CallerReaps(c)
      PROVE  OutputAccounted'
  <2>1. UNCHANGED <<written, unread, reader, queued, pending, shown>>
    BY <1>15 DEF Launch, StartOutput, WriteReturns, CallerRemoves,
            CallerKills, CallerReaps, Go, At, stream, process, Return
  <2> QED BY <2>1
<1>16. ASSUME Exit \/ Leave \/ UNCHANGED ptyVars
      PROVE  OutputAccounted'
  <2>1. UNCHANGED <<written, unread, reader, queued, pending, shown>>
    BY <1>16 DEF Exit, Leave, ptyVars, calls, stream, process
  <2> QED BY <2>1
<1> QED BY <1>1, <1>2, <1>3, <1>4, <1>5, <1>6, <1>7, <1>8, <1>9, <1>10,
           <1>11, <1>12, <1>13, <1>14, <1>15, <1>16 DEF PtyNext, Child, Request, Command,
           Shutdown, Reader, Output

\* Steps of a caller that are not about who has a child change no owner.
LEMMA SameOwners ==
  ASSUME Ownership, UNCHANGED <<app, drained, store, lock, output, child>>,
         \A c \in Callers : \A s \in Ptys : InCaller(c, s)' <=> InCaller(c, s)
  PROVE  Ownership'
<1>1. \A s \in Ptys : Owned(s)' <=> Owned(s)
  BY DEF Owned, InOutput
<1>2. \A s \in Ptys : AtMostOne(s)' <=> AtMostOne(s)
  BY DEF AtMostOne, InOutput
<1>3. ASSUME NEW s \in Ptys, app /= "gone" PROVE HandedOver(s)'
  BY <1>1, <1>2, <1>3 DEF Ownership, HandedOver, Unreaped
<1>4. \A s \in store' : Unreaped(s)'
  BY DEF Ownership, Unreaped
<1> QED BY <1>3, <1>4 DEF Ownership

\* Whoever takes a session out of the registry has its child until it is reaped.
LEMMA OwnershipStep ==
  ASSUME BoundsAssumption, PtyInv, [PtyNext]_ptyVars
  PROVE  Ownership'
<1> USE DEF PtyInv, PtyTypeOK, BoundsAssumption, Handshake, Attaching, Ownership,
           HandedOver, Owned, InCaller, InOutput, AtMostOne, Unreaped
<1>1. ASSUME NEW s \in Ptys, ChildExits(s) PROVE Ownership'
  BY <1>1 DEF ChildExits, calls, stream
<1>2. ASSUME NEW c \in Callers, NEW s \in Ptys, Spawn(c, s) PROVE Ownership'
  BY <1>2 DEF Spawn, Ready, calls, stream
<1>3. ASSUME NEW c \in Callers, StartOutput(c) PROVE Ownership'
  BY <1>3 DEF StartOutput, Go, At, stream, process
<1>4. ASSUME NEW c \in Callers, CallerRemoves(c) PROVE Ownership'
  BY SMTT(30), <1>4 DEF CallerRemoves, Go, Return, At, stream, process
<1>5. ASSUME NEW c \in Callers, CallerKills(c) PROVE Ownership'
  BY <1>5 DEF CallerKills, Go, At, stream
<1>6. ASSUME NEW c \in Callers, CallerReaps(c) PROVE Ownership'
  <2>1. PICK s \in Ptys : s = arg[c]
    BY <1>6 DEF CallerReaps, At
  <2>2. /\ app = "running" /\ drained = {} /\ pc[c] = "wait"
        /\ s \notin store /\ ~ InOutput(s)
        /\ \A d \in Callers : InCaller(d, s) => d = c
    BY <1>6, <2>1 DEF CallerReaps, At
  <2>3. /\ pc' = [pc EXCEPT ![c] = "idle"] /\ arg' = [arg EXCEPT ![c] = Nobody]
        /\ child' = [child EXCEPT ![s] = "reaped"]
        /\ lock' = [lock EXCEPT ![s] = Nobody]
        /\ UNCHANGED <<app, drained, store, output>>
    BY <1>6, <2>1 DEF CallerReaps, Go, Return
  <2>4. HandedOver(s)'
    <3>1. \A d \in Callers : ~ InCaller(d, s)'
      BY <2>2, <2>3
    <3> QED BY <2>2, <2>3, <3>1
  <2>5. ASSUME NEW r \in Ptys, r /= s PROVE HandedOver(r)'
    <3>1. \A d \in Callers : InCaller(d, r)' <=> InCaller(d, r)
      BY <2>1, <2>2, <2>3, <2>5
    <3>2. /\ child'[r] = child[r] /\ lock'[r] = lock[r]
          /\ InOutput(r)' <=> InOutput(r)
      BY <2>3, <2>5
    <3>3. HandedOver(r)
      BY <2>2
    <3> HIDE DEF InCaller, InOutput
    <3> QED BY <2>3, <3>1, <3>2, <3>3
  <2>6. \A r \in store' : Unreaped(r)'
    BY <2>2, <2>3
  <2> HIDE DEF HandedOver, Unreaped
  <2> QED BY <2>2, <2>3, <2>4, <2>5, <2>6
<1>7. ASSUME Exit PROVE Ownership'
  BY <1>7 DEF Exit, calls, stream, process
<1>8. ASSUME NEW s \in Ptys, ShutdownKills(s) PROVE Ownership'
  BY <1>8 DEF ShutdownKills, calls, stream
<1>9. ASSUME NEW s \in Ptys, ShutdownReaps(s) PROVE Ownership'
  <2>1. /\ app = "leaving" /\ s \in drained
        /\ s \notin store /\ ~ InOutput(s)
        /\ \A d \in Callers : ~ InCaller(d, s)
    BY <1>9 DEF ShutdownReaps
  <2>2. /\ drained' = drained \ {s}
        /\ child' = [child EXCEPT ![s] = "reaped"]
        /\ lock' = [lock EXCEPT ![s] = Nobody]
        /\ UNCHANGED <<app, pc, arg, store, output>>
    BY <1>9 DEF ShutdownReaps, calls
  <2>3. HandedOver(s)'
    BY <2>1, <2>2
  <2>4. ASSUME NEW r \in Ptys, r /= s PROVE HandedOver(r)'
    <3>1. \A d \in Callers : InCaller(d, r)' <=> InCaller(d, r)
      BY <2>2
    <3>2. /\ child'[r] = child[r] /\ lock'[r] = lock[r]
          /\ InOutput(r)' <=> InOutput(r)
          /\ r \in drained' <=> r \in drained
      BY <2>2, <2>4
    <3>3. HandedOver(r)
      BY <2>1
    <3> HIDE DEF InCaller, InOutput
    <3> QED BY <2>2, <3>1, <3>2, <3>3
  <2>5. \A r \in store' : Unreaped(r)'
    BY <2>1, <2>2
  <2> HIDE DEF HandedOver, Unreaped
  <2> QED BY <2>1, <2>2, <2>3, <2>4, <2>5
<1>10. ASSUME Leave PROVE Ownership'
  BY <1>10 DEF Leave, calls, stream, process
<1>11. ASSUME NEW s \in Ptys, StreamEnds(s) PROVE Ownership'
  BY <1>11 DEF StreamEnds, calls, process
<1>12. ASSUME NEW s \in Ptys, OutputRemoves(s) PROVE Ownership'
  BY <1>12 DEF OutputRemoves, calls, stream, process
<1>13. ASSUME NEW s \in Ptys, OutputLocks(s) PROVE Ownership'
  BY <1>13 DEF OutputLocks, calls, stream
<1>14. ASSUME NEW s \in Ptys, OutputReaps(s) PROVE Ownership'
  <2>1. /\ app /= "gone" /\ s \notin drained /\ s \notin store
        /\ \A d \in Callers : ~ InCaller(d, s)
    BY <1>14 DEF OutputReaps
  <2>2. /\ output' = [output EXCEPT ![s] = "report"]
        /\ child' = [child EXCEPT ![s] = "reaped"]
        /\ lock' = [lock EXCEPT ![s] = Nobody]
        /\ UNCHANGED <<app, drained, pc, arg, store>>
    BY <1>14 DEF OutputReaps, calls
  <2>3. HandedOver(s)'
    BY <2>1, <2>2
  <2>4. ASSUME NEW r \in Ptys, r /= s PROVE HandedOver(r)'
    <3>1. \A d \in Callers : InCaller(d, r)' <=> InCaller(d, r)
      BY <2>2
    <3>2. /\ child'[r] = child[r] /\ lock'[r] = lock[r]
          /\ InOutput(r)' <=> InOutput(r)
      BY <2>2, <2>4
    <3>3. HandedOver(r)
      BY <2>1
    <3> HIDE DEF InCaller, InOutput
    <3> QED BY <2>2, <3>1, <3>2, <3>3
  <2>5. \A r \in store' : Unreaped(r)'
    BY <2>1, <2>2
  <2> HIDE DEF HandedOver, Unreaped
  <2> QED BY <2>1, <2>2, <2>3, <2>4, <2>5
<1>15. ASSUME NEW s \in Ptys, Report(s) PROVE Ownership'
  BY <1>15 DEF Report, calls, process
<1>16. ASSUME NEW s \in Ptys,
              ChildWrites(s) \/ TtyCloses(s) \/ Read(s) \/ Send(s)
              \/ ReadEnds(s) \/ SendDone(s) \/ Receive(s) \/ Flush(s)
      PROVE  Ownership'
  <2>1. UNCHANGED <<app, drained, store, pc, arg, lock, output, child>>
    BY <1>16 DEF ChildWrites, TtyCloses, Read, Send, ReadEnds, SendDone,
            Receive, Push, Flush, calls, stream, Room, process
  <2> QED BY <2>1
<1>17. ASSUME NEW c \in Callers, NEW s \in Ptys,
              Attach(c, s) \/ Write(c, s)
              \/ Kill(c, s)
      PROVE  Ownership'
  <2>1. /\ pc' = pc /\ arg' = arg
        \/ /\ pc[c] = "idle"
           /\ arg' = [arg EXCEPT ![c] = s]
           /\ \E w \in {"take", "write", "remove"} : pc' = [pc EXCEPT ![c] = w]
    BY <1>17 DEF Attach, Write, Kill, Ready, calls, Go, Begin
  <2>2. UNCHANGED <<app, drained, store, lock, output, child>>
    BY <1>17 DEF Attach, Write, Kill, process
  <2>3. \A d \in Callers : \A r \in Ptys : InCaller(d, r)' <=> InCaller(d, r)
    BY <2>1
  <2> QED BY <2>2, <2>3, SameOwners
<1>18. ASSUME NEW c \in Callers,
              Take(c) \/ Launch(c) \/ StartReader(c) \/ AttachAborts(c)
              \/ WriteReturns(c)
      PROVE  Ownership'
  <2>1. pc[c] \in {"take", "launch", "output", "reader", "write"}
    BY <1>18 DEF Take, Launch, StartReader, AttachAborts, WriteReturns, At
  <2>2. /\ \E w \in {"launch", "output", "idle", "remove"} :
              pc' = [pc EXCEPT ![c] = w]
        /\ arg' = arg \/ arg' = [arg EXCEPT ![c] = Nobody]
    BY <1>18
    DEF Take, Launch, StartReader, AttachAborts, WriteReturns, Go, Return
  <2>3. UNCHANGED <<app, drained, store, lock, output, child>>
    BY <1>18 DEF Take, Launch, StartReader, AttachAborts, WriteReturns, process
  <2>4. \A d \in Callers : \A r \in Ptys : InCaller(d, r)' <=> InCaller(d, r)
    BY <2>1, <2>2
  <2> QED BY <2>3, <2>4, SameOwners
<1>19. ASSUME UNCHANGED ptyVars
      PROVE  Ownership'
  <2>1. UNCHANGED <<app, drained, store, pc, arg, lock, output, child>>
    BY <1>19 DEF ptyVars, calls, stream, process
  <2> QED BY <2>1
<1> QED BY <1>1, <1>2, <1>3, <1>4, <1>5, <1>6, <1>7, <1>8, <1>9, <1>10, <1>11,
           <1>12, <1>13, <1>14, <1>15, <1>16, <1>17, <1>18, <1>19 DEF PtyNext,
           Child, Request, Command, Shutdown, Reader, Output

LEMMA InvStep == BoundsAssumption /\ PtyInv /\ [PtyNext]_ptyVars => PtyInv'
BY TypeStep, HandshakeStep, StagesStep, AccountedStep, OwnershipStep DEF PtyInv

LEMMA InvHolds == PtySpec => []PtyInv
<1>1. PtyInit => PtyInv
  BY PtyInitInv, BoundsAssumption
<1>2. PtyInv /\ [PtyNext]_ptyVars => PtyInv'
  BY InvStep, BoundsAssumption
<1> QED BY <1>1, <1>2, PTL DEF PtySpec

-----------------------------------------------------------------------------
(* Every variable keeps its type, for every set of sessions and callers    *)
(* and every bound: the channel, in particular, never holds more than its  *)
(* size (lib.rs, pty_attach).                                              *)
THEOREM PtyTypeCorrect == PtySpec => []PtyTypeOK
<1>1. PtyInv => PtyTypeOK
  BY DEF PtyInv
<1> QED BY <1>1, InvHolds, PTL

(* No chunk that a child wrote is lost or shown twice on its way through   *)
(* the reader thread, the bounded channel and the batcher (lib.rs,         *)
(* pty_attach).                                                            *)
THEOREM OutputIsAccounted == PtySpec => []OutputAccounted
<1>1. PtyInv => OutputAccounted
  BY DEF PtyInv
<1> QED BY <1>1, InvHolds, PTL

(* pty-exit is emitted at most once per session and nothing is emitted     *)
(* after it (lib.rs, the end of the output thread).                        *)
THEOREM ExitComesLast == PtySpec => []ExitIsLast
<1>1. PtyInv => ExitIsLast
  BY DEF PtyInv, PtyTypeOK, Stages, ExitIsLast, InTransit
<1> QED BY <1>1, InvHolds, PTL

(* However many callers attach to a session and however often, its tool is *)
(* launched at most once (pty.rs, take_once).                              *)
THEOREM LaunchHappensOnce == PtySpec => []LaunchedOnce
<1>1. PtyInv => LaunchedOnce
  BY DEF PtyInv, Stages, LaunchedOnce
<1> QED BY <1>1, InvHolds, PTL

(* A child that was not waited for is in the registry or has exactly one   *)
(* party that will wait for it, whichever of end of file, close, failed    *)
(* attach and exit of the application come together (lib.rs,               *)
(* finish_pty_session and shutdown_pty_sessions).                          *)
THEOREM ChildHasOneOwner == PtySpec => []OneOwner
<1>1. ASSUME BoundsAssumption, PtyInv PROVE OneOwner
  <2>1. ASSUME NEW s \in Ptys, Unreaped(s), app /= "gone", s \in store
        PROVE  Owners(s) = {}
    BY <1>1, <2>1 DEF PtyInv, Ownership, HandedOver, Owned, InCaller, InOutput,
           Owners
  <2>2. ASSUME NEW s \in Ptys, Unreaped(s), app /= "gone", s \notin store
        PROVE  \E o : Owners(s) = {o}
    <3>1. Owned(s) /\ AtMostOne(s)
      BY <1>1, <2>2 DEF PtyInv, Ownership, HandedOver
    <3>2. ASSUME NEW c \in Callers, InCaller(c, s) PROVE Owners(s) = {c}
      BY <3>1, <3>2 DEF AtMostOne, InCaller, InOutput, Owners
    <3>3. CASE InOutput(s)
      <4>1. Owners(s) = {"output"}
        BY <3>1, <3>3 DEF AtMostOne, InCaller, InOutput, Owners
      <4> QED BY <4>1
    <3>4. CASE s \in drained
      <4>1. Owners(s) = {"shutdown"}
        BY <3>1, <3>4 DEF AtMostOne, InCaller, InOutput, Owners
      <4> QED BY <4>1
    <3> QED BY <3>1, <3>2, <3>3, <3>4 DEF Owned
  <2>3. ASSUME NEW s \in Ptys, Unreaped(s), app /= "gone"
        PROVE  Cardinality(Owners(s)) = (IF s \in store THEN 0 ELSE 1)
    <3>1. CASE s \in store
      BY <2>1, <2>3, <3>1, FS_EmptySet
    <3>2. CASE s \notin store
      BY <2>2, <2>3, <3>2, FS_Singleton
    <3> QED BY <3>1, <3>2
  <2>4. ASSUME NEW s \in Ptys, child[s] = "reaped"
        PROVE  s \notin store
    BY <1>1, <2>4 DEF PtyInv, Ownership, Unreaped
  <2> QED BY <2>3, <2>4 DEF OneOwner, Unreaped
<1>2. PtyInv => OneOwner
  BY <1>1, BoundsAssumption
<1> QED BY <1>2, InvHolds, PTL
=============================================================================
