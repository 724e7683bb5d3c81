---------------------------- MODULE CombatProofs ----------------------------
(***************************************************************************)
(* Proofs about Combat, for any set of players, programs and rooms and any *)
(* map of exits.                                                           *)
(***************************************************************************)
EXTENDS Combat, TLAPS

TargetLists == [Fighters -> SUBSET Fighters]
Places == [Fighters -> Rooms \cup {NoRoom}]

\* What any lists of targets tg keep true of the places rm and the IDs u that
\* were given away: only such IDs are targets, programs attack only players,
\* whoever is in no room has no targets, players fight where it is allowed,
\* and a program that a player attacks is there and attacks back.
Fights(tg, rm, u) ==
  /\ tg \in TargetLists
  /\ rm \in Places
  /\ \A f, t \in Fighters : t \in tg[f] => t \in u /\ rm[f] # NoRoom
  /\ \A n \in NPCs, t \in Fighters : t \in tg[n] => t \in Players
  /\ \A p, q \in Players : q \in tg[p] => rm[p] \in PKRooms
  /\ \A p \in Players, n \in NPCs :
       n \in tg[p] /\ rm[n] # NoRoom => rm[p] = rm[n] /\ p \in tg[n]

\* The loops of UpdateAttacks visit one kind of fighter each.
LoopInv ==
  /\ phase = "play" => todo = {}
  /\ phase = "players" => todo \subseteq Players
  /\ phase = "npcs" => todo \subseteq NPCs

\* The inductive invariant.
CombatInv == TypeOK /\ Fights(targets, room, used) /\ LoopInv /\ LoopVisitsLiving

-----------------------------------------------------------------------------
(* What the operations on lists of targets do *)

\* a and b have each other as targets, and nothing else changed.
LEMMA EngageTargets ==
  ASSUME NEW tg \in TargetLists, NEW a \in Fighters, NEW b \in Fighters
  PROVE  /\ Engage(tg, a, b) \in TargetLists
         /\ \A f, t \in Fighters :
              t \in Engage(tg, a, b)[f]
                <=> t \in tg[f] \/ (f = a /\ t = b) \/ (f = b /\ t = a)
<1>1. CASE a = b
  BY <1>1 DEF Engage, TargetLists
<1>2. CASE a # b
  BY <1>2 DEF Engage, TargetLists
<1>3. QED
  BY <1>1, <1>2

\* The victim has no targets and is none of its killer's.
LEMMA AfterKillTargets ==
  ASSUME NEW tg \in TargetLists, NEW k \in Fighters, NEW v \in Fighters
  PROVE  /\ AfterKill(tg, k, v) \in TargetLists
         /\ \A f, t \in Fighters :
              t \in AfterKill(tg, k, v)[f] <=> t \in tg[f] /\ f # v /\ ~(f = k /\ t = v)
         /\ AfterKill(tg, k, v)[v] = {}
BY DEF AfterKill, TargetLists

\* The programs in ambush and the player who walked in have each other.
LEMMA AfterEnterTargets ==
  ASSUME TypeOK, NEW p \in Players, NEW r \in Rooms, NEW told \in BOOLEAN
  PROVE  /\ AfterEnter(p, r, told) \in TargetLists
         /\ \A f, t \in Fighters :
              t \in AfterEnter(p, r, told)[f] <=>
                \/ f = p /\ told /\ t \in Ambush(r)
                \/ f # p /\ t \in targets[f]
                \/ f # p /\ told /\ f \in Ambush(r) /\ t = p
<1>1. Ambush(r) \subseteq NPCs /\ NPCs \subseteq Fighters /\ p \in Fighters
  BY CombatAssumption DEF Ambush, Fighters
<1>2. CASE told
  BY <1>1, <1>2, CombatAssumption DEF AfterEnter, TargetLists, TypeOK
<1>3. CASE ~told
  BY <1>1, <1>3, CombatAssumption DEF AfterEnter, TargetLists, TypeOK
<1>4. QED
  BY <1>2, <1>3

-----------------------------------------------------------------------------
(* Fights is kept by each of them *)

\* Two fighters that may fight, in the same room, attack each other.
LEMMA EngageFights ==
  ASSUME NEW tg, NEW rm, NEW u, Fights(tg, rm, u),
         NEW a \in Fighters, NEW b \in Fighters, a \in u, b \in u,
         rm[a] # NoRoom, rm[b] = rm[a],
         a \in Players \/ b \in Players,
         a \in Players /\ b \in Players => rm[a] \in PKRooms
  PROVE  Fights(Engage(tg, a, b), rm, u)
<1> DEFINE e == Engage(tg, a, b)
<1>1. /\ e \in TargetLists
      /\ \A f, t \in Fighters :
           t \in e[f] <=> t \in tg[f] \/ (f = a /\ t = b) \/ (f = b /\ t = a)
  BY EngageTargets DEF Fights
<1> HIDE DEF e
<1>2. \A f, t \in Fighters : t \in e[f] => t \in u /\ rm[f] # NoRoom
  BY <1>1 DEF Fights
<1>3. \A n \in NPCs, t \in Fighters : t \in e[n] => t \in Players
  BY <1>1, CombatAssumption DEF Fights, Fighters
<1>4. \A p, q \in Players : q \in e[p] => rm[p] \in PKRooms
  BY <1>1, CombatAssumption DEF Fights, Fighters
<1>5. \A p \in Players, n \in NPCs :
        n \in e[p] /\ rm[n] # NoRoom => rm[p] = rm[n] /\ p \in e[n]
  BY <1>1, CombatAssumption DEF Fights, Fighters
<1>6. Fights(e, rm, u)
  BY <1>1, <1>2, <1>3, <1>4, <1>5 DEF Fights
<1>7. QED
  BY <1>6 DEF e

\* A fighter dies: a player comes back in room r, a program is deleted.
LEMMA KillFights ==
  ASSUME NEW tg, NEW rm, NEW u, Fights(tg, rm, u),
         NEW k \in Fighters, NEW v \in Fighters, NEW r \in Rooms
  PROVE  Fights(AfterKill(tg, k, v),
                [rm EXCEPT ![v] = IF v \in Players THEN r ELSE NoRoom], u)
<1> DEFINE e == AfterKill(tg, k, v)
           m == [rm EXCEPT ![v] = IF v \in Players THEN r ELSE NoRoom]
<1>1. /\ e \in TargetLists
      /\ \A f, t \in Fighters : t \in e[f] <=> t \in tg[f] /\ f # v /\ ~(f = k /\ t = v)
  BY AfterKillTargets DEF Fights
<1>2. /\ m \in Places
      /\ m[v] = IF v \in Players THEN r ELSE NoRoom
      /\ \A f \in Fighters : f # v => m[f] = rm[f]
  BY DEF Fights, Places
<1> HIDE DEF e, m
<1>3. \A f, t \in Fighters : t \in e[f] => t \in u /\ m[f] # NoRoom
  BY <1>1, <1>2 DEF Fights
<1>4. \A n \in NPCs, t \in Fighters : t \in e[n] => t \in Players
  BY <1>1 DEF Fights, Fighters
<1>5. \A p, q \in Players : q \in e[p] => m[p] \in PKRooms
  BY <1>1, <1>2 DEF Fights, Fighters
<1>6. \A p \in Players, n \in NPCs :
        n \in e[p] /\ m[n] # NoRoom => m[p] = m[n] /\ p \in e[n]
  <2> SUFFICES ASSUME NEW p \in Players, NEW n \in NPCs, n \in e[p], m[n] # NoRoom
               PROVE  m[p] = m[n] /\ p \in e[n]
    OBVIOUS
  <2>1. n # v /\ p # v
    BY <1>1, <1>2, CombatAssumption DEF Fighters
  <2>2. QED
    BY <1>1, <1>2, <2>1 DEF Fights, Fighters
<1>7. Fights(e, m, u)
  BY <1>1, <1>2, <1>3, <1>4, <1>5, <1>6 DEF Fights
<1>8. QED
  BY <1>7 DEF e, m

\* A player walks or flees into a room.
LEMMA EnterFights ==
  ASSUME CombatInv, NEW p \in Players, NEW r \in Rooms, NEW told \in BOOLEAN,
         room[p] # NoRoom
  PROVE  Fights(AfterEnter(p, r, told), [room EXCEPT ![p] = r], used)
<1> DEFINE e == AfterEnter(p, r, told)
           m == [room EXCEPT ![p] = r]
<1>1. /\ e \in TargetLists
      /\ \A f, t \in Fighters :
           t \in e[f] <=> \/ f = p /\ told /\ t \in Ambush(r)
                          \/ f # p /\ t \in targets[f]
                          \/ f # p /\ told /\ f \in Ambush(r) /\ t = p
  BY AfterEnterTargets DEF CombatInv
<1>2. /\ m \in Places
      /\ m[p] = r
      /\ \A f \in Fighters : f # p => m[f] = room[f]
  BY DEF CombatInv, TypeOK, Places, Fighters
<1>3. \A n \in Ambush(r) : n \in NPCs /\ room[n] = r /\ n \in used /\ n # p
  BY CombatAssumption DEF Ambush, CombatInv, TypeOK, Fighters
<1>4. p \in used /\ r # NoRoom
  BY CombatAssumption DEF CombatInv, TypeOK, Fighters
<1> HIDE DEF e, m
<1>5. \A f, t \in Fighters : t \in e[f] => t \in used /\ m[f] # NoRoom
  BY <1>1, <1>2, <1>3, <1>4 DEF CombatInv, Fights
<1>6. \A n \in NPCs, t \in Fighters : t \in e[n] => t \in Players
  BY <1>1, CombatAssumption DEF CombatInv, Fights, Fighters
<1>7. \A x, y \in Players : y \in e[x] => m[x] \in PKRooms
  BY <1>1, <1>2, <1>3, CombatAssumption DEF CombatInv, Fights, Fighters
<1>8. \A x \in Players, n \in NPCs :
        n \in e[x] /\ m[n] # NoRoom => m[x] = m[n] /\ x \in e[n]
  BY <1>1, <1>2, <1>3, CombatAssumption DEF CombatInv, Fights, Fighters
<1>9. Fights(e, m, used)
  BY <1>1, <1>2, <1>5, <1>6, <1>7, <1>8 DEF Fights
<1>10. QED
  BY <1>9 DEF e, m

\* An absent target, or any target, is dropped by its attacker when it is not
\* a living program that attacks back.
LEMMA DropFights ==
  ASSUME CombatInv, NEW f \in Fighters, NEW D \in SUBSET Fighters,
         D \subseteq targets[f] \ Present(f)
  PROVE  Fights([targets EXCEPT ![f] = @ \ D], room, used)
<1> DEFINE e == [targets EXCEPT ![f] = @ \ D]
<1>1. /\ e \in TargetLists
      /\ \A x, t \in Fighters : t \in e[x] <=> t \in targets[x] /\ ~(x = f /\ t \in D)
  BY DEF CombatInv, TypeOK, TargetLists
<1>2. \A t \in D : room[f] # NoRoom => room[t] # room[f]
  BY DEF Present, Near
<1> HIDE DEF e
<1>3. \A x \in Players, n \in NPCs :
        n \in e[x] /\ room[n] # NoRoom => room[x] = room[n] /\ x \in e[n]
  BY <1>1, <1>2 DEF CombatInv, Fights, Fighters
<1>4. Fights(e, room, used)
  BY <1>1, <1>3 DEF CombatInv, Fights, Fighters
<1>5. QED
  BY <1>4 DEF e

-----------------------------------------------------------------------------
(* The invariant *)

\* Outside the rounds of attacks nobody is waiting to be visited: a step of the
\* players or of the programs keeps the invariant if it keeps the fights.
LEMMA PlayStep ==
  ASSUME CombatInv, phase = "play", UNCHANGED <<phase, todo, used, online>>,
         Fights(targets', room', used),
         \A f \in Fighters : room'[f] # NoRoom => room[f] # NoRoom,
         \A p \in Players : room[p] # NoRoom => room'[p] # NoRoom
  PROVE  CombatInv'
<1>1. TypeOK'
  BY DEF CombatInv, TypeOK, Fights, TargetLists, Places, Fighters
<1>2. LoopInv' /\ LoopVisitsLiving'
  BY DEF CombatInv, LoopInv, LoopVisitsLiving
<1>3. QED
  BY <1>1, <1>2 DEF CombatInv

\* Every room of a fighter is a room, and a room is not NoRoom.
LEMMA RoomsAfterKillType ==
  ASSUME CombatInv, NEW v \in Fighters, NEW r \in SpawnRooms, room[v] # NoRoom
  PROVE  /\ RoomsAfterKill(v, r) \in Places
         /\ \A f \in Fighters : RoomsAfterKill(v, r)[f] # NoRoom => room[f] # NoRoom
         /\ \A f \in Fighters :
              room[f] # NoRoom /\ RoomsAfterKill(v, r)[f] = NoRoom => f = v /\ v \notin Players
BY CombatAssumption DEF CombatInv, TypeOK, RoomsAfterKill, Places

\* The invariant of the fights: what the properties of Combat rest on.
THEOREM CombatInvariant == Spec => []CombatInv
<1>1. Init => CombatInv
  BY CombatAssumption
     DEF Init, CombatInv, TypeOK, Fights, TargetLists, Places, LoopInv, LoopVisitsLiving, Fighters
<1>2. CombatInv /\ [Next]_vars => CombatInv'
  <2> SUFFICES ASSUME CombatInv, [Next]_vars
               PROVE  CombatInv'
    OBVIOUS
  <2>1. CASE UNCHANGED vars
    BY <2>1 DEF vars, CombatInv, TypeOK, Fights, LoopInv, LoopVisitsLiving
  <2>2. ASSUME NEW p \in Players, NEW r \in StartRooms, NEW login \in BOOLEAN,
               EnterWorld(p, r, login)
        PROVE  CombatInv'
    <3>1. room[p] = NoRoom /\ p \in Fighters /\ r \in Rooms /\ r # NoRoom
      BY <2>2, CombatAssumption DEF EnterWorld, CombatInv, TypeOK, Fighters
    <3>2. TypeOK'
      BY <2>2, <3>1 DEF EnterWorld, CombatInv, TypeOK, Fighters
    <3>3. Fights(targets', room', used')
      BY <2>2, <3>1, CombatAssumption
         DEF EnterWorld, CombatInv, TypeOK, Fights, Places, Fighters
    <3>4. QED
      BY <2>2, <3>2, <3>3 DEF EnterWorld, CombatInv, LoopInv, LoopVisitsLiving
  <2>3. ASSUME NEW p \in Players, LeaveWorld(p)
        PROVE  CombatInv'
    <3>1. p \in Fighters /\ targets'[p] = {} /\ room'[p] = NoRoom
          /\ \A f \in Fighters : f # p => targets'[f] = targets[f] /\ room'[f] = room[f]
      BY <2>3 DEF LeaveWorld, CombatInv, TypeOK, Fighters
    <3>2. TypeOK'
      BY <2>3 DEF LeaveWorld, CombatInv, TypeOK, Fighters
    <3>3. Fights(targets', room', used')
      BY <2>3, <3>1, <3>2, CombatAssumption
         DEF LeaveWorld, CombatInv, TypeOK, Fights, TargetLists, Places, Fighters
    <3>4. QED
      BY <2>3, <3>2, <3>3 DEF LeaveWorld, CombatInv, LoopInv, LoopVisitsLiving
  <2>4. ASSUME NEW n \in NPCs, NEW r \in Rooms, SpawnNPC(n, r)
        PROVE  CombatInv'
    <3>1. room[n] = NoRoom /\ n \in Fighters /\ r # NoRoom
      BY <2>4, CombatAssumption DEF SpawnNPC, CombatInv, TypeOK, Fighters
    <3>2. \A f \in Fighters : n \notin targets[f]
      BY <2>4, <3>1 DEF SpawnNPC, CombatInv, Fights
    <3>3. TypeOK'
      BY <2>4, <3>1, CombatAssumption DEF SpawnNPC, CombatInv, TypeOK, Fighters
    <3>4. Fights(targets', room', used')
      BY <2>4, <3>1, <3>2, CombatAssumption
         DEF SpawnNPC, CombatInv, TypeOK, Fights, Places, Fighters
    <3>5. QED
      BY <2>4, <3>3, <3>4 DEF SpawnNPC, CombatInv, LoopInv, LoopVisitsLiving
  <2>5. ASSUME NEW p \in Players, NEW q \in Players, NWCAttackPlayer(p, q)
        PROVE  CombatInv'
    <3>1. Fights(Engage(targets, p, q), room, used)
      BY <2>5, EngageFights DEF NWCAttackPlayer, Near, CombatInv, TypeOK, Fighters
    <3>2. QED
      BY <2>5, <3>1, PlayStep DEF NWCAttackPlayer
  <2>6. ASSUME NEW p \in Players, NEW n \in NPCs, NWCAttackNPC(p, n)
        PROVE  CombatInv'
    <3>1. Fights(Engage(targets, p, n), room, used)
      BY <2>6, EngageFights, CombatAssumption
         DEF NWCAttackNPC, Near, CombatInv, TypeOK, Fighters
    <3>2. QED
      BY <2>6, <3>1, PlayStep DEF NWCAttackNPC
  <2>7. ASSUME NEW p \in Players, NEW t \in Fighters, NEW lethal \in BOOLEAN,
               NEW r \in SpawnRooms, RunScript(p, t, lethal, r)
        PROVE  CombatInv'
    <3>. ScriptHit(p, t, lethal, r)
      BY <2>7 DEF RunScript, DoScriptCorrupt, DoScriptExploit, DoScriptImplant
    <3>1. p \in Fighters /\ r \in Rooms /\ room[t] # NoRoom
      BY CombatAssumption DEF ScriptHit, Near, Fighters
    <3>2. Fights(Engage(targets, p, t), room, used)
      BY <3>1, EngageFights DEF ScriptHit, Near, CombatInv, TypeOK
    <3>3. CASE lethal
      <4>1. Fights(AfterKill(Engage(targets, p, t), p, t), RoomsAfterKill(t, r), used)
        BY <3>1, <3>2, KillFights DEF RoomsAfterKill
      <4>2. QED
        BY <3>1, <3>3, <4>1, RoomsAfterKillType, PlayStep DEF ScriptHit, Fighters
    <3>4. CASE ~lethal
      BY <3>2, <3>4, PlayStep DEF ScriptHit
    <3>5. QED
      BY <3>3, <3>4
  <2>8. ASSUME NEW p \in Players, NEW r \in Rooms, NEW told \in BOOLEAN,
               NWCDirection(p, r, told) \/ NWCPlayerFlee(p, r, told)
        PROVE  CombatInv'
    <3>1. /\ phase = "play" /\ p \in online
          /\ room' = [room EXCEPT ![p] = r]
          /\ targets' = AfterEnter(p, r, told)
          /\ UNCHANGED <<phase, todo, used, online>>
      BY <2>8 DEF NWCDirection, NWCPlayerFlee
    <3>2. room[p] # NoRoom /\ p \in Fighters /\ r # NoRoom
      BY <3>1, CombatAssumption DEF CombatInv, TypeOK, Fighters
    <3>3. Fights(targets', room', used)
      BY <3>1, <3>2, EnterFights
    <3>4. \A f \in Fighters : room'[f] # NoRoom <=> room[f] # NoRoom
      BY <3>1, <3>2 DEF CombatInv, TypeOK
    <3>5. QED
      BY <3>1, <3>3, <3>4, PlayStep DEF Fighters
  <2>9. ASSUME NEW n \in NPCs, NEW r \in Rooms, NPCRoam(n, r)
        PROVE  CombatInv'
    <3>1. n \in Fighters /\ r # NoRoom /\ room[n] # NoRoom /\ targets[n] = {}
      BY <2>9, CombatAssumption DEF NPCRoam, CanRoam, IsFighting, Fighters
    <3>2. \A p \in Players : n \notin targets[p]
      BY <3>1 DEF CombatInv, Fights, Fighters
    <3>3. Fights(targets', room', used)
      BY <2>9, <3>1, <3>2, CombatAssumption
         DEF NPCRoam, CombatInv, TypeOK, Fights, Places, Fighters
    <3>4. \A f \in Fighters : room'[f] # NoRoom <=> room[f] # NoRoom
      BY <2>9, <3>1 DEF NPCRoam, CombatInv, TypeOK
    <3>5. QED
      BY <2>9, <3>3, <3>4, PlayStep DEF NPCRoam, Fighters
  <2>10. ASSUME NEW n \in NPCs, NEW p \in Fighters, NEW lethal \in BOOLEAN,
                NEW r \in SpawnRooms, NPCAggress(n, p, lethal, r)
         PROVE  CombatInv'
    <3>1. n \in Fighters /\ r \in Rooms /\ room[n] # NoRoom /\ room[p] = room[n] /\ p \in Players
      BY <2>10, CombatAssumption DEF NPCAggress, Prey, Near, Fighters
    <3>2. Fights(Engage(targets, n, p), room, used)
      BY <3>1, EngageFights, CombatAssumption DEF CombatInv, TypeOK
    <3>3. CASE lethal
      <4>1. Fights(AfterKill(Engage(targets, n, p), n, p), RoomsAfterKill(p, r), used)
        BY <3>1, <3>2, KillFights DEF RoomsAfterKill
      <4>2. QED
        BY <2>10, <3>1, <3>3, <4>1, RoomsAfterKillType, PlayStep DEF NPCAggress, Fighters
    <3>4. CASE ~lethal
      BY <2>10, <3>2, <3>4, PlayStep DEF NPCAggress
    <3>5. QED
      BY <3>3, <3>4
  <2>11. ASSUME NEW n \in NPCs, NEW p \in Players, NEW r \in SpawnRooms,
                NPCScriptKills(n, p, r)
         PROVE  CombatInv'
    <3>1. n \in Fighters /\ p \in Fighters /\ r \in Rooms /\ room[p] # NoRoom
      BY <2>11, CombatAssumption DEF NPCScriptKills, Present, Near, Fighters
    <3>2. Fights(AfterKill(targets, n, p), RoomsAfterKill(p, r), used)
      BY <3>1, KillFights DEF CombatInv, RoomsAfterKill
    <3>3. QED
      BY <2>11, <3>1, <3>2, RoomsAfterKillType, PlayStep DEF NPCScriptKills, Fighters
  <2>12. CASE StartAttacks
    BY <2>12 DEF StartAttacks, CombatInv, TypeOK, Fights, LoopInv, LoopVisitsLiving, Fighters
  <2>13. ASSUME NEW f \in Fighters, NEW t \in Fighters, NEW D \in SUBSET Fighters,
                NEW lethal \in BOOLEAN, NEW r \in SpawnRooms, Attack(f, t, D, lethal, r)
         PROVE  CombatInv'
    <3> DEFINE tg == [targets EXCEPT ![f] = @ \ D]
    <3>1. r \in Rooms /\ room[t] # NoRoom /\ f \in todo /\ t \in targets[f]
      BY <2>13, CombatAssumption DEF Attack, Present, Near
    <3>2. Fights(tg, room, used)
      BY <2>13, DropFights DEF Attack
    <3> HIDE DEF tg
    <3>3. Fights(targets', room', used')
      <4>1. CASE lethal
        <5>1. Fights(AfterKill(tg, f, t), RoomsAfterKill(t, r), used)
          BY <3>1, <3>2, KillFights DEF RoomsAfterKill
        <5>2. QED
          BY <2>13, <4>1, <5>1 DEF Attack, tg
      <4>2. CASE ~lethal
        BY <2>13, <3>2, <4>2 DEF Attack, tg
      <4>3. QED
        BY <4>1, <4>2
    <3>4. \A x \in Fighters :
            room'[x] # room[x] /\ room'[x] = NoRoom => x = t /\ t \notin Players
      BY <2>13, <3>1, RoomsAfterKillType DEF Attack
    <3>5. \A x \in Fighters : room'[x] # NoRoom => room[x] # NoRoom
      BY <2>13, <3>1, RoomsAfterKillType DEF Attack
    <3>6. TypeOK'
      <4>1. todo' \subseteq todo /\ UNCHANGED <<phase, used, online>>
        BY <2>13 DEF Attack
      <4>2. room' \in Places /\ targets' \in TargetLists
        BY <3>3 DEF Fights
      <4>3. \A p \in online : room'[p] # NoRoom
        BY <3>4 DEF CombatInv, TypeOK, Fighters
      <4>4. QED
        BY <3>5, <4>1, <4>2, <4>3 DEF CombatInv, TypeOK, TargetLists, Places
    <3>7. LoopInv'
      BY <2>13 DEF Attack, CombatInv, LoopInv
    <3>8. LoopVisitsLiving'
      <4>1. CASE t \in Players
        BY <2>13, <3>4, <4>1 DEF Attack, CombatInv, TypeOK, LoopVisitsLiving
      <4>2. CASE t \notin Players
        <5>1. f \notin NPCs
          BY <3>1, <4>2 DEF CombatInv, Fights
        <5>2. todo \subseteq Players
          BY <3>1, <5>1 DEF CombatInv, TypeOK, LoopInv
        <5>3. QED
          BY <2>13, <3>4, <4>2, <5>2 DEF Attack, CombatInv, TypeOK, LoopVisitsLiving
      <4>3. QED
        BY <4>1, <4>2
    <3>9. QED
      BY <3>3, <3>6, <3>7, <3>8 DEF CombatInv
  <2>14. ASSUME NEW f \in Fighters, Miss(f)
         PROVE  CombatInv'
    <3>1. Fights([targets EXCEPT ![f] = @ \ targets[f]], room, used)
      BY <2>14, DropFights DEF Miss, CombatInv, TypeOK
    <3>2. targets' = [targets EXCEPT ![f] = @ \ targets[f]]
      BY <2>14 DEF Miss, CombatInv, TypeOK
    <3>3. TypeOK'
      BY <2>14 DEF Miss, CombatInv, TypeOK
    <3>4. Fights(targets', room', used')
      BY <2>14, <3>1, <3>2 DEF Miss
    <3>5. QED
      BY <2>14, <3>3, <3>4 DEF Miss, CombatInv, LoopInv, LoopVisitsLiving
  <2>15. CASE EndPlayers
    BY <2>15 DEF EndPlayers, CombatInv, TypeOK, Fights, LoopInv, LoopVisitsLiving, Fighters
  <2>16. CASE EndAttacks
    BY <2>16 DEF EndAttacks, CombatInv, TypeOK, Fights, LoopInv, LoopVisitsLiving
  <2>17. QED
    BY <2>1, <2>2, <2>3, <2>4, <2>5, <2>6, <2>7, <2>8, <2>9, <2>10, <2>11, <2>12, <2>13,
       <2>14, <2>15, <2>16 DEF Next, Come, Command, Programs, UpdateAttacks
<1>3. QED
  BY <1>1, <1>2, PTL DEF Spec

-----------------------------------------------------------------------------
(* The properties *)

\* Rooms, lists of targets and the loops of UpdateAttacks are well typed: only
\* objects that were made are in rooms, and whoever is in the list of the
\* world is in a room.
THEOREM CombatTypeCorrect == Spec => []TypeOK
BY CombatInvariant, PTL DEF CombatInv

\* Players are attacked by players only in the rooms that allow it, although
\* UpdateAttacks and Kill move and hit them without looking at the room.
THEOREM CombatPvP == Spec => []PvPOnlyInPKRooms
<1>1. CombatInv => PvPOnlyInPKRooms
  BY DEF CombatInv, Fights, PvPOnlyInPKRooms
<1>2. QED
  BY <1>1, CombatInvariant, PTL

\* A living program that a player attacks is in the player's room and attacks
\* the player back.
THEOREM CombatEngaged == Spec => []Engaged
<1>1. CombatInv => Engaged
  <2> SUFFICES ASSUME CombatInv, NEW p \in Players, NEW n \in NPCs,
                      n \in targets[p], room[n] # NoRoom
               PROVE  Near(p, n) /\ p \in targets[n]
    BY DEF Engaged
  <2>1. QED
    BY DEF CombatInv, Fights, Near, Fighters
<1>2. QED
  BY <1>1, CombatInvariant, PTL

\* The loops of UpdateAttacks, which hold a pointer to the next fighter while
\* the current one attacks, never reach one that was deleted meanwhile.
THEOREM CombatLoops == Spec => []LoopVisitsLiving
BY CombatInvariant, PTL DEF CombatInv

\* A player who is fighting a program that blocks leaves its room only by
\* dying or by being deleted.
THEOREM CombatBlockedStays == Spec => BlockedStays
<1> DEFINE Stays == \A p \in Players, n \in Blocking :
                      n \in targets[p] /\ room[n] # NoRoom
                        => room'[p] \in {room[p], NoRoom} \cup SpawnRooms
<1>1. CombatInv /\ [Next]_vars => Stays
  <2> SUFFICES ASSUME CombatInv, [Next]_vars, NEW p \in Players, NEW n \in Blocking,
                      n \in targets[p], room[n] # NoRoom
               PROVE  room'[p] \in {room[p], NoRoom} \cup SpawnRooms
    OBVIOUS
  <2>1. n \in NPCs /\ p \in Fighters /\ n \in Fighters /\ p # n
    BY CombatAssumption DEF Fighters
  <2>2. p \in targets[n] /\ room[p] = room[n] /\ p \in used
    BY <2>1 DEF CombatInv, Fights, TypeOK
  <2>3. CASE UNCHANGED vars
    BY <2>3 DEF vars
  <2>4. CASE Come
    BY <2>1, <2>2, <2>4 DEF Come, EnterWorld, LeaveWorld, SpawnNPC, CombatInv, TypeOK
  <2>5. CASE Command
    <3>1. ASSUME NEW q \in Players, NEW r \in Rooms, NEW told \in BOOLEAN,
                 NWCDirection(q, r, told)
          PROVE  room'[p] = room[p]
      BY <2>1, <3>1 DEF NWCDirection, IsFighting, CombatInv, TypeOK
    <3>2. ASSUME NEW q \in Players, NEW r \in Rooms, NEW told \in BOOLEAN,
                 NWCPlayerFlee(q, r, told)
          PROVE  room'[p] = room[p]
      BY <2>1, <2>2, <3>2 DEF NWCPlayerFlee, Near, CombatInv, TypeOK
    <3>3. ASSUME NEW q \in Players, NEW t \in Fighters, NEW lethal \in BOOLEAN,
                 NEW r \in SpawnRooms, RunScript(q, t, lethal, r)
          PROVE  room'[p] \in {room[p], NoRoom} \cup SpawnRooms
      <4>1. ScriptHit(q, t, lethal, r)
        BY <3>3 DEF RunScript, DoScriptCorrupt, DoScriptExploit, DoScriptImplant
      <4>2. QED
        BY <2>1, <4>1 DEF ScriptHit, RoomsAfterKill, CombatInv, TypeOK
    <3>4. QED
      BY <2>5, <3>1, <3>2, <3>3 DEF Command, NWCAttackPlayer, NWCAttackNPC
  <2>6. CASE Programs
    <3>1. ASSUME NEW k \in NPCs, NEW r \in Rooms, NPCRoam(k, r)
          PROVE  room'[p] = room[p]
      BY <2>1, <3>1, CombatAssumption DEF NPCRoam, CombatInv, TypeOK
    <3>2. ASSUME NEW k \in NPCs, NEW t \in Fighters, NEW lethal \in BOOLEAN,
                 NEW r \in SpawnRooms, NPCAggress(k, t, lethal, r)
          PROVE  room'[p] \in {room[p], NoRoom} \cup SpawnRooms
      <4>1. room' = IF lethal THEN RoomsAfterKill(t, r) ELSE room
        BY <3>2 DEF NPCAggress
      <4>2. QED
        BY <2>1, <4>1 DEF RoomsAfterKill, CombatInv, TypeOK
    <3>3. ASSUME NEW k \in NPCs, NEW t \in Players, NEW r \in SpawnRooms,
                 NPCScriptKills(k, t, r)
          PROVE  room'[p] \in {room[p], NoRoom} \cup SpawnRooms
      BY <2>1, <3>3 DEF NPCScriptKills, RoomsAfterKill, CombatInv, TypeOK
    <3>4. QED
      BY <2>6, <3>1, <3>2, <3>3 DEF Programs
  <2>7. CASE UpdateAttacks
    <3>1. ASSUME NEW f \in Fighters, NEW t \in Fighters, NEW D \in SUBSET Fighters,
                 NEW lethal \in BOOLEAN, NEW r \in SpawnRooms, Attack(f, t, D, lethal, r)
          PROVE  room'[p] \in {room[p], NoRoom} \cup SpawnRooms
      <4>1. room' = IF lethal THEN RoomsAfterKill(t, r) ELSE room
        BY <3>1 DEF Attack
      <4>2. QED
        BY <2>1, <4>1 DEF RoomsAfterKill, CombatInv, TypeOK
    <3>2. QED
      BY <2>7, <3>1 DEF UpdateAttacks, StartAttacks, Miss, EndPlayers, EndAttacks
  <2>8. QED
    BY <2>3, <2>4, <2>5, <2>6, <2>7 DEF Next
<1>2. CombatInv /\ [Next]_vars => [Stays]_vars
  BY <1>1
<1>3. QED
  BY <1>2, CombatInvariant, PTL DEF Spec, BlockedStays

=============================================================================
