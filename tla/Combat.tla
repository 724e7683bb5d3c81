------------------------------- MODULE Combat -------------------------------
(***************************************************************************)
(* Fights of the hackermud server: who stands in which room and who is     *)
(* attacking whom (src/hackermud/server: player.cpp, npc.cpp, world.cpp,   *)
(* script.cpp, damage.cpp and the attack and movement handlers of          *)
(* networkcommands.cpp).                                                   *)
(*                                                                         *)
(* A player or a program (NPC) keeps a list of targets by ID.  Nobody is   *)
(* removed from the lists of the others when it dies, flees or logs out:   *)
(* a target is looked up in the room whenever it is used, and dropped by   *)
(* the next round of UpdateAttacks that does not find it there.            *)
(*                                                                         *)
(* Abstraction: a list of targets is the set of them, and its head is any  *)
(* of them; hit points, levels and CPU are abstracted to the outcomes they *)
(* decide (a hit is lethal or not, a move is paid for or not).             *)
(***************************************************************************)
EXTENDS Naturals

CONSTANTS
  Players,     \* player objects; IDs are counted up and never used again
  NPCs,        \* programs, likewise
  Rooms,
  PKRooms,     \* rooms with IsPKAllowed
  Exits,       \* set of <<room, room>>
  SameZone,    \* the pairs of Exits that stay in one zone
  SpawnRooms,  \* rooms a dead player may be put in
  StartRooms,  \* rooms a created or logged in player is put in
  Stationary,  \* NPCs that do not roam
  Aggressive,  \* NPCs that attack players in their room
  OnEnter,     \* NPCs that attack a player who walks in
  Blocking,    \* NPCs that nobody can flee from
  NoRoom

Fighters == Players \cup NPCs

ASSUME CombatAssumption ==
  /\ PKRooms \subseteq Rooms
  /\ Exits \subseteq Rooms \X Rooms
  /\ SameZone \subseteq Exits
  /\ SpawnRooms \subseteq Rooms
  /\ StartRooms \subseteq Rooms
  /\ Stationary \cup Aggressive \cup OnEnter \cup Blocking \subseteq NPCs
  /\ NoRoom \notin Rooms
  /\ Players \cap NPCs = {}

VARIABLES
  phase,    \* "play", or the loop of UpdateAttacks that is running
  todo,     \* the fighters that loop has yet to visit
  used,     \* the IDs given away so far
  online,   \* g_worldPlayers: a created player is not in it until its login
  room,     \* m_pCurrentRoom (NoRoom: not made yet, or deleted)
  targets   \* m_attackTargets

vars == <<phase, todo, used, online, room, targets>>

TypeOK ==
  /\ phase \in {"play", "players", "npcs"}
  /\ todo \subseteq Fighters
  /\ used \subseteq Fighters
  /\ online \subseteq Players
  /\ room \in [Fighters -> Rooms \cup {NoRoom}]
  /\ targets \in [Fighters -> SUBSET Fighters]
  /\ \A f \in Fighters : room[f] # NoRoom => f \in used
  /\ \A p \in online : room[p] # NoRoom

Init ==
  /\ phase = "play"
  /\ todo = {}
  /\ used = {}
  /\ online = {}
  /\ room = [f \in Fighters |-> NoRoom]
  /\ targets = [f \in Fighters |-> {}]

-----------------------------------------------------------------------------
(* Targets *)

\* GetPlayerInRoomByID, GetNPCInRoomByID: t stands where f stands.
Near(f, t) == room[f] # NoRoom /\ room[t] = room[f]

IsFighting(f) == targets[f] # {}

\* The targets that f would find in its room.
Present(f) == {t \in targets[f] : Near(f, t)}

\* Mutant: the target does not attack back.
EngageOneWay(tg, a, b) == [tg EXCEPT ![a] = @ \cup {b}]

\* a attacks b, and b is made to attack a back.
Engage(tg, a, b) == [tg EXCEPT ![a] = @ \cup {b}, ![b] = @ \cup {a}]

\* Mutant: SetRoom() keeps the targets of a player who respawns.
ForgetVictim(tg, k, v) == [tg EXCEPT ![k] = @ \ {v}]

\* k kills v: StopFightingTarget() of k, and v loses its targets, by SetRoom()
\* if it is a player and by being deleted if it is not.
AfterKill(tg, k, v) == [[tg EXCEPT ![k] = @ \ {v}] EXCEPT ![v] = {}]

\* A dead player respawns in r; a dead program is deleted.
RoomsAfterKill(v, r) == [room EXCEPT ![v] = IF v \in Players THEN r ELSE NoRoom]

\* The programs that attack a player who enters room r.
Ambush(r) == {n \in OnEnter : room[n] = r /\ ~IsFighting(n)}

\* The targets when player p has moved to room r and, if told is true,
\* DoPlayerEnterRoomAction was reached.
AfterEnter(p, r, told) ==
  LET A == IF told THEN Ambush(r) ELSE {}
  IN [f \in Fighters |->
        IF f = p THEN A ELSE IF f \in A THEN targets[f] \cup {p} ELSE targets[f]]

-----------------------------------------------------------------------------
(* Coming and going *)

\* NWCCreatePlayer and NWCAuth put a new player object in a room; only a login
\* links it in the list of the world.
EnterWorld(p, r, login) ==
  /\ phase = "play"
  /\ p \notin used
  /\ used' = used \cup {p}
  /\ online' = IF login THEN online \cup {p} ELSE online
  /\ room' = [room EXCEPT ![p] = r]
  /\ UNCHANGED <<phase, todo, targets>>

\* Mutant: the object is deleted and stays linked in the list of the world.
LeaveLinked(p) ==
  /\ phase = "play"
  /\ p \in online
  /\ room' = [room EXCEPT ![p] = NoRoom]
  /\ targets' = [targets EXCEPT ![p] = {}]
  /\ UNCHANGED <<phase, todo, used, online>>

\* A player is deleted, by the reaper or by a new login of its name.
LeaveWorld(p) ==
  /\ phase = "play"
  /\ p \in online
  /\ online' = online \ {p}
  /\ room' = [room EXCEPT ![p] = NoRoom]
  /\ targets' = [targets EXCEPT ![p] = {}]
  /\ UNCHANGED <<phase, todo, used>>

\* UpdateNPCSpawn makes a program and puts it in a room of its zone.
SpawnNPC(n, r) ==
  /\ phase = "play"
  /\ n \notin used
  /\ used' = used \cup {n}
  /\ room' = [room EXCEPT ![n] = r]
  /\ UNCHANGED <<phase, todo, online, targets>>

-----------------------------------------------------------------------------
(* Commands of a player *)

\* NWCAttack of another player.
NWCAttackPlayer(p, q) ==
  /\ phase = "play"
  /\ p \in online
  /\ Near(p, q)
  /\ q # p
  /\ room[p] \in PKRooms
  /\ targets' = Engage(targets, p, q)
  /\ UNCHANGED <<phase, todo, used, online, room>>

\* NWCAttack of a program.
NWCAttackNPC(p, n) ==
  /\ phase = "play"
  /\ p \in online
  /\ Near(p, n)
  /\ targets' = Engage(targets, p, n)
  /\ UNCHANGED <<phase, todo, used, online, room>>

\* A script hits t, which p named or which is its first target: it starts the
\* fight and does its damage at once.
ScriptHit(p, t, lethal, r) ==
  /\ phase = "play"
  /\ p \in online
  /\ Near(p, t)
  /\ t \in Players => room[p] \in PKRooms
  /\ targets' = IF lethal THEN AfterKill(Engage(targets, p, t), p, t) ELSE Engage(targets, p, t)
  /\ room' = IF lethal THEN RoomsAfterKill(t, r) ELSE room
  /\ UNCHANGED <<phase, todo, used, online>>

DoScriptCorrupt(p, t, lethal, r) == t # p /\ ScriptHit(p, t, lethal, r)

DoScriptExploit(p, t, lethal, r) == t # p /\ ScriptHit(p, t, lethal, r)

\* As built (ENABLE_IMPLANT_BUG) the implant script may name its own player.
DoScriptImplant(p, t, lethal, r) == ScriptHit(p, t, lethal, r)

\* The scripts that hit; the other ones change stats or items only.
RunScript(p, t, lethal, r) ==
  \/ DoScriptCorrupt(p, t, lethal, r)
  \/ DoScriptExploit(p, t, lethal, r)
  \/ DoScriptImplant(p, t, lethal, r)

\* NWCDirection.
NWCDirection(p, r, told) ==
  /\ phase = "play"
  /\ p \in online
  /\ ~IsFighting(p)
  /\ <<room[p], r>> \in Exits
  /\ room' = [room EXCEPT ![p] = r]
  /\ targets' = AfterEnter(p, r, told)
  /\ UNCHANGED <<phase, todo, used, online>>

\* Mutant: the programs in the room are not asked.
FleeAnyway(p, r, told) ==
  /\ phase = "play"
  /\ p \in online
  /\ <<room[p], r>> \in Exits
  /\ room' = [room EXCEPT ![p] = r]
  /\ targets' = AfterEnter(p, r, told)
  /\ UNCHANGED <<phase, todo, used, online>>

\* NWCPlayerFlee.
NWCPlayerFlee(p, r, told) ==
  /\ phase = "play"
  /\ p \in online
  /\ \A n \in Blocking : ~(Near(p, n) /\ p \in targets[n])
  /\ <<room[p], r>> \in Exits
  /\ room' = [room EXCEPT ![p] = r]
  /\ targets' = AfterEnter(p, r, told)
  /\ UNCHANGED <<phase, todo, used, online>>

-----------------------------------------------------------------------------
(* DoNPCActions *)

\* The program is free to roam.
CanRoam(n) == room[n] # NoRoom /\ n \notin Stationary /\ ~IsFighting(n)

NPCRoam(n, r) ==
  /\ phase = "play"
  /\ CanRoam(n)
  /\ <<room[n], r>> \in SameZone
  /\ room' = [room EXCEPT ![n] = r]
  /\ UNCHANGED <<phase, todo, used, online, targets>>

\* Mutant: a program attacks whoever is there.
PreyAnyone(n) == {f \in Fighters \ {n} : Near(n, f)}

\* The players that an aggressive program picks from, connected or not.
Prey(n) == {p \in Players : Near(n, p)}

\* An idle aggressive program attacks a player in its room, and may at once
\* run a damage script on it, which does nothing unless it kills.
NPCAggress(n, p, lethal, r) ==
  /\ phase = "play"
  /\ n \in Aggressive
  /\ ~IsFighting(n)
  /\ p \in Prey(n)
  /\ targets' = IF lethal THEN AfterKill(Engage(targets, n, p), n, p) ELSE Engage(targets, n, p)
  /\ room' = IF lethal THEN RoomsAfterKill(p, r) ELSE room
  /\ UNCHANGED <<phase, todo, used, online>>

\* A fighting program kills a player with a damage script.
NPCScriptKills(n, p, r) ==
  /\ phase = "play"
  /\ n \in NPCs
  /\ p \in Present(n) \cap Players
  /\ targets' = AfterKill(targets, n, p)
  /\ room' = RoomsAfterKill(p, r)
  /\ UNCHANGED <<phase, todo, used, online>>

-----------------------------------------------------------------------------
(* UpdateAttacks *)

StartAttacks ==
  /\ phase = "play"
  /\ phase' = "players"
  /\ todo' = online
  /\ UNCHANGED <<used, online, room, targets>>

\* The loop visits f: D are the absent targets it drops before it finds t.
Attack(f, t, D, lethal, r) ==
  LET tg == [targets EXCEPT ![f] = @ \ D]
  IN
  /\ f \in todo
  /\ t \in Present(f)
  /\ D \subseteq targets[f] \ Present(f)
  /\ targets' = IF lethal THEN AfterKill(tg, f, t) ELSE tg
  /\ room' = IF lethal THEN RoomsAfterKill(t, r) ELSE room
  /\ todo' = todo \ {f}
  /\ UNCHANGED <<phase, used, online>>

\* Mutant: an absent target is skipped and kept.
MissKept(f) ==
  /\ f \in todo
  /\ Present(f) = {}
  /\ todo' = todo \ {f}
  /\ UNCHANGED <<phase, used, online, room, targets>>

\* The loop visits f and finds none of its targets: it drops all of them.
Miss(f) ==
  /\ f \in todo
  /\ Present(f) = {}
  /\ targets' = [targets EXCEPT ![f] = {}]
  /\ todo' = todo \ {f}
  /\ UNCHANGED <<phase, used, online, room>>

\* The players had their turn; then the programs.
EndPlayers ==
  /\ phase = "players"
  /\ todo = {}
  /\ phase' = "npcs"
  /\ todo' = {n \in NPCs : room[n] # NoRoom}
  /\ UNCHANGED <<used, online, room, targets>>

EndAttacks ==
  /\ phase = "npcs"
  /\ todo = {}
  /\ phase' = "play"
  /\ UNCHANGED <<todo, used, online, room, targets>>

-----------------------------------------------------------------------------

Come ==
  \/ \E p \in Players, r \in StartRooms, login \in BOOLEAN : EnterWorld(p, r, login)
  \/ \E p \in Players : LeaveWorld(p)
  \/ \E n \in NPCs, r \in Rooms : SpawnNPC(n, r)

Command ==
  \E p \in Players :
    \/ \E q \in Players : NWCAttackPlayer(p, q)
    \/ \E n \in NPCs : NWCAttackNPC(p, n)
    \/ \E t \in Fighters, lethal \in BOOLEAN, r \in SpawnRooms : RunScript(p, t, lethal, r)
    \/ \E r \in Rooms, told \in BOOLEAN :
         NWCDirection(p, r, told) \/ NWCPlayerFlee(p, r, told)

Programs ==
  \E n \in NPCs :
    \/ \E r \in Rooms : NPCRoam(n, r)
    \/ \E p \in Fighters, lethal \in BOOLEAN, r \in SpawnRooms : NPCAggress(n, p, lethal, r)
    \/ \E p \in Players, r \in SpawnRooms : NPCScriptKills(n, p, r)

UpdateAttacks ==
  \/ StartAttacks
  \/ \E f \in Fighters :
       \/ \E t \in Fighters, D \in SUBSET Fighters, lethal \in BOOLEAN, r \in SpawnRooms :
            Attack(f, t, D, lethal, r)
       \/ Miss(f)
  \/ EndPlayers
  \/ EndAttacks

Next == Come \/ Command \/ Programs \/ UpdateAttacks

Spec == Init /\ [][Next]_vars

\* UpdateEvent runs a round of attacks every seven ticks, for ever.
FairSpec == Spec /\ WF_vars(UpdateAttacks)

-----------------------------------------------------------------------------
(* Properties *)

\* Players fight each other only where the room allows it: whoever holds a
\* player as a target stands in a PK room.  The handlers check the room only
\* when a fight starts; UpdateAttacks, which does the damage, does not.
PvPOnlyInPKRooms ==
  \A p, q \in Players : q \in targets[p] => room[p] \in PKRooms

\* A player that attacks a living program has it at its side and is attacked
\* back: the program cannot have lost the player, roamed off or made peace.
Engaged ==
  \A p \in Players, n \in NPCs :
    n \in targets[p] /\ room[n] # NoRoom => Near(p, n) /\ p \in targets[n]

\* Nobody gets away from a program that blocks: a player who is fighting one
\* leaves its room only by dying or by being deleted.  NWCPlayerFlee looks at
\* the program's targets and NWCDirection at the player's own, so this needs
\* the two lists to agree.
BlockedStays ==
  [][\A p \in Players, n \in Blocking :
       n \in targets[p] /\ room[n] # NoRoom
         => room'[p] \in {room[p], NoRoom} \cup SpawnRooms]_vars

\* UpdateAttacks keeps a pointer to the next fighter while the current one
\* kills: none of those it has yet to visit may be deleted by that.
LoopVisitsLiving == \A f \in todo : room[f] # NoRoom

\* A player or a program whose targets are all gone is free again after the
\* next round (a player may not walk and a program may not roam before it).
TargetsGetDropped ==
  \A f \in Fighters :
    IsFighting(f) /\ Present(f) = {} ~> ~IsFighting(f) \/ Present(f) # {} \/ f \in Players \ online

=============================================================================
