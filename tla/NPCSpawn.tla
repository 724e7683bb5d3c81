------------------------------ MODULE NPCSpawn ------------------------------
(***************************************************************************)
(* The population of programs (NPCs) of the hackermud server:              *)
(* UpdateNPCSpawn fills every zone up to its table, programs roam and are  *)
(* killed (src/hackermud/server/world.cpp, npc.cpp).                       *)
(***************************************************************************)
EXTENDS Naturals, FiniteSets

CONSTANTS
  NPCs,        \* bound: the CNPC objects of a behaviour
  Vnums,       \* kinds of program in g_oNPCDBHash
  Rooms,
  Zones,
  Zone,        \* [Rooms -> Zones], GetZoneNum
  Exits,       \* set of <<room, room>>
  Table,       \* g_oNPCZoneSpawnTable: set of [zone, vnum, count]
  NoRoom

ASSUME SpawnAssumption ==
  /\ Zone \in [Rooms -> Zones]
  /\ Exits \subseteq Rooms \X Rooms
  /\ Table \subseteq [zone : Zones, vnum : Vnums, count : Nat]
  /\ \A e, f \in Table : e.zone = f.zone /\ e.vnum = f.vnum => e = f
  /\ NoRoom \notin Rooms
  /\ IsFiniteSet(NPCs)

VARIABLES
  made,    \* the objects made so far: m_lastNPCID counts up
  kind,    \* GetVnum
  room     \* m_pCurrentRoom, NoRoom before SpawnNPC and after delete

npcVars == <<made, kind, room>>

NPCTypeOK ==
  /\ made \subseteq NPCs
  /\ kind \in [NPCs -> Vnums]
  /\ room \in [NPCs -> Rooms \cup {NoRoom}]
  /\ \A n \in NPCs : room[n] # NoRoom => n \in made

NPCInit ==
  /\ made = {}
  /\ kind \in [NPCs -> Vnums]
  /\ room = [n \in NPCs |-> NoRoom]

-----------------------------------------------------------------------------

\* g_worldNPCs
Alive == {n \in NPCs : room[n] # NoRoom}

\* The programs GetNPCZoneCount counts.
InZone(zone, vnum) == {n \in Alive : Zone[room[n]] = zone /\ kind[n] = vnum}

\* Entries whose zone is behind the last zone of rooms.txt are skipped; all the
\* zones before it have rooms.
Served == {e \in Table : \E r \in Rooms : Zone[r] = e.zone}

\* How many programs an entry of the table is short of.
Missing(e) ==
  LET current == Cardinality(InZone(e.zone, e.vnum)) IN
  IF current < e.count THEN e.count - current ELSE 0

\* The new programs of an entry: SpawnNPC of its kind, in rooms of its zone.
For(e, new, in) == {n \in new : Zone[in[n]] = e.zone /\ kind[n] = e.vnum}

\* All that is missing is made in one call, each in a random room of its zone.
\* The bound NPCs stops it when no object is left.
UpdateNPCSpawn ==
  \E new \in SUBSET (NPCs \ made) : \E in \in [new -> Rooms] :
    /\ \A e \in Served : Cardinality(For(e, new, in)) = Missing(e)
    /\ new = UNION {For(e, new, in) : e \in Served}
    /\ made' = made \cup new
    /\ room' = [n \in NPCs |-> IF n \in new THEN in[n] ELSE room[n]]
    /\ UNCHANGED kind

\* Mutant: a program roams through any exit.
RoamAnywhere(n, to) ==
  /\ n \in Alive
  /\ <<room[n], to>> \in Exits
  /\ room' = [room EXCEPT ![n] = to]
  /\ UNCHANGED <<made, kind>>

\* DoNPCActions: a random exit "must be in the same zone".
Roam(n, to) ==
  /\ n \in Alive
  /\ <<room[n], to>> \in Exits
  /\ Zone[to] = Zone[room[n]]
  /\ room' = [room EXCEPT ![n] = to]
  /\ UNCHANGED <<made, kind>>

\* CNPC::Kill deletes the object.
Kill(n) ==
  /\ n \in Alive
  /\ room' = [room EXCEPT ![n] = NoRoom]
  /\ UNCHANGED <<made, kind>>

NPCNext ==
  \/ UpdateNPCSpawn
  \/ \E n \in NPCs : Kill(n) \/ \E to \in Rooms : Roam(n, to)

NPCSpec == NPCInit /\ [][NPCNext]_npcVars

-----------------------------------------------------------------------------
(* Properties *)

\* No zone ever has more programs of a kind than its table says: roaming
\* never moves one to where the next count does not see it.
PopulationBounded ==
  \A e \in Table : Cardinality(InZone(e.zone, e.vnum)) <= e.count

=============================================================================
