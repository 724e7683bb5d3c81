---------------------------- MODULE ClientMirror ----------------------------
(***************************************************************************)
(* What a hackermud client shows against what the server holds.            *)
(*                                                                         *)
(* The client never asks: it keeps lists of the players, programs and      *)
(* items of its room, its inventory, its slot and its CPU, and changes     *)
(* them by the messages the server sends for every change (the handlers of *)
(* src/hackermud/client/networkcommands.cpp; the senders are in            *)
(* src/hackermud/server/networkcommands.cpp, player.cpp, npc.cpp,          *)
(* room.cpp, script.cpp).  A handler that finds its picture out of step    *)
(* disconnects, or refuses the message and leaves the loop that reads.     *)
(*                                                                         *)
(* Me is the player behind the client.  CPU stands for the three stats,    *)
(* one slot for all slots, one level for the three levels, the number of   *)
(* items for disk space.  Fights are in Combat: here they only kill.  An   *)
(* item that is loaded again keeps its identity, and a deleted one may be  *)
(* made again; the program always takes a new ID.                          *)
(***************************************************************************)
EXTENDS Naturals, FiniteSets, SequencesExt

CONSTANTS
  Rooms, Start,      \* Start is INITIAL_ROOM_VNUM
  Me, Others, NPCs, Items,
  DropOnPK,          \* the items that death and exit drop
  NoItem,            \* an empty slot
  BaseCPU, Boost,    \* maximal CPU, and what an installed item adds
  Needs, MaxLevel,   \* level needed to install an item
  MAX_ITEMS_IN_ROOM, MaxCarry,
  MaxPending,        \* the server goes on while no more messages wait
  GoesOn             \* and, or not, when the client of Me is out of step

Players == {Me} \cup Others

ASSUME MirrorAssumption ==
  /\ Start \in Rooms /\ Me \notin Others /\ NoItem \notin Items
  /\ Players \cap NPCs = {}
  /\ DropOnPK \subseteq Items
  /\ BaseCPU \in Nat /\ Boost \in [Items -> Nat]
  /\ MaxLevel \in Nat /\ Needs \in [Items -> Nat]
  /\ MAX_ITEMS_IN_ROOM \in Nat \ {0} /\ MaxCarry \in Nat /\ MaxPending \in Nat
  /\ GoesOn \in BOOLEAN

VARIABLES
  playersIn,    \* CRoom::m_playersInRoom
  npcsIn,       \* CRoom::m_npcsInRoom
  itemsIn,      \* CRoom::m_itemsInRoom
  carried,      \* CPlayer::m_itemsOnPlayer
  installed,    \* m_pEquipItems of Me
  cpu, level,   \* m_CPU and level of Me
  connected,    \* the players in the world whose connection works
  created,      \* characters of NWCCreatePlayer, in a room without a session
  misnamed,     \* auxiliary: Me, since the login, has fingered one it will not show
  pending,      \* the messages on their way to the client of Me
  view          \* the client: its player, its room and the last verdict

world == <<playersIn, npcsIn, itemsIn>>
mine == <<installed, cpu, level>>
sessions == <<connected, created, misnamed>>
mirrorVars == <<world, carried, mine, sessions, pending, view>>

Placed(p) == \E r \in Rooms : p \in ToSet(playersIn[r])
RoomOf(p) == CHOOSE r \in Rooms : p \in ToSet(playersIn[r])
Seen(n) == \E r \in Rooms : n \in ToSet(npcsIn[r])
HomeOf(n) == CHOOSE r \in Rooms : n \in ToSet(npcsIn[r])

\* The items that exist nowhere.
Unmade ==
  Items \ (UNION ({ToSet(itemsIn[r]) : r \in Rooms}
                    \cup {ToSet(carried[p]) : p \in Players}
                    \cup {{installed}}))

Push(s, x) == <<x>> \o s        \* TList::InsertHead

\* What a loop over a list keeps of it: the elements of a set, in their order.
Only(s, S) ==
  LET kept[k \in 0 .. Len(s)] ==
        IF k = 0 THEN <<>>
        ELSE IF s[k] \in S THEN Append(kept[k - 1], s[k]) ELSE kept[k - 1]
  IN kept[Len(s)]

\* The list without an element, which it has once at most.
Without(s, x) == Only(s, ToSet(s) \ {x})

MaxCPU(slot) == BaseCPU + (IF slot = NoItem THEN 0 ELSE Boost[slot])

\* GetMovementCPUNeeded: a share of the maximum, and at least one.
MoveCPU(max) == IF max \div 2 = 0 THEN 1 ELSE max \div 2

Limit(n, max) == IF n > max THEN max ELSE n

-----------------------------------------------------------------------------
(* The client.  A handler gives the view after a message.                  *)

NoView ==
  [inRoom |-> FALSE, players |-> <<>>, npcs |-> <<>>, items |-> <<>>,
   inventory |-> <<>>, slot |-> NoItem, cpu |-> 0, level |-> 0, verdict |-> "done"]

\* Returns false: the message is dropped and the loop of main is left.
Refused(v) == [v EXCEPT !.verdict = "refused"]

\* Disconnects, or follows the NULL room.
Lost(v) == [v EXCEPT !.verdict = "lost"]

\* ReadPlayerData: the room is forgotten until the next message names one.
NWCPlayerDeathResponse(v, m) ==
  [NoView EXCEPT !.inventory = m.inventory, !.slot = m.slot,
                 !.cpu = m.cpu, !.level = m.level]

NWCPlayerEnterroomResponse(v, m) ==
  [v EXCEPT !.inRoom = TRUE, !.players = m.players, !.npcs = m.npcs, !.items = m.items]

NWCPlayerSaysResponse(v, m) ==
  IF m.who \in ToSet(v.players) THEN v ELSE Refused(v)

NWCPlayerArrivesResponse(v, m) ==
  IF m.who = Me \/ m.who \in ToSet(v.players)
    THEN v
    ELSE [v EXCEPT !.players = Push(v.players, m.who)]

\* One's own leaving costs CPU; the other lists follow with the next room.
NWCPlayerLeavesResponse(v, m) ==
  IF m.who # Me
    THEN [v EXCEPT !.players = Without(v.players, m.who)]
    ELSE CASE m.how = "flee" -> [v EXCEPT !.cpu = 0]
           [] m.how = "logout" -> v
           [] OTHER -> IF MoveCPU(MaxCPU(v.slot)) > v.cpu
                         THEN Lost(v)
                         ELSE [v EXCEPT !.cpu = @ - MoveCPU(MaxCPU(v.slot))]

NWCNPCArrivesResponse(v, m) ==
  IF m.who \in ToSet(v.npcs) THEN v ELSE [v EXCEPT !.npcs = Push(v.npcs, m.who)]

NWCNPCLeavesResponse(v, m) ==
  IF m.who \in ToSet(v.npcs) THEN [v EXCEPT !.npcs = Without(v.npcs, m.who)] ELSE Refused(v)

NWCPlayerKilledResponse(v, m) ==
  IF m.who \in ToSet(v.players)
    THEN [v EXCEPT !.players = Without(v.players, m.who)]
    ELSE IF m.who \in ToSet(v.npcs)
           THEN [v EXCEPT !.npcs = Without(v.npcs, m.who)]
           ELSE Refused(v)

\* CPlayer::AddItemToInventory, then RemoveItemFromRoom.
NWCPlayerGetItemResponse(v, m) ==
  LET got == [v EXCEPT !.inventory = Push(v.inventory, m.item)] IN
  IF Len(v.inventory) + 1 > MaxCarry
    THEN Refused(v)
    ELSE IF m.item \in ToSet(v.items)
           THEN [got EXCEPT !.items = Without(v.items, m.item)]
           ELSE Refused(got)

NWCOtherPlayerGetItemResponse(v, m) ==
  IF m.who \in ToSet(v.players) /\ m.item \in ToSet(v.items)
    THEN [v EXCEPT !.items = Without(v.items, m.item)]
    ELSE Refused(v)

NWCPlayerDropItemResponse(v, m) ==
  IF m.item \in ToSet(v.inventory)
    THEN [v EXCEPT !.inventory = Without(v.inventory, m.item),
                   !.items = Push(v.items, m.item)]
    ELSE Refused(v)

NWCOtherPlayerDropItemResponse(v, m) ==
  IF m.who \in ToSet(v.players)
    THEN [v EXCEPT !.items = Push(v.items, m.item)]
    ELSE Refused(v)

NWCItemToRoomResponse(v, m) == [v EXCEPT !.items = Push(v.items, m.item)]

\* NWCItemInRoomDeletedResponse and NWCPlayerDeletesItemResponse: an item that
\* is not shown is passed over.
NWCItemInRoomDeletedResponse(v, m) == [v EXCEPT !.items = Without(v.items, m.item)]

\* EquipItem of client and server: the slot is filled, the maximum changes and
\* the CPU is held under it.
NWCPlayerEquipItemResponse(v, m) ==
  CASE m.item \notin ToSet(v.inventory) \/ (m.ok /\ (v.slot # NoItem \/ Needs[m.item] > v.level))
         -> Lost(v)
    [] m.item \in ToSet(v.inventory) /\ ~ m.ok -> v
    [] OTHER -> [v EXCEPT !.inventory = Without(v.inventory, m.item), !.slot = m.item,
                          !.cpu = Limit(v.cpu, MaxCPU(m.item))]

\* Mutant: the slot keeps the item that went back to the inventory.
UnequipKeepsSlot(v, m) ==
  IF v.slot # m.item THEN Lost(v) ELSE [v EXCEPT !.inventory = Push(v.inventory, m.item)]

NWCPlayerUnequipItemResponse(v, m) ==
  CASE v.slot # m.item \/ (m.ok /\ Len(v.inventory) + 1 > MaxCarry) -> Lost(v)
    [] v.slot = m.item /\ ~ m.ok -> v
    [] OTHER -> [v EXCEPT !.inventory = Push(v.inventory, m.item), !.slot = NoItem,
                          !.cpu = Limit(v.cpu, BaseCPU)]

NWCPlayerStatUpdateResponse(v, m) ==
  IF m.max # MaxCPU(v.slot) \/ m.cpu > m.max THEN Lost(v) ELSE [v EXCEPT !.cpu = m.cpu]

NWCPlayerLevelResponse(v, m) ==
  IF v.level + m.gain # m.level THEN Lost(v) ELSE [v EXCEPT !.level = m.level]

NWCPlayerRunsScriptResponse(v, m) ==
  IF m.cpu > v.cpu THEN Refused(v) ELSE [v EXCEPT !.cpu = @ - m.cpu]

\* The target has to be shown, the item has to be carried; it is consumed.
NWCPlayerFingerResponse(v, m) ==
  IF m.who \in ToSet(v.players) \cup ToSet(v.npcs) /\ m.item \in ToSet(v.inventory)
    THEN [v EXCEPT !.inventory = Without(v.inventory, m.item)]
    ELSE Refused(v)

\* The messages that are refused, or worse, while the room is not known.
NeedsRoom(m) ==
  \/ m.kind \in {"says", "npcArrives", "npcLeaves", "killed", "getsItem", "otherGetsItem",
                 "dropsItem", "otherDropsItem", "itemToRoom", "itemDeleted", "finger"}
  \/ m.kind \in {"arrives", "leaves"} /\ m.who # Me

\* g_cmdTable.
Handler(v, m) ==
  CASE m.kind = "death" -> NWCPlayerDeathResponse(v, m)     \* and NWCAuthResponse
    [] m.kind = "enterRoom" -> NWCPlayerEnterroomResponse(v, m)
    [] m.kind = "says" -> NWCPlayerSaysResponse(v, m)
    [] m.kind = "arrives" -> NWCPlayerArrivesResponse(v, m)
    [] m.kind = "leaves" -> NWCPlayerLeavesResponse(v, m)
    [] m.kind = "npcArrives" -> NWCNPCArrivesResponse(v, m)
    [] m.kind = "npcLeaves" -> NWCNPCLeavesResponse(v, m)
    [] m.kind = "killed" -> NWCPlayerKilledResponse(v, m)
    [] m.kind = "getsItem" -> NWCPlayerGetItemResponse(v, m)
    [] m.kind = "otherGetsItem" -> NWCOtherPlayerGetItemResponse(v, m)
    [] m.kind = "dropsItem" -> NWCPlayerDropItemResponse(v, m)
    [] m.kind = "otherDropsItem" -> NWCOtherPlayerDropItemResponse(v, m)
    [] m.kind = "itemToRoom" -> NWCItemToRoomResponse(v, m)
    [] m.kind = "itemDeleted" -> NWCItemInRoomDeletedResponse(v, m)
    [] m.kind = "equips" -> NWCPlayerEquipItemResponse(v, m)
    [] m.kind = "unequips" -> NWCPlayerUnequipItemResponse(v, m)
    [] m.kind = "stats" -> NWCPlayerStatUpdateResponse(v, m)
    [] m.kind = "level" -> NWCPlayerLevelResponse(v, m)
    [] m.kind = "runsScript" -> NWCPlayerRunsScriptResponse(v, m)
    [] m.kind = "finger" -> NWCPlayerFingerResponse(v, m)

DoNetworkCommand(v, m) ==
  LET w == [v EXCEPT !.verdict = "done"] IN
  IF NeedsRoom(m) /\ ~ w.inRoom THEN Lost(w) ELSE Handler(w, m)

\* The client takes the next command from its stream.
Read ==
  /\ pending # <<>>
  /\ view' = DoNetworkCommand(view, Head(pending))
  /\ pending' = Tail(pending)
  /\ UNCHANGED <<world, carried, mine, sessions>>

\* What the client will show when it has read what is on its way.
Shown ==
  LET after[k \in 0 .. Len(pending)] ==
        IF k = 0 THEN view ELSE DoNetworkCommand(after[k - 1], pending[k])
  IN after[Len(pending)]

Names(v) == ToSet(v.players) \cup ToSet(v.npcs)

-----------------------------------------------------------------------------
(* The server                                                              *)

Arrives(p) == <<[kind |-> "arrives", who |-> p]>>
Leaves(p, why) == <<[kind |-> "leaves", who |-> p, how |-> why]>>
Killed(x) == <<[kind |-> "killed", who |-> x]>>
With(name, i) == <<[kind |-> name, item |-> i]>>
By(name, p, i) == <<[kind |-> name, who |-> p, item |-> i]>>

\* SendCommand to Me, if Me is connected.
Send(messages) == pending' = IF Me \in connected THEN pending \o messages ELSE pending

\* What Me gets of messages to all the connected players of a list.
ToRoom(list, messages) == IF Me \in ToSet(list) THEN messages ELSE <<>>

\* Mutant: the programs of the room are forgotten.
EnterRoomNoNPCs(players, r) ==
  <<[kind |-> "enterRoom", players |-> players, npcs |-> <<>>, items |-> itemsIn[r]]>>

\* NWCEnterRoomResponse: every object of the room, in the order of its lists.
EnterRoom(players, r) ==
  <<[kind |-> "enterRoom", players |-> players, npcs |-> npcsIn[r], items |-> itemsIn[r]]>>

\* Mutant: the oldest item goes, and nobody is told.
AddItemSilently(room, i) ==
  [room EXCEPT !.items = Push(IF Len(@) < MAX_ITEMS_IN_ROOM THEN @ ELSE Front(@), i)]

\* CRoom::AddItemToRoom: the oldest item goes when there are too many, and
\* that is told before the new one is.
AddItemToRoom(room, i) ==
  IF Len(room.items) < MAX_ITEMS_IN_ROOM
    THEN [room EXCEPT !.items = Push(@, i)]
    ELSE [items |-> Push(Front(room.items), i),
          told |-> room.told \o With("itemDeleted", Last(room.items))]

NWCDropItemToRoom(room, i) ==
  LET new == AddItemToRoom(room, i) IN
  [new EXCEPT !.told = @ \o With("itemToRoom", i)]

Dropped(items, drops) ==
  LET room[k \in 0 .. Len(drops)] ==
        IF k = 0 THEN [items |-> items, told |-> <<>>]
        ELSE NWCDropItemToRoom(room[k - 1], drops[k])
  IN room[Len(drops)]

Flagged(s) == Only(s, DropOnPK)
Unflagged(s) == Only(s, Items \ DropOnPK)

\* What death and exit take from a player: the slot first, then the inventory.
Losses(p) ==
  (IF p = Me /\ installed \in DropOnPK THEN <<installed>> ELSE <<>>) \o Flagged(carried[p])

TakeLosses(p) ==
  /\ carried' = [carried EXCEPT ![p] = Unflagged(@)]
  /\ installed' = IF p = Me /\ installed \in DropOnPK THEN NoItem ELSE installed

\* WritePlayerData, as it is sent.
PlayerData(slot, inv, c) ==
  <<[kind |-> "death", inventory |-> inv, slot |-> slot, cpu |-> c, level |-> level]>>

Moved(p, from, to) ==
  [r \in Rooms |->
     IF r = to THEN Push(Without(playersIn[r], p), p)
     ELSE IF r = from THEN Without(playersIn[r], p) ELSE playersIn[r]]

\* Every action of the server waits until few messages are pending; with a client
\* that is out of step they may be left out.
Ready == Len(pending) <= MaxPending /\ (misnamed => GoesOn)

\* A login: the data, the room, and the arrival to all that are in it.
NWCAuth(p) ==
  LET in == Push(playersIn[Start], p) IN
  /\ Ready /\ ~ Placed(p)
  /\ playersIn' = [playersIn EXCEPT ![Start] = in]
  /\ connected' = connected \cup {p}
  /\ IF p = Me
       THEN pending' = PlayerData(installed, carried[Me], cpu) \o EnterRoom(in, Start) \o Arrives(Me)
       ELSE Send(ToRoom(in, Arrives(p)))
  /\ view' = IF p = Me THEN NoView ELSE view
  /\ UNCHANGED <<npcsIn, itemsIn, carried, mine, created, misnamed>>

\* The character of NWCCreatePlayer is put in a room and announced to nobody.
NWCCreatePlayer(p, r) ==
  /\ Ready /\ p # Me /\ ~ Placed(p)
  /\ playersIn' = [playersIn EXCEPT ![r] = Push(@, p)]
  /\ created' = created \cup {p}
  /\ UNCHANGED <<npcsIn, itemsIn, carried, mine, connected, misnamed, pending, view>>

\* Logout, a failing send, inactivity: the object stays in its room.
Disconnect(p) ==
  /\ p \in connected
  /\ connected' = connected \ {p}
  /\ pending' = IF p = Me THEN <<>> ELSE pending
  /\ view' = IF p = Me THEN NoView ELSE view
  /\ misnamed' = (misnamed /\ p # Me)
  /\ UNCHANGED <<world, carried, mine, created>>

\* HandleDisconnects: the leaving is told first, then DoExit drops.
HandleDisconnect(p) ==
  LET r == RoomOf(p)
      d == Dropped(itemsIn[r], Losses(p)) IN
  /\ Ready /\ Placed(p) /\ p \notin connected \cup created
  /\ Send(ToRoom(playersIn[r], Leaves(p, "logout") \o d.told))
  /\ itemsIn' = [itemsIn EXCEPT ![r] = d.items]
  /\ playersIn' = [playersIn EXCEPT ![r] = Without(@, p)]
  /\ TakeLosses(p)
  /\ cpu' = IF p = Me THEN Limit(cpu, MaxCPU(installed')) ELSE cpu
  /\ UNCHANGED <<npcsIn, level, sessions, view>>

\* What a move says: leaving the old room, the new room, arriving in it.
Walk(p, to, how) ==
  LET from == RoomOf(p)
      new == Moved(p, from, to) IN
  /\ to # from
  /\ playersIn' = new
  /\ Send(ToRoom(playersIn[from], Leaves(p, how))
            \o (IF p = Me THEN EnterRoom(new[to], to) ELSE <<>>)
            \o ToRoom(new[to], Arrives(p)))
  /\ UNCHANGED <<npcsIn, itemsIn, carried, installed, level, sessions, view>>

NWCDirection(p, to) ==
  /\ Ready /\ p \in connected
  /\ p = Me => cpu >= MoveCPU(MaxCPU(installed))
  /\ cpu' = IF p = Me THEN cpu - MoveCPU(MaxCPU(installed)) ELSE cpu
  /\ Walk(p, to, "exit")

NWCPlayerFlee(p, to) ==
  /\ Ready /\ p \in connected
  /\ p = Me => 2 * cpu >= MaxCPU(installed)
  /\ cpu' = IF p = Me THEN 0 ELSE cpu
  /\ Walk(p, to, "flee")

NWCSay(p) ==
  /\ Ready /\ p \in connected
  /\ Send(ToRoom(playersIn[RoomOf(p)], <<[kind |-> "says", who |-> p]>>))
  /\ UNCHANGED <<world, carried, mine, sessions, view>>

NWCGetItem(p, i) ==
  LET r == RoomOf(p) IN
  /\ Ready /\ p \in connected
  /\ i \in ToSet(itemsIn[r])
  /\ Len(carried[p]) + 1 <= MaxCarry
  /\ carried' = [carried EXCEPT ![p] = Push(@, i)]
  /\ itemsIn' = [itemsIn EXCEPT ![r] = Without(@, i)]
  /\ IF p = Me THEN Send(With("getsItem", i))
               ELSE Send(ToRoom(playersIn[r], By("otherGetsItem", p, i)))
  /\ UNCHANGED <<playersIn, npcsIn, mine, sessions, view>>

NWCDropItem(p, i) ==
  LET r == RoomOf(p)
      room == AddItemToRoom([items |-> itemsIn[r], told |-> <<>>], i) IN
  /\ Ready /\ p \in connected
  /\ i \in ToSet(carried[p])
  /\ carried' = [carried EXCEPT ![p] = Without(@, i)]
  /\ itemsIn' = [itemsIn EXCEPT ![r] = room.items]
  /\ Send(ToRoom(playersIn[r], room.told
            \o (IF p = Me THEN With("dropsItem", i) ELSE By("otherDropsItem", p, i))))
  /\ UNCHANGED <<playersIn, npcsIn, mine, sessions, view>>

\* RunScript takes its CPU, whatever the script then finds to do.
RunScript(c) ==
  /\ Me \in connected /\ c <= cpu
  /\ cpu' = cpu - c
  /\ UNCHANGED <<playersIn, npcsIn, carried, installed, level, sessions, view>>

Ran(c) == <<[kind |-> "runsScript", cpu |-> c]>>

RunOnly(c) ==
  /\ Ready /\ RunScript(c)
  /\ Send(Ran(c))
  /\ UNCHANGED itemsIn

\* The delete script of Me, or of another player (who pays CPU too).
DoScriptDelete(p, c, i) ==
  LET r == RoomOf(p) IN
  /\ Ready /\ p \in connected
  /\ i \in ToSet(itemsIn[r])
  /\ itemsIn' = [itemsIn EXCEPT ![r] = Without(@, i)]
  /\ Send((IF p = Me THEN Ran(c) ELSE <<>>) \o ToRoom(playersIn[r], With("itemDeleted", i)))
  /\ IF p = Me
       THEN RunScript(c)
       ELSE UNCHANGED <<playersIn, npcsIn, carried, mine, sessions, view>>

\* RegenPlayer, and the scripts that give or take CPU: the stats are sent.
StatUpdate(c) ==
  /\ Ready /\ Me \in connected
  /\ c <= MaxCPU(installed)
  /\ cpu' = c
  /\ Send(<<[kind |-> "stats", cpu |-> c, max |-> MaxCPU(installed)]>>)
  /\ UNCHANGED <<world, carried, installed, level, sessions, view>>

Equips(name, i, done) == <<[kind |-> name, item |-> i, ok |-> done]>>

\* A used slot is not answered at all, a level that is too low is.
NWCEquipItem(i) ==
  LET can == Needs[i] <= level IN
  /\ Ready /\ Me \in connected
  /\ i \in ToSet(carried[Me]) /\ installed = NoItem
  /\ Send(Equips("equips", i, can))
  /\ carried' = IF can THEN [carried EXCEPT ![Me] = Without(@, i)] ELSE carried
  /\ installed' = IF can THEN i ELSE installed
  /\ cpu' = Limit(cpu, MaxCPU(installed'))
  /\ UNCHANGED <<world, level, sessions, view>>

NWCUnequipItem ==
  LET can == Len(carried[Me]) + 1 <= MaxCarry IN
  /\ Ready /\ Me \in connected
  /\ installed # NoItem
  /\ Send(Equips("unequips", installed, can))
  /\ carried' = IF can THEN [carried EXCEPT ![Me] = Push(@, installed)] ELSE carried
  /\ installed' = IF can THEN NoItem ELSE installed
  /\ cpu' = Limit(cpu, MaxCPU(installed'))
  /\ UNCHANGED <<world, level, sessions, view>>

\* A finger request of p on something in the room consumes an item.  The client
\* of Me names what it shows, which another message may be about to take away.
NWCPlayerFinger(p, i, x) ==
  /\ Ready /\ p \in connected
  /\ i \in ToSet(carried[p])
  /\ x \in ToSet(playersIn[RoomOf(p)]) \cup ToSet(npcsIn[RoomOf(p)])
  /\ p = Me => x \in Names(view)
  /\ misnamed' = (misnamed \/ (p = Me /\ x \notin Names(Shown)))
  /\ carried' = [carried EXCEPT ![p] = Without(@, i)]
  /\ IF p = Me THEN Send(By("finger", x, i)) ELSE UNCHANGED pending
  /\ UNCHANGED <<world, mine, connected, created, view>>

-----------------------------------------------------------------------------
(* Kills, and the programs                                                 *)

\* CPlayer::Kill: the others in the room are told and see the losses; the
\* player starts again somewhere, and a player whose connection is gone does
\* so without a word.
Kill(p, to) ==
  LET from == RoomOf(p)
      d == Dropped(itemsIn[from], Losses(p))
      new == Moved(p, from, to)
      there == [itemsIn EXCEPT ![from] = d.items]
      seen == IF p # Me THEN Killed(p) ELSE <<>> IN
  /\ Ready /\ Placed(p)
  /\ TakeLosses(p)
  /\ itemsIn' = there
  /\ playersIn' = new
  /\ cpu' = IF p = Me THEN MaxCPU(installed') \div 10 ELSE cpu
  /\ Send(ToRoom(playersIn[from], seen \o d.told)
            \o (IF p = Me
                  THEN PlayerData(installed', carried'[Me], cpu')
                         \o <<[kind |-> "enterRoom", players |-> new[to], npcs |-> npcsIn[to],
                               items |-> there[to]]>>
                  ELSE <<>>)
            \o (IF p \in connected THEN ToRoom(new[to], Arrives(p)) ELSE <<>>))
  /\ UNCHANGED <<npcsIn, level, sessions, view>>

\* CNPC::ToRoom of a new program.
SpawnNPC(n, r) ==
  /\ Ready /\ ~ Seen(n)
  /\ npcsIn' = [npcsIn EXCEPT ![r] = Push(@, n)]
  /\ Send(ToRoom(playersIn[r], <<[kind |-> "npcArrives", who |-> n]>>))
  /\ UNCHANGED <<playersIn, itemsIn, carried, mine, sessions, view>>

\* DoNPCActions: FromRoom, then ToRoom.
RoamNPC(n, to) ==
  LET from == HomeOf(n) IN
  /\ Ready /\ Seen(n) /\ to # from
  /\ npcsIn' = [npcsIn EXCEPT ![from] = Without(@, n), ![to] = Push(@, n)]
  /\ Send(ToRoom(playersIn[from], <<[kind |-> "npcLeaves", who |-> n]>>)
            \o ToRoom(playersIn[to], <<[kind |-> "npcArrives", who |-> n]>>))
  /\ UNCHANGED <<playersIn, itemsIn, carried, mine, sessions, view>>

\* CNPC::Kill drops what the program has; then DoLevelPlayer may raise Me.
KillNPC(n, drops, gain) ==
  LET r == HomeOf(n)
      d == Dropped(itemsIn[r], drops) IN
  /\ Ready /\ Seen(n)
  /\ ToSet(drops) \subseteq Unmade
  /\ gain = 0 \/ (Me \in connected \cap ToSet(playersIn[r]) /\ level + gain <= MaxLevel)
  /\ npcsIn' = [npcsIn EXCEPT ![r] = Without(@, n)]
  /\ itemsIn' = [itemsIn EXCEPT ![r] = d.items]
  /\ level' = level + gain
  /\ Send(ToRoom(playersIn[r], Killed(n) \o d.told)
            \o (IF gain = 0 THEN <<>> ELSE <<[kind |-> "level", gain |-> gain, level |-> level']>>))
  /\ UNCHANGED <<playersIn, carried, installed, cpu, sessions, view>>

MirrorInit ==
  /\ playersIn = [r \in Rooms |-> <<>>]
  /\ npcsIn = [r \in Rooms |-> <<>>]
  /\ itemsIn = [r \in Rooms |-> <<>>]
  /\ carried = [p \in Players |-> <<>>]
  /\ installed = NoItem /\ cpu = BaseCPU /\ level = 0
  /\ connected = {} /\ created = {} /\ misnamed = FALSE
  /\ pending = <<>> /\ view = NoView

MirrorNext ==
  \/ Read
  \/ \E p \in Players :
       \/ NWCAuth(p) \/ Disconnect(p) \/ HandleDisconnect(p) \/ NWCSay(p)
       \/ \E r \in Rooms : NWCCreatePlayer(p, r) \/ NWCDirection(p, r)
                             \/ NWCPlayerFlee(p, r) \/ Kill(p, r)
       \/ \E i \in Items : NWCGetItem(p, i) \/ NWCDropItem(p, i)
                             \/ \E x \in Players \cup NPCs : NWCPlayerFinger(p, i, x)
       \/ \E i \in Items, c \in 0 .. cpu : DoScriptDelete(p, c, i)
  \/ \E c \in 0 .. MaxCPU(installed) : RunOnly(c) \/ StatUpdate(c)
  \/ \E i \in Items : NWCEquipItem(i)
  \/ NWCUnequipItem
  \/ \E n \in NPCs :
       \/ \E r \in Rooms : SpawnNPC(n, r) \/ RoamNPC(n, r)
       \/ \E drops \in {<<>>} \cup {<<i>> : i \in Unmade}, gain \in {0, 1} : KillNPC(n, drops, gain)

MirrorSpec == MirrorInit /\ [][MirrorNext]_mirrorVars

-----------------------------------------------------------------------------
(* Properties                                                              *)

MirrorTypeOK ==
  /\ playersIn \in [Rooms -> Seq(Players)]
  /\ npcsIn \in [Rooms -> Seq(NPCs)]
  /\ itemsIn \in [Rooms -> Seq(Items)]
  /\ \A r \in Rooms : Len(itemsIn[r]) <= MAX_ITEMS_IN_ROOM
  /\ carried \in [Players -> Seq(Items)]
  /\ \A p \in Players : Len(carried[p]) <= MaxCarry
  /\ installed \in Items \cup {NoItem}
  /\ cpu \in 0 .. MaxCPU(installed) /\ level \in 0 .. MaxLevel
  /\ connected \subseteq Players /\ created \subseteq Others
  /\ view.verdict \in {"done", "refused", "lost"}

\* The client shows the server's lists in the server's order, the player's
\* own inventory, slot, stats and level, whatever the others did meanwhile.
\* The players may lack those that no session belongs to.
ShowsTheServer ==
  Me \in connected /\ ~ misnamed =>
    LET r == RoomOf(Me)
        Reachable(s) == Only(s, connected) IN
    /\ Shown.inRoom
    /\ Reachable(Shown.players) = Reachable(playersIn[r])
    /\ ToSet(Shown.players) \subseteq ToSet(playersIn[r])
    /\ Shown.npcs = npcsIn[r] /\ Shown.items = itemsIn[r]
    /\ Shown.inventory = carried[Me] /\ Shown.slot = installed
    /\ Shown.cpu = cpu /\ Shown.level = level

\* No message ever makes the client disconnect ("OUT OF SYNC WITH SERVER") or
\* look into a room it does not have.
StaysInSync == ~ misnamed => view.verdict # "lost"

\* The only messages that are refused tell the death of a player the client
\* was never told of.
RefusesStrangersOnly ==
  pending # <<>> /\ ~ misnamed /\ DoNetworkCommand(view, Head(pending)).verdict = "refused" =>
    Head(pending).kind = "killed" /\ Head(pending).who \in Others

=============================================================================
