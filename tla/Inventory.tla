------------------------------ MODULE Inventory ------------------------------
(***************************************************************************)
(* Items of the hackermud server: on the floor of a room, in a player's    *)
(* inventory or installed in one of its slots (src/hackermud/server:       *)
(* player.cpp, room.cpp, item.cpp and the item handlers of                 *)
(* networkcommands.cpp and script.cpp).                                    *)
(*                                                                         *)
(* A player counts what it carries (items and disk space) and its maximal  *)
(* stats include the modifiers of what it has installed; neither is ever   *)
(* computed anew, so every way in which an item comes or goes has to       *)
(* adjust them, and the login cache keeps both across sessions.            *)
(*                                                                         *)
(* Abstraction: HP stands for HP, CPU and memory, which the same           *)
(* statements adjust.  Levels are not modelled: whoever may not install an *)
(* item simply does not, and the own maximum of a player is constant.      *)
(***************************************************************************)
EXTENDS Integers, Sequences, FiniteSets, Functions

CONSTANTS
  Names,          \* accounts
  Items,          \* item objects (an object is used again after delete)
  Kinds,          \* entries of the item database
  NumSlots,       \* EQUIP_SLOT_MAX
  Rooms, InitialRoom,
  Size,           \* GetDiskUsage of a kind
  Mod,            \* GetHPModifier of a kind
  SlotOf,         \* GetEquipType of a kind (NULL: it cannot be installed)
  DropOnPK, DropOnExit, NoDestroy, \* kinds with these flags
  Fixed,          \* kinds of type eItemFixed or eItemPower
  MaxItemsInRoom, \* MAX_ITEMS_IN_ROOM
  MaxCarryItems, MaxCarryDisk, BaseHP, \* of a new player
  Wrap,           \* 2^16: HP is a uint16_t
  MaxNPCItems,    \* bound: items that one dying program drops
  NULL

Slots == 1..NumSlots

ASSUME InventoryAssumption ==
  /\ NumSlots \in Nat
  /\ InitialRoom \in Rooms
  /\ Size \in [Kinds -> Nat]
  /\ Mod \in [Kinds -> Int]
  /\ SlotOf \in [Kinds -> Slots \cup {NULL}]
  /\ DropOnPK \cup DropOnExit \cup NoDestroy \cup Fixed \subseteq Kinds
  /\ MaxItemsInRoom \in Nat \ {0}
  /\ MaxCarryItems \in Nat /\ MaxCarryDisk \in Nat
  /\ Wrap \in Nat \ {0}
  /\ BaseHP \in 0..(Wrap - 1)
  /\ NULL \notin Kinds \cup Items \cup Rooms \cup Slots
  /\ IsFiniteSet(Items) /\ IsFiniteSet(Names)

VARIABLES
  kind,   \* m_pBaseItem of an item object (NULL: no such object)
  floor,  \* m_itemsInRoom, head first
  at,     \* the room of a player (NULL: not in the game)
  body,   \* what a player object holds
  saved   \* g_oPlayerLoginCache: the same as a stream, items by kind

vars == <<kind, floor, at, body, saved>>

\* Bodies, or streams, that hold things of S.
Holding(S) ==
  [inv : Seq(S), equip : [Slots -> S \cup {NULL}],
   count : 0..MaxCarryItems, disk : 0..MaxCarryDisk,
   maxHP : 0..(Wrap - 1), hp : 0..(Wrap - 1)]

TypeOK ==
  /\ kind \in [Items -> Kinds \cup {NULL}]
  /\ floor \in [Rooms -> Seq(Items)]
  /\ \A r \in Rooms : Len(floor[r]) <= MaxItemsInRoom
  /\ at \in [Names -> Rooms \cup {NULL}]
  /\ body \in [Names -> Holding(Items)]
  /\ saved \in [Names -> Holding(Kinds) \cup {NULL}]

\* A player without items, as a body and as a stream.
Empty == [inv |-> <<>>, equip |-> [s \in Slots |-> NULL],
          count |-> 0, disk |-> 0, maxHP |-> BaseHP, hp |-> BaseHP]

Init ==
  /\ kind = [i \in Items |-> NULL]
  /\ floor = [r \in Rooms |-> <<>>]
  /\ at = [n \in Names |-> NULL]
  /\ body = [n \in Names |-> Empty]
  /\ saved = [n \in Names |-> NULL]

-----------------------------------------------------------------------------
(* One player and its items *)

\* AddItemToInventory refuses an item that does not fit.
CanCarry(b, i) ==
  /\ b.disk + Size[kind[i]] <= MaxCarryDisk
  /\ b.count + 1 <= MaxCarryItems

Added(b, i) ==
  [b EXCEPT !.inv = <<i>> \o @, !.count = @ + 1, !.disk = @ + Size[kind[i]]]

\* Mutant: the item is still linked in its list.
StillLinked(s, i) == s

\* Unlink of the link of item i.
Unlinked(s, i) ==
  LET p == CHOOSE j \in DOMAIN s : s[j] = i
  IN [j \in 1..(Len(s) - 1) |-> IF j < p THEN s[j] ELSE s[j + 1]]

\* Mutant: the number of items is not adjusted.
RemovedUncounted(b, i) ==
  [b EXCEPT !.inv = Unlinked(@, i),
            !.disk = IF Size[kind[i]] > @ THEN 0 ELSE @ - Size[kind[i]]]

\* RemoveItemFromInventory of a carried item; the counters stop at zero.
Removed(b, i) ==
  [b EXCEPT !.inv = Unlinked(@, i),
            !.count = IF @ > 0 THEN @ - 1 ELSE @,
            !.disk = IF Size[kind[i]] > @ THEN 0 ELSE @ - Size[kind[i]]]

\* Mutant: the current value is left above the new maximum.
Unclamped(b) == b

\* "Adjust stats": the current value does not exceed the maximum.
Clamped(b) == [b EXCEPT !.hp = IF @ > b.maxHP THEN b.maxHP ELSE @]

\* Item i in the free slot s, and the item of slot s out of it.
Installed(b, i, s) == [b EXCEPT !.equip[s] = i, !.maxHP = (@ + Mod[kind[i]]) % Wrap]

\* Mutant: the maximum keeps the modifiers of what is gone.
UninstalledOnly(b, s) == [b EXCEPT !.equip[s] = NULL]

Uninstalled(b, s) ==
  [b EXCEPT !.equip[s] = NULL, !.maxHP = (@ - Mod[kind[b.equip[s]]]) % Wrap]

ItemsOf(b) == Range(b.inv) \cup (Range(b.equip) \ {NULL})

\* WritePlayerData: a player as a stream, in which items have no identity.
Stream(b) ==
  [b EXCEPT !.inv = [j \in DOMAIN b.inv |-> kind[b.inv[j]]],
            !.equip = [s \in Slots |-> IF b.equip[s] = NULL THEN NULL ELSE kind[b.equip[s]]]]

-----------------------------------------------------------------------------
(* Item objects *)

Free == {i \in Items : kind[i] = NULL}

\* An object for each of the places P.
HasFresh(P) == Cardinality(P) <= Cardinality(Free)
Fresh(P) == CHOOSE f \in [P -> Free] : IsInjective(f)

\* What a stream holds: in the slots, then in the inventory.
KindAt(st, p) == IF p \in Slots THEN st.equip[p] ELSE st.inv[p - NumSlots]
KindsOf(st) ==
  [p \in {q \in 1..(NumSlots + Len(st.inv)) : KindAt(st, q) # NULL} |-> KindAt(st, p)]

\* ReadPlayerData: the player of stream st, made of the objects fs.
Loaded(st, fs) ==
  [st EXCEPT !.equip = [s \in Slots |-> IF st.equip[s] = NULL THEN NULL ELSE fs[s]],
             !.inv = [j \in DOMAIN st.inv |-> fs[NumSlots + j]]]

\* The kinds of the objects when fs were made with kinds ks and D deleted.
KindsAfter(fs, ks, D) ==
  [i \in Items |->
     IF i \in D THEN NULL
     ELSE IF i \in Range(fs) THEN ks[CHOOSE p \in DOMAIN fs : fs[p] = i]
     ELSE kind[i]]

Deleted(D) == KindsAfter(<<>>, <<>>, D)

-----------------------------------------------------------------------------
(* What drops to the floor of a room *)

\* A room: its floor, and the items that the cleanup has deleted.
Room(r) == [items |-> floor[r], gone |-> {}]

\* Mutant: items pile up in the room.
PiledUp(w, i) == [w EXCEPT !.items = <<i>> \o @]

\* AddItemToRoom deletes the oldest item when there are too many.
AddItemToRoom(w, i) ==
  LET s == <<i>> \o w.items
  IN IF Len(s) > MaxItemsInRoom
     THEN [items |-> SubSeq(s, 1, Len(s) - 1), gone |-> w.gone \cup {s[Len(s)]}]
     ELSE [items |-> s, gone |-> w.gone]

\* The items of a sequence drop one after the other.
AllDropped(r, ds) ==
  LET w[j \in 0..Len(ds)] == IF j = 0 THEN Room(r) ELSE AddItemToRoom(w[j - 1], ds[j])
  IN w[Len(ds)]

\* A player and the room it is in: the item of slot s drops if it is of a
\* kind in F, and so does item i.
DropsInstalled(x, s, F) ==
  IF x.body.equip[s] # NULL /\ kind[x.body.equip[s]] \in F
  THEN [body |-> Uninstalled(x.body, s), room |-> AddItemToRoom(x.room, x.body.equip[s])]
  ELSE x

DropsCarried(x, i, F) ==
  IF kind[i] \in F
  THEN [body |-> Removed(x.body, i), room |-> AddItemToRoom(x.room, i)]
  ELSE x

\* The two loops of Kill and DoExit: the installed items of kinds in F, then
\* the carried ones of kinds in G.
Drops(n, F, G) ==
  LET x[s \in 0..NumSlots] ==
        IF s = 0 THEN [body |-> body[n], room |-> Room(at[n])]
                 ELSE DropsInstalled(x[s - 1], s, F)
      inv == body[n].inv
      y[j \in 0..Len(inv)] ==
        IF j = 0 THEN x[NumSlots] ELSE DropsCarried(y[j - 1], inv[j], G)
  IN y[Len(inv)]

\* What DoExit leaves on a player and in its room.
AfterExit(n) ==
  LET x == Drops(n, DropOnExit, DropOnPK) IN [x EXCEPT !.body = Clamped(@)]

-----------------------------------------------------------------------------
(* Logins and exits *)

\* The items on floor at[n] are those of the room w.
FloorIs(n, w) == floor' = [floor EXCEPT ![at[n]] = w.items]

\* NWCAuth of a player who is not in the game.
NWCAuth(n) ==
  LET st == IF saved[n] = NULL THEN Empty ELSE saved[n]
      ks == KindsOf(st)
      fs == Fresh(DOMAIN ks)
  IN
  /\ at[n] = NULL
  /\ HasFresh(DOMAIN ks)
  /\ kind' = KindsAfter(fs, ks, {})
  /\ body' = [body EXCEPT ![n] = Loaded(st, fs)]
  /\ saved' = [saved EXCEPT ![n] = st]
  /\ at' = [at EXCEPT ![n] = InitialRoom]
  /\ UNCHANGED floor

\* NWCAuth of a player who is in the game: the new object is read from the
\* cache, then the old one exits, drops, saves and is deleted.
NWCAuthReplaces(n) ==
  LET ks == KindsOf(saved[n])
      fs == Fresh(DOMAIN ks)
      x == AfterExit(n)
  IN
  /\ at[n] # NULL
  /\ HasFresh(DOMAIN ks)
  /\ FloorIs(n, x.room)
  /\ kind' = KindsAfter(fs, ks, ItemsOf(x.body) \cup x.room.gone)
  /\ body' = [body EXCEPT ![n] = Loaded(saved[n], fs)]
  /\ saved' = [saved EXCEPT ![n] = Stream(x.body)]
  /\ at' = [at EXCEPT ![n] = InitialRoom]

\* Mutant: the player exits without being saved.
ExitUnsaved(n) ==
  LET x == AfterExit(n)
  IN
  /\ at[n] # NULL
  /\ FloorIs(n, x.room)
  /\ kind' = Deleted(ItemsOf(x.body) \cup x.room.gone)
  /\ body' = [body EXCEPT ![n] = Empty]
  /\ at' = [at EXCEPT ![n] = NULL]
  /\ UNCHANGED saved

\* HandleDisconnects: DoExit, and the player is deleted with what it has left.
DoExit(n) ==
  LET x == AfterExit(n)
  IN
  /\ at[n] # NULL
  /\ FloorIs(n, x.room)
  /\ kind' = Deleted(ItemsOf(x.body) \cup x.room.gone)
  /\ body' = [body EXCEPT ![n] = Empty]
  /\ saved' = [saved EXCEPT ![n] = Stream(x.body)]
  /\ at' = [at EXCEPT ![n] = NULL]

-----------------------------------------------------------------------------
(* Commands *)

\* A player in the game has new contents b, which are saved.
Saves(n, b) ==
  /\ at[n] # NULL
  /\ body' = [body EXCEPT ![n] = b]
  /\ saved' = [saved EXCEPT ![n] = Stream(b)]

NWCGetItem(n, i) ==
  /\ at[n] # NULL
  /\ i \in Range(floor[at[n]])
  /\ kind[i] \notin Fixed
  /\ CanCarry(body[n], i)
  /\ Saves(n, Added(body[n], i))
  /\ floor' = [floor EXCEPT ![at[n]] = Unlinked(@, i)]
  /\ UNCHANGED <<kind, at>>

NWCDropItem(n, i) ==
  LET w == AddItemToRoom(Room(at[n]), i)
  IN
  /\ i \in Range(body[n].inv)
  /\ Saves(n, Removed(body[n], i))
  /\ FloorIs(n, w)
  /\ kind' = Deleted(w.gone)
  /\ UNCHANGED at

\* EquipItem: from the inventory to its slot.
NWCEquipItem(n, i, s) ==
  /\ i \in Range(body[n].inv)
  /\ SlotOf[kind[i]] = s
  /\ body[n].equip[s] = NULL
  /\ Saves(n, Clamped(Installed(Removed(body[n], i), i, s)))
  /\ UNCHANGED <<kind, floor, at>>

\* UnequipItem: back to the inventory, where it has to fit.
NWCUnequipItem(n, s) ==
  LET i == body[n].equip[s]
  IN
  /\ i # NULL
  /\ CanCarry(body[n], i)
  /\ Saves(n, Clamped(Uninstalled(Added(body[n], i), s)))
  /\ UNCHANGED <<kind, floor, at>>

\* NWCPlayerFinger consumes the item that the request names, of whatever kind.
NWCPlayerFinger(n, i) ==
  /\ i \in Range(body[n].inv)
  /\ Saves(n, Removed(body[n], i))
  /\ kind' = Deleted({i})
  /\ UNCHANGED <<floor, at>>

\* DoScriptDelete deletes an item on the floor.
DoScriptDelete(n, i) ==
  /\ at[n] # NULL
  /\ i \in Range(floor[at[n]])
  /\ kind[i] \notin NoDestroy
  /\ floor' = [floor EXCEPT ![at[n]] = Unlinked(@, i)]
  /\ kind' = Deleted({i})
  /\ UNCHANGED <<at, body, saved>>

\* NWCDirection and NWCPlayerFlee.
Walk(n, r) ==
  /\ at[n] # NULL
  /\ at' = [at EXCEPT ![n] = r]
  /\ UNCHANGED <<kind, floor, body, saved>>

-----------------------------------------------------------------------------
(* Fights *)

\* CPlayer::Kill: the items that drop stay in the room of the fight, a tenth
\* of the stats is left, and the player is saved in its new room r.
Kill(n, r) ==
  LET x == Drops(n, DropOnPK, DropOnPK)
  IN
  /\ Saves(n, [x.body EXCEPT !.hp = x.body.maxHP \div 10])
  /\ FloorIs(n, x.room)
  /\ kind' = Deleted(x.room.gone)
  /\ at' = [at EXCEPT ![n] = r]

\* A stat of player n changes; nothing is saved.
SetHP(n, b) ==
  /\ at[n] # NULL
  /\ body' = [body EXCEPT ![n] = b]
  /\ UNCHANGED <<kind, floor, at, saved>>

\* DoHackDamage and the damage scripts: a hit that does not kill.
DoHackDamage(n, a) ==
  /\ a < body[n].hp
  /\ SetHP(n, [body[n] EXCEPT !.hp = @ - a])

\* DoScriptDDOS, which drains CPU, and DoScriptSpray, which drains memory.
DoScriptDDOS(n, a) == SetHP(n, [body[n] EXCEPT !.hp = IF @ < a THEN 0 ELSE @ - a])

\* DoScriptRepair and DoScriptRestore, and DoScriptBoost for CPU: the sum is a
\* uint16_t, and is then limited by the maximum.
DoScriptRepair(n, a) == SetHP(n, Clamped([body[n] EXCEPT !.hp = (@ + a) % Wrap]))

\* RegenPlayer does the same when the stat is below its maximum.
RegenPlayer(n, a) ==
  /\ body[n].hp < body[n].maxHP
  /\ SetHP(n, Clamped([body[n] EXCEPT !.hp = (@ + a) % Wrap]))

\* CNPC::Kill: all that the program has, of the kinds ks, drops to the room.
NPCDrops(r, ks) ==
  LET fs == Fresh(DOMAIN ks)
      w == AllDropped(r, fs)
  IN
  /\ HasFresh(DOMAIN ks)
  /\ floor' = [floor EXCEPT ![r] = w.items]
  /\ kind' = KindsAfter(fs, ks, w.gone)
  /\ UNCHANGED <<at, body, saved>>

-----------------------------------------------------------------------------

Session == \E n \in Names : NWCAuth(n) \/ NWCAuthReplaces(n) \/ DoExit(n)

Command ==
  \E n \in Names :
    \/ \E i \in Items :
         \/ NWCGetItem(n, i)
         \/ NWCDropItem(n, i)
         \/ \E s \in Slots : NWCEquipItem(n, i, s)
         \/ NWCPlayerFinger(n, i)
         \/ DoScriptDelete(n, i)
    \/ \E s \in Slots : NWCUnequipItem(n, s)
    \/ \E r \in Rooms : Walk(n, r)

Fight ==
  \/ \E n \in Names, r \in Rooms : Kill(n, r)
  \/ \E n \in Names, a \in 1..(Wrap - 1) :
       DoHackDamage(n, a) \/ DoScriptDDOS(n, a) \/ DoScriptRepair(n, a) \/ RegenPlayer(n, a)
  \/ \E r \in Rooms, m \in 1..MaxNPCItems : \E ks \in [1..m -> Kinds] : NPCDrops(r, ks)

Next == Session \/ Command \/ Fight

Spec == Init /\ [][Next]_vars

-----------------------------------------------------------------------------
(* Properties *)

\* The sum of the first n elements of q.
SumOf(q, n) ==
  LET sum[j \in 0..n] == IF j = 0 THEN 0 ELSE sum[j - 1] + q[j] IN sum[n]

\* The places that hold item i.
OnFloor(i) == {p \in Rooms \X (1..MaxItemsInRoom) :
                 p[2] \in DOMAIN floor[p[1]] /\ floor[p[1]][p[2]] = i}
InBag(i) == {p \in Names \X (1..MaxCarryItems) :
               p[2] \in DOMAIN body[p[1]].inv /\ body[p[1]].inv[p[2]] = i}
InSlot(i) == {p \in Names \X Slots : body[p[1]].equip[p[2]] = i}
PlacesOf(i) == ({"floor"} \X OnFloor(i)) \cup ({"bag"} \X InBag(i)) \cup ({"slot"} \X InSlot(i))

\* An item is in one place as long as it exists and in none after: no command
\* can be timed so that two players get it, or that it stays in a room, an
\* inventory or a slot after it was deleted.
ItemInOnePlace ==
  \A i \in Items :
    IF kind[i] = NULL THEN PlacesOf(i) = {} ELSE \E p \in PlacesOf(i) : PlacesOf(i) = {p}

\* The counters of a player are what it carries, after any sequence of
\* commands, deaths and sessions: "Strange situation!" in
\* RemoveItemFromInventory never happens.
Sizes(inv) == [j \in DOMAIN inv |-> Size[kind[inv[j]]]]
CarryAccounted ==
  \A n \in Names :
    /\ body[n].count = Len(body[n].inv)
    /\ body[n].disk = SumOf(Sizes(body[n].inv), Len(body[n].inv))

\* The maximal stat of a player is its own plus the modifiers of what is
\* installed, in every session and after every wrap-around.
Mods(equip) == [s \in Slots |-> IF equip[s] = NULL THEN 0 ELSE Mod[kind[equip[s]]]]
MaxAccounted ==
  \A n \in Names : body[n].maxHP = (BaseHP + SumOf(Mods(body[n].equip), NumSlots)) % Wrap

\* No sequence of installing, losing and saving items leaves a player above
\* its maximum.
HPBounded ==
  \A n \in Names :
    /\ body[n].hp <= body[n].maxHP
    /\ saved[n] # NULL => saved[n].hp <= saved[n].maxHP

\* The items of kind k in the world: on floors, on players, and in the streams
\* of those who are not in the game.
InStreams(k) ==
  {p \in Names \X (1..(NumSlots + MaxCarryItems)) :
     /\ at[p[1]] = NULL /\ saved[p[1]] # NULL
     /\ p[2] \in DOMAIN KindsOf(saved[p[1]]) /\ KindsOf(saved[p[1]])[p[2]] = k}
Total(k) == Cardinality({i \in Items : kind[i] = k}) + Cardinality(InStreams(k))

\* Items come from programs only: no command, death, exit or return of a
\* player multiplies them.  A login that replaces a session is the exception.
ItemsConserved ==
  [][\/ \A k \in Kinds : Total(k)' <= Total(k)
     \/ \E n \in Names : NWCAuthReplaces(n)
     \/ \E r \in Rooms, m \in 1..MaxNPCItems : \E ks \in [1..m -> Kinds] : NPCDrops(r, ks)]_vars

\* What the flag of the item database says: an item in the inventory is
\* dropped on exit if it has the flag, and kept and saved if it has not.
ExitDropsFlagged ==
  [][\A n \in Names :
       LET kept == SelectSeq(body[n].inv, LAMBDA i : kind[i] \notin DropOnExit) IN
       at[n] # NULL /\ at'[n] = NULL => saved'[n].inv = [j \in DOMAIN kept |-> kind[kept[j]]]]_vars

=============================================================================
