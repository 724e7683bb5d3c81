# A verification project for the quals-2017 programs

The repository holds 27 programs written for a contest, one directory each.
Most are small and sequential. Those with logic a model can say something about
are modelled here:

* **hackermud**, a multi-user game: its server (`src/hackermud/server`) has
  sessions, timers and state shared by several clients, and its client
  (`src/hackermud/client`) keeps a mirror of what the server holds;
* **faggin** (`src/faggin`) and **reeses_revenge** (`src/reeses_revenge/server`),
  emulators of an MCS-4 and of a MIPS processor;
* the compressor of **liberty** (`src/liberty/server`).

The other programs, and why they are left out, are listed at the end. Source
lines below are relative to `src/hackermud/server` unless a path says otherwise.
`PROJECT.json` maps every definition to its lines.

## The system

### One loop, many clients

The server is one thread. `main()` (main.cpp) repeats one *game tick*:

1. `AcceptNewConnection` for every client that is waiting: a new connection,
   greeted with the proof-of-work challenge;
2. `select` over the sockets of `oConnectionList`;
3. for every connection in the list, `HandlePlayerData`: `ReadStream`, then
   `RecvCommand` and a handler of networkcommands.cpp for each complete command;
4. `UpdateEvent` (world.cpp): regeneration, attack rounds, program actions,
   spawning, spam counters, the reboot notifier, each every so many ticks;
5. `HandleDisconnects`: counts up the inactivity timers and deletes the
   connections that timed out or were disconnected, with their players.

There is no data race. What makes the server hard is that **every message may
fail**: a handler that sends to a client whose socket is broken disconnects that
client on the spot, in the middle of whatever loop is running, and that changes
pointers which callers further up have read or are about to read. And **every
message may wait**: sockets block, so a client that does not read holds the whole
server in `send()` for as long as it likes (socketbase.cpp:692).

### Components

| component | state | operations | must hold |
|---|---|---|---|
| connections (connection.cpp, main.cpp) | list, socket, `m_connectionState`, `m_pPlayer`, inactivity timer | accept, read, receive, disconnect, time out, reap | pointers between connection and player agree; loops never visit a deleted connection; silent clients go away |
| command framing (connection.cpp, streamdata.cpp) | the stream's chunks, two positions | send, read, receive one command | commands are handled in order, once and whole, or the connection ends |
| accounts (player.cpp, networkcommands.cpp) | player objects, `g_oPlayerLoginCache`, `g_worldPlayers` | proof, create, authenticate, replace a session, save, exit | one session per name; what a session had is saved; data survive from login to login |
| rooms and movement (room.cpp, networkcommands.cpp) | who and what is in a room | walk, flee, enter, announce | nobody walks away from a blocking program |
| fights (player.cpp, npc.cpp, damage.cpp, script.cpp) | lists of targets by ID | attack, script, kill, respawn, drop a target | players fight players only where allowed; both sides of a fight know of it; a fighter without opponents becomes idle |
| items (player.cpp, room.cpp, item.cpp) | floors, inventories, slots, counters, modified maxima | get, drop, install, uninstall, finger, delete, drop on death or exit, clean up | an item is in one place; counters and maxima fit the items |
| programs (npc.cpp, world.cpp) | room, kind, targets | spawn, roam, attack, run scripts | loops over them survive kills; no zone has more of a kind than its table says |
| spam tracker (world.cpp) | two counters per name | count, lower, mute | no way around the limit, and no mute for ever |
| scheduled reboot (world.cpp, main.cpp) | time of the reboot, stage | notify, exit | every notice precedes the exit |
| linked lists (nutil_list.h) | links inside the objects | insert, unlink, delete, empty | a set of sequences; no link leads to a deleted object |
| the client (client/networkcommands.cpp) | its player, its room, their lists | one handler per message | shows what the server holds; never loses synchronisation |
| faggin (src/faggin/mcs4.c) | program counters packed into bytes, registers, cycles | 46 instructions | program counter and return addresses do not disturb each other; every program ends |
| reeses_revenge (src/reeses_revenge/server) | registers, delay-slot state, pages, mmap table | load, MIPS instructions, system calls | delay slots, flat memory, arithmetic of numbers; every program ends |
| liberty's compressor (src/liberty/server/compress.c) | the data, the list of strings | run lengths, repeated strings, frequent pairs; the decompressor | what is packed unpacks to the file |

### How the server's parts interact

A `CConnection` and its `CPlayer` point at each other. `CConnection::Disconnect`
cuts the player's pointer and the socket but leaves connection and player where
they are; `HandleDisconnects` removes both later. A player is also in the list
of its room, from its login on in `g_worldPlayers`, and, by ID, in the target
lists of others, which nobody cleans up when it dies, flees or leaves. Its data
are written as a stream into the login cache whenever a handler saves it
(`SaveFile`); a login reads them from there, or from the player file when
nothing is cached.

Three facts of the build matter and are modelled as built:
`ENABLE_PLAYER_SAVE` is commented out (nothing goes back to the file, the cache
is the only persistence and dies with the process), `ENABLE_PLAYER_LOGIN_CACHE`
and `ENABLE_PROOF_OF_WORK` are on, and so is `ENABLE_IMPLANT_BUG`, under which
an implant script may be run on oneself.

### What is hard to test

`PROJECT.json` lists 40 hazards at their lines. The groups are:

* messages that fail in the middle of a loop (connection.cpp:31) or hold the loop
  (socketbase.cpp:692), and commands that are cut, torn or too many for the stream
  (connection.cpp:95, streamdata.cpp:63, 71), or whose length wraps (connection.cpp:114);
* a login racing the session it replaces (networkcommands.cpp:1459, 1484), and
  player objects without a connection: a client that just failed, or a character
  that was created and never logged in;
* loops that delete what they walk over (main.cpp:105, world.cpp:440,
  nutil_list.h:361), over links whose neighbours must be alive (nutil_list.h:180);
* target lists that name the dead and the departed (player.cpp:1010);
* counters that are adjusted in many places and never computed anew
  (player.cpp:783, 852; the client's CPU, client/networkcommands.cpp:1552);
* periodic updates against logins, roaming and late ticks (world.cpp:199, 325,
  358);
* in the emulators, state packed into shared bytes (src/faggin/mcs4.c:182), a
  delay slot remembered in three states (src/reeses_revenge/server/cpu.cpp:92),
  transfers that fail after a page (mmu.cpp:153), arithmetic told from signs and
  masks (cpu.cpp:481), and accesses behind an array (src/faggin/mcs4.c:78, mmu.cpp:131);
* in the compressor, escape bytes that share one byte with the data
  (src/liberty/server/compress.c:206, 215).

## The modules

| module | what it is |
|---|---|
| `Session` | connections, login, session replacement, timeout, reaping, login cache |
| `SessionWait` | `Session` with sends that wait for the client |
| `Combat` | rooms, movement, targets, attack rounds, kills, programs |
| `Inventory` | items, counters, modified maxima, saved streams |
| `SpamTracker`, `Reboot`, `NPCSpawn` | three updates of the tick with a state of their own |
| `CommandQueue`, `Framing` | what a connection promises to the handlers, and how it keeps it |
| `ListSpec`, `NList` | a set of sequences, and the linked lists that implement it |
| `ClientMirror` | the client's handlers against the server's senders |
| `CallStack`, `Mcs4` | a program counter and a bounded stack, and the MCS-4 that implements it |
| `FlatMemory`, `ReesesMemory` | bytes at addresses, and the pages and mmap that implement them |
| `DelaySlots`, `Reeses` | two program counters, and the MIPS processor that implements them |
| `Emulators` | the two processors side by side, for the types of both |
| `Compressor` | the three phases of packing and the three layers of unpacking |
| `MCSession`, `MCCombat`, `MCInventory`, `MCClientMirror` | instances for TLC: symmetry and the values that a .cfg cannot write |
| `MCWorldUpdates`, `MCLibraries`, `MCPrograms` | components that share no state, checked side by side: a variable `part`, fixed by the initial state, says whose behaviour this is |
| `SessionProofs`, `CombatProofs`, `InventoryProofs`, `ClientMirrorProofs`, `CompressorProofs` | the theorems of one component each |
| `ServerPartsProofs`, `ProgramsProofs` | those of the lists, the framing and the three updates, and those of the two processors |
| `Loops` | lemmas about loops and remainders that several of them use |

`Session`, `Combat`, `Inventory` and `ClientMirror` share players and rooms, and
each of them models the whole of the handlers it needs, seen from its own state.
A death, for instance, is `KillEffects` in `Session` (save, move, announce
through connections that may fail), `AfterKill`/`RoomsAfterKill` in `Combat`
(targets and rooms), `Kill` in `Inventory` (drops, stripped modifiers, save) and
`Kill` in `ClientMirror` (the messages, in their order). What one module leaves
open the others decide: `Combat` lets any hit be lethal, `Session` lets any game
command change a player's data.

In every module, definitions whose comment begins with "Mutant:" are a slightly
wrong version of the definition that follows. They are used nowhere;
substituting one for its definition must break the property `PROJECT.json`
pairs it with, which shows that the property depends on that piece of code.

### Session

`phase` is the part of the tick that runs: `accept`, `data`, `update`, `reap`.
`cursor` is what the loop of that part has yet to visit of `list`, so the loops
are interleaved with everything their bodies do. `inRead` and `reading` say that
`HandlePlayerData` is running for the head of `cursor` and how many complete
commands it still has. `cstate`, `socket`, `cplayer`, `timer` are the fields of
a connection, `pname`, `pconn`, `proom`, `pdata` those of a player object,
`cache` the login cache. A deleted object's address is used again: names of
model values are addresses, and a stale pointer would point at somebody else.

| action | code |
|---|---|
| `AcceptNewConnection` | accept and challenge; the greeting may fail, the connection is listed anyway |
| `SelectClients` | builds the select set; a listed connection without socket is `crash = "select"` |
| `SkipConnection`, `ReadFails`, `ReadStream`, `EndRead` | `HandlePlayerData` and the read of a connection |
| `BadCommand`, `NWCProofData`, `NWCCreateExisting`, `NWCCreatePlayer`, `NWCAuth` | the commands before the login; a wrong order disconnects |
| `NWCSay`, `NWCWall`, `NWCLogout`, `NWCDirection`, `GameCommand`, `ScriptKill` | the commands of a player by what they do to sessions; `GameCommand` stands for those that only change and perhaps save data |
| `UpdatePlayer`, `UpdateKill` | regeneration and kills of `UpdateEvent` |
| `KeepConnection`, `ReapConnection` | one visit of `HandleDisconnects` |
| `EndData`, `EndUpdate`, `EndReap` | from one part of the tick to the next |

The parameter `F` of an action is the set of recipients whose message fails; the
action disconnects exactly those (`Disconnect`). Data are a version number that
grows when the game changes them, capped by `MaxData`. A null pointer that the
code follows sets `crash` and nothing happens afterwards.

`SessionWait` adds `waiting`: a step that may send something (`Sends`) may leave the
server in a `send()`, and then it takes no step until `SendReturns`. The step that sends is
taken at the start of the wait; with one thread nobody sees the difference.

### Combat

`room` says where a fighter is (`NoRoom`: not made yet, or deleted), `targets`
whom it attacks, `online` who is in `g_worldPlayers`, `used` which IDs have been
given away (IDs count up and never come back). `phase` and `todo` are the two
loops of `UpdateAttacks`, over players and then over programs. Their steps do
not interleave with commands, only with each other, as in the code.

| action | code |
|---|---|
| `EnterWorld`, `LeaveWorld` | creation or login, exit |
| `SpawnNPC`, `NPCRoam`, `NPCAggress`, `NPCScriptKills` | what the world update does with programs |
| `NWCAttackPlayer`, `NWCAttackNPC`, `RunScript` | attack commands; `DoScriptCorrupt`, `DoScriptExploit`, `DoScriptImplant` differ in whether oneself can be hit |
| `NWCDirection`, `NWCPlayerFlee` | movement, with the ambush of on-enter programs (`AfterEnter`); `told` is whether the handler got as far as `DoPlayerEnterRoomAction` |
| `StartAttacks`, `Attack`, `Miss`, `EndPlayers`, `EndAttacks` | `UpdateAttacks` |

A list of targets is a set, and its head any member; hit points, levels and CPU
cost are abstracted to the outcomes they decide.

### Inventory

`kind` is the database entry of an item object (`NULL`: no such object), `floor`
the items of a room, head first, `at` the room of a player, `body` what a player
object holds (`inv`, `equip`, and the numbers `count`, `disk`, `maxHP`, `hp`),
`saved` the login cache, where items are kinds, as in the stream. HP stands for
HP, CPU and memory, which the same statements adjust. Arithmetic is modulo
`Wrap`, standing for the 16-bit fields.

| action | code |
|---|---|
| `NWCAuth`, `NWCAuthReplaces`, `DoExit` | login from the stream, replaced session, exit with its drops and save |
| `NWCGetItem`, `NWCDropItem`, `NWCEquipItem`, `NWCUnequipItem`, `NWCPlayerFinger`, `DoScriptDelete` | item commands, each with the save of its handler, where it makes one |
| `Walk` | walking and fleeing; nothing is saved |
| `Kill` | drops on PK, stripped modifiers, respawn and save |
| `DoHackDamage`, `DoScriptDDOS`, `DoScriptRepair`, `RegenPlayer` | the ways HP changes, each with its own clamp or wrap |
| `NPCDrops` | a dead program's items on the floor, with the room cleanup |

### SpamTracker, Reboot, NPCSpawn

`SpamTracker` has the names `online` and `tracked`, the counters `say` and
`wall`, and the `tick` modulo the period of `UpdateSpamTracker`; `said`,
`walled`, `sayDue` and `wallDue` only record what the property speaks of: what
was heard, and what the ticks of a name in the world would have taken off.
`NWCSay` and `NWCWall` make the tracker and count, `UpdateEvent` lowers the
counters of names in the world only, `NWCAuth` and `Leave` are a login and every
way out.

`Reboot` has the seconds that are `left`, the `state` of the notifier and
`running`. `UpdateCheckReboot(gap)` is a call after `gap` seconds and gives one
notice at most; the delay of the command line is raised to `MinDelay`.

`NPCSpawn` has the objects `made`, their `kind` and `room`. `UpdateNPCSpawn`
makes all programs that are missing in one call, each in any room of its zone;
`Roam` and `Kill` change where they are.

### Framing and CommandQueue

`wire` is what TCP still carries, `chunks`, `writePos` and `readPos` are the
stream of the receiver, `draining` says that it is in the loop over
`RecvCommand`, and `role` which loop that is: `HandlePlayerData` of the server,
`main` of the client, or the client's login, which reads once per step.
`SendCommand` puts all the bytes on the wire, `SendCommandFails` a part of them;
`ReadStream(n)` moves `n` bytes, `ReadStreamFails` ends the connection, also when
the stream is full; `RecvCommand` handles one command and `Drained` leaves the
loop. The other side need not be this program: after some commands `SendOther` puts any
of `OtherBytes` on the wire (`foreign`), such as a length at the end of its range. With
one of those the sum of `Complete` wraps, the command passes for complete, and the allocation
or `Read` throws where nobody catches; `RecvCommandThrows` is this end of the process.
`HandlesWhatWasSent` maps this to `CommandQueue`: what is pending is what `SendCommand`
sent and was not handled, and what is handled are the first that many (`Own`).

### NList and ListSpec

`next` and `prev` are the two members of a link, `next` with the low bit that
marks the end of a list; `prev` names the previous link, as in the code, not the
previous node. `RemoveFromList`, `InsertBefore` and `InsertAfter` are the three
assignments to neighbours in the order of the code, and `New`, `Delete`,
`ListInsertBefore`, `ListInsertAfter` and `Unlink` the operations built from them.
`StartEmptying`, `UnlinkAll`, `DeleteAll` and `Emptied` are the loops that empty a list,
the one from its last node and the other from its first. The sequences of `ListSpec` are what a walk along `next`
finds.

### ClientMirror

The server's side is rooms with their players, programs and items in list order,
what a player carries, and the slot, CPU and level of the player behind the
client; `pending` are the messages on their way, `view` what the client holds.
Each action of the server changes its lists and sends, in the order of the code,
the messages that reach the client; `Read` takes the first of them through
`DoNetworkCommand`, whose operators bear the names of the client's handlers. A
handler gives a new view with a verdict: done, refused (the loop that reads is
left), or lost (the client disconnects, or would follow a null room).

A client may name in a finger request whom it will no longer show when the answer
comes. `misnamed` remembers this until the next login, because the properties end
there (see Findings, *hackermud*): the item is then consumed
by the server and kept by the client. `GoesOn` says whether the server goes on with such a client.

### Mcs4 and CallStack

`prom` is the program, `pcs` the six bytes of the four program counters, `sp` the
number of open calls, `a`, `c`, `r` accumulator, carry and registers, `cycles`
what the loop of main counts. There is one action per instruction or, for those
that differ in what they compute only, per group (`Arithmetic`, `Memory`,
`Accumulator`, `Nop`). `ms` and `cmram` select a character of RAM (`SRC`, `DCL`). What RAM and
ports hold is not modelled: reading gives any of `RamValues`. Writing matters where it leaves them
(`WriteRam`, `WMP`). `ram` has eight chips, but command lines 4 and 3 select chips 8 to 15, which
are the members that follow in the packed structure, nibble by nibble (`Behind`): the
output ports, the registers, `ms`, `cmram`, `sp`, accumulator, flags, the program counters,
cycles and the handlers. A write to the registers or to the selection changes them; one to what is
behind sets `overwritten`, and the run ends there, for what the emulator does then depends
on the layout of its memory. The refinement to `CallStack` maps counter 0 to `pc`, the
counters 1 to `sp` to `calls`, and `overwritten` to `lost`, after which nothing is promised.

### Reeses, ReesesMemory, DelaySlots, FlatMemory

`pages` and `table` are the memory and the regions of mmap, `regs`, `hi`, `lo`,
`pc`, `delayState`, `delayPC`, `nextEpc` and `instrCount` the processor's members,
`image` and `loaded` the program and how far `LoadFile` has copied it, `halted` why the
process ended. `io` and `request` record the last request to the memory and the
last `control_transfer`, for the refinements. `CpuStep` is one instruction:
`Compute`, `MultiplyDivide`, `Branch`, `Jumps`, `Load`, `Store`, `StorePart`,
`Syscall`, `CopZero`, `CopTwo` or `Refused`. A word has four bytes of `ByteValues`
values, an immediate two of them. The table has `PAGE_COUNT_MAX` pages, up to `MmuMax`, but the index is
tested with `>` (mmu.cpp:131, 171), so that a transfer reaches the entry behind the last, which
is a member of the processor: its pointer to the memory. Such a transfer (`Stray`) may have used
the pages before, succeeds in the code, and ends the model with `halted = "undefined"` and a request
that is lost. Pages after that are refused. Instructions are kept beside the memory: a program that
writes its own text is not modelled.

`FlatMemory` is a function from addresses to bytes; a page is where its bytes
are, mmap makes zeroed blocks appear, and a write that fails may have done a
part; after a request that is lost it promises nothing. `DelaySlots` has the instruction and the one after it.

### Compressor

Phase 1 is the operator `Phase1`; phases 2 and 3 take a step per string
(`ReplaceString`) and per pair (`ReplacePair`), so that what is packed so far can
be unpacked by `Layer3`, `Layer2` and `Layer1`, the decompressor's loops. `Overrun`
is the write behind the list of strings when it is full. A byte has `CharValues`
values.

## The runs

Run with `tlc -workers 2 -config <cfg> <module>`.

| run | module, cfg | states | checks |
|---|---|---|---|
| `session_safety` | MCSession, MCSession.cfg | 52,456 | `TypeOK`, `PointersAgree`, `OneSessionPerName`, `LoginInv`, `LoopVisitsLive`, `ExitSaves` |
| `session_liveness` | SessionWait, SessionWait.cfg | 23,855 | `NoSilentConnection` |
| `combat_safety` | MCCombat, MCCombat.cfg | 63,680 | `TypeOK`, `PvPOnlyInPKRooms`, `Engaged`, `LoopVisitsLiving`, `BlockedStays`, `TargetsGetDropped` |
| `inventory_safety` | MCInventory, MCInventory.cfg | 136,964 | `TypeOK`, `ItemInOnePlace`, `CarryAccounted`, `MaxAccounted`, `HPBounded`, `ItemsConserved` |
| `world_updates` | MCWorldUpdates, MCWorldUpdates.cfg | 110,121 | `RateLimited`, `MuteEnds`, `AllNoticesGiven`, `PopulationBounded` |
| `libraries` | MCLibraries, MCLibraries.cfg | 252,252 | `Coherent`, `PrevAgrees`, `ImplementsListSpec`, `EmptyingEnds`, `ThrowsOnWrapOnly`, `HandlesWhatWasSent`, `ServerHandlesAll` |
| `client_mirror` | MCClientMirror, MCClientMirror.cfg | 890,585 | `ShowsTheServer`, `StaysInSync`, `RefusesStrangersOnly` |
| `programs` | MCPrograms, MCPrograms.cfg | 100,635 | `ProgramsTypeOK`, `ImplementsCallStack`, `ImplementsDelaySlots`, `ImplementsFlatMemory`, `WordArithmetic`, `ProgramEnds`, `UnpacksToInput` |
| `select_ignores_disconnected`, `login_keeps_data` | MCSession, a cfg named after the property | | one property each, violated (see Findings) |
| `exit_drops_flagged` | MCInventory, ExitDropsFlagged.cfg | | violated |
| `null_indicates_done` | MCPrograms, NullIndicatesDone.cfg | | violated |

What the passing runs show:

* **session_safety.** Although messages fail in the middle of every loop, a
  player never points at a connection that is gone (`PointersAgree`), two
  connections never play one name whatever the order of logins, failures and
  reaping (`OneSessionPerName`), `HandleDisconnects` and the data loop never
  visit a deleted connection although they delete while they walk
  (`LoopVisitsLive`), and both ways a session ends leave its data in the cache
  (`ExitSaves`).
* **session_liveness.** A client that connects and says nothing does not stay:
  the timer runs and expires before the proof, before the login and in the game, however
  often a send to some client waits in between. Unless one waits for ever: then nobody's
  timer runs, and that is what the code does.
* **combat_safety.** Stale target lists are harmless in the ways that matter: no
  player holds a player as a target outside a PK room although the attack round
  does not look at the room's flag, a player's living opponent is always beside
  it and attacks back, and so the two different tests of walking and fleeing
  come to the same thing for blocking programs. A fighter all of whose targets
  are gone becomes idle again (or finds a target again, or is a created player
  that never logged in, which the rounds do not visit).
* **inventory_safety.** After any sequence of item commands, deaths, exits and
  returns an item object is in exactly one place, the counters and maxima are
  what the items say, also when a modifier wraps, and only programs bring new
  items. A login that replaces a session is excepted from the last
  (`ItemsConserved`): the old session drops its items after the new one was
  loaded with them.
* **world_updates.** Nobody is heard more often than the limit plus what the
  ticks gave back, whatever the logins in between, and a muted name that stays in
  the world is heard again; every notice precedes the reboot, for delays that
  make several of them due at once, as long as calls are no later than the
  notices are apart (`GapAssumption`); a program that roams stays in the zone where
  it is counted.
* **libraries.** The links are coherent after every operation, walking back with
  Prev finds what Next finds, every operation is one on sequences, and emptying a list
  ends. However the network cuts, delays or refuses the bytes, and whatever comes behind them,
  the commands of `SendCommand` are handled in order, once and whole, and the server handles
  every one that was sent whole, or disconnects. A read of the stream fails where nobody
  catches it for a length that wraps with the header's, which ends the server, and for nothing else.
* **client_mirror.** Whatever the others do meanwhile, the client that has read
  its messages shows the server's lists in the server's order, its own
  inventory, slot, CPU and level; it never disconnects for a loss of
  synchronisation; and it refuses only news of the death of a player it was never
  told of.
* **programs.** The MCS-4's packed counters are a stack of return addresses, until a write to
  RAM overwrites what controls the emulator; the
  MIPS processor's delay state is two program counters, its pages are flat
  memory until a transfer uses the entry behind the last, its arithmetic that of numbers; and
  every program ends or comes to such a write or transfer, but for an
  MCS-4 program that comes back to an indirect jump for ever. What the compressor
  has packed after each step unpacks to the file, with the exceptions
  `UnpacksToInput` names.

### Bounds

* *session_safety*: two connections are needed for a replaced session and for a
  message that disconnects another listener. Four player objects let two sessions, a
  replaced object and a created character exist at once. `bob` has a player
  file, `alice` has to be created. `MaxTimer` 1 distinguishes a connection that
  is read in time from one that is not; `MaxCmds` 1 per read is enough because
  reads repeat; `MaxData` 1 distinguishes old data from new. Connections and
  players are symmetric: only identity tells them apart.
* *session_liveness*: one name, two player objects and `MaxTimer` 2, so that a
  timer counts more than once; no symmetry.
* *combat_safety*: two players are needed for PvP; one program stays and attacks
  unprovoked, the other blocks and ambushes; the square allows PvP and the hall,
  where the dead respawn, does not. No symmetry, for the liveness property.
* *inventory_safety*: two players compete for items, three item objects let one
  be on the floor, one carried and one installed; a room that holds one item and
  a player that carries two reach every limit, and the card's modifier of -2
  on a maximum of 1 with `Wrap` 3 makes the arithmetic wrap. The number of item
  objects also bounds what programs can drop.
* *world_updates*: one name, since trackers do not touch each other; limits 4 and
  2, drops 2 and 1, a period of two ticks, and at most 7 messages (`MaxSpoken`),
  so that a name reaches its limit, waits and reaches it again. Time counts in units of five
  seconds: the notices at 60, 24, 12, 6 and 2, a least delay of 12, a call at
  least every two units, and delays of 0 (raised), 13 (three notices due at once)
  and 65 (none due yet). Six programs of two kinds in two zones with a border
  between two of three rooms.
* *libraries*: two lists and three nodes give every position (first, last, only,
  between) and every move within and between lists. A byte has four values and
  the length two bytes, bodies of 0, 1 and 3 bytes, chunks of four bytes, three of them, and reads of at
  most five: commands end before, on and behind the end of a chunk, and three
  commands overflow the stream. Of another make (`MCOthers`) are a header whose length wraps to
  each end of what it can wrap to, one that just does not wrap, a refused number, and a command whose
  body does not come.
* *client_mirror*: one client, one other player, one program, two rooms; a boost that
  changes CPU and needs a level, and a coin, both lost on death. A room holds one item, so
  that the cleanup deletes, and a player carries one. The CPU without the boost counts as 0:
  what an installed item adds is what differs. `MaxPending` 1: the server acts while a
  message waits, so that the client may name whom the waiting message takes away. `GoesOn`
  is false: with a client that has done so, of which the properties say nothing, the run stops.
  The theorems have neither bound.
* *programs*: for the MCS-4 every arrangement of six bytes over four addresses
  (calls, returns, indirect jumps, an increment of the accumulator, 0 and 1), a program that
  runs every instruction, one of nested calls, and those that select a bank and a character,
  write there and return: in RAM, in the ports, at every nibble around the selection and the
  registers, and beyond; 60 cycles let four calls
  nest and return. For the MIPS a byte has 8 values, a word 12 bits, and a page 16 bytes; four pages are
  allocated and four left to mmap, which may take two, and behind them are the page that is used by mistake and one
  that is refused; the images run every
  arithmetic instruction on the ends of the ranges, every transfer with every other
  in its slot, every load and store across page ends, every system call, and
  pairs of regions. For the compressor a byte has 8 values, which is also the longest
  run and the longest list, and the files are families that bring each phase to its
  special cases, about 1,000 of them.

Deadlock is not checked in the runs of Session and SessionWait (a state in which the server has
followed a null pointer has no successor, and that is what those states mean),
in `world_updates` (the objects of `NPCSpawn` run out), `libraries` (three
commands are sent and a connection ends), `client_mirror` (the bounds on messages and objects, and `GoesOn`) and
`programs` (programs end). It is checked in the other passing runs.

### Fairness

`SessionWait!WaitSpec` has `WF(ServerStep)`: the server is one loop, `select` is called with a
zero timeout and sockets are read only when readable, so while it runs and no `send()` holds it, it
takes another step. That a send returns is not assumed, for a client need never read; it is the
premise of `NoSilentConnection`, which speaks of the behaviours in which no send waits for ever. Nothing
else is assumed of clients or of which message fails, and a crashed server satisfies the property trivially.

`Combat!FairSpec` is `WF_vars(UpdateAttacks)`: `UpdateEvent` runs a round of
attacks every seven ticks whatever the players do, and a round that has started
runs to its end. `MuteEnds` rests on `WF(UpdateEvent)` for the same reason, and on nothing
the players do. Both, and the server's part of `ServerHandlesAll`, hold while the tick runs:
`SessionWait` shows what may hold it, and in these modules no send waits for ever.

In `libraries`, `EmptyingEnds` assumes that a loop over a list goes on, which is a loop
of one thread; `ServerHandlesAll` that the network delivers what it carries or reports an error, and
that the loop over `RecvCommand` goes on or throws; both are weak, and nothing is assumed
of the sender. `ProgramEnds` assumes that each emulator's loop goes on. `Reboot`,
`NPCSpawn`, `ClientMirror` and `Compressor` have no liveness property and no fairness.

### Refinements

| detailed | abstract | what is hidden |
|---|---|---|
| `NList` | `ListSpec` | links, the end bit, the steps of emptying |
| `Framing` | `CommandQueue` | bytes, chunks, pieces of the network, torn commands |
| `Mcs4` | `CallStack` | packed counters, everything that is not control |
| `Reeses` | `DelaySlots` | three delay states and an address |
| `ReesesMemory` (through `Reeses`) | `FlatMemory` | pages, the mmap table, transfers in pieces |

## The proofs

`tlapm <module>` checks each of the seven modules and the lemmas of `Loops`. The theorems hold for every value of
the constants: any number of connections, players, names, programs, rooms, lists
and nodes, every map, program and bound, within the assumptions.

**Assumptions.** The `...Assumption`s type the constants, make `NULL`, `NoRoom`,
`NoTarget` and `NoChunk` different from everything else, and keep players and programs apart.
`Inventory` has finitely many accounts and item objects, `NList` finitely many objects with a
link (no program has memory for more); `Framing` no body so long that its length and the header's do not fit
the length field, which `SendCommand` never gets, and a stream of fewer bytes than the length field counts (at
most a thousandth of it in the code); what other senders send is any sequence of bytes. In `Reeses` a byte is some
number of bits and a word four bytes, at least four bits in all; pages divide the address space,
the table and what `Setup` allocates; and what is loaded are words, bytes and instructions whose fields have
the widths of their encoding (`ImageAssumption`). In `Compressor` a byte has five values at least, and
files are of bytes, three at least, for phase 1 reads past shorter ones.
One says more: `GapAssumption` of `Reboot`, that a tick is never so late that fewer calls
are left than notices. With the code's numbers (60 seconds at least, notices at 300, 120, 60, 30
and 10 seconds) this is a call every ten seconds or less. Without it the property is false: a
server that hangs for a minute exits without its notices.

| theorem | statement |
|---|---|
| `SessionTypeCorrect` | `Spec => []TypeOK`; in particular no timer exceeds the limit |
| `SessionInvariant` | `Spec => [](PointersAgree /\ OneSessionPerName /\ LoginInv)` |
| `SessionOneName`, `SessionLogin` | its parts `Spec => []OneSessionPerName` and `Spec => []LoginInv`, by name |
| `SessionLoops` | `Spec => []LoopVisitsLive` |
| `SessionExitSaves` | `Spec => ExitSaves` |
| `CombatTypeCorrect`, `CombatPvP`, `CombatEngaged`, `CombatLoops` | `Spec => []` of `TypeOK`, `PvPOnlyInPKRooms`, `Engaged`, `LoopVisitsLiving` |
| `CombatBlockedStays` | `Spec => BlockedStays` |
| `TypesAreRight`, `OnePlaceForEachItem`, `CountersAreRight`, `MaximaAreRight`, `HPStaysBounded` | `Spec => []` of `TypeOK`, `ItemInOnePlace`, `CarryAccounted`, `MaxAccounted`, `HPBounded` of `Inventory` |
| `OnlyProgramsBringItems` | `Spec => ItemsConserved` |
| `FramingTypes`, `ReadsThrowOnWrapOnly` | `FramingSpec => []FramingTypeOK`, `FramingSpec => []ThrowsOnWrapOnly` |
| `ImplementsCommandQueue` | `FramingSpec => HandlesWhatWasSent` |
| `ListsTypeCorrect`, `ListsCoherent`, `NextAndPrevAgree` | `Spec => []` of `TypeOK`, `Coherent`, `PrevAgrees` of `NList` |
| `ListsImplementSpec` | `Spec => ImplementsListSpec` |
| `MirrorInvariant` | `MirrorSpec => []MirrorInv`, the inductive invariant |
| `ClientShowsTheServer`, `ClientStaysInSync`, `ClientRefusesStrangersOnly` | `MirrorSpec => []` of `ShowsTheServer`, `StaysInSync`, `RefusesStrangersOnly` |
| `CountersAreCovered`, `RatesAreLimited` | `SpamSpec => []CountersCover`, `SpamSpec => []RateLimited` |
| `NoticesPrecedeExit` | `RebootSpec => []AllNoticesGiven` |
| `PopulationStaysBounded` | `NPCSpec => []PopulationBounded` |
| `CountersAreStack` | `Mcs4Spec => ImplementsCallStack` |
| `DelayStateRests`, `SlotsAreKept` | the delay state between two instructions, and `ReesesSpec => ImplementsDelaySlots` |
| `EmulatorKept` | `ReesesSpec => [](halted # "undefined" => EmulatorOK)`, the inductive invariant of memory and processor |
| `MemoryIsFlat` | `ReesesSpec => ImplementsFlatMemory` |
| `ArithmeticIsRight` | `ReesesSpec => WordArithmetic` |
| `CompressorKept` | `CompressorSpec => []CompressorInv`, the inductive invariant |
| `DecompressorUnpacks` | `CompressorSpec => []UnpacksToInput` |
| `Layer1Undoes` | `Layer1(Phase1(x)) = x` for every sequence of bytes |
| `Mcs4Typed`, `ReesesTyped`, `EmulatorsTyped` | `[]Mcs4TypeOK`, `[]ReesesTypeOK`, and both as `ProgramsTypeOK` |

**Session.** `PointersAgree` and `OneSessionPerName` are not inductive: that the
pointers still agree after a login needs to know that the connection which logs
in has no player yet, and that `NWCAuth` finds every other session of the name
needs that a connection in state PLAYER has a player that points back.
`LoginInv` says this, and that the name of a connected player is cached.
`SessionInv` is the conjunction. The proof has one step per action; the two
large ones, `NWCAuth` and `ReapConnection`, are the lemmas `AuthInv` and
`ReapInv`, and all the actions that only send messages use `DisconnectInv`: cutting
any set of connections preserves the invariant as long as no player object is
deleted and no cache entry lost. `SessionExitSaves` follows with
`OnlyExitsDelete`: no other action deletes a player. `SessionLoops` has an invariant of
its own, `ListInv`: the list holds exactly the connections that exist, each once, the rest of
the loop holds some of them, each once, and no loop is open in the phases that add to the list.
That nothing is listed twice is what makes it inductive: only then is the connection that the
reaper deletes gone from the list and from the rest of its loop (`UnlinkElements`,
`TailElements`). That no step brings a deleted connection back needs `SessionInv`: whoever a
message can fail for is connected.

**Combat.** `CombatInv` is `TypeOK`, `Fights(targets, room, used)`, `LoopInv` and
`LoopVisitsLiving`. `Fights` says that only IDs that were given away are targets,
that who is in no room has no targets, that programs attack only players, that
players hold each other only in PK rooms, and that a player's living program is
beside it and attacks back. `Engaged` alone is not inductive: a program that
attacked a program could kill it from a player's list, and an ID that came back
would find itself on the lists of its predecessor's enemies. `Fights` is an
operator of its state, so that the lemmas about the three things that happen to
target lists (`EngageFights`, `KillFights`, `EnterFights`, with `DropFights` for
the attack round) are stated once and used for every action. `LoopInv` says in
which phase who is in `todo`.

**Loops.** The models write the code's loops as recursive functions. That such a function
has the value its definition says, and that what holds before the loop and is kept by each pass
holds after it, needs induction, which the library states for operators only. `Loops` states it
for sets and functions (`LoopInduction`, `LoopExists`): a set of pass numbers without a
smallest element would give a set of finite sets `0..n` without a minimal one.

**Inventory.** `Inv` is `TypeOK` with four parts. `Bodies`: the counters of a player object are
those of its inventory and its maximum is its own plus what is in the slots, modulo `Wrap`, and
`hp` is not above it. `Streams`: the same of what is saved, where items are kinds. `Placed`: no
item is in two places or twice in one, and the items that exist are those in a place. `InGame`: who is
in no room holds nothing, and who is in one has been saved. None is inductive alone. That
`hp` stays bounded rests on the maximum being right; that a deleted item is nowhere, on
its having been in one place; and that a login is right, on the saved stream being right,
which was written from a body that was. The drop loops of death and exit, and the room cleanup
that each drop may set off, are loops over an inventory whose passes keep the parts of `Inv`
(`LoopInduction`); the sums over slots and inventory change by one summand with each
assignment, which is shown for sums over any finite set modulo `Wrap`.
`ItemsConserved` is an action property that `Inv` supports. Most actions are `Quiet`: objects only go,
and whoever is away keeps its stream. The two that convert are counted: an exit deletes an object for each
place of the stream it writes, because no object is at two places of a body (`StreamPlaces`,
`ObjectsToStream`), and a login makes as many objects as it takes places of the stream away (`StreamToObjects`).

**Framing.** `Flow` is a history of bytes: those in the stream, then those in the network.
`FramingInv` says that, while the receiver has its socket and has not handled more than `sent`, `Flow` is
the commands in `sent`, one behind the other, each at its mark (`Carries`), followed by nothing, by a part of
one command on which the sender gave up, or by anything from a sender of another make (`Remainder`); that `readPos` is
the mark of the first command not yet handled (`Continues`); and that the chunks below `writePos` are made,
whatever the bytes are. A send adds to `Flow` (`WireGrows`); a read moves
bytes from the network into chunks and leaves it as it is (`WrittenIs`), wherever a chunk ends. The
header at the front of the stream is then that of the next command (`HeaderIs`), whose length
is read as it was written (`LengthOfIs`, by induction over its bytes), so `Complete` is
true just when all its bytes are there (`CompleteIs`), and the command that is not whole never completes. Behind the last
command of `sent` nothing is known of the header but that it is of bytes, and that is enough for
`ThrowsOnWrapOnly` (`ReadsAreThere`): the sum either does not wrap, and then `Complete` says that the bytes are there, or
it does, and then the length is larger than the stream, so that reading it throws. What is handled there is no
concern of the queue (`Own`, `OwnKept`, `RecvOwn`).

**Lists.** `Coherent` is inductive with `TypeOK`. It is an instance of `GoodOn(s, V)`: on
the live links `V`, next and previous are inverse and lead to live links only, and the end bit is
set where a list's own link follows. The lemmas `RemoveGood`, `BetweenGood`,
`InsertGood` and `AloneGood` say what the three assignments do to it, for any such
`s`, so that every operation is a composition of them. `PrevAgrees` follows from it (`CoherentAgrees`).
That the lists are the sequences of `ListSpec` needs more, `MakesLists`: there are sequences `c`, no
node twice in them, such that from the link of each list the links lead through its
sequence and back (`Ring`), and a living object in none of them is alone (`Shape`). Without the last
part a circle of nodes with no list could be inserted next to. Taking a link out takes
its node out of `c` (`RemoveShape`), putting it in puts it behind the place it is
next to (`PutShape`), and `UnlinkShape` and `InsertShape` compose them as the code does. `SpellIs`
reads `c` back: the walk of `ListSeq`, by induction over its steps, follows the
sequence and meets the end after its last node, which it reaches because a sequence without
repetition is not longer than there are nodes.

**Client.** `MirrorInv` has two halves. The server's: `PlayersHere`, `NPCsHere`, `ItemsHere`, `StatsHere`
say that nobody is in two rooms or twice in one, that no item is at two places, and that the bounds
of rooms, inventories and stats hold. The client's: `Idle`, without a session nothing is on its way
and nothing shown; and `InStep`, the messages on their way, applied one after the other,
lead from what is shown to a picture of what the server holds, and no message among them is taken amiss
(`Tracks`). So the invariant does not say what is shown now, which may be long out of date, but where it
is led to. The players of the picture are those of the room up to strangers, players that no
session belongs to: at most all of them, and none that has a session is missing (`Same`).
For each handler a lemma `Takes...` gives the picture after one message, and for each sender a lemma
`Tracks...` says that with its message behind those on their way the client tracks the list after
the server's change; `AcceptsMore` puts the two one behind the other, and a message that is read comes off
the front (`AcceptsHead`). What falls into a room at a death is a loop whose messages are
those of `AddItemToRoom` in its order, each with the deletion it may cause before it (`DropsAll`). The half of the
server is needed where a handler asks: whoever is told to leave is shown, because it is in
one room; an item that is picked up is on the list, once; a boost that is installed finds the slot empty
and the level high enough. Both halves are preserved by each action (`NWCAuthKeeps` to `KillNPCKeeps`).
Loops over lists keep the elements of a set in their order (`Only`), which `OnlyIs`
and `PrefixInduction` make available to the provers.

**Spam.** `RateLimited` compares what was heard with what the ticks gave back; it
becomes inductive as `CountersCover`: a counter is at least what was said beyond
that. The cap of the model (`MaxSpoken`) does not weaken it (`TickCovers`).

**Reboot.** `TimeLeft`: while a notice is missing, the time left exceeds a gap for each
that is missing. A call either gives the next notice or comes before its time, and `GapAssumption`
says that the notices are far enough apart (`CallTime`).

**Spawn.** `PopulationBounded` is inductive with `NPCTypeOK`; the step that makes programs counts a union
of the old ones of an entry and the new ones, which are disjoint, with the facts of
`FiniteSetTheorems`.

**Mcs4.** The invariant `MachineOK` only says that what the machine holds has its width. The
work is in the packed bytes: `SetThenGet` (writing a counter writes this one and no other),
from it `MovedPc`, `PushedPc` and `PoppedPc`, and then `CallStep` and `ReturnStep`,
which compare the counters with a sequence. The writes to RAM that are followed leave the counters alone
and keep the registers' width (`RamStep`), and one to what is behind is the step to `lost`. All other instructions write counter 0 alone
(`GoStep`, `OnStep`) and keep their widths. With the cycles of an instruction (`StepCycles`) it is
`Mcs4TypeOK`: the limit is passed by at most one.

**Reeses.** Every instruction either leaves the flow alone, because the process ends, or
goes on or to a target once (`ExecuteFlow`), and each of these is a step of `DelaySlots`
while the delay state is at rest or in a slot between two instructions.

That the pages are a flat memory is shown in four steps. A transfer is a set of pieces that the
code cuts at the ends of pages; `CutsExist` and `CutsSay` say that the pieces are those between
consecutive cuts, that each is in one page and that together they hold each byte once, also when the
address wraps. From this `PiecesReached` and `TransferGoes`: the pieces up to the first missing page
are the bytes up to the first missing address, so that what is read (`ReadIs`) and written
(`WrittenIs`) is a matter of bytes at addresses (`ReadIsFlat`, `WriteIsFlat`, torn writes included).
For mmap the invariant `EmulatorOK` says that every page in use is one of the text or of a region of
the table (`PagesOwned`). Then the three tests of `DoMMAP` against an entry find every overlap of
pages although they compare lengths that are not whole pages (`SharedOverlaps`), the pages wanted are all free
(`WantedFree`), and `AddMMAPRegion` takes all of them or the call is refused (`MapsAll`). Last,
every instruction and system call makes one of four kinds of access to the memory, with bytes for data
and words for addresses, and keeps the types of the registers (`ExecuteKeeps`, one lemma per group of
instructions), unless the access strays, which is the step in which `FlatMemory` promises nothing; `AccessIsFlat` puts the
two together, and `EmulatorStays` makes it an invariant. As the code overwrites the page table at such an access, the theorem
`EmulatorKept` states it of the processes that are not yet undefined. The widths of what arithmetic makes rest on
lemmas about bits (`BitwiseTyped`, `srlWord`, `sraWord`) and digits (`WordAtIs`, `PartialWords`).

`WordArithmetic` follows from `EmulatorOK` and lemmas about words of any size. The tests by the signs
are those for a sum or difference outside the range (`SumIs`, `DifferenceIs`). A shift of a
signed number leaves the upper digit of the word below copies of the sign; the mask of `srl`
takes them off (`srlIs`), that of `sra` adds bits that are set already (`OrMask`, `MaskBits`, `sraIs`). The
product of two words fits the two halves (`ProductIs`, `PlainProductIs`), and the quotient towards zero leaves a
rest smaller than the divisor with the sign of the dividend (`QuotientIs`). For `lwl` and `lwr` a word is four
bytes, of which a number of two parts keeps each part's (`Glued`, `lwlDigits`, `lwrDigits`), and those of a
word that is read are the bytes at its addresses (`LoadedDigits`). `Dispatch` and `ComputeIs` tie them to the
instruction that was executed.

**Compressor.** Every phase and every layer is a loop over a buffer (`Walk`), so that one lemma does for
all of them: if a second loop, wherever the first put something out, puts out the bytes that stands for and
moves behind it, then it undoes the first (`Undoes`). Layer 1 undoes phase 1 that way, on
every buffer (`Layer1Undoes`); a round of layer 3 a round of phase 3 (`PairsUndone`), because a pair is
replaced only where the byte behind it will not be put out as the special byte (`BehindPair`);
and `PutBack` the replacement of a string (`ShortenedUndone`). That one needs to know
what is behind a key that stays: `TokensOK`, the escape byte again, which is the filler's place and no string's,
or the place of a string that is in the list already. The string that fills the list is never taken out, and
its place is the marker's, which no token names (`NothingBack`).

`CompressorInv` says that the strings in the list and the pairs replaced so far form chains (`Chain`,
`RoundsOf`): data of which each is what the decompressor makes of the next. `ReplaceString` and
`ReplacePair` make a chain longer (`TakenOutKeeps`, `PairReplaced`), and `StringsBackUndoes` and `Layer3Undoes` go
down all of it. As every round of phase 3 makes the data shorter, there are no more rounds than bytes. That the escape byte of phase
2 is plain when phase 3 finds a spare byte is where three facts meet: no byte of the data gets lost
(`Covered`), the escape byte was the best choice then, and the spare byte would have been as good
(`Phase3Starts`). The list is read back up to the leading null, which is what `NullIsFirst` grants and
finding 4 shows to fail.

**Only model-checked.** The liveness properties `NoSilentConnection`, `TargetsGetDropped`,
`MuteEnds`, `EmptyingEnds`, `ServerHandlesAll` and `ProgramEnds` (fairness is out of this
prover's reach) and the four findings. Every other property of a passing run is proved.

## Findings

Each is a run whose property states what the repository says and which TLC
refutes; `PROJECT.json` quotes the lines.

1. `SelectIgnoresDisconnected` (main.cpp:227): the select set is built without
   the test for disconnected sockets that the next loop makes.
2. `LoginKeepsData` (networkcommands.cpp:1459): a login that replaces a session is
   loaded before that session saves.
3. `ExitDropsFlagged` (player.cpp:1165): carried items are dropped on exit by the
   flag for PK.
4. `NullIndicatesDone` (src/liberty/server/compress.c:206): the null byte that tells the
   decompressor where the lists end can be taken out with a repeated string.

### Seen while modelling, without a run

The models do what the code does in each of these places.

*hackermud.* Speaking in a room with a player object that has no connection
follows a null pointer (networkcommands.cpp:779), and so does announcing a
respawn when the message before it failed (:258): both end in `crash` states of
`Session`. The death of a created character that never logged in overwrites the cache
entry of its owner (player.cpp:1113). A finger request consumes any carried item, not only
a script (networkcommands.cpp:2425). The first reboot notice is wrong about the minutes when the
delay is short (world.cpp:224). A command whose length is one of the five highest of 32 bits
passes for complete, because the sum with the header's wraps (connection.cpp:114); the allocation or the read behind it
throws, nobody catches, and the server ends (`RecvCommandThrows`). A client that does not read holds the server in a blocking
`send()` (socketbase.cpp:692), for all others too (`SessionWait`). Characters of `NWCCreatePlayer` and players that respawn without a
connection are never announced to the clients of their room, which is what
`RefusesStrangersOnly` leaves. A client that is about to read of the death of such a player still shows
it and may finger it, when it has come back to the room: the server consumes the item
(networkcommands.cpp:2425), but the client no longer finds the player, refuses the answer and keeps the item
(src/hackermud/client/networkcommands.cpp:2227), so that a later message may find the two out of step. The NPC branch of `NWCAttack`
(networkcommands.cpp, about 2155) asks whether the fight is new after it has
started it, so the room never hears of it; `NPCRunDamageScript` never subtracts
the damage from a survivor; the room cleanup also deletes items with the
no-destroy flag.

*faggin* (src/faggin/mcs4.c). An unconditional jump takes its page from the program
counter, not from the instruction (519, against the comment at 513); a taken conditional
jump loses the page (447) and its inverted conditions always hold; `FIN` loads the address
instead of the data (491); `JIN` chooses its pair by the program counter and counts no cycle
(507), so that only the alarm stops such a program; a subtraction is off by two, because `~c`
is the complement of an int (614); the carry of `RAL` is told from a comparison (938). With command lines 3 and 4
RAM, whose array has eight chips (mcs4.h:34), is written behind it (78 to 110), where registers, stack pointer, counters and
cycles are, and so are the RAM ports (727); `WRR` has four bytes for eight ports (753), but behind them is RAM.

*reeses_revenge* (src/reeses_revenge/server/cpu.cpp). `swl` stores one byte only, and `swr`
at the unaligned address; `jr` tests the value of a register where its field is meant (1149);
a branch in a slot loses the pending jump, and an exception there is charged to the first;
linking branches set the return address before they test; `LoadFile` does not see a section
that fails; the page index is tested off by one (mmu.cpp:131, 171), so that a transfer behind the last page reads or
writes the memory's own object through the processor's pointer to it, the page table among it (the model ends when it
is used); the RC4 coprocessor cuts its block length to a byte; coprocessor 0 does nothing.
Overflow tests follow the committed build, in which signed sums wrap. System call
numbers below the base and a halt in a slot are undefined in the code; the model ends there.

*liberty* (src/liberty/server). The escaping of phase 2 looks at the wrong buffer (compress.c:190,
against the comment at 186), which shows only when its escape byte occurs, and then phase 3 has
no spare byte either; a list of 256 strings is written past (163, 217); the decompressor takes
the result of its last layer from an output that nobody wrote when no pair was
replaced (payload-decompress.c:101); phase 1 reads past files shorter than three bytes.

## Left to do

1. An abstract account (a name is absent, cached or played, with one version of
   its data) implemented by `Session`, with replaced sessions and ghosts as its named exceptions.
2. The message store of `empanada` and the LZSS of `reeses_revenge`, which
   need a memory model finer than the others.

## Not modelled

The map covers about a tenth of the repository's lines. Most of the rest is not this
system's own logic: well over half is vendored (`ttmath` in godzilla, `dlmalloc`, hashes, random
numbers, sockets), generated (password checkers in many languages, with their tables), or
copies (`src/hackermud/*.cpp` is the client a second time, line for line in its handlers).

* Of the server: damage formulas, levels and experience, regeneration of
  programs, the text of messages, loading of the item, room, program and player
  files, the contents of streams and of most commands, the proof of work itself (a
  client has solved it or not), passwords (a login with a wrong one is one of the commands
  that disconnect), the hash tables and the bit writer.
* Of the client: the login dialogue, the commands the user types, the display, hit points and memory, and the messages of
  attacks and damage, of which those about a player that was never announced are refused too
  (src/hackermud/client/networkcommands.cpp:1595): `RefusesStrangersOnly` speaks of the messages that are modelled.
* Of faggin: what RAM and ports hold, and what the emulator does after it has overwritten its own control. Of reeses_revenge:
  what follows a use of the entry behind the page table, the checks of the signed
  file, the programs that run on the emulator, self-modifying code, big-endian words (the
  build is little-endian). Of liberty: the server's fixed sequence of payloads, the kernel
  patch, and the decompressor's fixed buffers of 10,000 bytes (payload-decompress.c:33).
* empanada works with raw pointers into one buffer: a question of memory layout,
  not of states. godzilla is a thin loop over a vendored number library, beatmeonthedl a menu
  over a vendored allocator, babyint copies segments to offsets.
* The remaining programs are sequential and of a few functions, or are
  templates, tables and patches to third-party code; `PROJECT.json` lists them with the reason.
