------------------------------- MODULE Session -------------------------------
(***************************************************************************)
(* Connections, player objects and the login cache of the hackermud server *)
(* (src/hackermud/server: main.cpp, connection.cpp, player.cpp and the     *)
(* login handlers of networkcommands.cpp).                                 *)
(*                                                                         *)
(* The server is one thread.  A game tick accepts connections, reads and   *)
(* executes the commands of every readable connection, updates the world   *)
(* and reaps the disconnected connections; every action below is one of    *)
(* those calls, so the interleavings are the orders in which clients       *)
(* connect, talk, fail and come back.                                      *)
(*                                                                         *)
(* Every message to a client may fail (SendCommand), and the sender then   *)
(* disconnects that client in the middle of whatever it is doing: the set  *)
(* of recipients that fail is a parameter of the actions that send.        *)
(*                                                                         *)
(* Abstraction: what a player's stream holds (stats, levels, items) is a   *)
(* version number that grows whenever the game changes it.  A null pointer *)
(* that is followed stops the server: crash says where.                    *)
(***************************************************************************)
EXTENDS Naturals, Sequences, FiniteSets

CONSTANTS
  Conns,      \* connection objects (an address is used again after delete)
  Players,    \* player objects (an address is used again after delete)
  Names,      \* account names
  Rooms,      \* rooms a player can stand in
  InitialRoom,\* INITIAL_ROOM_VNUM, where every login starts
  StartRooms, \* where a created character is put: rooms 100, 180 and 182
  DiskNames,  \* accounts with a player file of their own
  MaxTimer,   \* MAX_INACTIVITY_TICK_COUNT
  MaxCmds,    \* bound: complete commands one ReadStream can deliver
  MaxData,    \* bound: versions of a player's data
  NULL

ASSUME SessionAssumption ==
  /\ InitialRoom \in Rooms
  /\ StartRooms \subseteq Rooms
  /\ DiskNames \subseteq Names
  /\ MaxTimer \in Nat
  /\ MaxCmds \in Nat
  /\ MaxData \in Nat
  /\ NULL \notin Conns \cup Players \cup Names \cup Nat

VARIABLES
  phase,    \* the part of the game tick being executed
  crash,    \* "no", or the statement that followed a null pointer
  list,     \* oConnectionList, head first
  cursor,   \* the connections the loop of the current phase has yet to visit
  inRead,   \* HandlePlayerData is running for Head(cursor)
  reading,  \* complete commands left in the buffer of Head(cursor)
  cstate,   \* m_connectionState ("none": no such object)
  socket,   \* m_pSocket is not NULL
  cplayer,  \* m_pPlayer
  timer,    \* m_inactivityTimer
  pname,    \* name of a player object (NULL: no such object, whose other
            \* fields then have a default value)
  pconn,    \* m_pConnection of a player object
  proom,    \* m_pCurrentRoom of a player object
  pdata,    \* version of the data of a player object
  cache     \* g_oPlayerLoginCache: saved version per name, NULL if absent

loopVars == <<phase, crash, list, cursor, inRead, reading>>
connVars == <<cstate, socket, cplayer>>
playerVars == <<pname, pconn, proom, pdata, cache>>
vars == <<loopVars, connVars, timer, playerVars>>

Phases == {"accept", "data", "update", "reap"}
CStates == {"none", "WAIT_PROOF", "WAIT_AUTH", "PLAYER", "DISCONNECT"}
CrashSites == {"no", "select", "say", "death"}

TypeOK ==
  /\ phase \in Phases
  /\ crash \in CrashSites
  /\ list \in Seq(Conns)
  /\ cursor \in Seq(Conns)
  /\ inRead \in BOOLEAN
  /\ reading \in 0..MaxCmds
  /\ cstate \in [Conns -> CStates]
  /\ socket \in [Conns -> BOOLEAN]
  /\ cplayer \in [Conns -> Players \cup {NULL}]
  /\ timer \in [Conns -> 0..MaxTimer]
  /\ pname \in [Players -> Names \cup {NULL}]
  /\ pconn \in [Players -> Conns \cup {NULL}]
  /\ proom \in [Players -> Rooms]
  /\ pdata \in [Players -> 0..MaxData]
  /\ cache \in [Names -> (0..MaxData) \cup {NULL}]

Init ==
  /\ phase = "accept"
  /\ crash = "no"
  /\ list = <<>>
  /\ cursor = <<>>
  /\ inRead = FALSE
  /\ reading = 0
  /\ cstate = [c \in Conns |-> "none"]
  /\ socket = [c \in Conns |-> FALSE]
  /\ cplayer = [c \in Conns |-> NULL]
  /\ timer = [c \in Conns |-> 0]
  /\ pname = [p \in Players |-> NULL]
  /\ pconn = [p \in Players |-> NULL]
  /\ proom = [p \in Players |-> InitialRoom]
  /\ pdata = [p \in Players |-> 0]
  /\ cache = [n \in Names |-> NULL]

-----------------------------------------------------------------------------
(* Connections and players *)

\* A player object exists.
Live(p) == pname[p] # NULL

\* The player objects linked in room r.
PlayersInRoom(r) == {p \in Players : Live(p) /\ proom[p] = r}

\* The connections a message to everyone in room r is sent to (IsConnected).
Audience(r) == {pconn[p] : p \in PlayersInRoom(r)} \ {NULL}

\* The connection state after Disconnect() of every connection in D.
Disconnected(D) == [c \in Conns |-> IF c \in D THEN "DISCONNECT" ELSE cstate[c]]

\* Mutant: Disconnect() deletes the socket and keeps the pointer to it.
SocketsKept(D) == socket

\* The sockets after Disconnect() of every connection in D.
SocketsWithout(D) == [c \in Conns |-> socket[c] /\ c \notin D]

\* Mutant: Disconnect() does not tell the player.
PlayersKept(D) == pconn

\* The players' m_pConnection after Disconnect() of every connection in D.
PlayersWithout(D) ==
  [p \in Players |-> IF \E c \in D : cplayer[c] = p THEN NULL ELSE pconn[p]]

\* Disconnect() of the connections in D, whose players stay until the reaper.
Disconnect(D) ==
  /\ cstate' = Disconnected(D)
  /\ socket' = SocketsWithout(D)
  /\ pconn' = PlayersWithout(D)
  /\ UNCHANGED cplayer

\* Mutant: only a name that is not cached yet is written.
SaveFileNewOnly(ca, p, d) ==
  IF ca[pname[p]] = NULL THEN [ca EXCEPT ![pname[p]] = d] ELSE ca

\* SaveFile(): the entry of the player's name in the cache ca, if there is
\* one, is replaced by the version d.
SaveFile(ca, p, d) ==
  IF ca[pname[p]] # NULL THEN [ca EXCEPT ![pname[p]] = d] ELSE ca

\* Mutant: the node after the i-th one is unlinked.
UnlinkNext(s, i) == SubSeq(s, 1, i) \o SubSeq(s, i + 2, Len(s))

\* A list without its i-th node.
Unlink(s, i) == SubSeq(s, 1, i - 1) \o SubSeq(s, i + 1, Len(s))

\* g_worldPlayers: the players that logged in.  A created character that
\* never did is in a room, but not in this list.
InWorld(p) == \E c \in Conns : cplayer[c] = p

-----------------------------------------------------------------------------
(* Accepting connections *)

\* AcceptNewConnection: the new connection enters the list at the head; when
\* the proof request cannot be sent it is already disconnected.
AcceptNewConnection(c, sent) ==
  /\ crash = "no"
  /\ phase = "accept"
  /\ cstate[c] = "none"
  /\ cstate' = [cstate EXCEPT ![c] = IF sent THEN "WAIT_PROOF" ELSE "DISCONNECT"]
  /\ socket' = [socket EXCEPT ![c] = sent]
  /\ list' = <<c>> \o list
  /\ UNCHANGED <<phase, crash, cursor, inRead, reading, cplayer, timer, playerVars>>

\* The main loop adds the socket of every listed connection to the select set.
SelectClients ==
  /\ crash = "no"
  /\ phase = "accept"
  /\ IF \A i \in DOMAIN list : socket[list[i]]
       THEN phase' = "data" /\ cursor' = list /\ UNCHANGED crash
       ELSE crash' = "select" /\ UNCHANGED <<phase, cursor>>
  /\ UNCHANGED <<list, inRead, reading, connVars, timer, playerVars>>

-----------------------------------------------------------------------------
(* Reading the connections *)

\* The connection that the loop over the list is at.
Serving(c) ==
  /\ crash = "no"
  /\ phase = "data"
  /\ cursor # <<>>
  /\ c = Head(cursor)

\* The connection is disconnected by now, or select() did not report it.
SkipConnection(c) ==
  /\ Serving(c)
  /\ ~inRead
  /\ cursor' = Tail(cursor)
  /\ UNCHANGED <<phase, crash, list, inRead, reading, connVars, timer, playerVars>>

\* ReadStream fails: the client closed its end.
ReadFails(c) ==
  /\ Serving(c)
  /\ ~inRead
  /\ cstate[c] # "DISCONNECT"
  /\ Disconnect({c})
  /\ cursor' = Tail(cursor)
  /\ UNCHANGED <<phase, crash, list, inRead, reading, timer, pname, proom, pdata, cache>>

\* ReadStream delivers k complete commands and the inactivity timer restarts.
ReadStream(c, k) ==
  /\ Serving(c)
  /\ ~inRead
  /\ cstate[c] # "DISCONNECT"
  /\ inRead' = TRUE
  /\ reading' = k
  /\ timer' = [timer EXCEPT ![c] = 0]
  /\ UNCHANGED <<phase, crash, list, cursor, connVars, playerVars>>

\* RecvCommand returns false: no complete command left, or no socket.
EndRead(c) ==
  /\ Serving(c)
  /\ inRead
  /\ reading = 0 \/ ~socket[c]
  /\ inRead' = FALSE
  /\ reading' = 0
  /\ cursor' = Tail(cursor)
  /\ UNCHANGED <<phase, crash, list, connVars, timer, playerVars>>

\* RecvCommand hands the next complete command of c to DoNetworkCommand.
RecvCommand(c) ==
  /\ Serving(c)
  /\ inRead
  /\ reading > 0
  /\ socket[c]
  /\ reading' = reading - 1
  /\ UNCHANGED <<phase, list, cursor, inRead, timer>>

-----------------------------------------------------------------------------
(* Commands before the game *)

\* DoNetworkCommand or a handler refuses the command.
BadCommand(c) ==
  /\ RecvCommand(c)
  /\ Disconnect({c})
  /\ UNCHANGED <<crash, pname, proom, pdata, cache>>

\* NWCProofData with a correct solution.
NWCProofData(c) ==
  /\ RecvCommand(c)
  /\ cstate[c] = "WAIT_PROOF"
  /\ cstate' = [cstate EXCEPT ![c] = "WAIT_AUTH"]
  /\ UNCHANGED <<crash, socket, cplayer, playerVars>>

\* An account of this name can be loaded.
AccountExists(n) == cache[n] # NULL \/ n \in DiskNames

\* NWCCreatePlayer for a name that is taken: only the response is sent.
NWCCreateExisting(c, n, F) ==
  /\ RecvCommand(c)
  /\ cstate[c] = "WAIT_AUTH"
  /\ AccountExists(n)
  /\ F \subseteq {c}
  /\ Disconnect(F)
  /\ UNCHANGED <<crash, pname, proom, pdata, cache>>

\* NWCCreatePlayer for a new name: the character p is made from the default
\* player file, put in a room and written to the cache; it stays there.
NWCCreatePlayer(c, n, p, r, F) ==
  /\ RecvCommand(c)
  /\ cstate[c] = "WAIT_AUTH"
  /\ ~AccountExists(n)
  /\ ~Live(p)
  /\ F \subseteq {c}
  /\ pname' = [pname EXCEPT ![p] = n]
  /\ proom' = [proom EXCEPT ![p] = r]
  /\ pdata' = [pdata EXCEPT ![p] = 0]
  /\ cache' = [cache EXCEPT ![n] = 0]
  /\ Disconnect(F)
  /\ UNCHANGED crash

\* Mutant: sessions of the name that are still logging in are looked for.
SameNameWaiting(n) ==
  {c \in Conns : cstate[c] = "WAIT_AUTH" /\ cplayer[c] # NULL /\ pname[cplayer[c]] = n}

\* The connections that NWCAuth finds playing the same name.
SameName(n) ==
  {c \in Conns : cstate[c] = "PLAYER" /\ cplayer[c] # NULL /\ pname[cplayer[c]] = n}

\* NWCAuth with the right password.  The player is built from the cache (or
\* from its file); then every connection playing that name exits, saves and
\* loses its player; then the new one enters the initial room.  F are the
\* clients that a message fails for on the way.
NWCAuth(c, n, p, F) ==
  LET kicked == SameName(n)
      gone == {cplayer[o] : o \in kicked}
      D == F \cup kicked
      heard == (UNION {Audience(proom[q]) : q \in gone}) \cup Audience(InitialRoom) \cup {c}
      loaded == IF cache[n] # NULL THEN cache[n] ELSE 0
  IN
  /\ RecvCommand(c)
  /\ cstate[c] = "WAIT_AUTH"
  /\ AccountExists(n)
  /\ ~Live(p)
  /\ F \subseteq heard
  /\ cstate' = [Disconnected(D) EXCEPT ![c] = IF c \in F THEN "DISCONNECT" ELSE "PLAYER"]
  /\ socket' = SocketsWithout(D)
  /\ cplayer' = [o \in Conns |-> IF o = c THEN p ELSE IF o \in kicked THEN NULL ELSE cplayer[o]]
  /\ pname' = [q \in Players |-> IF q = p THEN n ELSE IF q \in gone THEN NULL ELSE pname[q]]
  /\ pconn' = [PlayersWithout(D) EXCEPT ![p] = IF c \in F THEN NULL ELSE c]
  /\ proom' = [q \in Players |-> IF q = p \/ q \in gone THEN InitialRoom ELSE proom[q]]
  /\ pdata' = [q \in Players |-> IF q = p THEN loaded ELSE IF q \in gone THEN 0 ELSE pdata[q]]
  /\ \E d \in IF gone = {} THEN {loaded} ELSE {pdata[q] : q \in gone} :
       cache' = [cache EXCEPT ![n] = d]
  /\ UNCHANGED crash

-----------------------------------------------------------------------------
(* Commands of the game *)

\* A handler of the game runs for the player p of connection c.
PlayerCommand(c, p) ==
  /\ RecvCommand(c)
  /\ cstate[c] = "PLAYER"
  /\ cplayer[c] = p
  /\ p # NULL

\* NWCSay: one message to every player object in the room, connected or not;
\* a muted player only gets an information message.
NWCSay(c, p, F) ==
  /\ PlayerCommand(c, p)
  /\ \/ /\ F \subseteq {c}
        /\ Disconnect(F)
        /\ UNCHANGED crash
     \/ /\ \A q \in PlayersInRoom(proom[p]) : pconn[q] # NULL
        /\ F \subseteq Audience(proom[p])
        /\ Disconnect(F)
        /\ UNCHANGED crash
     \/ /\ \E q \in PlayersInRoom(proom[p]) : pconn[q] = NULL
        /\ F = {}
        /\ crash' = "say"
        /\ UNCHANGED <<connVars, pconn>>
  /\ UNCHANGED <<pname, proom, pdata, cache>>

\* NWCWall: one message to every connection that has a player.
NWCWall(c, p, F) ==
  /\ PlayerCommand(c, p)
  /\ F \subseteq {o \in Conns : cstate[o] # "DISCONNECT" /\ cplayer[o] # NULL}
  /\ Disconnect(F)
  /\ UNCHANGED <<crash, pname, proom, pdata, cache>>

\* NWCLogout has no body and no return value: the command is ignored, or the
\* connection is dropped.
NWCLogout(c, p, F) ==
  /\ PlayerCommand(c, p)
  /\ F \subseteq {c}
  /\ Disconnect(F)
  /\ UNCHANGED <<crash, pname, proom, pdata, cache>>

\* NWCDirection and NWCPlayerFlee: the player pays CPU and changes rooms.
\* Nothing is saved.
NWCDirection(c, p, r, F) ==
  /\ PlayerCommand(c, p)
  /\ r # proom[p]
  /\ pdata[p] < MaxData
  /\ F \subseteq Audience(proom[p]) \cup Audience(r)
  /\ proom' = [proom EXCEPT ![p] = r]
  /\ pdata' = [pdata EXCEPT ![p] = @ + 1]
  /\ Disconnect(F)
  /\ UNCHANGED <<crash, pname, cache>>

\* Every other command of the game changes the player's data: the item
\* commands and a gained level save it, paying for a script does not.
GameCommand(c, p, saved, F) ==
  /\ PlayerCommand(c, p)
  /\ pdata[p] < MaxData
  /\ F \subseteq Audience(proom[p])
  /\ pdata' = [pdata EXCEPT ![p] = @ + 1]
  /\ cache' = IF saved THEN SaveFile(cache, p, pdata[p] + 1) ELSE cache
  /\ Disconnect(F)
  /\ UNCHANGED <<crash, pname, proom>>

\* CPlayer::Kill of p, who respawns in room r: the room is told, items drop,
\* p is told of its death and of its new room, and is saved; a killer k that
\* gains a level is saved after that (k = p: nobody does).  When the death
\* message arrives but the room message fails, the connection that the
\* arrival is announced through is gone.
KillEffects(p, k, r, F) ==
  /\ Live(p)
  /\ k = p \/ InWorld(k)
  /\ pdata[p] < MaxData /\ pdata[k] < MaxData
  /\ pdata' = [q \in Players |-> IF q \in {p, k} THEN pdata[q] + 1 ELSE pdata[q]]
  /\ proom' = [proom EXCEPT ![p] = r]
  /\ \/ /\ F \subseteq Audience(proom[p]) \cup Audience(r)
        /\ cache' = SaveFile(SaveFile(cache, p, pdata[p] + 1), k, pdata[k] + 1)
        /\ UNCHANGED crash
     \/ /\ pconn[p] # NULL
        /\ F = {pconn[p]}
        /\ crash' = "death"
        /\ UNCHANGED cache
  /\ Disconnect(F)
  /\ UNCHANGED pname

\* A script command of c kills the player p.
ScriptKill(c, p, k, r, F) ==
  /\ RecvCommand(c)
  /\ cstate[c] = "PLAYER"
  /\ k \in {p, cplayer[c]}
  /\ KillEffects(p, k, r, F)

\* The loop over the connections is done.
EndData ==
  /\ crash = "no"
  /\ phase = "data"
  /\ cursor = <<>>
  /\ phase' = "update"
  /\ UNCHANGED <<crash, list, cursor, inRead, reading, connVars, timer, playerVars>>

-----------------------------------------------------------------------------
(* UpdateEvent *)

\* Regeneration of, or damage to, a player is not saved; a level it gains by
\* killing a program is.
UpdatePlayer(p, saved, F) ==
  /\ crash = "no"
  /\ phase = "update"
  /\ Live(p)
  /\ saved => InWorld(p)
  /\ pdata[p] < MaxData
  /\ F \subseteq Audience(proom[p])
  /\ pdata' = [pdata EXCEPT ![p] = @ + 1]
  /\ Disconnect(F)
  /\ cache' = IF saved THEN SaveFile(cache, p, pdata[p] + 1) ELSE cache
  /\ UNCHANGED <<loopVars, timer, pname, proom>>

\* A round of combat kills the player p, a created but never logged in
\* character included.
UpdateKill(p, k, r, F) ==
  /\ crash = "no"
  /\ phase = "update"
  /\ KillEffects(p, k, r, F)
  /\ UNCHANGED <<phase, list, cursor, inRead, reading, timer>>

EndUpdate ==
  /\ crash = "no"
  /\ phase = "update"
  /\ phase' = "reap"
  /\ cursor' = list
  /\ UNCHANGED <<crash, list, inRead, reading, connVars, timer, playerVars>>

-----------------------------------------------------------------------------
(* HandleDisconnects *)

\* The next connection of the loop over the list.
Reaping(c) ==
  /\ crash = "no"
  /\ phase = "reap"
  /\ cursor # <<>>
  /\ c = Head(cursor)

\* Mutant: the timer is compared before it is incremented.
ExpiredLate(c) == cstate[c] = "DISCONNECT" \/ timer[c] > MaxTimer

\* This connection is to be deleted: it is disconnected, or was silent for
\* more than MaxTimer ticks.
Expired(c) == cstate[c] = "DISCONNECT" \/ timer[c] + 1 > MaxTimer

\* Mutant: only the clients that play are timed.
KeepUntimed(c) ==
  /\ Reaping(c)
  /\ ~Expired(c)
  /\ timer' = IF cstate[c] = "PLAYER" THEN [timer EXCEPT ![c] = @ + 1] ELSE timer
  /\ cursor' = Tail(cursor)
  /\ UNCHANGED <<phase, crash, list, inRead, reading, connVars, playerVars>>

\* The connection stays and its inactivity timer counts.
KeepConnection(c) ==
  /\ Reaping(c)
  /\ ~Expired(c)
  /\ timer' = [timer EXCEPT ![c] = @ + 1]
  /\ cursor' = Tail(cursor)
  /\ UNCHANGED <<phase, crash, list, inRead, reading, connVars, playerVars>>

\* The player leaves, drops its items and is saved; the connection and the
\* player are deleted.  F are the clients in the room that cannot be told.
ReapConnection(c, F) ==
  LET p == cplayer[c]
  IN
  /\ Reaping(c)
  /\ Expired(c)
  /\ F \subseteq IF p = NULL THEN {} ELSE Audience(proom[p]) \ {c}
  /\ cstate' = [Disconnected(F) EXCEPT ![c] = "none"]
  /\ socket' = SocketsWithout(F \cup {c})
  /\ cplayer' = [cplayer EXCEPT ![c] = NULL]
  /\ timer' = [timer EXCEPT ![c] = 0]
  /\ pconn' = PlayersWithout(F \cup {c})
  /\ pname' = [q \in Players |-> IF q = p THEN NULL ELSE pname[q]]
  /\ proom' = [q \in Players |-> IF q = p THEN InitialRoom ELSE proom[q]]
  /\ pdata' = [q \in Players |-> IF q = p THEN 0 ELSE pdata[q]]
  /\ cache' = IF p = NULL THEN cache ELSE SaveFile(cache, p, pdata[p])
  /\ \E i \in 1..Len(list) : list[i] = c /\ list' = Unlink(list, i)
  /\ cursor' = Tail(cursor)
  /\ UNCHANGED <<phase, crash, inRead, reading>>

EndReap ==
  /\ crash = "no"
  /\ phase = "reap"
  /\ cursor = <<>>
  /\ phase' = "accept"
  /\ UNCHANGED <<crash, list, cursor, inRead, reading, connVars, timer, playerVars>>

-----------------------------------------------------------------------------

Accept == \E c \in Conns, sent \in BOOLEAN : AcceptNewConnection(c, sent)

Read ==
  \E c \in Conns :
    \/ SkipConnection(c)
    \/ ReadFails(c)
    \/ \E k \in 0..MaxCmds : ReadStream(c, k)
    \/ EndRead(c)

Login ==
  \E c \in Conns :
    \/ BadCommand(c)
    \/ NWCProofData(c)
    \/ \E n \in Names, p \in Players, F \in SUBSET Conns :
         \/ NWCCreateExisting(c, n, F)
         \/ \E r \in StartRooms : NWCCreatePlayer(c, n, p, r, F)
         \/ NWCAuth(c, n, p, F)

Play ==
  \E c \in Conns, p \in Players, F \in SUBSET Conns :
    \/ NWCSay(c, p, F)
    \/ NWCWall(c, p, F)
    \/ NWCLogout(c, p, F)
    \/ \E saved \in BOOLEAN : GameCommand(c, p, saved, F)
    \/ \E r \in Rooms :
         \/ NWCDirection(c, p, r, F)
         \/ \E k \in Players : ScriptKill(c, p, k, r, F)

Update ==
  \E p \in Players, F \in SUBSET Conns :
    \/ \E saved \in BOOLEAN : UpdatePlayer(p, saved, F)
    \/ \E r \in Rooms, k \in Players : UpdateKill(p, k, r, F)

Reap == \E c \in Conns, F \in SUBSET Conns : KeepConnection(c) \/ ReapConnection(c, F)

Next ==
  \/ Accept
  \/ SelectClients
  \/ Read
  \/ Login
  \/ Play
  \/ EndData
  \/ Update
  \/ EndUpdate
  \/ Reap
  \/ EndReap

Spec == Init /\ [][Next]_vars

-----------------------------------------------------------------------------
(* Properties *)

\* The two pointers between a connection and its player agree, so no message
\* is sent through a connection that was deleted and no player is deleted
\* twice: Disconnect() and the reaper keep them in step although they run in
\* the middle of loops over players and over connections.
PointersAgree ==
  /\ \A p \in Players :
       pconn[p] # NULL => cplayer[pconn[p]] = p /\ cstate[pconn[p]] = "PLAYER"
  /\ \A c \in Conns :
       cplayer[c] # NULL => Live(cplayer[c])
  /\ \A c, d \in Conns :
       cplayer[c] # NULL /\ cplayer[c] = cplayer[d] => c = d

\* A name is played by at most one connection: NWCAuth disconnects the other
\* ones before it lets the new one in.
OneSessionPerName ==
  \A c, d \in Conns :
    cstate[c] = "PLAYER" /\ cstate[d] = "PLAYER" /\ pname[cplayer[c]] = pname[cplayer[d]]
      => c = d

\* What the login protocol keeps true between any two steps; PointersAgree and
\* OneSessionPerName are inductive together with it.  A connection has a
\* socket until it is disconnected, a player from its login on, and a player
\* that logged in has an entry in the cache.
LoginInv ==
  /\ \A c \in Conns : socket[c] <=> cstate[c] \in {"WAIT_PROOF", "WAIT_AUTH", "PLAYER"}
  /\ \A c \in Conns :
       cstate[c] = "PLAYER" => cplayer[c] # NULL /\ pconn[cplayer[c]] = c
  /\ \A c \in Conns :
       cstate[c] \in {"none", "WAIT_PROOF", "WAIT_AUTH"} => cplayer[c] = NULL
  /\ \A c \in Conns :
       cplayer[c] # NULL => cache[pname[cplayer[c]]] # NULL

\* The loops over oConnectionList never stand on, or are about to visit, a
\* connection that was deleted: only the connection being visited is.
LoopVisitsLive ==
  \A i \in DOMAIN cursor :
    \E j \in DOMAIN list : list[j] = cursor[i] /\ cstate[cursor[i]] # "none"

\* Both ways a session can end (reaped, or replaced by a new login) save what
\* the player had: no step deletes the player of a connection without leaving
\* its data in the login cache.
ExitSaves ==
  [][\A p \in Players :
       InWorld(p) /\ pname'[p] = NULL => cache'[pname[p]] = pdata[p]]_vars

\* What the comment "Ignore disconnected sockets" of the main loop intends:
\* the select set is never built from a connection that has no socket.
SelectIgnoresDisconnected == crash # "select"

\* What ENABLE_PLAYER_LOGIN_CACHE promises: "Player data will be saved across
\* logins".  A login that replaces a session continues from its data.
LoginKeepsData ==
  [][\A c, d \in Conns :
       cstate[c] = "PLAYER" /\ cstate[d] = "WAIT_AUTH" /\ cstate'[d] = "PLAYER"
         /\ pname'[cplayer'[d]] = pname[cplayer[c]]
       => pdata'[cplayer'[d]] = pdata[cplayer[c]]]_vars

=============================================================================
