---------------------------- MODULE SessionProofs ----------------------------
(***************************************************************************)
(* Proofs about Session, for any number of connections, players, names and *)
(* rooms and any bounds.                                                   *)
(***************************************************************************)
EXTENDS Session, SequenceTheorems, TLAPS

SessionInv == PointersAgree /\ OneSessionPerName /\ LoginInv

\* The variables that SessionInv depends on.
invVars == <<cstate, socket, cplayer, pname, pconn, cache>>

-----------------------------------------------------------------------------
(* Type correctness *)

\* The counters can start at 0.
LEMMA ZeroInRange == 0 \in 0..MaxTimer /\ 0 \in 0..MaxCmds /\ 0 \in 0..MaxData
BY SessionAssumption

\* Saving a version keeps the cache well typed.
LEMMA SaveFileType ==
  ASSUME NEW ca \in [Names -> (0..MaxData) \cup {NULL}], NEW p \in Players,
         NEW d \in 0..MaxData
  PROVE  SaveFile(ca, p, d) \in [Names -> (0..MaxData) \cup {NULL}]
BY DEF SaveFile

\* Unlinking a node leaves a list.
LEMMA UnlinkType ==
  ASSUME NEW S, NEW s \in Seq(S), NEW i \in 1..Len(s)
  PROVE  Unlink(s, i) \in Seq(S)
<1>1. SubSeq(s, 1, i - 1) \in Seq(S)
  BY ElementOfSeq, LenProperties, SubSeqProperties
<1>2. SubSeq(s, i + 1, Len(s)) \in Seq(S)
  BY ElementOfSeq, LenProperties, SubSeqProperties
<1>3. QED
  BY <1>1, <1>2, ConcatProperties DEF Unlink

\* Disconnecting a set of connections keeps the pointers well typed.
LEMMA DisconnectType ==
  ASSUME TypeOK, NEW D, Disconnect(D)
  PROVE  /\ cstate' \in [Conns -> CStates]
         /\ socket' \in [Conns -> BOOLEAN]
         /\ cplayer' \in [Conns -> Players \cup {NULL}]
         /\ pconn' \in [Players -> Conns \cup {NULL}]
BY DEF TypeOK, Disconnect, Disconnected, SocketsWithout, PlayersWithout, CStates

\* CPlayer::Kill keeps the variables it touches well typed.
LEMMA KillType ==
  ASSUME TypeOK, NEW p \in Players, NEW k \in Players, NEW r \in Rooms, NEW F,
         KillEffects(p, k, r, F)
  PROVE  /\ pname' = pname
         /\ proom' \in [Players -> Rooms]
         /\ pdata' \in [Players -> 0..MaxData]
         /\ cache' \in [Names -> (0..MaxData) \cup {NULL}]
         /\ crash' \in CrashSites
         /\ Disconnect(F)
<1>1. pdata[p] + 1 \in 0..MaxData /\ pdata[k] + 1 \in 0..MaxData
  BY SessionAssumption DEF KillEffects, TypeOK
<1>2. SaveFile(SaveFile(cache, p, pdata[p] + 1), k, pdata[k] + 1)
        \in [Names -> (0..MaxData) \cup {NULL}]
  BY <1>1, SaveFileType DEF TypeOK
<1>3. cache' \in [Names -> (0..MaxData) \cup {NULL}]
  BY <1>2 DEF KillEffects, TypeOK
<1>4. pdata' \in [Players -> 0..MaxData]
  BY <1>1 DEF KillEffects, TypeOK
<1>5. QED
  BY <1>3, <1>4 DEF KillEffects, TypeOK, CrashSites

\* Reading a command only moves the loop.
LEMMA RecvType ==
  ASSUME TypeOK, NEW c \in Conns, RecvCommand(c)
  PROVE  /\ phase' \in Phases
         /\ list' \in Seq(Conns)
         /\ cursor' \in Seq(Conns)
         /\ inRead' \in BOOLEAN
         /\ reading' \in 0..MaxCmds
         /\ timer' \in [Conns -> 0..MaxTimer]
BY SessionAssumption DEF TypeOK, RecvCommand

\* NWCAuth keeps every variable well typed.
LEMMA AuthType ==
  ASSUME TypeOK, NEW c \in Conns, NEW n \in Names, NEW p \in Players, NEW F,
         NWCAuth(c, n, p, F)
  PROVE  TypeOK'
<1> DEFINE kicked == SameName(n)
           gone == {cplayer[o] : o \in kicked}
           loaded == IF cache[n] # NULL THEN cache[n] ELSE 0
<1>1. loaded \in 0..MaxData
  BY SessionAssumption DEF TypeOK
<1>2. gone \subseteq Players
  BY DEF SameName, TypeOK
<1>3. \A d \in IF gone = {} THEN {loaded} ELSE {pdata[q] : q \in gone} : d \in 0..MaxData
  BY <1>1, <1>2 DEF TypeOK
<1>4. cache' \in [Names -> (0..MaxData) \cup {NULL}]
  <2>1. PICK d \in IF gone = {} THEN {loaded} ELSE {pdata[q] : q \in gone} :
          cache' = [cache EXCEPT ![n] = d]
    BY DEF NWCAuth
  <2>2. QED
    BY <1>3, <2>1 DEF TypeOK
<1>5. /\ cstate' \in [Conns -> CStates]
      /\ socket' \in [Conns -> BOOLEAN]
      /\ cplayer' \in [Conns -> Players \cup {NULL}]
  BY DEF NWCAuth, TypeOK, Disconnected, SocketsWithout, CStates
<1>6. /\ pname' \in [Players -> Names \cup {NULL}]
      /\ pconn' \in [Players -> Conns \cup {NULL}]
      /\ proom' \in [Players -> Rooms]
  BY SessionAssumption DEF NWCAuth, TypeOK, PlayersWithout
<1>7. pdata' \in [Players -> 0..MaxData]
  BY <1>1, SessionAssumption DEF NWCAuth, TypeOK
<1>8. crash' \in CrashSites /\ RecvCommand(c)
  BY DEF NWCAuth, TypeOK
<1>9. QED
  BY <1>4, <1>5, <1>6, <1>7, <1>8, RecvType DEF TypeOK

\* Deleting a connection keeps every variable well typed.
LEMMA ReapType ==
  ASSUME TypeOK, NEW c \in Conns, NEW F, ReapConnection(c, F)
  PROVE  TypeOK'
<1>1. list' \in Seq(Conns)
  BY UnlinkType DEF ReapConnection, TypeOK
<1>2. cursor' \in Seq(Conns)
  BY HeadTailProperties DEF ReapConnection, Reaping, TypeOK
<1>3. /\ cstate' \in [Conns -> CStates]
      /\ socket' \in [Conns -> BOOLEAN]
      /\ cplayer' \in [Conns -> Players \cup {NULL}]
      /\ timer' \in [Conns -> 0..MaxTimer]
  BY SessionAssumption DEF ReapConnection, TypeOK, Disconnected, SocketsWithout, CStates
<1>4. /\ pname' \in [Players -> Names \cup {NULL}]
      /\ pconn' \in [Players -> Conns \cup {NULL}]
      /\ proom' \in [Players -> Rooms]
      /\ pdata' \in [Players -> 0..MaxData]
  BY SessionAssumption DEF ReapConnection, TypeOK, PlayersWithout
<1>5. cache' \in [Names -> (0..MaxData) \cup {NULL}]
  <2>1. CASE cplayer[c] = NULL
    BY <2>1 DEF ReapConnection, TypeOK
  <2>2. CASE cplayer[c] # NULL
    <3>1. cplayer[c] \in Players /\ pdata[cplayer[c]] \in 0..MaxData
      BY <2>2 DEF TypeOK
    <3>2. QED
      BY <2>2, <3>1, SaveFileType DEF ReapConnection, TypeOK
  <2>3. QED
    BY <2>1, <2>2
<1>6. QED
  BY <1>1, <1>2, <1>3, <1>4, <1>5 DEF ReapConnection, TypeOK

\* Every variable keeps its type in every step of the server.
THEOREM SessionTypeCorrect == Spec => []TypeOK
<1>1. Init => TypeOK
  <2> SUFFICES ASSUME Init PROVE TypeOK
    OBVIOUS
  <2>1. /\ phase \in Phases /\ crash \in CrashSites /\ inRead \in BOOLEAN
        /\ list \in Seq(Conns) /\ cursor \in Seq(Conns) /\ reading \in 0..MaxCmds
    BY ZeroInRange, EmptySeq DEF Init, Phases, CrashSites
  <2>2. /\ cstate \in [Conns -> CStates]
        /\ socket \in [Conns -> BOOLEAN]
        /\ cplayer \in [Conns -> Players \cup {NULL}]
        /\ timer \in [Conns -> 0..MaxTimer]
    BY ZeroInRange DEF Init, CStates
  <2>3. /\ pname \in [Players -> Names \cup {NULL}]
        /\ pconn \in [Players -> Conns \cup {NULL}]
        /\ proom \in [Players -> Rooms]
        /\ pdata \in [Players -> 0..MaxData]
        /\ cache \in [Names -> (0..MaxData) \cup {NULL}]
    BY ZeroInRange, SessionAssumption DEF Init
  <2>4. QED
    BY <2>1, <2>2, <2>3 DEF TypeOK
<1>2. TypeOK /\ [Next]_vars => TypeOK'
  <2> SUFFICES ASSUME TypeOK, [Next]_vars PROVE TypeOK'
    OBVIOUS
  <2>1. CASE UNCHANGED vars
    BY <2>1 DEF TypeOK, vars, loopVars, connVars, playerVars
  <2>2. ASSUME NEW c \in Conns, NEW sent \in BOOLEAN, AcceptNewConnection(c, sent)
        PROVE  TypeOK'
    <3>1. <<c>> \o list \in Seq(Conns)
      BY ConcatProperties DEF TypeOK
    <3>2. QED
      BY <2>2, <3>1 DEF AcceptNewConnection, TypeOK, playerVars, CStates
  <2>3. CASE SelectClients
    BY <2>3 DEF SelectClients, TypeOK, connVars, playerVars, Phases, CrashSites
  <2>4. ASSUME NEW c \in Conns, SkipConnection(c)
        PROVE  TypeOK'
    BY <2>4, HeadTailProperties DEF SkipConnection, Serving, TypeOK, connVars, playerVars
  <2>5. ASSUME NEW c \in Conns, ReadFails(c)
        PROVE  TypeOK'
    BY <2>5, HeadTailProperties, DisconnectType DEF ReadFails, Serving, TypeOK
  <2>6. ASSUME NEW c \in Conns, NEW k \in 0..MaxCmds, ReadStream(c, k)
        PROVE  TypeOK'
    BY <2>6, SessionAssumption DEF ReadStream, TypeOK, connVars, playerVars
  <2>7. ASSUME NEW c \in Conns, EndRead(c)
        PROVE  TypeOK'
    BY <2>7, HeadTailProperties, ZeroInRange
       DEF EndRead, Serving, TypeOK, connVars, playerVars
  <2>8. ASSUME NEW c \in Conns, BadCommand(c)
        PROVE  TypeOK'
    BY <2>8, RecvType, DisconnectType DEF BadCommand, TypeOK
  <2>9. ASSUME NEW c \in Conns, NWCProofData(c)
        PROVE  TypeOK'
    BY <2>9, RecvType DEF NWCProofData, TypeOK, playerVars, CStates
  <2>10. ASSUME NEW c \in Conns, NEW n \in Names, NEW F, NWCCreateExisting(c, n, F)
         PROVE  TypeOK'
    BY <2>10, RecvType, DisconnectType DEF NWCCreateExisting, TypeOK
  <2>11. ASSUME NEW c \in Conns, NEW n \in Names, NEW p \in Players, NEW r \in StartRooms,
                NEW F, NWCCreatePlayer(c, n, p, r, F)
         PROVE  TypeOK'
    <3>1. r \in Rooms
      BY SessionAssumption
    <3>2. QED
      BY <2>11, <3>1, RecvType, DisconnectType, ZeroInRange DEF NWCCreatePlayer, TypeOK
  <2>12. ASSUME NEW c \in Conns, NEW n \in Names, NEW p \in Players, NEW F,
                NWCAuth(c, n, p, F)
         PROVE  TypeOK'
    BY <2>12, AuthType
  <2>13. ASSUME NEW c \in Conns, NEW p \in Players, NEW F, NWCSay(c, p, F)
         PROVE  TypeOK'
    <3>1. /\ RecvCommand(c)
          /\ crash' \in CrashSites
          /\ Disconnect(F) \/ UNCHANGED <<connVars, pconn>>
      BY <2>13 DEF NWCSay, PlayerCommand, CrashSites, TypeOK
    <3>2. UNCHANGED <<pname, proom, pdata, cache>>
      BY <2>13 DEF NWCSay
    <3>3. QED
      BY <3>1, <3>2, RecvType, DisconnectType DEF TypeOK, connVars
  <2>14. ASSUME NEW c \in Conns, NEW p \in Players, NEW F, NWCWall(c, p, F)
         PROVE  TypeOK'
    BY <2>14, RecvType, DisconnectType DEF NWCWall, PlayerCommand, TypeOK
  <2>15. ASSUME NEW c \in Conns, NEW p \in Players, NEW F, NWCLogout(c, p, F)
         PROVE  TypeOK'
    BY <2>15, RecvType, DisconnectType DEF NWCLogout, PlayerCommand, TypeOK
  <2>16. ASSUME NEW c \in Conns, NEW p \in Players, NEW r \in Rooms, NEW F,
                NWCDirection(c, p, r, F)
         PROVE  TypeOK'
    <3>1. pdata[p] + 1 \in 0..MaxData
      BY <2>16, SessionAssumption DEF NWCDirection, TypeOK
    <3>2. QED
      BY <2>16, <3>1, RecvType, DisconnectType DEF NWCDirection, PlayerCommand, TypeOK
  <2>17. ASSUME NEW c \in Conns, NEW p \in Players, NEW saved \in BOOLEAN, NEW F,
                GameCommand(c, p, saved, F)
         PROVE  TypeOK'
    <3>1. pdata[p] + 1 \in 0..MaxData
      BY <2>17, SessionAssumption DEF GameCommand, TypeOK
    <3>2. cache' \in [Names -> (0..MaxData) \cup {NULL}]
      BY <2>17, <3>1, SaveFileType DEF GameCommand, TypeOK
    <3>3. QED
      BY <2>17, <3>1, <3>2, RecvType, DisconnectType DEF GameCommand, PlayerCommand, TypeOK
  <2>18. ASSUME NEW c \in Conns, NEW p \in Players, NEW k \in Players, NEW r \in Rooms,
                NEW F, ScriptKill(c, p, k, r, F)
         PROVE  TypeOK'
    BY <2>18, RecvType, KillType, DisconnectType DEF ScriptKill, TypeOK
  <2>19. CASE EndData
    BY <2>19 DEF EndData, TypeOK, connVars, playerVars, Phases
  <2>20. ASSUME NEW p \in Players, NEW saved \in BOOLEAN, NEW F, UpdatePlayer(p, saved, F)
         PROVE  TypeOK'
    <3>1. pdata[p] + 1 \in 0..MaxData
      BY <2>20, SessionAssumption DEF UpdatePlayer, TypeOK
    <3>2. cache' \in [Names -> (0..MaxData) \cup {NULL}]
      BY <2>20, <3>1, SaveFileType DEF UpdatePlayer, TypeOK
    <3>3. QED
      BY <2>20, <3>1, <3>2, DisconnectType DEF UpdatePlayer, TypeOK, loopVars
  <2>21. ASSUME NEW p \in Players, NEW k \in Players, NEW r \in Rooms, NEW F,
                UpdateKill(p, k, r, F)
         PROVE  TypeOK'
    BY <2>21, KillType, DisconnectType DEF UpdateKill, TypeOK
  <2>22. CASE EndUpdate
    BY <2>22 DEF EndUpdate, TypeOK, connVars, playerVars, Phases
  <2>23. ASSUME NEW c \in Conns, KeepConnection(c)
         PROVE  TypeOK'
    BY <2>23, HeadTailProperties, SessionAssumption
       DEF KeepConnection, Expired, Reaping, TypeOK, connVars, playerVars
  <2>24. ASSUME NEW c \in Conns, NEW F, ReapConnection(c, F)
         PROVE  TypeOK'
    BY <2>24, ReapType
  <2>25. CASE EndReap
    BY <2>25 DEF EndReap, TypeOK, connVars, playerVars, Phases
  <2>26. QED
    BY <2>1, <2>2, <2>3, <2>4, <2>5, <2>6, <2>7, <2>8, <2>9, <2>10, <2>11, <2>12,
       <2>13, <2>14, <2>15, <2>16, <2>17, <2>18, <2>19, <2>20, <2>21, <2>22, <2>23,
       <2>24, <2>25
       DEF Next, Accept, Read, Login, Play, Update, Reap
<1>3. QED
  BY <1>1, <1>2, PTL DEF Spec

-----------------------------------------------------------------------------
(* Sessions *)

\* A step that disconnects some clients, keeps the names of the players that
\* exist and forgets no cached name keeps the session invariant: Disconnect()
\* may be called in the middle of any handler.
LEMMA DisconnectInv ==
  ASSUME TypeOK, TypeOK', SessionInv, NEW D \in SUBSET Conns, Disconnect(D),
         \A p \in Players : Live(p) => pname'[p] = pname[p],
         \A n \in Names : cache[n] # NULL => cache'[n] # NULL
  PROVE  SessionInv'
<1> USE DEF SessionInv, TypeOK, Disconnect, Disconnected, SocketsWithout, PlayersWithout
<1>1. \A c \in Conns : cstate'[c] = "PLAYER" => cstate[c] = "PLAYER" /\ c \notin D
  OBVIOUS
<1>2. \A p \in Players : pconn'[p] # NULL
        => pconn'[p] = pconn[p] /\ pconn[p] \in Conns /\ ~\E c \in D : cplayer[c] = p
  OBVIOUS
<1>3. \A c \in Conns : cplayer[c] # NULL
        => /\ cplayer[c] \in Players
           /\ Live(cplayer[c])
           /\ pname'[cplayer[c]] = pname[cplayer[c]]
           /\ pname[cplayer[c]] \in Names
  BY DEF PointersAgree, Live
<1>4. PointersAgree'
  <2>1. ASSUME NEW p \in Players, pconn'[p] # NULL
        PROVE  cplayer'[pconn'[p]] = p /\ cstate'[pconn'[p]] = "PLAYER"
    BY <1>2, <2>1 DEF PointersAgree
  <2>2. \A c \in Conns : cplayer'[c] # NULL => pname'[cplayer'[c]] # NULL
    BY <1>3, SessionAssumption
  <2>3. QED
    BY <2>1, <2>2 DEF PointersAgree, Live
<1>5. OneSessionPerName'
  <2>1. \A c \in Conns : cstate[c] = "PLAYER" => cplayer[c] # NULL
    BY DEF LoginInv
  <2>2. QED
    BY <1>1, <1>3, <2>1 DEF OneSessionPerName
<1>6. LoginInv'
  <2>1. \A c \in Conns : socket'[c] <=> cstate'[c] \in {"WAIT_PROOF", "WAIT_AUTH", "PLAYER"}
    BY DEF LoginInv
  <2>2. ASSUME NEW c \in Conns, cstate'[c] = "PLAYER"
        PROVE  cplayer'[c] # NULL /\ pconn'[cplayer'[c]] = c
    <3>1. cplayer[c] \in Players /\ pconn[cplayer[c]] = c /\ cplayer[c] # NULL /\ c \notin D
      BY <1>1, <1>3, <2>2 DEF LoginInv
    <3>2. ~\E d \in D : cplayer[d] = cplayer[c]
      BY <3>1 DEF PointersAgree
    <3>3. QED
      BY <3>1, <3>2
  <2>3. \A c \in Conns :
          cstate'[c] \in {"none", "WAIT_PROOF", "WAIT_AUTH"} => cplayer'[c] = NULL
    BY DEF LoginInv
  <2>4. \A c \in Conns : cplayer'[c] # NULL => cache'[pname'[cplayer'[c]]] # NULL
    BY <1>3 DEF LoginInv
  <2>5. QED
    BY <2>1, <2>2, <2>3, <2>4 DEF LoginInv
<1>7. QED
  BY <1>4, <1>5, <1>6

\* SaveFile forgets no name.
LEMMA SaveFileKeeps ==
  ASSUME NEW ca \in [Names -> (0..MaxData) \cup {NULL}], NEW p \in Players,
         NEW d \in 0..MaxData
  PROVE  \A n \in Names : ca[n] # NULL => SaveFile(ca, p, d)[n] # NULL
BY SessionAssumption DEF SaveFile

\* A login ends every session of its name and keeps the session invariant.
LEMMA AuthInv ==
  ASSUME TypeOK, TypeOK', SessionInv, NEW c \in Conns, NEW n \in Names,
         NEW p \in Players, NEW F \in SUBSET Conns, NWCAuth(c, n, p, F)
  PROVE  SessionInv'
<1> DEFINE kicked == SameName(n)
           gone == {cplayer[o] : o \in kicked}
           D == F \cup kicked
           loaded == IF cache[n] # NULL THEN cache[n] ELSE 0
           others == {o \in Conns : o # c /\ o \notin kicked}
<1>1. /\ cstate' = [Disconnected(D) EXCEPT ![c] = IF c \in F THEN "DISCONNECT" ELSE "PLAYER"]
      /\ socket' = SocketsWithout(D)
      /\ cplayer' = [o \in Conns |->
                      IF o = c THEN p ELSE IF o \in kicked THEN NULL ELSE cplayer[o]]
      /\ pname' = [q \in Players |->
                    IF q = p THEN n ELSE IF q \in gone THEN NULL ELSE pname[q]]
      /\ pconn' = [PlayersWithout(D) EXCEPT ![p] = IF c \in F THEN NULL ELSE c]
      /\ cstate[c] = "WAIT_AUTH"
      /\ pname[p] = NULL
  BY DEF NWCAuth, Live
<1>2. cplayer[c] = NULL /\ c \notin kicked /\ socket[c]
  BY <1>1 DEF SessionInv, LoginInv, SameName
<1>3. \A o \in Conns : cplayer[o] # NULL
        => cplayer[o] \in Players /\ pname[cplayer[o]] \in Names /\ cplayer[o] # p
  BY <1>1 DEF TypeOK, SessionInv, PointersAgree, Live
<1>4. \A o \in others : cplayer[o] # NULL => cplayer[o] \notin gone
  BY DEF SameName, SessionInv, PointersAgree
<1>5. \A o \in others : /\ cplayer'[o] = cplayer[o]
                        /\ cplayer[o] # NULL => pname'[cplayer[o]] = pname[cplayer[o]]
                        /\ cstate'[o] = IF o \in F THEN "DISCONNECT" ELSE cstate[o]
                        /\ socket'[o] <=> socket[o] /\ o \notin F
  BY <1>1, <1>3, <1>4 DEF TypeOK, Disconnected, SocketsWithout
<1>6. \A o \in kicked : o \in Conns /\ cplayer'[o] = NULL /\ cstate'[o] = "DISCONNECT" /\ ~socket'[o]
  BY <1>1, <1>2 DEF TypeOK, Disconnected, SocketsWithout, SameName
<1>7. /\ cplayer'[c] = p /\ pname'[p] = n /\ (socket'[c] <=> c \notin F)
      /\ cstate'[c] = IF c \in F THEN "DISCONNECT" ELSE "PLAYER"
      /\ pconn'[p] = IF c \in F THEN NULL ELSE c
  BY <1>1, <1>2 DEF TypeOK, Disconnected, SocketsWithout, PlayersWithout
<1>8. \A q \in Players : q # p /\ pconn'[q] # NULL
        => /\ pconn'[q] = pconn[q] /\ pconn[q] \in others /\ pconn[q] \notin F
           /\ cplayer[pconn[q]] = q /\ cstate[pconn[q]] = "PLAYER"
  <2> SUFFICES ASSUME NEW q \in Players, q # p, pconn'[q] # NULL
               PROVE  /\ pconn'[q] = pconn[q] /\ pconn[q] \in others /\ pconn[q] \notin F
                      /\ cplayer[pconn[q]] = q /\ cstate[pconn[q]] = "PLAYER"
    OBVIOUS
  <2>1. pconn'[q] = pconn[q] /\ ~\E o \in D : cplayer[o] = q
    BY <1>1 DEF TypeOK, PlayersWithout
  <2>2. cplayer[pconn[q]] = q /\ cstate[pconn[q]] = "PLAYER" /\ pconn[q] \in Conns
    BY <2>1 DEF TypeOK, SessionInv, PointersAgree
  <2>3. QED
    BY <1>1, <2>1, <2>2
<1>9. \A o \in Conns : o = c \/ o \in kicked \/ o \in others
  OBVIOUS
<1>10. \A o \in others : cstate[o] = "PLAYER"
         => cplayer[o] # NULL /\ pname[cplayer[o]] # n /\ pconn[cplayer[o]] = o
  BY DEF SessionInv, LoginInv, SameName
<1>11. cache'[n] # NULL /\ \A m \in Names : cache[m] # NULL => cache'[m] # NULL
  <2>1. PICK d \in IF gone = {} THEN {loaded} ELSE {pdata[q] : q \in gone} :
          cache' = [cache EXCEPT ![n] = d]
    BY DEF NWCAuth
  <2>2. gone \subseteq Players
    BY DEF SameName, TypeOK
  <2>3. d \in 0..MaxData
    <3>1. loaded \in 0..MaxData
      BY ZeroInRange DEF TypeOK
    <3>2. \A q \in gone : pdata[q] \in 0..MaxData
      BY <2>2 DEF TypeOK
    <3>3. QED
      BY <2>1, <3>1, <3>2
  <2>4. d # NULL
    BY <2>3, SessionAssumption
  <2>5. QED
    BY <2>1, <2>4 DEF TypeOK
<1> HIDE DEF kicked, gone, D, loaded, others
<1>12. PointersAgree'
  <2>1. \A q \in Players : pconn'[q] # NULL
          => cplayer'[pconn'[q]] = q /\ cstate'[pconn'[q]] = "PLAYER"
    BY <1>5, <1>7, <1>8
  <2>2. \A o \in Conns : cplayer'[o] # NULL => pname'[cplayer'[o]] # NULL
    BY <1>3, <1>5, <1>6, <1>7, <1>9, SessionAssumption
  <2>3. \A o, d \in Conns : cplayer'[o] # NULL /\ cplayer'[o] = cplayer'[d] => o = d
    BY <1>3, <1>5, <1>6, <1>7, <1>9 DEF SessionInv, PointersAgree
  <2>4. QED
    BY <2>1, <2>2, <2>3 DEF PointersAgree, Live
<1>13. OneSessionPerName'
  <2>1. \A o \in others : cstate'[o] = "PLAYER"
          => /\ cstate[o] = "PLAYER"
             /\ pname'[cplayer'[o]] = pname[cplayer[o]]
             /\ pname[cplayer[o]] # n
    BY <1>5, <1>10
  <2>2. \A o \in kicked : cstate'[o] # "PLAYER"
    BY <1>6
  <2>3. \A o, d \in others :
          cstate[o] = "PLAYER" /\ cstate[d] = "PLAYER"
            /\ pname[cplayer[o]] = pname[cplayer[d]] => o = d
    BY DEF SessionInv, OneSessionPerName, others
  <2>4. QED
    BY <1>7, <1>9, <2>1, <2>2, <2>3 DEF OneSessionPerName
<1>14. LoginInv'
  <2>1. \A o \in Conns : socket'[o] <=> cstate'[o] \in {"WAIT_PROOF", "WAIT_AUTH", "PLAYER"}
    BY <1>5, <1>6, <1>7, <1>9 DEF SessionInv, LoginInv, others
  <2>2. ASSUME NEW o \in Conns, cstate'[o] = "PLAYER"
        PROVE  cplayer'[o] # NULL /\ pconn'[cplayer'[o]] = o
    <3>1. CASE o = c
      BY <1>7, <2>2, <3>1, SessionAssumption
    <3>2. CASE o \in others
      <4>1. cstate[o] = "PLAYER" /\ o \notin F /\ cplayer'[o] = cplayer[o]
        BY <1>5, <2>2, <3>2
      <4>2. cplayer[o] # NULL /\ pconn[cplayer[o]] = o /\ cplayer[o] \in Players /\ cplayer[o] # p
        BY <1>3, <1>10, <3>2, <4>1 DEF others
      <4>3. ~\E d \in D : cplayer[d] = cplayer[o]
        BY <3>2, <4>1, <4>2 DEF D, kicked, others, SameName, SessionInv, PointersAgree
      <4>4. QED
        BY <1>1, <4>1, <4>2, <4>3 DEF TypeOK, PlayersWithout
    <3>3. QED
      BY <1>6, <1>9, <2>2, <3>1, <3>2
  <2>3. \A o \in Conns :
          cstate'[o] \in {"none", "WAIT_PROOF", "WAIT_AUTH"} => cplayer'[o] = NULL
    BY <1>5, <1>6, <1>7, <1>9 DEF SessionInv, LoginInv, others
  <2>4. \A o \in Conns : cplayer'[o] # NULL => cache'[pname'[cplayer'[o]]] # NULL
    BY <1>3, <1>5, <1>6, <1>7, <1>9, <1>11 DEF SessionInv, LoginInv, others
  <2>5. QED
    BY <2>1, <2>2, <2>3, <2>4 DEF LoginInv
<1>15. QED
  BY <1>12, <1>13, <1>14 DEF SessionInv

\* Deleting a connection, with the player it had, keeps the session invariant
\* of all the others.
LEMMA ReapInv ==
  ASSUME TypeOK, TypeOK', SessionInv, NEW c \in Conns, NEW F \in SUBSET Conns,
         ReapConnection(c, F)
  PROVE  SessionInv'
<1> DEFINE D == F \cup {c}
<1>1. /\ cstate' = [Disconnected(F) EXCEPT ![c] = "none"]
      /\ socket' = SocketsWithout(D)
      /\ cplayer' = [cplayer EXCEPT ![c] = NULL]
      /\ pconn' = PlayersWithout(D)
      /\ pname' = [q \in Players |-> IF q = cplayer[c] THEN NULL ELSE pname[q]]
      /\ cache' = IF cplayer[c] = NULL THEN cache ELSE SaveFile(cache, cplayer[c], pdata[cplayer[c]])
  BY DEF ReapConnection
<1>2. /\ cplayer'[c] = NULL /\ cstate'[c] = "none" /\ ~socket'[c]
      /\ \A o \in Conns : o # c
           => /\ cplayer'[o] = cplayer[o]
              /\ cstate'[o] = IF o \in F THEN "DISCONNECT" ELSE cstate[o]
              /\ socket'[o] <=> socket[o] /\ o \notin F
  BY <1>1 DEF TypeOK, Disconnected, SocketsWithout
<1>3. \A o \in Conns : o # c /\ cplayer[o] # NULL
        => /\ cplayer[o] \in Players
           /\ pname'[cplayer[o]] = pname[cplayer[o]]
           /\ pname[cplayer[o]] \in Names
  BY <1>1 DEF TypeOK, SessionInv, PointersAgree, Live
<1>4. \A q \in Players : pconn'[q] # NULL
        => pconn'[q] = pconn[q] /\ pconn[q] \in Conns /\ ~\E o \in D : cplayer[o] = q
  BY <1>1 DEF TypeOK, PlayersWithout
<1>5. \A m \in Names : cache[m] # NULL => cache'[m] # NULL
  <2>1. CASE cplayer[c] = NULL
    BY <1>1, <2>1
  <2>2. CASE cplayer[c] # NULL
    <3>1. cplayer[c] \in Players /\ pdata[cplayer[c]] \in 0..MaxData
      BY <2>2 DEF TypeOK
    <3>2. \A m \in Names :
            cache[m] # NULL => SaveFile(cache, cplayer[c], pdata[cplayer[c]])[m] # NULL
      BY <3>1, SaveFileKeeps DEF TypeOK
    <3>3. QED
      BY <1>1, <2>2, <3>2
  <2>3. QED
    BY <2>1, <2>2
<1>6. PointersAgree'
  <2>1. ASSUME NEW q \in Players, pconn'[q] # NULL
        PROVE  cplayer'[pconn'[q]] = q /\ cstate'[pconn'[q]] = "PLAYER"
    <3>1. cplayer[pconn[q]] = q /\ cstate[pconn[q]] = "PLAYER" /\ pconn[q] \in Conns
      BY <1>4, <2>1 DEF SessionInv, PointersAgree
    <3>2. pconn[q] # c /\ pconn[q] \notin F
      BY <1>4, <2>1, <3>1
    <3>3. QED
      BY <1>2, <1>4, <2>1, <3>1, <3>2
  <2>2. \A o \in Conns : cplayer'[o] # NULL => pname'[cplayer'[o]] # NULL
    BY <1>2, <1>3, SessionAssumption
  <2>3. \A o, d \in Conns : cplayer'[o] # NULL /\ cplayer'[o] = cplayer'[d] => o = d
    BY <1>2 DEF SessionInv, PointersAgree
  <2>4. QED
    BY <2>1, <2>2, <2>3 DEF PointersAgree, Live
<1>7. OneSessionPerName'
  <2>1. \A o \in Conns : cstate'[o] = "PLAYER"
          => cstate[o] = "PLAYER" /\ pname'[cplayer'[o]] = pname[cplayer[o]]
    BY <1>2, <1>3 DEF SessionInv, LoginInv
  <2>2. QED
    BY <2>1 DEF SessionInv, OneSessionPerName
<1>8. LoginInv'
  <2>1. \A o \in Conns : socket'[o] <=> cstate'[o] \in {"WAIT_PROOF", "WAIT_AUTH", "PLAYER"}
    BY <1>2 DEF SessionInv, LoginInv
  <2>2. ASSUME NEW o \in Conns, cstate'[o] = "PLAYER"
        PROVE  cplayer'[o] # NULL /\ pconn'[cplayer'[o]] = o
    <3>1. o \notin D /\ cstate[o] = "PLAYER" /\ cplayer'[o] = cplayer[o]
      BY <1>2, <2>2
    <3>2. cplayer[o] # NULL /\ pconn[cplayer[o]] = o /\ cplayer[o] \in Players
      BY <3>1 DEF TypeOK, SessionInv, LoginInv
    <3>3. ~\E d \in D : cplayer[d] = cplayer[o]
      BY <3>1, <3>2 DEF SessionInv, PointersAgree
    <3>4. QED
      BY <1>1, <3>1, <3>2, <3>3 DEF TypeOK, PlayersWithout
  <2>3. \A o \in Conns :
          cstate'[o] \in {"none", "WAIT_PROOF", "WAIT_AUTH"} => cplayer'[o] = NULL
    BY <1>2 DEF SessionInv, LoginInv
  <2>4. \A o \in Conns : cplayer'[o] # NULL => cache'[pname'[cplayer'[o]]] # NULL
    BY <1>2, <1>3, <1>5 DEF SessionInv, LoginInv
  <2>5. QED
    BY <2>1, <2>2, <2>3, <2>4 DEF LoginInv
<1>9. QED
  BY <1>6, <1>7, <1>8 DEF SessionInv

\* CPlayer::Kill forgets no cached name.
LEMMA KillKeeps ==
  ASSUME TypeOK, NEW p \in Players, NEW k \in Players, NEW r \in Rooms, NEW F,
         KillEffects(p, k, r, F)
  PROVE  \A n \in Names : cache[n] # NULL => cache'[n] # NULL
<1>1. pdata[p] + 1 \in 0..MaxData /\ pdata[k] + 1 \in 0..MaxData
  BY SessionAssumption DEF KillEffects, TypeOK
<1> DEFINE ca == SaveFile(cache, p, pdata[p] + 1)
<1>2. /\ ca \in [Names -> (0..MaxData) \cup {NULL}]
      /\ \A n \in Names : cache[n] # NULL => ca[n] # NULL
  BY <1>1, SaveFileType, SaveFileKeeps DEF TypeOK
<1>3. cache' = cache \/ cache' = SaveFile(ca, k, pdata[k] + 1)
  BY DEF KillEffects
<1> HIDE DEF ca
<1>4. \A n \in Names : ca[n] # NULL => SaveFile(ca, k, pdata[k] + 1)[n] # NULL
  BY <1>1, <1>2, SaveFileKeeps
<1>5. QED
  BY <1>2, <1>3, <1>4

\* A step that touches none of the variables of the invariant keeps it.
LEMMA UnchangedInv ==
  ASSUME SessionInv, UNCHANGED invVars
  PROVE  SessionInv'
BY DEF SessionInv, invVars, PointersAgree, OneSessionPerName, LoginInv, Live

\* The session invariant holds in every state of the server: the pointers
\* between connections and players agree, a name has one session, and every
\* connection that has a player is known to the login cache.
THEOREM SessionInvariant == Spec => [](PointersAgree /\ OneSessionPerName /\ LoginInv)
<1>1. Init => SessionInv
  BY DEF Init, SessionInv, PointersAgree, OneSessionPerName, LoginInv, Live
<1>2. TypeOK /\ TypeOK' /\ SessionInv /\ [Next]_vars => SessionInv'
  <2> SUFFICES ASSUME TypeOK, TypeOK', SessionInv, [Next]_vars PROVE SessionInv'
    OBVIOUS
  <2>1. CASE UNCHANGED vars
    BY <2>1, UnchangedInv DEF vars, connVars, playerVars, invVars
  <2>2. ASSUME NEW c \in Conns, NEW sent \in BOOLEAN, AcceptNewConnection(c, sent)
        PROVE  SessionInv'
    <3>1. /\ cstate[c] = "none" /\ UNCHANGED <<cplayer, pname, pconn, cache>>
          /\ cstate'[c] = IF sent THEN "WAIT_PROOF" ELSE "DISCONNECT"
          /\ socket'[c] = sent
          /\ \A o \in Conns : o # c => cstate'[o] = cstate[o] /\ socket'[o] = socket[o]
      BY <2>2 DEF AcceptNewConnection, TypeOK, playerVars
    <3>2. PointersAgree'
      BY <3>1 DEF SessionInv, PointersAgree, Live, TypeOK
    <3>3. OneSessionPerName'
      BY <3>1 DEF SessionInv, OneSessionPerName
    <3>4. LoginInv'
      BY <3>1 DEF SessionInv, LoginInv
    <3>5. QED
      BY <3>2, <3>3, <3>4 DEF SessionInv
  <2>3. CASE SelectClients
    BY <2>3, UnchangedInv DEF SelectClients, connVars, playerVars, invVars
  <2>4. ASSUME NEW c \in Conns, SkipConnection(c)
        PROVE  SessionInv'
    BY <2>4, UnchangedInv DEF SkipConnection, connVars, playerVars, invVars
  <2>5. ASSUME NEW c \in Conns, ReadFails(c)
        PROVE  SessionInv'
    BY <2>5, DisconnectInv DEF ReadFails
  <2>6. ASSUME NEW c \in Conns, NEW k \in 0..MaxCmds, ReadStream(c, k)
        PROVE  SessionInv'
    BY <2>6, UnchangedInv DEF ReadStream, connVars, playerVars, invVars
  <2>7. ASSUME NEW c \in Conns, EndRead(c)
        PROVE  SessionInv'
    BY <2>7, UnchangedInv DEF EndRead, connVars, playerVars, invVars
  <2>8. ASSUME NEW c \in Conns, BadCommand(c)
        PROVE  SessionInv'
    BY <2>8, DisconnectInv DEF BadCommand
  <2>9. ASSUME NEW c \in Conns, NWCProofData(c)
        PROVE  SessionInv'
    <3>1. /\ cstate[c] = "WAIT_PROOF" /\ cstate'[c] = "WAIT_AUTH"
          /\ UNCHANGED <<socket, cplayer, pname, pconn, cache>>
          /\ \A o \in Conns : o # c => cstate'[o] = cstate[o]
      BY <2>9 DEF NWCProofData, TypeOK, playerVars
    <3>2. PointersAgree'
      BY <3>1 DEF SessionInv, PointersAgree, Live, TypeOK
    <3>3. OneSessionPerName'
      BY <3>1 DEF SessionInv, OneSessionPerName
    <3>4. LoginInv'
      BY <3>1 DEF SessionInv, LoginInv
    <3>5. QED
      BY <3>2, <3>3, <3>4 DEF SessionInv
  <2>10. ASSUME NEW c \in Conns, NEW n \in Names, NEW F \in SUBSET Conns,
                NWCCreateExisting(c, n, F)
         PROVE  SessionInv'
    BY <2>10, DisconnectInv DEF NWCCreateExisting
  <2>11. ASSUME NEW c \in Conns, NEW n \in Names, NEW p \in Players, NEW r \in StartRooms,
                NEW F \in SUBSET Conns, NWCCreatePlayer(c, n, p, r, F)
         PROVE  SessionInv'
    <3>1. \A q \in Players : Live(q) => pname'[q] = pname[q]
      BY <2>11 DEF NWCCreatePlayer, TypeOK, Live
    <3>2. \A m \in Names : cache[m] # NULL => cache'[m] # NULL
      BY <2>11, SessionAssumption DEF NWCCreatePlayer, TypeOK
    <3>3. QED
      BY <2>11, <3>1, <3>2, DisconnectInv DEF NWCCreatePlayer
  <2>12. ASSUME NEW c \in Conns, NEW n \in Names, NEW p \in Players,
                NEW F \in SUBSET Conns, NWCAuth(c, n, p, F)
         PROVE  SessionInv'
    BY <2>12, AuthInv
  <2>13. ASSUME NEW c \in Conns, NEW p \in Players, NEW F \in SUBSET Conns, NWCSay(c, p, F)
         PROVE  SessionInv'
    <3>1. /\ Disconnect(F) \/ UNCHANGED <<connVars, pconn>>
          /\ UNCHANGED <<pname, cache>>
      BY <2>13 DEF NWCSay
    <3>2. QED
      BY <3>1, DisconnectInv, UnchangedInv DEF connVars, invVars
  <2>14. ASSUME NEW c \in Conns, NEW p \in Players, NEW F \in SUBSET Conns, NWCWall(c, p, F)
         PROVE  SessionInv'
    BY <2>14, DisconnectInv DEF NWCWall
  <2>15. ASSUME NEW c \in Conns, NEW p \in Players, NEW F \in SUBSET Conns, NWCLogout(c, p, F)
         PROVE  SessionInv'
    BY <2>15, DisconnectInv DEF NWCLogout
  <2>16. ASSUME NEW c \in Conns, NEW p \in Players, NEW r \in Rooms, NEW F \in SUBSET Conns,
                NWCDirection(c, p, r, F)
         PROVE  SessionInv'
    BY <2>16, DisconnectInv DEF NWCDirection
  <2>17. ASSUME NEW c \in Conns, NEW p \in Players, NEW saved \in BOOLEAN,
                NEW F \in SUBSET Conns, GameCommand(c, p, saved, F)
         PROVE  SessionInv'
    <3>1. pdata[p] + 1 \in 0..MaxData
      BY <2>17, SessionAssumption DEF GameCommand, TypeOK
    <3>2. \A m \in Names : cache[m] # NULL => SaveFile(cache, p, pdata[p] + 1)[m] # NULL
      BY <3>1, SaveFileKeeps DEF TypeOK
    <3>3. QED
      BY <2>17, <3>2, DisconnectInv DEF GameCommand
  <2>18. ASSUME NEW c \in Conns, NEW p \in Players, NEW k \in Players, NEW r \in Rooms,
                NEW F \in SUBSET Conns, ScriptKill(c, p, k, r, F)
         PROVE  SessionInv'
    BY <2>18, KillKeeps, KillType, DisconnectInv DEF ScriptKill
  <2>19. CASE EndData
    BY <2>19, UnchangedInv DEF EndData, connVars, playerVars, invVars
  <2>20. ASSUME NEW p \in Players, NEW saved \in BOOLEAN, NEW F \in SUBSET Conns,
                UpdatePlayer(p, saved, F)
         PROVE  SessionInv'
    <3>1. pdata[p] + 1 \in 0..MaxData
      BY <2>20, SessionAssumption DEF UpdatePlayer, TypeOK
    <3>2. \A m \in Names : cache[m] # NULL => SaveFile(cache, p, pdata[p] + 1)[m] # NULL
      BY <3>1, SaveFileKeeps DEF TypeOK
    <3>3. QED
      BY <2>20, <3>2, DisconnectInv DEF UpdatePlayer
  <2>21. ASSUME NEW p \in Players, NEW k \in Players, NEW r \in Rooms,
                NEW F \in SUBSET Conns, UpdateKill(p, k, r, F)
         PROVE  SessionInv'
    BY <2>21, KillKeeps, KillType, DisconnectInv DEF UpdateKill
  <2>22. CASE EndUpdate
    BY <2>22, UnchangedInv DEF EndUpdate, connVars, playerVars, invVars
  <2>23. ASSUME NEW c \in Conns, KeepConnection(c)
         PROVE  SessionInv'
    BY <2>23, UnchangedInv DEF KeepConnection, connVars, playerVars, invVars
  <2>24. ASSUME NEW c \in Conns, NEW F \in SUBSET Conns, ReapConnection(c, F)
         PROVE  SessionInv'
    BY <2>24, ReapInv
  <2>25. CASE EndReap
    BY <2>25, UnchangedInv DEF EndReap, connVars, playerVars, invVars
  <2>26. QED
    BY <2>1, <2>2, <2>3, <2>4, <2>5, <2>6, <2>7, <2>8, <2>9, <2>10, <2>11, <2>12,
       <2>13, <2>14, <2>15, <2>16, <2>17, <2>18, <2>19, <2>20, <2>21, <2>22, <2>23,
       <2>24, <2>25
       DEF Next, Accept, Read, Login, Play, Update, Reap
<1>3. QED
  BY <1>1, <1>2, SessionTypeCorrect, PTL DEF Spec, SessionInv

\* At no time do two connections play under one name: NWCAuth disconnects the
\* older session of the name it lets in, before the reaper has seen it.
THEOREM SessionOneName == Spec => []OneSessionPerName
BY SessionInvariant, PTL

\* A connection has its socket until it is disconnected and no player before its
\* login; while it plays its player points back at it, and the name of a
\* connection's player is in the cache from its login to its reaping.
THEOREM SessionLogin == Spec => []LoginInv
BY SessionInvariant, PTL

-----------------------------------------------------------------------------
(* The loops over the list *)

\* No element occurs twice.
Distinct(s) == \A i, j \in 1..Len(s) : s[i] = s[j] => i = j

\* The list holds exactly the connections that exist, each once; a loop still
\* has to visit some of them, each once, and no loop runs between the phases.
ListInv ==
  /\ Distinct(list)
  /\ Distinct(cursor)
  /\ \A c \in Conns : cstate[c] # "none" <=> \E i \in 1..Len(list) : list[i] = c
  /\ \A i \in 1..Len(cursor) : cstate[cursor[i]] # "none"
  /\ phase \in {"accept", "update"} => cursor = <<>>

\* The connections that a step neither makes nor deletes.
SameListed == \A c \in Conns : cstate'[c] = "none" <=> cstate[c] = "none"

\* The rest of a loop visits what the loop did, one connection less.
LEMMA TailElements ==
  ASSUME NEW S, NEW s \in Seq(S), s # <<>>, Distinct(s)
  PROVE  /\ Distinct(Tail(s))
         /\ \A i \in 1..Len(Tail(s)) : i + 1 \in 1..Len(s) /\ Tail(s)[i] = s[i + 1]
         /\ \A i \in 1..Len(Tail(s)) : Tail(s)[i] # Head(s)
<1>1. Len(s) \in Nat \ {0} /\ Len(Tail(s)) = Len(s) - 1
  BY EmptySeq, HeadTailProperties
<1>2. \A i \in 1..Len(Tail(s)) : i + 1 \in 1..Len(s) /\ Tail(s)[i] = s[i + 1]
  BY <1>1, HeadTailProperties
<1>3. Head(s) = s[1]
  BY <1>1
<1>4. Distinct(Tail(s))
  BY <1>1, <1>2 DEF Distinct
<1>5. \A i \in 1..Len(Tail(s)) : Tail(s)[i] # Head(s)
  BY <1>1, <1>2, <1>3 DEF Distinct
<1>6. QED
  BY <1>2, <1>4, <1>5

\* Unlinking takes out one element and keeps the others, in their order.
LEMMA UnlinkElements ==
  ASSUME NEW S, NEW s \in Seq(S), NEW i \in 1..Len(s), Distinct(s)
  PROVE  /\ Distinct(Unlink(s, i))
         /\ \A x : (\E j \in 1..Len(Unlink(s, i)) : Unlink(s, i)[j] = x)
                     <=> x # s[i] /\ \E j \in 1..Len(s) : s[j] = x
<1> DEFINE before == SubSeq(s, 1, i - 1)
           after == SubSeq(s, i + 1, Len(s))
           u == Unlink(s, i)
<1>1. Len(s) \in Nat
  BY LenProperties
<1>2. /\ before \in Seq(S) /\ Len(before) = i - 1
      /\ \A j \in 1..(i - 1) : before[j] = s[j]
  BY <1>1, ElementOfSeq, SubSeqProperties
<1>3. /\ after \in Seq(S) /\ Len(after) = Len(s) - i
      /\ \A j \in 1..(Len(s) - i) : after[j] = s[i + j]
  <2>1. \A j \in (i + 1)..Len(s) : s[j] \in S
    BY <1>1, ElementOfSeq
  <2>2. /\ after \in Seq(S)
        /\ Len(after) = IF i + 1 <= Len(s) THEN Len(s) - (i + 1) + 1 ELSE 0
        /\ \A j \in 1..(Len(s) - (i + 1) + 1) : after[j] = s[i + 1 + j - 1]
    BY <1>1, <2>1, SubSeqProperties
  <2>3. QED
    BY <1>1, <2>2
<1>4. u = before \o after
  BY DEF Unlink
<1> HIDE DEF before, after, u
<1>5. /\ Len(u) = Len(s) - 1
      /\ \A j \in 1..(Len(s) - 1) : u[j] = IF j < i THEN s[j] ELSE s[j + 1]
  <2>1. /\ Len(u) = Len(before) + Len(after)
        /\ \A j \in 1..(Len(before) + Len(after)) :
             u[j] = IF j <= Len(before) THEN before[j] ELSE after[j - Len(before)]
    BY <1>2, <1>3, <1>4, ConcatProperties
  <2>2. Len(u) = Len(s) - 1
    BY <1>1, <1>2, <1>3, <2>1
  <2>3. ASSUME NEW j \in 1..(Len(s) - 1)
        PROVE  u[j] = IF j < i THEN s[j] ELSE s[j + 1]
    <3>1. u[j] = IF j <= i - 1 THEN before[j] ELSE after[j - (i - 1)]
      BY <1>1, <1>2, <1>3, <2>1
    <3>2. CASE j < i
      BY <1>1, <1>2, <3>1, <3>2
    <3>3. CASE j >= i
      <4>1. j - (i - 1) \in 1..(Len(s) - i) /\ i + (j - (i - 1)) = j + 1
        BY <1>1, <3>3
      <4>2. QED
        BY <1>1, <1>3, <3>1, <3>3, <4>1
    <3>4. QED
      BY <1>1, <3>2, <3>3
  <2>4. QED
    BY <2>2, <2>3
<1>6. Distinct(u)
  BY <1>1, <1>5 DEF Distinct
<1>7. ASSUME NEW x
      PROVE  (\E j \in 1..Len(u) : u[j] = x) <=> x # s[i] /\ \E j \in 1..Len(s) : s[j] = x
  <2>1. ASSUME NEW j \in 1..Len(u), u[j] = x
        PROVE  x # s[i] /\ \E k \in 1..Len(s) : s[k] = x
    BY <1>1, <1>5, <2>1 DEF Distinct
  <2>2. ASSUME NEW j \in 1..Len(s), s[j] = x, x # s[i]
        PROVE  \E k \in 1..Len(u) : u[k] = x
    <3>1. CASE j < i
      BY <1>1, <1>5, <2>2, <3>1
    <3>2. CASE j > i
      <4>1. j - 1 \in 1..Len(u) /\ u[j - 1] = x
        BY <1>1, <1>5, <2>2, <3>2
      <4>2. QED
        BY <4>1
    <3>3. QED
      BY <1>1, <2>2, <3>1, <3>2
  <2>3. QED
    BY <2>1, <2>2
<1>8. QED
  BY <1>6, <1>7 DEF u

\* Whoever hears a message is in the game.
LEMMA AudiencePlays ==
  ASSUME TypeOK, SessionInv
  PROVE  \A r : \A c \in Audience(r) : c \in Conns /\ cstate[c] # "none"
BY DEF TypeOK, SessionInv, PointersAgree, Audience, PlayersInRoom

\* Disconnecting connections that exist neither makes nor deletes one.
LEMMA DisconnectListed ==
  ASSUME TypeOK, NEW D, Disconnect(D), \A d \in D : d \in Conns => cstate[d] # "none"
  PROVE  SameListed
BY DEF SameListed, Disconnect, Disconnected, TypeOK

\* A step that stays in its phase and in its place of the loop.
LEMMA StayListed ==
  ASSUME TypeOK, ListInv, SameListed, UNCHANGED <<list, cursor, phase>>
  PROVE  ListInv'
<1>1. \A i \in 1..Len(cursor) : cursor[i] \in Conns
  BY ElementOfSeq DEF TypeOK
<1>2. QED
  BY <1>1 DEF ListInv, SameListed, Distinct

\* A step that goes on to the next connection of the loop.
LEMMA NextListed ==
  ASSUME TypeOK, ListInv, SameListed, cursor # <<>>, cursor' = Tail(cursor),
         UNCHANGED <<list, phase>>
  PROVE  ListInv'
<1>1. \A i \in 1..Len(cursor) : cursor[i] \in Conns
  BY ElementOfSeq DEF TypeOK
<1>2. /\ Distinct(Tail(cursor))
      /\ \A i \in 1..Len(Tail(cursor)) : i + 1 \in 1..Len(cursor) /\ Tail(cursor)[i] = cursor[i + 1]
  BY TailElements DEF TypeOK, ListInv
<1>3. QED
  BY <1>1, <1>2 DEF ListInv, SameListed, Distinct

\* The reaper unlinks the connection it is at and goes on behind it.
LEMMA ReapListed ==
  ASSUME TypeOK, SessionInv, ListInv, NEW c \in Conns, NEW F \in SUBSET Conns,
         ReapConnection(c, F)
  PROVE  ListInv'
<1>1. /\ cursor # <<>> /\ c = Head(cursor) /\ phase = "reap" /\ phase' = phase
      /\ cursor' = Tail(cursor)
  BY DEF ReapConnection, Reaping
<1>2. /\ Distinct(Tail(cursor))
      /\ \A i \in 1..Len(Tail(cursor)) :
           i + 1 \in 1..Len(cursor) /\ Tail(cursor)[i] = cursor[i + 1]
      /\ \A i \in 1..Len(Tail(cursor)) : Tail(cursor)[i] # c
  BY <1>1, TailElements DEF TypeOK, ListInv
<1>3. PICK i \in 1..Len(list) : list[i] = c /\ list' = Unlink(list, i)
  BY DEF ReapConnection
<1>4. /\ Distinct(list')
      /\ \A x : (\E j \in 1..Len(list') : list'[j] = x)
                  <=> x # c /\ \E j \in 1..Len(list) : list[j] = x
  <2>1. list \in Seq(Conns) /\ Distinct(list)
    BY DEF TypeOK, ListInv
  <2>2. /\ Distinct(Unlink(list, i))
        /\ \A x : (\E j \in 1..Len(Unlink(list, i)) : Unlink(list, i)[j] = x)
                    <=> x # list[i] /\ \E j \in 1..Len(list) : list[j] = x
    BY <2>1, UnlinkElements
  <2>3. QED
    BY <1>3, <2>2
<1>5. \A d \in F : cstate[d] # "none"
  BY AudiencePlays DEF ReapConnection
<1>6. \A d \in Conns : cstate'[d] = "none" <=> d = c \/ cstate[d] = "none"
  BY <1>5 DEF ReapConnection, Disconnected, TypeOK
<1>7. \A j \in 1..Len(cursor) : cursor[j] \in Conns
  BY ElementOfSeq DEF TypeOK
<1>8. ASSUME NEW j \in 1..Len(Tail(cursor))
      PROVE  cstate'[Tail(cursor)[j]] # "none"
  <2>1. /\ Tail(cursor)[j] \in Conns /\ Tail(cursor)[j] # c
        /\ cstate[Tail(cursor)[j]] # "none"
    BY <1>2, <1>7 DEF ListInv
  <2>2. QED
    BY <1>6, <2>1
<1>9. \A d \in Conns : cstate'[d] # "none" <=> \E j \in 1..Len(list') : list'[j] = d
  BY <1>4, <1>6 DEF ListInv
<1>10. Distinct(list)' /\ Distinct(cursor)'
  BY <1>1, <1>2, <1>4 DEF Distinct
<1>11. (\A j \in 1..Len(cursor) : cstate[cursor[j]] # "none")'
  BY <1>1, <1>8
<1>12. phase' = "reap"
  BY <1>1
<1>13. QED
  BY <1>9, <1>10, <1>11, <1>12 DEF ListInv

\* A new connection is put in front of the list while no loop runs.
LEMMA AcceptListed ==
  ASSUME TypeOK, ListInv, NEW c \in Conns, NEW sent \in BOOLEAN,
         AcceptNewConnection(c, sent)
  PROVE  ListInv'
<1>1. /\ cursor = <<>> /\ cursor' = <<>> /\ cstate[c] = "none" /\ list' = <<c>> \o list
      /\ \A d \in Conns : cstate'[d] = "none" <=> d # c /\ cstate[d] = "none"
  BY DEF AcceptNewConnection, ListInv, TypeOK
<1>2. Len(list) \in Nat
  BY LenProperties DEF TypeOK
<1>3. /\ Len(list') = Len(list) + 1
      /\ \A i \in 1..(Len(list) + 1) : list'[i] = IF i = 1 THEN c ELSE list[i - 1]
  <2>1. /\ <<c>> \in Seq(Conns) /\ Len(<<c>>) = 1 /\ <<c>>[1] = c
    OBVIOUS
  <2>2. /\ Len(list') = 1 + Len(list)
        /\ \A i \in 1..(1 + Len(list)) :
             list'[i] = IF i <= 1 THEN <<c>>[i] ELSE list[i - 1]
    BY <1>1, <2>1, ConcatProperties DEF TypeOK
  <2>3. QED
    BY <1>2, <2>1, <2>2
<1>4. \A i \in 1..Len(list) : list[i] # c
  BY <1>1 DEF ListInv
<1>5. Distinct(list')
  BY <1>2, <1>3, <1>4 DEF ListInv, Distinct
<1>6. ASSUME NEW d \in Conns
      PROVE  cstate'[d] # "none" <=> \E i \in 1..Len(list') : list'[i] = d
  <2>1. ASSUME NEW i \in 1..Len(list'), list'[i] = d
        PROVE  d = c \/ \E j \in 1..Len(list) : list[j] = d
    BY <1>2, <1>3, <2>1
  <2>2. d = c => list'[1] = d /\ 1 \in 1..Len(list')
    BY <1>2, <1>3
  <2>3. ASSUME NEW j \in 1..Len(list), list[j] = d
        PROVE  j + 1 \in 1..Len(list') /\ list'[j + 1] = d
    BY <1>2, <1>3, <2>3
  <2>4. (\E i \in 1..Len(list') : list'[i] = d) <=> d = c \/ \E j \in 1..Len(list) : list[j] = d
    BY <2>1, <2>2, <2>3
  <2>5. QED
    BY <1>1, <2>4 DEF ListInv
<1>7. QED
  BY <1>1, <1>5, <1>6, EmptySeq DEF ListInv, Distinct

\* A command of a connection that has a socket comes from one that exists.
LEMMA CommandPlays ==
  ASSUME TypeOK, SessionInv, NEW c \in Conns, RecvCommand(c)
  PROVE  cstate[c] # "none" /\ UNCHANGED <<list, cursor, phase>>
BY DEF RecvCommand, SessionInv, LoginInv

\* A death only disconnects players in the two rooms that hear of it.
LEMMA KillListed ==
  ASSUME TypeOK, SessionInv, NEW p \in Players, NEW k \in Players, NEW r \in Rooms,
         NEW F \in SUBSET Conns, KillEffects(p, k, r, F)
  PROVE  SameListed
<1>1. Disconnect(F)
  BY DEF KillEffects
<1>2. pconn[p] # NULL => cstate[pconn[p]] # "none"
  BY DEF SessionInv, PointersAgree
<1>3. \A d \in F : cstate[d] # "none"
  BY <1>2, AudiencePlays DEF KillEffects
<1>4. QED
  BY <1>1, <1>3, DisconnectListed

\* No step on the way breaks the list.
LEMMA ListStep ==
  ASSUME TypeOK, SessionInv, ListInv, Next
  PROVE  ListInv'
<1>1. CASE Accept
  BY <1>1, AcceptListed DEF Accept
<1>2. CASE SelectClients \/ EndUpdate
  <2>1. UNCHANGED <<list, cstate>>
    BY <1>2 DEF SelectClients, EndUpdate, connVars
  <2>2. CASE cursor' = list /\ phase' \in {"data", "reap"}
    <3>1. \A i \in 1..Len(list) : list[i] \in Conns
      BY ElementOfSeq DEF TypeOK
    <3>2. \A i \in 1..Len(list) : cstate[list[i]] # "none"
      BY <3>1 DEF ListInv
    <3>3. QED
      BY <2>1, <2>2, <3>2 DEF ListInv, Distinct
  <2>3. CASE UNCHANGED <<cursor, phase>>
    BY <2>1, <2>3 DEF ListInv, Distinct
  <2>4. QED
    BY <1>2, <2>2, <2>3 DEF SelectClients, EndUpdate
<1>3. CASE EndData \/ EndReap
  BY <1>3 DEF EndData, EndReap, ListInv, connVars, Distinct
<1>4. ASSUME NEW c \in Conns, SkipConnection(c) \/ EndRead(c) \/ KeepConnection(c)
      PROVE  ListInv'
  BY <1>4, NextListed DEF SkipConnection, EndRead, KeepConnection, Serving, Reaping, connVars,
                          SameListed
<1>5. ASSUME NEW c \in Conns, ReadFails(c)
      PROVE  ListInv'
  <2>1. cursor # <<>> /\ c = cursor[1] /\ 1 \in 1..Len(cursor)
    BY <1>5, EmptySeq DEF ReadFails, Serving, TypeOK
  <2>2. cstate[c] # "none"
    BY <2>1 DEF ListInv
  <2>3. QED
    BY <1>5, <2>1, <2>2, DisconnectListed, NextListed DEF ReadFails
<1>6. ASSUME NEW c \in Conns, NEW k \in 0..MaxCmds, ReadStream(c, k)
      PROVE  ListInv'
  BY <1>6, StayListed DEF ReadStream, connVars, SameListed
<1>7. CASE Login
  <2>1. ASSUME NEW c \in Conns, BadCommand(c)
        PROVE  ListInv'
    BY <2>1, CommandPlays, DisconnectListed, StayListed DEF BadCommand
  <2>2. ASSUME NEW c \in Conns, NWCProofData(c)
        PROVE  ListInv'
    <3>1. SameListed
      BY <2>2 DEF NWCProofData, SameListed, TypeOK
    <3>2. QED
      BY <2>2, <3>1, CommandPlays, StayListed DEF NWCProofData
  <2>3. ASSUME NEW c \in Conns, NEW n \in Names, NEW F \in SUBSET Conns,
               NWCCreateExisting(c, n, F)
        PROVE  ListInv'
    BY <2>3, CommandPlays, DisconnectListed, StayListed DEF NWCCreateExisting
  <2>4. ASSUME NEW c \in Conns, NEW n \in Names, NEW p \in Players, NEW r \in StartRooms,
               NEW F \in SUBSET Conns, NWCCreatePlayer(c, n, p, r, F)
        PROVE  ListInv'
    BY <2>4, CommandPlays, DisconnectListed, StayListed DEF NWCCreatePlayer
  <2>5. ASSUME NEW c \in Conns, NEW n \in Names, NEW p \in Players, NEW F \in SUBSET Conns,
               NWCAuth(c, n, p, F)
        PROVE  ListInv'
    <3>1. cstate[c] # "none" /\ UNCHANGED <<list, cursor, phase>>
      BY <2>5, CommandPlays DEF NWCAuth
    <3>2. ASSUME NEW d \in F
          PROVE  d = c \/ cstate[d] # "none"
      <4>1. d = c \/ d \in Audience(InitialRoom)
              \/ d \in UNION {Audience(proom[q]) : q \in {cplayer[o] : o \in SameName(n)}}
        BY <2>5 DEF NWCAuth
      <4>2. d = c \/ \E r : d \in Audience(r)
        BY <4>1
      <4>3. QED
        BY <4>1, <4>2, AudiencePlays
    <3>3. \A d \in F \cup SameName(n) : cstate[d] # "none"
      BY <3>1, <3>2 DEF SameName
    <3>4. cstate' = [Disconnected(F \cup SameName(n))
                       EXCEPT ![c] = IF c \in F THEN "DISCONNECT" ELSE "PLAYER"]
      BY <2>5 DEF NWCAuth
    <3>5. SameListed
      BY <3>1, <3>3, <3>4 DEF SameListed, Disconnected, TypeOK
    <3>6. QED
      BY <3>1, <3>5, StayListed
  <2>6. QED
    BY <1>7, <2>1, <2>2, <2>3, <2>4, <2>5 DEF Login
<1>8. CASE Play
  <2>1. ASSUME NEW c \in Conns, NEW p \in Players, NEW F \in SUBSET Conns,
               NWCSay(c, p, F)
        PROVE  ListInv'
    <3>1. RecvCommand(c) /\ cstate[c] = "PLAYER"
      BY <2>1 DEF NWCSay, PlayerCommand
    <3>2. SameListed
      <4>1. CASE Disconnect(F)
        <5>1. \A d \in F : cstate[d] # "none"
          BY <2>1, <3>1, AudiencePlays DEF NWCSay
        <5>2. QED
          BY <4>1, <5>1, DisconnectListed
      <4>2. CASE UNCHANGED connVars
        BY <4>2 DEF connVars, SameListed
      <4>3. QED
        BY <2>1, <4>1, <4>2 DEF NWCSay
    <3>3. QED
      BY <3>1, <3>2, CommandPlays, StayListed
  <2>2. ASSUME NEW c \in Conns, NEW p \in Players, NEW F \in SUBSET Conns,
               NWCWall(c, p, F)
        PROVE  ListInv'
    <3>1. \A d \in F : cstate[d] # "none"
      BY <2>2 DEF NWCWall, SessionInv, LoginInv
    <3>2. QED
      BY <2>2, <3>1, CommandPlays, DisconnectListed, StayListed DEF NWCWall, PlayerCommand
  <2>3. ASSUME NEW c \in Conns, NEW p \in Players, NEW F \in SUBSET Conns,
               NWCLogout(c, p, F)
        PROVE  ListInv'
    BY <2>3, CommandPlays, DisconnectListed, StayListed DEF NWCLogout, PlayerCommand
  <2>4. ASSUME NEW c \in Conns, NEW p \in Players, NEW F \in SUBSET Conns,
               (\E saved \in BOOLEAN : GameCommand(c, p, saved, F))
                 \/ (\E r \in Rooms : NWCDirection(c, p, r, F))
        PROVE  ListInv'
    <3>1. RecvCommand(c) /\ Disconnect(F)
      BY <2>4 DEF GameCommand, NWCDirection, PlayerCommand
    <3>2. \A d \in F : cstate[d] # "none"
      BY <2>4, AudiencePlays DEF GameCommand, NWCDirection
    <3>3. QED
      BY <3>1, <3>2, CommandPlays, DisconnectListed, StayListed
  <2>5. ASSUME NEW c \in Conns, NEW p \in Players, NEW k \in Players, NEW r \in Rooms,
               NEW F \in SUBSET Conns, ScriptKill(c, p, k, r, F)
        PROVE  ListInv'
    <3>1. RecvCommand(c) /\ KillEffects(p, k, r, F)
      BY <2>5 DEF ScriptKill
    <3>2. SameListed
      BY <3>1, KillListed
    <3>3. QED
      BY <3>1, <3>2, CommandPlays, StayListed
  <2>6. QED
    BY <1>8, <2>1, <2>2, <2>3, <2>4, <2>5 DEF Play
<1>9. ASSUME NEW p \in Players, NEW F \in SUBSET Conns, NEW saved \in BOOLEAN,
             UpdatePlayer(p, saved, F)
      PROVE  ListInv'
  <2>1. \A d \in F : cstate[d] # "none"
    BY <1>9, AudiencePlays DEF UpdatePlayer
  <2>2. QED
    BY <1>9, <2>1, DisconnectListed, StayListed DEF UpdatePlayer, loopVars
<1>10. ASSUME NEW p \in Players, NEW k \in Players, NEW r \in Rooms, NEW F \in SUBSET Conns,
              UpdateKill(p, k, r, F)
       PROVE  ListInv'
  BY <1>10, KillListed, StayListed DEF UpdateKill
<1>11. ASSUME NEW c \in Conns, NEW F \in SUBSET Conns, ReapConnection(c, F)
       PROVE  ListInv'
  BY <1>11, ReapListed
<1>12. QED
  BY <1>1, <1>2, <1>3, <1>4, <1>5, <1>6, <1>7, <1>8, <1>9, <1>10, <1>11
     DEF Next, Read, Update, Reap

\* The two loops over oConnectionList visit only connections that exist and are
\* listed, although the reaper deletes connections while it walks the list and
\* the messages of either loop disconnect others that it has yet to visit.
THEOREM SessionLoops == Spec => []LoopVisitsLive
<1>1. Init => ListInv
  BY EmptySeq DEF Init, ListInv, Distinct
<1>2. TypeOK /\ SessionInv /\ ListInv /\ [Next]_vars => ListInv'
  <2>1. ASSUME TypeOK, ListInv, UNCHANGED vars
        PROVE  ListInv'
    BY <2>1 DEF vars, loopVars, connVars, ListInv, Distinct
  <2>2. QED
    BY <2>1, ListStep
<1>3. TypeOK /\ ListInv => LoopVisitsLive
  <2> SUFFICES ASSUME TypeOK, ListInv, NEW i \in DOMAIN cursor
               PROVE  \E j \in DOMAIN list : list[j] = cursor[i] /\ cstate[cursor[i]] # "none"
    BY DEF LoopVisitsLive
  <2>1. DOMAIN cursor = 1..Len(cursor) /\ DOMAIN list = 1..Len(list) /\ cursor[i] \in Conns
    BY LenProperties, ElementOfSeq DEF TypeOK
  <2>2. QED
    BY <2>1 DEF ListInv
<1>4. Spec => []ListInv
  BY <1>1, <1>2, SessionTypeCorrect, SessionInvariant, PTL DEF Spec, SessionInv
<1>5. QED
  BY <1>3, <1>4, SessionTypeCorrect, PTL

-----------------------------------------------------------------------------
(* Saving *)

\* Only a login that replaces a session and the reaper delete a player.
LEMMA OnlyExitsDelete ==
  ASSUME TypeOK, [Next]_vars,
         ~\E c \in Conns, n \in Names, p \in Players, F \in SUBSET Conns : NWCAuth(c, n, p, F),
         ~\E c \in Conns, F \in SUBSET Conns : ReapConnection(c, F)
  PROVE  \A p \in Players : Live(p) => pname'[p] = pname[p]
<1>1. CASE UNCHANGED vars
  BY <1>1 DEF vars, playerVars
<1>2. CASE Accept \/ SelectClients \/ Read \/ EndData \/ EndUpdate \/ EndReap
  BY <1>2 DEF Accept, AcceptNewConnection, SelectClients, Read, SkipConnection, ReadFails,
              ReadStream, EndRead, EndData, EndUpdate, EndReap, playerVars
<1>3. CASE Login
  <2>1. ASSUME NEW c \in Conns, NEW n \in Names, NEW p \in Players, NEW r \in StartRooms,
               NEW F \in SUBSET Conns, NWCCreatePlayer(c, n, p, r, F)
        PROVE  \A q \in Players : Live(q) => pname'[q] = pname[q]
    BY <2>1 DEF NWCCreatePlayer, TypeOK, Live
  <2>2. QED
    BY <1>3, <2>1 DEF Login, BadCommand, NWCProofData, NWCCreateExisting, playerVars
<1>4. CASE Play \/ Update
  BY <1>4 DEF Play, NWCSay, NWCWall, NWCLogout, NWCDirection, GameCommand, ScriptKill,
              Update, UpdatePlayer, UpdateKill, KillEffects
<1>5. CASE Reap
  BY <1>5 DEF Reap, KeepConnection, playerVars
<1>6. QED
  BY <1>1, <1>2, <1>3, <1>4, <1>5 DEF Next

\* No way out of the game loses a player's data: whenever the player of a
\* connection is deleted, by the reaper or by a login that replaces it, the
\* login cache holds the data it had.
THEOREM SessionExitSaves == Spec => ExitSaves
<1> DEFINE Saved == \A p \in Players :
                      InWorld(p) /\ pname'[p] = NULL => cache'[pname[p]] = pdata[p]
<1>1. TypeOK /\ PointersAgree /\ OneSessionPerName /\ LoginInv /\ [Next]_vars => Saved
  <2> SUFFICES ASSUME TypeOK, PointersAgree, OneSessionPerName, LoginInv, [Next]_vars,
                      NEW q \in Players, InWorld(q), pname'[q] = NULL
               PROVE  cache'[pname[q]] = pdata[q]
    OBVIOUS
  <2>1. PICK o \in Conns : cplayer[o] = q
    BY DEF InWorld
  <2>2. q # NULL /\ Live(q) /\ pname[q] \in Names /\ cache[pname[q]] # NULL
    BY <2>1, SessionAssumption DEF PointersAgree, LoginInv, Live, TypeOK
  <2>3. ASSUME NEW c \in Conns, NEW n \in Names, NEW p \in Players,
               NEW F \in SUBSET Conns, NWCAuth(c, n, p, F)
        PROVE  cache'[pname[q]] = pdata[q]
    <3> DEFINE kicked == SameName(n)
               gone == {cplayer[d] : d \in kicked}
               loaded == IF cache[n] # NULL THEN cache[n] ELSE 0
    <3>1. q \in gone
      <4>1. pname' = [x \in Players |->
                        IF x = p THEN n ELSE IF x \in gone THEN NULL ELSE pname[x]]
        BY <2>3 DEF NWCAuth
      <4>2. QED
        BY <2>2, <4>1, SessionAssumption DEF Live
    <3>2. pname[q] = n /\ \A d \in kicked : cplayer[d] = q
      BY <3>1 DEF SameName, OneSessionPerName
    <3>3. gone = {q}
      BY <3>1, <3>2
    <3>4. PICK d \in IF gone = {} THEN {loaded} ELSE {pdata[x] : x \in gone} :
            cache' = [cache EXCEPT ![n] = d]
      BY <2>3 DEF NWCAuth
    <3>5. d = pdata[q]
      BY <3>3, <3>4
    <3>6. QED
      BY <3>2, <3>4, <3>5 DEF TypeOK
  <2>4. ASSUME NEW c \in Conns, NEW F \in SUBSET Conns, ReapConnection(c, F)
        PROVE  cache'[pname[q]] = pdata[q]
    <3>1. cplayer[c] = q
      BY <2>2, <2>4 DEF ReapConnection, Live
    <3>2. cache' = SaveFile(cache, q, pdata[q])
      BY <2>2, <2>4, <3>1 DEF ReapConnection
    <3>3. QED
      BY <2>2, <3>2 DEF SaveFile, TypeOK
  <2>5. QED
    BY <2>2, <2>3, <2>4, OnlyExitsDelete DEF Live
<1>2. TypeOK /\ PointersAgree /\ OneSessionPerName /\ LoginInv /\ [Next]_vars => [Saved]_vars
  BY <1>1
<1>3. QED
  BY <1>2, SessionTypeCorrect, SessionInvariant, PTL DEF Spec, ExitSaves

=============================================================================
