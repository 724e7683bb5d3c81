---------------------------- MODULE SpamTracker ----------------------------
(***************************************************************************)
(* The limit on what a player may say (src/hackermud/server/world.h,       *)
(* world.cpp and the say and wall handlers of networkcommands.cpp).        *)
(*                                                                         *)
(* A tracker is made by the first say or wall of a name and is never       *)
(* deleted.  Every SpamPeriod ticks UpdateSpamTracker lowers the counters, *)
(* but only those of names whose player is in g_worldPlayers at that tick. *)
(***************************************************************************)
EXTENDS Naturals

CONSTANTS
  Names,
  MAX_SAY_COUNTER, MAX_WALL_COUNTER,
  SayDrop, WallDrop,   \* what CSpamTracker::Tick takes off
  SpamPeriod,          \* ticks between two runs of UpdateSpamTracker
  SpamPhase,           \* UpdateEvent tests (tickCount + SpamPhase) % SpamPeriod
  MaxSpoken            \* bound: messages of a name in a behaviour

ASSUME SpamAssumption ==
  /\ MAX_SAY_COUNTER \in Nat \ {0}
  /\ MAX_WALL_COUNTER \in Nat \ {0}
  /\ SayDrop \in Nat \ {0}
  /\ WallDrop \in Nat \ {0}
  /\ SpamPeriod \in Nat \ {0}
  /\ SpamPhase \in Nat
  /\ MaxSpoken \in Nat

VARIABLES
  online,   \* names with a player in g_worldPlayers
  tracked,  \* names with a tracker in g_oSpamTracker
  say,      \* m_sayCounter
  wall,     \* m_wallCounter
  tick,     \* tickCount, modulo SpamPeriod
  \* what the properties are about, no part of the program:
  said, walled,        \* messages the server has passed on
  sayDue, wallDue      \* what the ticks would have taken off the counters of
                       \* a name if these could be negative, up to MaxSpoken

spamVars == <<online, tracked, say, wall, tick, said, walled, sayDue, wallDue>>
heard == <<said, walled, sayDue, wallDue>>

SpamTypeOK ==
  /\ online \subseteq Names
  /\ tracked \subseteq Names
  /\ say \in [Names -> 0 .. MAX_SAY_COUNTER]
  /\ wall \in [Names -> 0 .. MAX_WALL_COUNTER]
  /\ tick \in 0 .. SpamPeriod - 1
  /\ said \in [Names -> 0 .. MaxSpoken]
  /\ walled \in [Names -> 0 .. MaxSpoken]
  /\ sayDue \in [Names -> 0 .. MaxSpoken]
  /\ wallDue \in [Names -> 0 .. MaxSpoken]

SpamInit ==
  /\ online = {}
  /\ tracked = {}
  /\ say = [n \in Names |-> 0]
  /\ wall = [n \in Names |-> 0]
  /\ tick = 0
  /\ said = [n \in Names |-> 0]
  /\ walled = [n \in Names |-> 0]
  /\ sayDue = [n \in Names |-> 0]
  /\ wallDue = [n \in Names |-> 0]

-----------------------------------------------------------------------------

\* NWCAuth puts the player in g_worldPlayers; a new session of the name finds
\* the tracker of the sessions before it.
NWCAuth(n) ==
  /\ n \notin online
  /\ online' = online \cup {n}
  /\ UNCHANGED <<tracked, say, wall, tick, heard>>

\* The player object is deleted and leaves g_worldPlayers; its tracker stays.
Leave(n) ==
  /\ n \in online
  /\ online' = online \ {n}
  /\ UNCHANGED <<tracked, say, wall, tick, heard>>

CanSay(n) == say[n] < MAX_SAY_COUNTER

CanWall(n) == wall[n] < MAX_WALL_COUNTER

\* Only a tracked name can be muted: a fresh tracker counts from 0.
MaySay(n) == n \in tracked => CanSay(n)

MayWall(n) == n \in tracked => CanWall(n)

\* A muted player gets a message and nothing else happens.
NWCSay(n) ==
  /\ n \in online
  /\ MaySay(n)
  /\ said[n] < MaxSpoken
  /\ tracked' = tracked \cup {n}
  /\ say' = [say EXCEPT ![n] = @ + 1]
  /\ said' = [said EXCEPT ![n] = @ + 1]
  /\ UNCHANGED <<online, wall, tick, walled, sayDue, wallDue>>

NWCWall(n) ==
  /\ n \in online
  /\ MayWall(n)
  /\ walled[n] < MaxSpoken
  /\ tracked' = tracked \cup {n}
  /\ wall' = [wall EXCEPT ![n] = @ + 1]
  /\ walled' = [walled EXCEPT ![n] = @ + 1]
  /\ UNCHANGED <<online, say, tick, said, sayDue, wallDue>>

\* Mutant: the counter is forgotten instead of lowered.
Forgotten(counter, drop) == 0

\* CSpamTracker::Tick on one counter.
Lowered(counter, drop) == IF counter > drop THEN counter - drop ELSE 0

\* The names UpdateSpamTracker reaches: a player in the list, with a tracker.
Reached == online \cap tracked

\* Mutant: only the say counter is lowered.
TickSayOnly ==
  /\ say' = [n \in Names |-> IF n \in Reached THEN Lowered(say[n], SayDrop) ELSE say[n]]
  /\ UNCHANGED <<wall, sayDue, wallDue>>

\* Enough to cover every message a behaviour may have.
Capped(due) == IF due > MaxSpoken THEN MaxSpoken ELSE due

UpdateSpamTracker ==
  /\ say' = [n \in Names |-> IF n \in Reached THEN Lowered(say[n], SayDrop) ELSE say[n]]
  /\ wall' = [n \in Names |-> IF n \in Reached THEN Lowered(wall[n], WallDrop) ELSE wall[n]]
  /\ sayDue' = [n \in Names |-> IF n \in Reached THEN Capped(sayDue[n] + SayDrop) ELSE sayDue[n]]
  /\ wallDue' = [n \in Names |-> IF n \in Reached THEN Capped(wallDue[n] + WallDrop) ELSE wallDue[n]]

SpamTick == (tick + SpamPhase) % SpamPeriod = 0

\* UpdateEvent, as far as the trackers are concerned.
UpdateEvent ==
  /\ tick' = (tick + 1) % SpamPeriod
  /\ IF SpamTick
       THEN UpdateSpamTracker
       ELSE UNCHANGED <<say, wall, sayDue, wallDue>>
  /\ UNCHANGED <<online, tracked, said, walled>>

SpamNext ==
  \/ \E n \in Names : NWCAuth(n) \/ Leave(n) \/ NWCSay(n) \/ NWCWall(n)
  \/ UpdateEvent

SpamSpec == SpamInit /\ [][SpamNext]_spamVars

\* The main loop of the server runs a tick again and again.
SpamFairSpec == SpamSpec /\ WF_spamVars(UpdateEvent)

-----------------------------------------------------------------------------
(* Properties *)

\* Over any time, a name is heard at most MAX times plus what the ticks it
\* was in the world for have given back: logging out and in again, or being
\* quiet while logged out, buys nothing.
RateLimited ==
  \A n \in Names :
    /\ said[n] <= MAX_SAY_COUNTER + sayDue[n]
    /\ walled[n] <= MAX_WALL_COUNTER + wallDue[n]

\* What makes RateLimited inductive: a counter is at least what was said
\* beyond what the ticks took off.
CountersCover ==
  \A n \in Names :
    /\ said[n] <= say[n] + sayDue[n]
    /\ walled[n] <= wall[n] + wallDue[n]

\* A muted player who stays in the world is heard again.
MuteEnds ==
  \A n \in Names :
    /\ ~ MaySay(n) ~> (MaySay(n) \/ n \notin online)
    /\ ~ MayWall(n) ~> (MayWall(n) \/ n \notin online)

=============================================================================
