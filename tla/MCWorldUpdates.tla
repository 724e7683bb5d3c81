--------------------------- MODULE MCWorldUpdates ---------------------------
(***************************************************************************)
(* The parts of UpdateEvent that share no state, checked side by side: a   *)
(* behaviour is one of SpamTracker, of Reboot or of NPCSpawn, chosen at    *)
(* the start.                                                              *)
(***************************************************************************)
EXTENDS SpamTracker, Reboot, NPCSpawn, TLC

CONSTANTS gate, yard, field, north, south, wisp, goon

\* Two zones with a border, one kind of program in both of them.
MCZone == gate :> north @@ yard :> north @@ field :> south

MCExits == {<<gate, yard>>, <<yard, gate>>, <<gate, field>>, <<field, gate>>}

MCTable ==
  {[zone |-> north, vnum |-> wisp, count |-> 2],
   [zone |-> north, vnum |-> goon, count |-> 1],
   [zone |-> south, vnum |-> wisp, count |-> 1]}

\* The notices of world.cpp, in units of five seconds.
MCNotice == <<60, 24, 12, 6, 2>>

VARIABLE part

Parts == {"spam", "reboot", "npcs"}

vars == <<part, spamVars, rebootVars, npcVars>>

RebootIdle == left = 0 /\ state = 0 /\ running = TRUE
NPCIdle == made = {} /\ kind = [n \in NPCs |-> wisp] /\ room = [n \in NPCs |-> NoRoom]

Init ==
  /\ part \in Parts
  /\ SpamInit
  /\ IF part = "reboot" THEN RebootInit ELSE RebootIdle
  /\ IF part = "npcs" THEN NPCInit ELSE NPCIdle

Next ==
  \/ part = "spam" /\ SpamNext /\ UNCHANGED <<part, rebootVars, npcVars>>
  \/ part = "reboot" /\ RebootNext /\ UNCHANGED <<part, spamVars, npcVars>>
  \/ part = "npcs" /\ NPCNext /\ UNCHANGED <<part, spamVars, rebootVars>>

Spec == Init /\ [][Next]_vars

\* The fairness of SpamFairSpec.
FairSpec == Spec /\ WF_vars(part = "spam" /\ UpdateEvent /\ UNCHANGED <<part, rebootVars, npcVars>>)

=============================================================================
