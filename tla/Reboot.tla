------------------------------- MODULE Reboot -------------------------------
(***************************************************************************)
(* The scheduled reboot of the hackermud server (UpdateCheckReboot in      *)
(* src/hackermud/server/world.cpp, the command line in main.cpp).          *)
(*                                                                         *)
(* Time is counted in seconds up to the reboot.  A tick of the main loop   *)
(* calls UpdateCheckReboot every ninth time; how many seconds lie between  *)
(* two calls depends on the load, and is at most MaxGap here.              *)
(***************************************************************************)
EXTENDS Naturals, Sequences

CONSTANTS
  Delays,      \* rebootInSeconds, as given on the command line
  MinDelay,    \* the least delay main accepts
  Notice,      \* the seconds tested by the cases of g_updateRebootState
  MaxGap       \* most seconds between two calls of UpdateCheckReboot

Stages == Len(Notice)

ASSUME RebootAssumption ==
  /\ Delays \subseteq Nat
  /\ MinDelay \in Nat
  /\ MaxGap \in Nat \ {0}
  /\ Notice \in Seq(Nat)
  /\ \A i \in 1 .. Len(Notice) - 1 : Notice[i + 1] < Notice[i]

\* A tick is never so late that the calls left before the reboot are fewer than
\* the notices: in the code a call at least every ten seconds is enough.
ASSUME GapAssumption ==
  /\ MaxGap * Stages < MinDelay
  /\ \A i \in 1 .. Stages : MaxGap * (Stages - i + 1) <= Notice[i]

VARIABLES
  left,      \* g_serverRebootTimestamp - time(NULL), 0 once it has passed
  state,     \* g_updateRebootState
  running    \* exit(0) has not been called

rebootVars == <<left, state, running>>

RebootTypeOK ==
  /\ left \in Nat
  /\ state \in 0 .. Stages
  /\ running \in BOOLEAN

\* Mutant: any delay is taken as it is.
AcceptedAsGiven(seconds) == seconds

\* main raises a delay that is too short.
Accepted(seconds) == IF seconds < MinDelay THEN MinDelay ELSE seconds

RebootInit ==
  \E seconds \in Delays :
    /\ left = Accepted(seconds)
    /\ state = 0
    /\ running = TRUE

-----------------------------------------------------------------------------

\* At most one case per call; the default case does nothing.
Due(seconds) == state < Stages /\ seconds <= Notice[state + 1]

\* Time goes on for some seconds, then UpdateCheckReboot runs.
UpdateCheckReboot(gap) ==
  LET now == IF gap < left THEN left - gap ELSE 0 IN
  /\ running
  /\ left' = now
  /\ running' = (now > 0)
  /\ IF now > 0 /\ Due(now)
       THEN state' = state + 1     \* the notice of this case is sent
       ELSE UNCHANGED state

Down == ~ running /\ UNCHANGED rebootVars

RebootNext == (\E gap \in 0 .. MaxGap : UpdateCheckReboot(gap)) \/ Down

RebootSpec == RebootInit /\ [][RebootNext]_rebootVars

-----------------------------------------------------------------------------
(* Properties *)

\* Nobody is logged out by a reboot without every notice, the last one too,
\* although a call gives one notice at most and a late start or a slow tick
\* makes several of them due at once.
AllNoticesGiven == ~ running => state = Stages

=============================================================================
