------------------------------ MODULE DelaySlots ------------------------------
(* What the MIPS processor of src/reeses_revenge promises about the order of   *)
(* execution: the instruction behind a jump or a taken branch, its delay slot, *)
(* is executed before the target.  A processor with two program counters has   *)
(* no states to remember for this.                                             *)
EXTENDS Naturals

CONSTANTS
  Top,        \* addresses are 0 .. Top - 1
  NoTarget

VARIABLES
  pc, npc,    \* the instruction, and the one after it
  request,    \* where the last instruction wanted to go, or NoTarget
  owner       \* the instruction an exception is charged to: a slot's is the jump

slotVars == <<pc, npc, request, owner>>

Behind(x) == (x + 4) % Top

SlotsInit == npc = Behind(pc) /\ request = NoTarget /\ owner = pc

\* Execution goes on where it was to go on.
Continue ==
  /\ request' = NoTarget
  /\ pc' = npc /\ npc' = Behind(npc) /\ owner' = pc'

\* A jump, also one in a slot, which loses the pending one: its own slot is next.
Jump ==
  /\ request' # NoTarget
  /\ pc' = Behind(pc) /\ npc' = request' /\ owner' = owner

SlotsSpec == SlotsInit /\ [][Continue \/ Jump]_slotVars

=============================================================================
