------------------------------ MODULE CallStack ------------------------------
(* What the program counters of the MCS-4 of src/faggin/mcs4.c promise: a    *)
(* program counter, and the addresses the open subroutines return to.  A     *)
(* call that finds the stack full forgets all of them.  All of it may be     *)
(* lost, which is the last step.                                             *)
EXTENDS Naturals, Sequences

CONSTANT Levels       \* open calls that are remembered

VARIABLES pc, calls, lost
callVars == <<pc, calls, lost>>

Addresses == 0 .. 4095

\* The address of the next byte: the program counter never leaves its page.
After(x) == (x \div 256) * 256 + ((x + 1) % 256)

\* Everything that is neither a call nor a return.
Go == pc' \in Addresses /\ UNCHANGED calls

Call ==
  /\ pc' \in Addresses
  /\ calls' = IF Len(calls) = Levels THEN <<>> ELSE <<After(After(pc))>> \o calls

Return == calls # <<>> /\ pc' = Head(calls) /\ calls' = Tail(calls)

CallNext ==
  /\ ~ lost
  /\ lost' \/ Go \/ Call \/ Return

CallStackSpec == pc = 0 /\ calls = <<>> /\ ~ lost /\ [][CallNext]_callVars

=============================================================================
