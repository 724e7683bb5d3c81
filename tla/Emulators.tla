------------------------------ MODULE Emulators ------------------------------
(***************************************************************************)
(* The two emulators together.  They share no state: each is a program of  *)
(* its own.                                                                *)
(***************************************************************************)
EXTENDS Mcs4, Reeses

\* Counters, registers, bytes and pages keep their types, whatever is emulated
\* (mcs4.c:182, cpu.cpp:92, mmu.cpp:118).
ProgramsTypeOK == Mcs4TypeOK /\ ReesesTypeOK

=============================================================================
