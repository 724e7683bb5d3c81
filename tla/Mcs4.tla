-------------------------------- MODULE Mcs4 --------------------------------
(***************************************************************************)
(* The MCS-4 emulator (src/faggin/mcs4.c) and the loop that runs it        *)
(* (src/faggin/faggin.c).                                                  *)
(*                                                                         *)
(* A program of 2048 bytes is read, and instructions are executed until    *)
(* the count of cycles reaches a limit.  The four program counters of 12   *)
(* bits, the running one and three return addresses, are packed into six   *)
(* bytes.  Registers, accumulator and carry are modelled as they are       *)
(* computed; the contents of RAM and ports are not: reading them gives one *)
(* of RamValues.  Writing them is modelled where it leaves them: ram has   *)
(* eight chips, but the third and fourth command lines select chips 8 to   *)
(* 15, which are the rest of the packed structure (mcs4.h:31).             *)
(***************************************************************************)
EXTENDS Naturals, Sequences

CONSTANTS
  Programs,      \* each a function on the first addresses; the rest is 0
  RamValues,     \* what RAM and ROM ports may hold
  MaxCycles      \* MAXCYCLES

ASSUME Mcs4Assumption ==
  /\ \A p \in Programs : \A x \in DOMAIN p : p[x] \in 0 .. 255
  /\ RamValues \subseteq 0 .. 15 /\ MaxCycles \in Nat

VARIABLES
  prom, pcs,     \* the program; the bytes of the four program counters
  sp, a, c, r,   \* open calls, accumulator, carry, index registers
  cycles,
  ms, cmram,     \* what selects RAM: its address and its command lines
  overwritten    \* a write to RAM has changed what controls the emulator

selection == <<ms, cmram, overwritten>>
mcs4Vars == <<prom, pcs, sp, a, c, r, cycles, selection>>

Low(byte) == byte % 16
High(byte) == byte \div 16

\* _mcs4_get_pc: two counters share three bytes.
PcOf(bytes, i) ==
  LET loc == (i \div 2) * 3 IN
  IF i % 2 = 1
    THEN Low(bytes[loc + 1]) * 256 + bytes[loc + 2]
    ELSE bytes[loc] * 16 + High(bytes[loc + 1])

\* Mutant: the neighbour's nibble is lost.
SetPcAlone(bytes, i, val) ==
  LET loc == (i \div 2) * 3 IN
  IF i % 2 = 1
    THEN [bytes EXCEPT ![loc + 1] = Low(val \div 256), ![loc + 2] = val % 256]
    ELSE [bytes EXCEPT ![loc] = (val \div 16) % 256, ![loc + 1] = Low(val) * 16]

\* _mcs4_set_pc
SetPc(bytes, i, val) ==
  LET loc == (i \div 2) * 3 IN
  IF i % 2 = 1
    THEN [bytes EXCEPT ![loc + 1] = High(@) * 16 + Low(val \div 256), ![loc + 2] = val % 256]
    ELSE [bytes EXCEPT ![loc] = (val \div 16) % 256, ![loc + 1] = Low(val) * 16 + Low(@)]

\* _mcs4_fetch
ByteAt(x) == LET i == x % 2048 IN IF i \in DOMAIN prom THEN prom[i] ELSE 0

\* _mcs4_inc_pc keeps the page; Here is the instruction, Operand what follows.
Next1(x) == (x \div 256) * 256 + ((x + 1) % 256)
Here == PcOf(pcs, 0)
Op == ByteAt(Here)
Operand == ByteAt(Next1(Here))
Advanced == SetPc(pcs, 0, Next1(Here))
Passed == SetPc(pcs, 0, Next1(Next1(Here)))

\* The 16 registers by number, and the eight pairs.
Pair(p) == r[2 * p] * 16 + r[2 * p + 1]
SetPair(p, byte) == [r EXCEPT ![2 * p] = High(byte), ![2 * p + 1] = Low(byte)]

Flag(holds) == IF holds THEN 1 ELSE 0

\* A step of one byte that leaves calls and registers alone.
Simple(newA, newC) ==
  /\ pcs' = Advanced /\ cycles' = cycles + 1
  /\ a' = newA /\ c' = newC
  /\ UNCHANGED <<prom, sp, r>>

\* NOP, undefined opcodes, and WRR: four of the eight ROM ports it writes are in RAM.
Nop ==
  /\ High(Op) = 0 \/ Op \in {226, 227, 254, 255}
  /\ Simple(a, c)

SRC ==
  /\ High(Op) = 2 /\ Op % 2 = 1
  /\ ms' = Pair(Low(Op) \div 2)
  /\ Simple(a, c) /\ UNCHANGED <<cmram, overwritten>>

\* The command lines of each bank, as bits.
Banks == [n \in 0 .. 7 |-> CASE n = 3 -> 3 [] n = 2 -> 4 [] n < 2 -> n + 1 [] OTHER -> 2 * n]

DCL ==
  /\ Op = 253
  /\ cmram' = Banks[a % 8]
  /\ Simple(a, c) /\ UNCHANGED <<ms, overwritten>>

\* The ports of the third and fourth lines are the bytes of the first registers:
\* register 2 * k is the low nibble of byte k.
WMP ==
  LET k == (ms \div 128) + (IF cmram = 4 THEN 0 ELSE 2)
      low == (ms \div 64) % 2 = 1 IN
  /\ Op = 225
  /\ r' = IF cmram \in {3, 4}
             THEN [r EXCEPT ![2 * k] = IF low THEN a ELSE 0, ![2 * k + 1] = IF low THEN 0 ELSE a]
             ELSE r
  /\ pcs' = Advanced /\ cycles' = cycles + 1
  /\ UNCHANGED <<prom, sp, a, c, selection>>

\* The nibble behind RAM that the character i is; the first eight are the RAM ports.
Behind(i) ==
  LET selected == (ms \div 64) * 80 + ((ms \div 16) % 4) * 20 + i IN
  CASE cmram = 4 -> selected
    [] cmram = 3 -> 320 + selected
    [] OTHER -> 0

\* WRM and WR0 to WR3 (_mcs4_set_ram).  Behind the registers are ms (24 to 27), cmram,
\* sp, tmp, a, the flags, a nibble of padding, pc (34 to 45), cycles and the handlers.
\* A write to what is neither a register, nor harmless, nor ms and cmram while they
\* still select is the last step modelled: what follows is not an MCS-4.
WriteRam ==
  LET n == Behind(IF Op = 224 THEN ms % 16 ELSE 15 + (Op % 4)) IN
  /\ Op \in {224} \cup 228 .. 231
  /\ r' = IF n \in 8 .. 23 THEN [r EXCEPT ![n - 8] = a] ELSE r
  /\ ms' = CASE n = 24 -> High(ms) * 16 + a [] n = 25 -> a * 16 + Low(ms) [] OTHER -> ms
  /\ cmram' = IF n = 28 THEN a ELSE cmram
  /\ overwritten' = (n > 25 /\ n \notin {28, 30, 31, 33})
  /\ pcs' = Advanced /\ cycles' = cycles + 1
  /\ UNCHANGED <<prom, sp, a, c>>

\* The test flag is never set, and an inverted condition always holds.
Condition ==
  LET bits == Low(Op)
      inverted == bits >= 8 IN
  \/ (bits \div 4) % 2 = 1 /\ (a = 0 \/ inverted)
  \/ (bits \div 2) % 2 = 1 /\ (c = 1 \/ inverted)
  \/ bits % 2 = 1

\* The page does not fit the byte it is kept in: a taken jump goes to page 0.
JCN ==
  /\ High(Op) = 1
  /\ IF Condition
       THEN pcs' = SetPc(pcs, 0, Operand) /\ cycles' = cycles + 1
       ELSE pcs' = Passed /\ cycles' = cycles + 2
  /\ UNCHANGED <<prom, sp, a, c, r>>

FIM ==
  /\ High(Op) = 2 /\ Op % 2 = 0
  /\ r' = SetPair(Low(Op) \div 2, Operand)
  /\ pcs' = Passed /\ cycles' = cycles + 2
  /\ UNCHANGED <<prom, sp, a, c>>

\* The address of the data is put where the data should be.
FIN ==
  /\ High(Op) = 3 /\ Op % 2 = 0
  /\ r' = SetPair(Low(Op) \div 2, Pair(Low(Op) \div 2))
  /\ pcs' = Advanced /\ cycles' = cycles + 1
  /\ UNCHANGED <<prom, sp, a, c>>

\* The pair is chosen by the program counter, and no cycle is counted.
AtJIN == High(Op) = 3 /\ Op % 2 = 1

JIN ==
  /\ AtJIN
  /\ pcs' = SetPc(pcs, 0, (Here \div 256) * 256 + Pair(Low(Here) \div 2))
  /\ UNCHANGED <<prom, sp, a, c, r, cycles>>

\* Bitwise or of the page and of a nibble shifted to it.
OrPage(nibble, x) ==
  LET page == x \div 256
      Or(bit) == bit * Flag(((nibble \div bit) % 2) + ((page \div bit) % 2) > 0) IN
  (Or(1) + Or(2) + Or(4) + Or(8)) * 256 + (x % 256)

\* The target is made of the program counter, not of the instruction.
JUN ==
  /\ High(Op) = 4
  /\ pcs' = SetPc(pcs, 0, OrPage(Low(Here), Next1(Here)))
  /\ cycles' = cycles + 1
  /\ UNCHANGED <<prom, sp, a, c, r>>

\* Counter i becomes what the counter j is.
Moved(bytes, i, j) == SetPc(bytes, i, PcOf(bytes, j))

\* The counters up to the stack pointer, each moved one up, the highest first.
Pushed(bytes, top) ==
  CASE top = 0 -> bytes
    [] top = 1 -> Moved(bytes, 1, 0)
    [] top = 2 -> Moved(Moved(bytes, 2, 1), 1, 0)
    [] top = 3 -> Moved(Moved(Moved(bytes, 3, 2), 2, 1), 1, 0)

\* Each moved one down, the lowest first.
Popped(bytes, top) ==
  CASE top = 1 -> Moved(bytes, 0, 1)
    [] top = 2 -> Moved(Moved(bytes, 0, 1), 1, 2)
    [] top = 3 -> Moved(Moved(Moved(bytes, 0, 1), 1, 2), 2, 3)

\* The fourth open call wraps the stack pointer and pushes nothing.
JMS ==
  LET top == (sp + 1) % 4 IN
  /\ High(Op) = 5
  /\ pcs' = SetPc(Pushed(Passed, top), 0, Low(Op) * 256 + Operand)
  /\ sp' = top
  /\ cycles' = cycles + 2
  /\ UNCHANGED <<prom, a, c, r>>

INC ==
  /\ High(Op) = 6
  /\ r' = [r EXCEPT ![Low(Op)] = (@ + 1) % 16]
  /\ pcs' = Advanced /\ cycles' = cycles + 1
  /\ UNCHANGED <<prom, sp, a, c>>

ISZ ==
  LET counted == (r[Low(Op)] + 1) % 16 IN
  /\ High(Op) = 7
  /\ r' = [r EXCEPT ![Low(Op)] = counted]
  /\ IF counted # 0
       THEN pcs' = SetPc(pcs, 0, (Next1(Here) \div 256) * 256 + Operand) /\ cycles' = cycles + 1
       ELSE pcs' = Passed /\ cycles' = cycles + 2
  /\ UNCHANGED <<prom, sp, a, c>>

\* Mutant: the accumulator is not held to four bits.
AddWide(n) == Simple(a + n + c, Flag(a + n + c > 15))

\* The carry of an addition is told from the accumulator going down.
Add(n) ==
  LET sum == (a + n + c) % 16 IN
  Simple(sum, Flag(a > sum \/ (a = sum /\ c = 1)))

\* ~c is the complement of an int, so that one more borrow is taken.
Sub(n) ==
  LET diff == (a + 32 - n - c - 2) % 16 IN
  Simple(diff, Flag(a >= diff))

Arithmetic ==
  \/ High(Op) = 8 /\ Add(r[Low(Op)])
  \/ High(Op) = 9 /\ Sub(r[Low(Op)])
  \/ High(Op) = 10 /\ Simple(r[Low(Op)], c)
  \/ High(Op) = 13 /\ Simple(Low(Op), c)

XCH ==
  /\ High(Op) = 11
  /\ a' = r[Low(Op)] /\ r' = [r EXCEPT ![Low(Op)] = a]
  /\ pcs' = Advanced /\ cycles' = cycles + 1
  /\ UNCHANGED <<prom, sp, c>>

\* Mutant: a return without a call is not stepped over.
BBLStays ==
  /\ High(Op) = 12
  /\ IF sp > 0 THEN pcs' = SetPc(Popped(pcs, sp), sp, 0) /\ sp' = sp - 1 /\ a' = Low(Op)
               ELSE UNCHANGED <<pcs, sp, a>>
  /\ UNCHANGED <<prom, c, r, cycles>>

\* A return counts no cycle; without an open call it only steps on.
BBL ==
  /\ High(Op) = 12
  /\ IF sp > 0
       THEN pcs' = SetPc(Popped(pcs, sp), sp, 0) /\ sp' = sp - 1 /\ a' = Low(Op) /\ UNCHANGED cycles
       ELSE pcs' = Advanced /\ cycles' = cycles + 1 /\ UNCHANGED <<sp, a>>
  /\ UNCHANGED <<prom, c, r>>

\* SBM, RDM, RDR, ADM and RD0 to RD3.
Memory ==
  \E m \in RamValues :
    \/ Op = 232 /\ Sub(m)
    \/ Op \in {233, 234} \cup 236 .. 239 /\ Simple(m, c)
    \/ Op = 235 /\ Add(m)

Keys == [n \in 0 .. 15 |-> CASE n <= 2 -> n [] n = 4 -> 3 [] n = 8 -> 4 [] OTHER -> 15]

\* CLB CLC IAC CMC CMA RAL RAR TCC DAC TCS STC DAA KBP
Accumulator ==
  \/ Op = 240 /\ Simple(0, 0)
  \/ Op = 241 /\ Simple(a, 0)
  \/ Op = 242 /\ Simple((a + 1) % 16, Flag(a = 15))
  \/ Op = 243 /\ Simple(a, 1 - c)
  \/ Op = 244 /\ Simple(15 - a, c)
  \/ Op = 245 /\ LET left == ((2 * a) % 16) + c IN Simple(left, Flag(a >= left /\ c = 1))
  \/ Op = 246 /\ Simple(a \div 2 + 8 * c, a % 2)
  \/ Op = 247 /\ Simple(c, 0)
  \/ Op = 248 /\ Simple((a + 15) % 16, Flag(a # 0))
  \/ Op = 249 /\ Simple(9 + c, 0)
  \/ Op = 250 /\ Simple(a, 1)
  \/ Op = 251 /\ LET adjusted == IF a > 9 \/ c = 1 THEN (a + 6) % 16 ELSE a IN
                 Simple(adjusted, Flag(a > adjusted))
  \/ Op = 252 /\ Simple(Keys[a], c)

Halted == cycles >= MaxCycles

\* mcs4_step, called by main while cycles are left.
Step ==
  /\ ~ Halted /\ ~ overwritten
  /\ \/ SRC \/ DCL \/ WMP \/ WriteRam
     \/ /\ Nop \/ JCN \/ FIM \/ FIN \/ JIN \/ JUN \/ JMS \/ INC \/ ISZ \/ Arithmetic \/ XCH
             \/ BBL \/ Memory \/ Accumulator
        /\ UNCHANGED selection

\* mcs4_init
Mcs4Reset ==
  /\ pcs = [i \in 0 .. 5 |-> 0]
  /\ sp = 0 /\ a = 0 /\ c = 0 /\ cycles = 0
  /\ r = [i \in 0 .. 15 |-> 0]
  /\ ms = 0 /\ cmram = 0 /\ overwritten = FALSE

Mcs4Init == prom \in Programs /\ Mcs4Reset

\* One thread that does nothing else.
Mcs4Spec == Mcs4Init /\ [][Step]_mcs4Vars /\ WF_mcs4Vars(Step)

-----------------------------------------------------------------------------
(* Properties                                                              *)

\* Accumulator, carry, registers and counters keep their widths, and the limit is
\* passed by at most the second cycle of one instruction (faggin.c:91), until a write
\* to RAM overwrites what controls the emulator (mcs4.c:78).
Mcs4TypeOK ==
  overwritten \/
  /\ pcs \in [0 .. 5 -> 0 .. 255] /\ sp \in 0 .. 3
  /\ a \in 0 .. 15 /\ c \in {0, 1} /\ r \in [0 .. 15 -> 0 .. 15]
  /\ ms \in 0 .. 255 /\ cmram \in 0 .. 15
  /\ cycles \in 0 .. MaxCycles + 1

\* The six packed bytes behave as a program counter and a stack of return
\* addresses: no move of one counter disturbs another (mcs4.c:182, 544, 667), and
\* they are lost by nothing but a write to RAM that overwrites what controls the
\* emulator (mcs4.c:78).
Abstract == INSTANCE CallStack WITH
  Levels <- 3, pc <- Here, calls <- [i \in 1 .. sp |-> PcOf(pcs, i)], lost <- overwritten
ImplementsCallStack == Abstract!CallStackSpec

\* Every program ends, unless it jumps by a register pair for ever: returns
\* count no cycle either, but each needs a call that did (mcs4.c:507, 666).  Or it
\* overwrites what controls the emulator, the count of cycles for one (mcs4.c:78).
EndsOrJumps == <>(Halted \/ overwritten) \/ []<>AtJIN

=============================================================================
