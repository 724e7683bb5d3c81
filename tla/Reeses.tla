-------------------------------- MODULE Reeses --------------------------------
(***************************************************************************)
(* The MIPS emulator of src/reeses_revenge/server: the loader              *)
(* (mebloader.cpp), the processor (cpu.cpp), its RC4 coprocessor           *)
(* (RC4Coprocessor.cpp) and the system calls (syscall_handler.cpp), over   *)
(* the memory of ReesesMemory.                                             *)
(*                                                                         *)
(* The instructions of a program are kept beside its memory, so a program  *)
(* that overwrites its text or executes data is not modelled.  Arithmetic  *)
(* on overflow is that of the committed build (cpu.o), which wraps.        *)
(***************************************************************************)
EXTENDS ReesesMemory

CONSTANTS
  Images,            \* what may be loaded: [prog, start, regs, sections]
  RegNums,           \* the registers that programs use
  WordBits,          \* bits of a word
  SyscallBase,       \* 4000
  MaxReadBuf,        \* MAX_READ_BUF and MAX_WRITE_BUF
  Inputs,            \* what one read of stdin may give
  Times,             \* what time, random numbers and errno may be
  MaxInstructions,   \* MAX_CPU_INSTRUCTION_COUNT
  NoTarget

ZERO == 0
V0 == 2
A0 == 4
A1 == 5
A2 == 6
A3 == 7
RA == 31

TwoTo[k \in 0 .. WordBits] == IF k = 0 THEN 1 ELSE 2 * TwoTo[k - 1]
HalfMod == Power[2]
ShiftBy == {"sll", "srl", "sra"}

ASSUME ReesesAssumption ==
  /\ {ZERO, V0, A0, A1, A2, A3, RA} \subseteq RegNums
  /\ WordBits \in Nat /\ WordBits >= 4 /\ WordMod = TwoTo[WordBits]
  /\ \E b \in 1 .. WordBits : ByteValues = TwoTo[b]
  /\ MaxInstructions \in Nat
  /\ NoTarget \notin Words
  /\ SyscallBase \in Nat /\ MaxReadBuf \in Nat /\ Times \subseteq Words
  /\ Inputs \subseteq Seq(ByteRange) \ {<<>>}

\* An instruction has the fields of its encoding, and what a file loads are words
\* and bytes.
ASSUME ImageAssumption ==
  \A file \in Images :
    /\ file.start \in Words
    /\ \A x \in DOMAIN file.prog :
         LET i == file.prog[x] IN
         /\ {i.rs, i.rt, i.rd} \subseteq RegNums /\ i.imm \in Nat
         /\ i.op \in ShiftBy => i.imm < WordBits
         /\ i.op \notin {"j", "jal"} => i.imm < HalfMod
    /\ \A r \in DOMAIN file.regs : file.regs[r] \in Words /\ (r = ZERO => file.regs[r] = 0)
    /\ file.sections \in Seq([addr : Words, data : Seq(ByteRange)])

VARIABLES
  image,                               \* the program and its sections
  loaded,                              \* sections LoadFile has copied
  regs, hi, lo,                        \* m_regs, m_hi, m_lo
  pc, delayState, delayPC, nextEpc,
  instrCount,
  request,                             \* auxiliary: the last control_transfer
  halted                               \* why the process has ended

mulVars == <<hi, lo>>
flowVars == <<pc, delayState, delayPC, nextEpc, instrCount, request>>
reesesVars == <<memVars, image, loaded, regs, mulVars, flowVars, halted>>

NORMAL == 0
DELAYING == 1
DELAYSLOT == 2

Negative(w) == w >= WordMod \div 2
Signed(w) == IF Negative(w) THEN w - WordMod ELSE w
Extended(v, mod) == IF v >= mod \div 2 THEN WordMod - mod + v ELSE v

\* A page of zeros reads as sll $0, $0, 0.
Nothing == [op |-> "sll", rs |-> 0, rt |-> 0, rd |-> 0, imm |-> 0]
Instr == IF pc \in DOMAIN image.prog THEN image.prog[pc] ELSE Nothing
Rs == regs[Instr.rs]
Rt == regs[Instr.rt]
SImm == Extended(Instr.imm, HalfMod)
Address == (Rs + SImm) % WordMod

-----------------------------------------------------------------------------
(* How a step ends                                                         *)

\* Mutant: the state is not shifted on, and a jump has no slot.
AfterAtOnce(target) ==
  /\ pc' = IF target # NoTarget THEN target ELSE (pc + 4) % WordMod
  /\ delayState' = NORMAL
  /\ delayPC' = IF target # NoTarget THEN target ELSE delayPC

\* control_transfer, the end of step() and advanceDelayState.
After(target) ==
  LET state == IF target # NoTarget THEN DELAYING ELSE delayState IN
  /\ delayPC' = IF target # NoTarget THEN target ELSE delayPC
  /\ pc' = IF state = DELAYSLOT THEN delayPC' ELSE (pc + 4) % WordMod
  /\ delayState' = (2 * state) % 4

\* The instruction after the last one allowed is executed, and ends the process.
GoTo(target) ==
  IF instrCount = MaxInstructions THEN halted' = "MaxInstr" /\ UNCHANGED flowVars
  ELSE /\ request' = target
       /\ nextEpc' = IF delayState # DELAYSLOT THEN pc ELSE nextEpc
       /\ After(target)
       /\ instrCount' = instrCount + 1
       /\ UNCHANGED halted

GoOn == GoTo(NoTarget)

\* doException prints and exits; so does the exit of the process for other reasons.
Ends(reason) == halted' = reason /\ UNCHANGED <<regs, mulVars, flowVars>>
doException(reason) == Ends(reason) /\ UNCHANGED memVars

\* A transfer that fails raises an exception, unless it has strayed.
Fault(addr, n, exception) == IF Stray(addr, n) THEN "undefined" ELSE exception

ReadFails(addr, n) ==
  /\ Ends(Fault(addr, n, "AdEL"))
  /\ io' = IF Stray(addr, n) THEN [op |-> "lost", addr |-> addr, data |-> <<>>] ELSE io
  /\ UNCHANGED <<pages, table>>

Set(r, w) == regs' = [regs EXCEPT ![r] = IF r = ZERO THEN 0 ELSE w]

Result(r, w) == Set(r, w) /\ GoOn /\ UNCHANGED <<memVars, mulVars>>

-----------------------------------------------------------------------------
(* Arithmetic                                                              *)

Bit == {0, 1}
AndBit == [p \in Bit |-> [q \in Bit |-> p * q]]
OrBit == [p \in Bit |-> [q \in Bit |-> p + q - p * q]]
XorBit == [p \in Bit |-> [q \in Bit |-> (p + q) % 2]]
NorBit == [p \in Bit |-> [q \in Bit |-> 1 - OrBit[p][q]]]

\* The table of one bit, applied to every bit of two words.
Bitwise2(x, y, T) ==
  LET BitAt(w, k) == (w \div TwoTo[k]) % 2
      sum[k \in 0 .. WordBits] ==
        IF k = 0 THEN 0
        ELSE sum[k - 1] + T[BitAt(x, k - 1)][BitAt(y, k - 1)] * TwoTo[k - 1]
  IN sum[WordBits]

\* >> of a signed number.
ShiftedDown(w, n) == (Signed(w) \div TwoTo[n]) % WordMod

\* Mutant: the copies of the sign are not masked out.
srlSigned(w, n) == ShiftedDown(w, n)

srl(w, n) == IF n = 0 THEN w ELSE ShiftedDown(w, n) % TwoTo[WordBits - n]

sra(w, n) ==
  LET sign == IF Negative(w) THEN 1 ELSE 0 IN
  IF n = 0 THEN w ELSE Bitwise2(ShiftedDown(w, n), sign * (TwoTo[n] - 1) * TwoTo[WordBits - n], OrBit)

\* The tests of addi, add and sub by the signs.
SumOverflows(x, y) ==
  LET sum == (x + y) % WordMod IN
  \/ Negative(x) /\ Negative(y) /\ ~ Negative(sum)
  \/ ~ Negative(x) /\ ~ Negative(y) /\ Negative(sum)

DifferenceOverflows(x, y) ==
  LET diff == (x - y) % WordMod IN
  \/ Negative(x) /\ ~ Negative(y) /\ ~ Negative(diff)
  \/ ~ Negative(x) /\ Negative(y) /\ Negative(diff)

Flag01(holds) == IF holds THEN 1 ELSE 0

\* What an operation makes of two words.
Value(op, x, y) ==
  CASE op \in {"add", "addu"} -> (x + y) % WordMod
    [] op \in {"sub", "subu"} -> (x - y) % WordMod
    [] op = "slt" -> Flag01(Signed(x) < Signed(y))
    [] op = "sltu" -> Flag01(x < y)
    [] op = "and" -> Bitwise2(x, y, AndBit)
    [] op = "or" -> Bitwise2(x, y, OrBit)
    [] op = "xor" -> Bitwise2(x, y, XorBit)
    [] op = "nor" -> Bitwise2(x, y, NorBit)
    [] op = "lui" -> y * HalfMod
    [] op = "sll" -> (x * TwoTo[y]) % WordMod
    [] op = "srl" -> srl(x, y)
    [] op = "sra" -> sra(x, y)

Traps(op, x, y) ==
  \/ op = "add" /\ SumOverflows(x, y)
  \/ op = "sub" /\ DifferenceOverflows(x, y)

\* The operation of an instruction with an immediate, and how it is extended.
SignedImmediate == [addi |-> "add", addiu |-> "addu", slti |-> "slt", sltiu |-> "sltu"]
PlainImmediate == [andi |-> "and", ori |-> "or", xori |-> "xor", lui |-> "lui"]
Register == {"add", "addu", "sub", "subu", "slt", "sltu", "and", "or", "xor", "nor"}
ShiftByRegister == [sllv |-> "sll", srlv |-> "srl", srav |-> "sra"]

\* [op, x, y, dest] of an arithmetic instruction.
Operands ==
  LET i == Instr
      Of(op, x, y, dest) == [op |-> op, x |-> x, y |-> y, dest |-> dest] IN
  CASE i.op \in DOMAIN SignedImmediate -> Of(SignedImmediate[i.op], Rs, SImm, i.rt)
    [] i.op \in DOMAIN PlainImmediate -> Of(PlainImmediate[i.op], Rs, i.imm, i.rt)
    [] i.op \in Register -> Of(i.op, Rs, Rt, i.rd)
    [] i.op \in ShiftBy -> Of(i.op, Rt, i.imm, i.rd)
    [] i.op \in DOMAIN ShiftByRegister -> Of(ShiftByRegister[i.op], Rt, Rs % WordBits, i.rd)

ArithmeticOps ==
  DOMAIN SignedImmediate \cup DOMAIN PlainImmediate \cup Register \cup ShiftBy
    \cup DOMAIN ShiftByRegister

Compute ==
  LET it == Operands IN
  /\ Instr.op \in ArithmeticOps
  /\ IF Traps(it.op, it.x, it.y) THEN doException("Ov") ELSE Result(it.dest, Value(it.op, it.x, it.y))

\* Division of the host: towards zero, and an error of the host for 0 or overflow.
Quotient(x, y) ==
  LET abs(n) == IF n < 0 THEN - n ELSE n
      q == abs(x) \div abs(y) IN
  IF (x < 0) = (y < 0) THEN q ELSE - q

Product(x, y) == hi' = ((x * y) \div WordMod) % WordMod /\ lo' = (x * y) % WordMod

MultiplyDivide ==
  LET s == Signed(Rs)
      t == Signed(Rt) IN
  \/ /\ Instr.op \in {"mult", "multu", "mthi", "mtlo"} /\ Instr.rd # 0
     /\ doException("RI")
  \/ /\ Instr.op \in {"div", "divu"}
     /\ Rt = 0 \/ (Instr.op = "div" /\ t = -1 /\ s = - (WordMod \div 2))
     /\ doException("SIGFPE")
  \/ /\ \/ Instr.op = "mult" /\ Instr.rd = 0 /\ Product(s, t)
        \/ Instr.op = "multu" /\ Instr.rd = 0 /\ Product(Rs, Rt)
        \/ /\ Instr.op = "div" /\ Rt # 0 /\ ~ (t = -1 /\ s = - (WordMod \div 2))
           /\ lo' = Quotient(s, t) % WordMod
           /\ hi' = (s - t * Quotient(s, t)) % WordMod
        \/ Instr.op = "divu" /\ Rt # 0 /\ lo' = Rs \div Rt /\ hi' = Rs % Rt
        \/ Instr.op = "mthi" /\ Instr.rd = 0 /\ hi' = Rs /\ UNCHANGED lo
        \/ Instr.op = "mtlo" /\ Instr.rd = 0 /\ lo' = Rs /\ UNCHANGED hi
     /\ GoOn /\ UNCHANGED <<memVars, regs>>
  \/ Instr.op = "mfhi" /\ Result(Instr.rd, hi)
  \/ Instr.op = "mflo" /\ Result(Instr.rd, lo)

-----------------------------------------------------------------------------
(* Jumps and branches                                                      *)

BranchTarget == (pc + 4 + 4 * SImm) % WordMod

\* A jump stays in the sixteenth of the addresses where its slot is.
JumpTarget ==
  LET region == WordMod \div 16
      slot == (pc + 4) % WordMod IN
  (slot \div region) * region + ((4 * Instr.imm) % region)

Branches == {"beq", "bne", "blez", "bgtz", "bltz", "bgez", "bltzal", "bgezal"}

\* The test; the linking branches have set RA before they look at rs.
Taken(now) ==
  LET w == now[Instr.rs] IN
  CASE Instr.op = "beq" -> w = now[Instr.rt]
    [] Instr.op = "bne" -> w # now[Instr.rt]
    [] Instr.op = "blez" -> w = 0 \/ Negative(w)
    [] Instr.op = "bgtz" -> w # 0 /\ ~ Negative(w)
    [] Instr.op \in {"bltz", "bltzal"} -> Negative(w)
    [] Instr.op \in {"bgez", "bgezal"} -> ~ Negative(w)

Branch ==
  /\ Instr.op \in Branches
  /\ IF Instr.op \in {"blez", "bgtz"} /\ Instr.rt # 0 THEN doException("RI")
     ELSE /\ regs' = IF Instr.op \in {"bltzal", "bgezal"}
                       THEN [regs EXCEPT ![RA] = (pc + 8) % WordMod] ELSE regs
          /\ GoTo(IF Taken(regs') THEN BranchTarget ELSE NoTarget)
          /\ UNCHANGED <<memVars, mulVars>>

JumpTo(target) == GoTo(target) /\ UNCHANGED <<memVars, mulVars>>

Jumps ==
  \/ Instr.op = "j" /\ JumpTo(JumpTarget) /\ UNCHANGED regs
  \/ Instr.op = "jal" /\ JumpTo(JumpTarget) /\ Set(RA, (pc + 8) % WordMod)
  \/ /\ Instr.op = "jr"
     /\ IF regs[Instr.rd] # 0 THEN doException("RI") ELSE JumpTo(Rs) /\ UNCHANGED regs
  \/ Instr.op = "jalr" /\ JumpTo(Rs) /\ Set(Instr.rd, (pc + 8) % WordMod)

-----------------------------------------------------------------------------
(* Loads and stores                                                        *)

Width == [lb |-> 1, lbu |-> 1, lh |-> 2, lhu |-> 2, lw |-> 4, lwl |-> 4, lwr |-> 4,
          sb |-> 1, sh |-> 2, sw |-> 4, swl |-> 4, swr |-> 4]
Loads == {"lb", "lbu", "lh", "lhu", "lw", "lwl", "lwr"}
Stores == {"sb", "sh", "sw"}

\* Mutant: the little-endian shift of lwl is that of the big-endian case.
lwlBig(reg, word, k) ==
  (word % Power[4 - k]) * Power[k] + (reg % Power[k])

\* The little-endian cases, by the lowest bits of the address.
lwl(reg, word, k) ==
  (word % Power[k + 1]) * Power[3 - k] + (reg % Power[3 - k])
lwr(reg, word, k) ==
  (reg \div Power[4 - k]) * Power[4 - k] + word \div Power[k]
swl(reg, word, k) ==
  (word \div Power[k + 1]) * Power[k + 1] + reg \div Power[3 - k]
swr(reg, word, k) ==
  ((reg * Power[k]) % WordMod) + (word % Power[k])

LoadedValue(op, word) ==
  CASE op = "lb" -> Extended(word, ByteValues)
    [] op = "lh" -> Extended(word, HalfMod)
    [] op \in {"lbu", "lhu", "lw"} -> word
    [] op = "lwl" -> lwl(Rt, word, Address % 4)
    [] op = "lwr" -> lwr(Rt, word, Address % 4)

ReadIO(addr, n) == io' = [op |-> "read", addr |-> addr, data |-> BytesAt(addr, n)]

\* lwl and lwr read the word around the address; the others want it aligned.
Load ==
  LET n == Width[Instr.op]
      where == IF Instr.op \in {"lwl", "lwr"} THEN Address - (Address % 4) ELSE Address IN
  /\ Instr.op \in Loads
  /\ IF where % n # 0 THEN doException("AdEL")
     ELSE IF ~ Accessible(where, n) THEN ReadFails(where, n)
     ELSE /\ ReadIO(where, n) /\ UNCHANGED <<pages, table>>
          /\ Set(Instr.rt, LoadedValue(Instr.op, WordAt(where, n)))
          /\ GoOn /\ UNCHANGED mulVars

\* A store that fails ends the process, whatever part of it was written.
StoreAt(addr, data) ==
  /\ WriteMemory(addr, data, Stray(addr, Len(data)))
  /\ IF Accessible(addr, Len(data)) THEN GoOn /\ UNCHANGED <<regs, mulVars>>
     ELSE Ends(Fault(addr, Len(data), "AdES"))

Store ==
  /\ Instr.op \in Stores
  /\ IF Address % Width[Instr.op] # 0 THEN doException("AdES")
     ELSE StoreAt(Address, BytesOf(Rt, Width[Instr.op]))

\* swl stores one byte of the merged word; swr reads and writes a word at the address
\* itself.
StorePart ==
  \/ /\ Instr.op = "swl"
     /\ LET where == Address - (Address % 4) IN
        IF ~ Accessible(where, 4) THEN ReadFails(where, 4)
        ELSE StoreAt(Address, BytesOf(swl(Rt, WordAt(where, 4), Address % 4), 1))
  \/ /\ Instr.op = "swr"
     /\ IF ~ Accessible(Address, 4) THEN ReadFails(Address, 4)
        ELSE StoreAt(Address, BytesOf(swr(Rt, WordAt(Address, 4), Address % 4), 4))

-----------------------------------------------------------------------------
(* System calls and coprocessors                                           *)

\* A call that was recognised has cleared A3.
Cleared == [regs EXCEPT ![A3] = 0]
Returns(r) == regs' = r /\ GoOn /\ UNCHANGED mulVars
ReturnsV0(v) == Returns([Cleared EXCEPT ![V0] = v])
MinusOne == WordMod - 1
Failed == \E errno \in Times : Returns([regs EXCEPT ![A3] = MinusOne, ![V0] = errno])

DoRead ==
  LET n == Smaller(regs[A2], MaxReadBuf) IN
  IF regs[A0] # 0 THEN Returns(Cleared) /\ UNCHANGED memVars
  ELSE IF n = 0 THEN ReturnsV0(0) /\ UNCHANGED memVars
  ELSE \/ (Failed \/ ReturnsV0(0)) /\ UNCHANGED memVars
       \/ \E data \in Inputs :
            /\ Len(data) <= n
            /\ WriteMemory(regs[A1], data, Stray(regs[A1], Len(data)))
            /\ IF Accessible(regs[A1], Len(data)) THEN ReturnsV0(Len(data))
               ELSE Ends(Fault(regs[A1], Len(data), "AdES"))

DoWrite ==
  LET n == Smaller(regs[A2], MaxReadBuf) IN
  IF regs[A0] # 1 THEN Returns(Cleared) /\ UNCHANGED memVars
  ELSE IF n = 0 THEN ReturnsV0(0) /\ UNCHANGED memVars
  ELSE IF ~ Accessible(regs[A1], n) THEN ReadFails(regs[A1], n)
  ELSE /\ ReadIO(regs[A1], n) /\ UNCHANGED <<pages, table>>
       /\ Failed \/ \E m \in 0 .. n : ReturnsV0(m)

\* DoSyscall: by the number in V0.  One below the base is a pointer from before
\* the table, where the model ends; the lowest ones may also wrap above the table.
Syscall ==
  LET number == Signed(regs[V0]) - SyscallBase IN
  /\ Instr.op = "syscall"
  /\ \/ number < 0 /\ doException("undefined")
     \/ /\ number >= 15 \/ number < - (WordMod \div 2)
        /\ GoOn /\ UNCHANGED <<memVars, regs, mulVars>>
     \/ number \in {0, 2} \cup 6 .. 12 /\ ReturnsV0(0) /\ UNCHANGED memVars
     \/ number = 1 /\ doException("exit")
     \/ number = 3 /\ DoRead
     \/ number = 4 /\ DoWrite
     \/ number \in {5, 13} /\ (\E t \in Times : ReturnsV0(t)) /\ UNCHANGED memVars
     \/ /\ number = 14 /\ DoMMAP(regs[A0], regs[A1])
        /\ ReturnsV0(IF MmapWorks(regs[A0], regs[A1]) THEN regs[A0] ELSE MinusOne)

\* RC4: a key is read, or a block is read, enciphered and written elsewhere.  The
\* length of a block is cut to a byte where it is enciphered, so that what lies
\* behind is copied; the stream is one of the constant ones.
KeyMask == ByteValues \div 2
BlockMask == 2 * ByteValues

CopTwo ==
  \/ /\ Instr.op = "rc4init"
     /\ LET n == Rt % KeyMask IN
        IF ~ Accessible(Rs, n) THEN ReadFails(Rs, n)
        ELSE ReadIO(Rs, n) /\ GoOn /\ UNCHANGED <<pages, table, regs, mulVars>>
  \/ /\ Instr.op = "rc4"
     /\ LET n == Rt % BlockMask
            block == BytesAt(Rs, n) IN
        IF ~ Accessible(Rs, n) THEN ReadFails(Rs, n)
        ELSE \E key \in 0 .. ByteValues - 1 :
               StoreAt(regs[Instr.rd],
                       [k \in 1 .. n |-> IF k <= n % ByteValues
                                           THEN Bitwise2(block[k], key, XorBit) ELSE block[k]])
  \/ Instr.op = "cop2" /\ doException("CpU")

\* The reserved opcodes, the coprocessors that do not exist, break, and the
\* opcode that halts; in a slot that one writes past an array, where the model ends.
Refused ==
  \/ Instr.op = "reserved" /\ doException("RI")
  \/ Instr.op \in {"cop1", "cop3", "lwc1", "lwc2", "lwc3", "swc1", "swc2", "swc3"} /\ doException("CpU")
  \/ Instr.op = "break" /\ doException("Bp")
  \/ Instr.op = "hsc" /\ doException(IF delayState = NORMAL THEN "HSC" ELSE "undefined")

\* Coprocessor 0 is left out of the emulator: its instructions do nothing.
CopZero == Instr.op = "cop0" /\ GoOn /\ UNCHANGED <<memVars, regs, mulVars>>

-----------------------------------------------------------------------------
(* The emulator                                                            *)

\* LoadFile copies the sections, whether they fit or not, before CCPU::setup.
LoadSection ==
  /\ loaded < Len(image.sections)
  /\ loaded' = loaded + 1
  /\ LET sec == image.sections[loaded + 1] IN
     IF Len(sec.data) = 0 THEN UNCHANGED memVars ELSE WriteMemory(sec.addr, sec.data, FALSE)
  /\ UNCHANGED <<image, regs, mulVars, flowVars, halted>>

Execute ==
  \/ Compute \/ MultiplyDivide \/ Branch \/ Jumps \/ Load \/ Store \/ StorePart
  \/ Syscall \/ CopTwo \/ CopZero \/ Refused

\* step(), which Run repeats.
CpuStep ==
  /\ loaded = Len(image.sections) /\ halted = "no"
  /\ UNCHANGED <<image, loaded>>
  /\ IF Accessible(pc, 4) THEN Execute ELSE ReadFails(pc, 4)

\* LoadFile after it has read the header: an empty memory, and CCPU::setup.
ReesesReset ==
  /\ loaded = 0
  /\ Setup
  /\ regs = [r \in RegNums |-> IF r \in DOMAIN image.regs THEN image.regs[r] ELSE 0]
  /\ hi = 0 /\ lo = 0
  /\ pc = image.start
  /\ delayState = NORMAL /\ delayPC = 0 /\ nextEpc = 0
  /\ instrCount = 0 /\ request = NoTarget /\ halted = "no"

ReesesInit == image \in Images /\ ReesesReset
ReesesNext == LoadSection \/ CpuStep
ReesesSpec == ReesesInit /\ [][ReesesNext]_reesesVars

-----------------------------------------------------------------------------
(* Properties                                                              *)

\* Registers hold words, and a step ends with the delay state at rest or in a slot, as
\* long as what a program does is defined.
ReesesTypeOK == halted = "undefined" \/
  /\ MemoryTypeOK
  /\ regs \in [RegNums -> Words] /\ regs[ZERO] = 0 /\ hi \in Words /\ lo \in Words
  /\ pc \in Words /\ delayPC \in Words /\ nextEpc \in Words
  /\ delayState \in {NORMAL, DELAYSLOT}
  /\ instrCount \in 0 .. MaxInstructions

\* Three states of the slot and one address do what two program counters do, and an
\* exception in a slot is charged to the jump (cpu.cpp:92).
Slots == INSTANCE DelaySlots WITH
  Top <- WordMod,
  npc <- IF delayState = DELAYSLOT THEN delayPC ELSE (pc + 4) % WordMod,
  owner <- IF delayState = DELAYSLOT THEN nextEpc ELSE pc
ImplementsDelaySlots == Slots!SlotsSpec

\* What arithmetic and partial loads compute, said of numbers and of bytes at
\* addresses: the tests by signs find every overflow and nothing else, the masks make
\* shifts of signed numbers shifts of words, hi and lo hold a product or a division,
\* and lwl and lwr fill a register from both ends (cpu.cpp:480, 606, 1094).
ComputesNumbers ==
  LET i == Instr
      it == Operands
      s == Signed(Rs)
      t == Signed(Rt)
      Fits(n) == - (WordMod \div 2) <= n /\ n < WordMod \div 2
      new == BytesOf(regs'[i.rt], 4)
      old == BytesOf(Rt, 4)
      k == Address % 4
      Byte(x) == pages[PageOf(x)][OffsetIn(x)]
      ran == instrCount' = instrCount + 1 IN
  /\ i.op \in {"add", "addi"} =>
       (halted' # "Ov" <=> Fits(Signed(it.x) + Signed(it.y)))
  /\ i.op = "sub" => (halted' # "Ov" <=> Fits(s - t))
  /\ ran /\ i.op \in ArithmeticOps /\ it.dest # ZERO =>
       LET w == regs'[it.dest] IN
       /\ it.op = "add" => Signed(w) = Signed(it.x) + Signed(it.y)
       /\ it.op = "sub" => Signed(w) = s - t
       /\ it.op = "srl" => w = it.x \div TwoTo[it.y]
       /\ it.op = "sra" => Signed(w) = Signed(it.x) \div TwoTo[it.y]
  /\ ran /\ i.op = "mult" => Signed(hi') * WordMod + lo' = s * t
  /\ ran /\ i.op = "multu" => hi' * WordMod + lo' = Rs * Rt
  /\ ran /\ i.op = "div" =>
       LET q == Signed(lo')
           r == Signed(hi') IN
       /\ s = q * t + r
       /\ r * r < t * t /\ (r = 0 \/ (r < 0) = (s < 0))
  /\ ran /\ i.rt # ZERO =>
       /\ i.op = "lwl" =>
            \A j \in 1 .. 4 : new[j] = IF j >= 4 - k THEN Byte(Address - (4 - j)) ELSE old[j]
       /\ i.op = "lwr" =>
            \A j \in 1 .. 4 : new[j] = IF j <= 4 - k THEN Byte(Address + (j - 1)) ELSE old[j]

WordArithmetic == [][CpuStep /\ Accessible(pc, 4) => ComputesNumbers]_reesesVars

\* Every program ends: each instruction counts, and a fetch that fails exits.
ProgramStops == <>(halted # "no")

=============================================================================
