----------------------------- MODULE MCPrograms -----------------------------
(***************************************************************************)
(* The two emulators on their programs, and the compressor on its files: a *)
(* behaviour is one of Mcs4, of Reeses or of Compressor, chosen at the     *)
(* start.                                                                  *)
(***************************************************************************)
EXTENDS Emulators, Compressor, TLC

CONSTANTS CodeBytes

VARIABLE part

programsVars == <<part, mcs4Vars, reesesVars, compressorVars>>

-----------------------------------------------------------------------------
(* Programs of the MCS-4; every byte may also be an operand.               *)

At0(bytes) == [i \in 0 .. Len(bytes) - 1 |-> bytes[i + 1]]

\* Every instruction in turn: an indirect jump, the registers, the arithmetic, RAM,
\* a count to zero and one that jumps, a condition that fails and one that holds,
\* a call that comes back, and a jump.
Tour ==
  At0(<<34, 3, 49, 33, 48, 97, 161, 129, 145, 177, 221, 240, 241, 242, 243, 244, 245,
        246, 247, 248, 249, 250, 251, 252, 253, 232, 235, 238, 224, 254, 44, 255, 124,
        0, 126, 36, 241, 18, 0, 17, 41, 80, 47, 64, 0, 0, 0, 200>>)

\* Four nested calls, then more returns than calls.
Nested == At0(<<80, 2, 80, 4, 80, 6, 80, 8, 193, 194, 195>>)

\* A bank is chosen, then a character of it, and something is written there; in a
\* subroutine, which returns.
Writing(bank, character, op) ==
  At0(<<80, 5, 80, 5, 254, 208 + bank, 253, 34, character, 35, 215, op, 176, 192>>)

\* Within RAM; in the ports, registers, ms, cmram and other nibbles behind it; and past those.
WritingPrograms ==
  {Writing(bank, character, op) : bank \in {0, 2, 3, 5}, character \in {0, 136, 30, 255}, op \in {225, 231}}
  \cup {Writing(2, character, 224) : character \in {8, 23} \cup 16 .. 31 \cup {45, 46, 90}}

\* Every arrangement of four of the bytes, the tour, the nest and the writes.
MCPrograms == [0 .. 3 -> CodeBytes] \cup {Tour, Nested} \cup WritingPrograms

-----------------------------------------------------------------------------
(* Programs of the MIPS processor.  A word is four bytes of eight values;  *)
(* four pages of 16 bytes are allocated, from MmuBase on, and four more    *)
(* are left to mmap; behind them are the page that is used by mistake and  *)
(* one that is refused.                                                    *)

I(op, rs, rt, rd, imm) == [op |-> op, rs |-> rs, rt |-> rt, rd |-> rd, imm |-> imm]

\* A program of instructions one after the other, with its registers and sections.
Image(code, with, sections) ==
  [prog |-> [x \in {MmuBase + 4 * k : k \in 0 .. Len(code) - 1} |-> code[((x - MmuBase) \div 4) + 1]],
   start |-> MmuBase, regs |-> with, sections |-> sections]

With(x, y) == (8 :> x) @@ (9 :> y)
Stop == I("hsc", 0, 0, 0, 0)

\* Words and immediates at the ends of their ranges.
EndWords == {0, 1, 2047, 2048, 4095}
EndImmediates == {0, 1, 31, 32, 63}

\* One arithmetic instruction, on every pair of such words.
ArithmeticImages ==
  {Image(<<I(op, 8, 5, 0, n), Stop>>, With(x, 0), <<>>) :
     op \in DOMAIN SignedImmediate \cup DOMAIN PlainImmediate, x \in EndWords, n \in EndImmediates}
  \cup {Image(<<I(op, 0, 8, 5, n), Stop>>, With(x, 0), <<>>) :
          op \in ShiftBy, x \in EndWords, n \in 0 .. WordBits - 1}
  \cup {Image(<<I(op, 8, 9, 5, 0), Stop>>, With(x, y), <<>>) :
          op \in Register \cup DOMAIN ShiftByRegister, x \in EndWords, y \in EndWords}
  \cup {Image(<<I(op, 8, 9, rd, 0), I("mfhi", 0, 0, 5, 0), I("mflo", 0, 0, 0, 0), Stop>>, With(x, y), <<>>) :
          op \in {"mult", "multu", "div", "divu", "mthi", "mtlo"}, x \in EndWords, y \in EndWords, rd \in {0, 5}}

\* A jump or a branch, and in its slot nothing, another one or an exception.
Transfers ==
  {I(op, 8, 9, 0, 2) : op \in {"beq", "bne", "bltz", "bgez", "bltzal", "bgezal"}}
  \cup {I(op, 8, rt, 0, 2) : op \in {"blez", "bgtz"}, rt \in {0, 9}}
  \cup {I("bltzal", 31, 0, 0, 60), I("j", 0, 0, 0, 5), I("jal", 0, 0, 0, 5),
        I("jr", 8, 0, 0, 0), I("jr", 8, 0, 9, 0), I("jalr", 8, 0, 31, 0), I("jalr", 8, 0, 8, 0)}

JumpImages ==
  {Image(<<first, slot, Nothing, second, I("add", 8, 8, 8, 0), I("cop0", 0, 0, 0, 0), Stop>>,
         With(x, y), <<>>) :
     first \in Transfers, slot \in Transfers \cup {Nothing, I("add", 9, 9, 9, 0), Stop},
     second \in {Nothing, I("j", 0, 0, 0, 0)}, x \in {0, MmuBase, MmuBase + 16}, y \in {2047}}

\* A load or a store of every address around the end of a page, and at the end of memory.
Text == MmuBase + 2 * PageSize
MemoryImages ==
  {Image(<<I(op, 8, 9, 0, n % 64), I("lw", 8, 9, 0, 0), Stop>>, With(x, 2477),
         <<[addr |-> Text - 8, data |-> [k \in 1 .. 16 |-> k % 8]],
           [addr |-> TextEnd - 4, data |-> <<7, 1, 6, 2, 5>>]>>) :
     op \in Loads \cup Stores \cup {"swl", "swr"}, n \in -4 .. 3,
     x \in {Text, TextEnd, MmuBase, MmuMax, MmuMax + PageSize}}

\* System calls: the registers may ask for more than a buffer, and for what is not there.
CallImages ==
  {Image(<<I("syscall", 0, 0, 0, 0), Stop>>,
         (V0 :> v) @@ (A0 :> fd) @@ (A1 :> buf) @@ (A2 :> n),
         <<[addr |-> Text - 2, data |-> <<1, 2, 3, 4>>], [addr |-> Text, data |-> <<>>]>>) :
     v \in {WordMod \div 2} \cup SyscallBase - 1 .. SyscallBase + 15, fd \in {0, 1},
     buf \in {Text - 2, TextEnd - 1, MmuMax + 1}, n \in {0, 3, 4095}}

\* Two regions of mmap, then a store to the first page of the second.
Mmap(add, n) == <<I("ori", 0, V0, 0, SyscallBase + 14), I("addi", A0, A0, 0, add), I("ori", 0, A1, 0, n),
                I("syscall", 0, 0, 0, 0)>>
MmapImages ==
  {Image(Mmap(a1, n1) \o Mmap(a2, n2) \o <<I("sw", A0, A2, 0, 0)>>
           \o (IF n2 = 1 THEN Mmap(16, 1) ELSE <<>>) \o <<Stop>>,
         (A0 :> a0) @@ (A2 :> 1234), <<>>) :
     a0 \in {TextEnd, TextEnd + PageSize, TextEnd + 2 * PageSize}, a1 \in {0, 1}, n1 \in {0, 16, 17, 32, 33},
     a2 \in {0, 16, 31, 48}, n2 \in {1, 17}}

\* A block and a section that begin in the last page and end behind it, and a jump there.
StrayImages ==
  {Image(Mmap(0, 3) \o <<I("addi", A0, A0, 0, 14), I("rc4", A2, A1, A0, 0), Stop>>,
         (A0 :> MmuMax - PageSize) @@ (A2 :> Text), <<>>),
   Image(<<Stop>>, <<>>, <<[addr |-> MmuMax, data |-> <<1>>], [addr |-> Text, data |-> <<1>>]>>),
   Image(<<I("jr", 8, 0, 0, 0), Nothing, Stop>>, With(MmuMax, 0), <<>>)}

\* The coprocessors, and what is refused.
OtherImages ==
  {Image(<<I(op, 8, 9, 4, 0), Stop>>, With(x, n) @@ (A0 :> y), <<[addr |-> Text - 2, data |-> <<1, 2, 3, 4>>]>>) :
     op \in {"rc4init", "rc4"}, x \in {Text - 2, TextEnd - 2}, n \in {0, 3, 9}, y \in {MmuBase + 30, TextEnd - 1}}
  \cup {Image(<<I(op, 0, 0, 0, 0)>>, With(0, 0), <<>>) :
          op \in {"cop1", "cop2", "cop3", "lwc1", "lwc2", "lwc3", "swc1", "swc2", "swc3", "reserved", "break"}}

MCImages ==
  {Image(<<>>, <<>>, <<>>)} \cup ArithmeticImages \cup JumpImages \cup MemoryImages \cup CallImages \cup MmapImages
    \cup StrayImages \cup OtherImages

MCInputs == {<<1>>, <<1, 2, 3>>}

-----------------------------------------------------------------------------
(* Files of bytes of eight values.                                         *)

\* Every text of n of the words.
Texts(words, n) == {FlattenSeq(t) : t \in [1 .. n -> words]}

MCFiles ==
  \* Strings that repeat, within each other and across, and pairs beside the special byte.
  Texts({<<1, 2, 1>>, <<2, 2, 1>>}, 7) \cup Texts({<<0, 2, 0>>, <<2, 2, 0>>}, 6)
  \cup {t \o <<4, 2, 4, 4, 2>> : t \in Texts({<<4, 2>>, <<4>>, <<2, 4, 4>>}, 5)}
  \* Runs up to the longest and past it, and between strings that repeat.
  \cup {[i \in 1 .. n |-> 4] : n \in 3 .. 11}
  \cup {<<3>> \o t \o <<3, 3, 3, 3>> : t \in [1 .. 4 -> {0, 1}]}
  \* A frequent pair before the special byte.
  \cup {<<6, 0, 0, 6, 0, 0, 6, 0, 6, 0, 0, 6, 0, 0, 6, 0, 6, 0, 0, 0, 6, 6, 0, 0, 6, 0, 6, 0, 0, 6, 0>>,
        <<3, 3, 2, 3, 3, 3, 3, 2, 3, 3, 2, 3, 2, 3, 3, 2, 3, 2, 3, 3, 2, 3, 3, 2, 3, 3, 3, 2, 3, 3, 2, 3>>}
  \* A string that begins with the leading null; a dummy entry; no spare byte; a full list.
  \cup {<<1, 0, 1, 1, 1, 1>>, <<6, 6, 6, 6, 0, 6, 6, 6, 6>>, <<0, 4, 5, 0, 4, 0, 4, 0, 4, 4>>, <<3, 0, 2, 4, 5, 6>>,
        <<6, 2, 4, 0, 2, 4, 2, 6, 3, 4, 2, 1, 3, 0, 5, 6, 3, 0, 5, 2, 4, 1, 4, 6, 6, 2, 4, 0, 2, 4, 2, 6>>}

-----------------------------------------------------------------------------
(* The three programs                                                      *)

\* What is not run has one of its programs or files, and waits.
ProgramsInit ==
  /\ part \in {"mcs4", "reeses", "liberty"}
  /\ IF part = "mcs4" THEN prom \in Programs ELSE prom = Nested
  /\ IF part = "reeses" THEN image \in Images ELSE image = Image(<<>>, <<>>, <<>>)
  /\ IF part = "liberty" THEN file \in Files ELSE file = <<>>
  /\ Mcs4Reset
  /\ ReesesReset
  /\ CompressorReset

EmulatorsNext ==
  \/ part = "mcs4" /\ Step /\ UNCHANGED <<part, reesesVars, compressorVars>>
  \/ part = "reeses" /\ ReesesNext /\ UNCHANGED <<part, mcs4Vars, compressorVars>>

ProgramsNext ==
  \/ EmulatorsNext
  \/ part = "liberty" /\ CompressorNext /\ UNCHANGED <<part, mcs4Vars, reesesVars>>

\* Each emulator goes on with its loop.
ProgramsSpec ==
  ProgramsInit /\ [][ProgramsNext]_programsVars /\ WF_programsVars(EmulatorsNext)

\* A program ends, but for an MCS-4 program that comes back to an indirect jump for
\* ever, which costs no cycle (faggin.c:89, mcs4.c:507, cpu.cpp:82).
ProgramEnds == (part = "mcs4" => EndsOrJumps) /\ (part = "reeses" => ProgramStops)

=============================================================================
