--------------------------- MODULE ProgramsProofs ---------------------------
(***************************************************************************)
(* Proofs about the two emulators.  Mcs4, for any programs and any contents *)
(* of RAM: the packed program counters implement the stack of return       *)
(* addresses of CallStack, and every value keeps its width.  Reeses, for   *)
(* every program, size of a word and of a page and length of the table:    *)
(* the processor executes as one with two program counters does, so that   *)
(* it implements DelaySlots; the memory of pages implements FlatMemory;    *)
(* every value keeps its width; and arithmetic and partial loads compute   *)
(* what numbers and bytes at addresses say.                                *)
(***************************************************************************)
EXTENDS Emulators, Loops, SequenceTheorems, TLAPS

(* faggin: Mcs4 *)

Bytes == [0 .. 5 -> 0 .. 255]
Counters == 0 .. 4095

\* What the machine holds has its width; the inductive invariant.
MachineOK ==
  /\ prom \in Programs
  /\ pcs \in Bytes /\ sp \in 0 .. 3
  /\ a \in 0 .. 15 /\ c \in {0, 1} /\ r \in [0 .. 15 -> 0 .. 15]

\* What selects RAM keeps its width too.
SelectionOK == ms \in 0 .. 255 /\ cmram \in 0 .. 15

-----------------------------------------------------------------------------
(* The packed counters                                                     *)

\* Where the parts of each counter are.
LEMMA PcForms ==
  ASSUME NEW bytes
  PROVE  /\ PcOf(bytes, 0) = bytes[0] * 16 + High(bytes[1])
         /\ PcOf(bytes, 1) = Low(bytes[1]) * 256 + bytes[2]
         /\ PcOf(bytes, 2) = bytes[3] * 16 + High(bytes[4])
         /\ PcOf(bytes, 3) = Low(bytes[4]) * 256 + bytes[5]
<1>1. /\ (0 \div 2) * 3 = 0 /\ (1 \div 2) * 3 = 0 /\ (2 \div 2) * 3 = 3 /\ (3 \div 2) * 3 = 3
      /\ 0 % 2 = 0 /\ 1 % 2 = 1 /\ 2 % 2 = 0 /\ 3 % 2 = 1
  OBVIOUS
<1>2. QED
  BY <1>1 DEF PcOf

\* The nibbles of a byte, and a byte of two nibbles.
LEMMA ByteNibbles ==
  ASSUME NEW byte \in 0 .. 255
  PROVE  High(byte) \in 0 .. 15 /\ Low(byte) \in 0 .. 15
BY DEF High, Low

LEMMA Nibbles ==
  ASSUME NEW h \in 0 .. 15, NEW l \in 0 .. 15
  PROVE  h * 16 + l \in 0 .. 255 /\ High(h * 16 + l) = h /\ Low(h * 16 + l) = l
BY DEF High, Low

\* What makes a counter.
LEMMA CounterIs ==
  ASSUME NEW x \in Int, 0 <= x, x <= 4095
  PROVE  x \in Counters
BY DEF Counters

LEMMA ByteCounts ==
  ASSUME NEW x \in 0 .. 255
  PROVE  x \in Counters
<1>1. x \in Int /\ 0 <= x /\ x <= 4095
  OBVIOUS
<1> QED
  BY ONLY <1>1, CounterIs

LEMMA JoinedTyped ==
  ASSUME NEW byte \in 0 .. 255, NEW nibble \in 0 .. 15
  PROVE  byte * 16 + nibble \in Counters /\ nibble * 256 + byte \in Counters
<1>1. byte \in Int /\ 0 <= byte /\ byte <= 255 /\ nibble \in Int /\ 0 <= nibble /\ nibble <= 15
  OBVIOUS
<1>2. byte * 16 + nibble \in Int /\ 0 <= byte * 16 + nibble /\ byte * 16 + nibble <= 4095
  BY <1>1
<1>3. nibble * 256 + byte \in Int /\ 0 <= nibble * 256 + byte /\ nibble * 256 + byte <= 4095
  BY <1>1
<1>4. byte * 16 + nibble \in Counters
  BY ONLY <1>2, CounterIs
<1>5. nibble * 256 + byte \in Counters
  BY ONLY <1>3, CounterIs
<1> QED
  BY <1>4, <1>5

LEMMA PcTyped ==
  ASSUME NEW bytes \in Bytes, NEW i \in 0 .. 3
  PROVE  PcOf(bytes, i) \in Counters
<1>1. \A k \in 0 .. 5 : bytes[k] \in 0 .. 255 /\ High(bytes[k]) \in 0 .. 15 /\ Low(bytes[k]) \in 0 .. 15
  BY ByteNibbles DEF Bytes
<1>2. ASSUME NEW k \in 0 .. 5, NEW m \in 0 .. 5
      PROVE  bytes[k] * 16 + High(bytes[m]) \in Counters
  <2>1. bytes[k] \in 0 .. 255 /\ High(bytes[m]) \in 0 .. 15
    BY <1>1
  <2>2. QED
    BY ONLY <2>1, JoinedTyped
<1>3. ASSUME NEW k \in 0 .. 5, NEW m \in 0 .. 5
      PROVE  Low(bytes[k]) * 256 + bytes[m] \in Counters
  <2>1. Low(bytes[k]) \in 0 .. 15 /\ bytes[m] \in 0 .. 255
    BY <1>1
  <2>2. QED
    BY ONLY <2>1, JoinedTyped
<1>4. i = 0 \/ i = 1 \/ i = 2 \/ i = 3
  OBVIOUS
<1>5. PcOf(bytes, 0) \in Counters /\ PcOf(bytes, 1) \in Counters
  BY <1>2, <1>3, PcForms
<1>6. PcOf(bytes, 2) \in Counters /\ PcOf(bytes, 3) \in Counters
  BY <1>2, <1>3, PcForms
<1>7. QED
  BY <1>4, <1>5, <1>6

\* The parts of a counter, and the counter of its parts.
LEMMA Parts ==
  ASSUME NEW val \in Counters
  PROVE  /\ val \div 16 \in 0 .. 255 /\ (val \div 16) % 256 = val \div 16
         /\ Low(val) \in 0 .. 15 /\ (val \div 16) * 16 + Low(val) = val
         /\ val \div 256 \in 0 .. 15 /\ Low(val \div 256) = val \div 256
         /\ val % 256 \in 0 .. 255 /\ (val \div 256) * 256 + (val % 256) = val
<1>1. /\ val \div 16 \in 0 .. 255 /\ val % 16 \in 0 .. 15 /\ (val \div 16) * 16 + (val % 16) = val
      /\ val \div 256 \in 0 .. 15 /\ val % 256 \in 0 .. 255
      /\ (val \div 256) * 256 + (val % 256) = val
  BY DEF Counters
<1>2. (\A x \in 0 .. 255 : x % 256 = x) /\ (\A x \in 0 .. 15 : x % 16 = x)
  OBVIOUS
<1>3. QED
  BY <1>1, <1>2 DEF Low

LEMMA SetForms ==
  ASSUME NEW bytes, NEW val
  PROVE  /\ SetPc(bytes, 0, val) =
              [bytes EXCEPT ![0] = (val \div 16) % 256, ![1] = Low(val) * 16 + Low(bytes[1])]
         /\ SetPc(bytes, 1, val) =
              [bytes EXCEPT ![1] = High(bytes[1]) * 16 + Low(val \div 256), ![2] = val % 256]
         /\ SetPc(bytes, 2, val) =
              [bytes EXCEPT ![3] = (val \div 16) % 256, ![4] = Low(val) * 16 + Low(bytes[4])]
         /\ SetPc(bytes, 3, val) =
              [bytes EXCEPT ![4] = High(bytes[4]) * 16 + Low(val \div 256), ![5] = val % 256]
<1>1. /\ (0 \div 2) * 3 = 0 /\ (1 \div 2) * 3 = 0 /\ (2 \div 2) * 3 = 3 /\ (3 \div 2) * 3 = 3
      /\ 0 % 2 = 0 /\ 1 % 2 = 1 /\ 2 % 2 = 0 /\ 3 % 2 = 1
      /\ 0 + 1 = 1 /\ 0 + 2 = 2 /\ 3 + 1 = 4 /\ 3 + 2 = 5
  OBVIOUS
<1>2. QED
  BY <1>1 DEF SetPc

\* Writing a counter writes this one and no other.
LEMMA SetThenGet ==
  ASSUME NEW bytes \in Bytes, NEW i \in 0 .. 3, NEW val \in Counters
  PROVE  /\ SetPc(bytes, i, val) \in Bytes
         /\ PcOf(SetPc(bytes, i, val), i) = val
         /\ \A j \in 0 .. 3 \ {i} : PcOf(SetPc(bytes, i, val), j) = PcOf(bytes, j)
<1> DEFINE new == SetPc(bytes, i, val)
<1> HIDE DEF new
<1>1. /\ bytes[0] \in 0 .. 255 /\ bytes[1] \in 0 .. 255 /\ bytes[2] \in 0 .. 255
      /\ bytes[3] \in 0 .. 255 /\ bytes[4] \in 0 .. 255 /\ bytes[5] \in 0 .. 255
  BY DEF Bytes
<1>2. /\ High(bytes[1]) \in 0 .. 15 /\ Low(bytes[1]) \in 0 .. 15
      /\ High(bytes[4]) \in 0 .. 15 /\ Low(bytes[4]) \in 0 .. 15
  BY <1>1, ByteNibbles
<1>3. /\ PcOf(bytes, 0) = bytes[0] * 16 + High(bytes[1]) /\ PcOf(new, 0) = new[0] * 16 + High(new[1])
      /\ PcOf(bytes, 1) = Low(bytes[1]) * 256 + bytes[2] /\ PcOf(new, 1) = Low(new[1]) * 256 + new[2]
      /\ PcOf(bytes, 2) = bytes[3] * 16 + High(bytes[4]) /\ PcOf(new, 2) = new[3] * 16 + High(new[4])
      /\ PcOf(bytes, 3) = Low(bytes[4]) * 256 + bytes[5] /\ PcOf(new, 3) = Low(new[4]) * 256 + new[5]
  BY PcForms
<1>4. i = 0 \/ i = 1 \/ i = 2 \/ i = 3
  OBVIOUS
<1>5. CASE i = 0
  <2>1. new = [bytes EXCEPT ![0] = (val \div 16) % 256, ![1] = Low(val) * 16 + Low(bytes[1])]
    BY <1>5, SetForms DEF new
  <2>2. /\ new[0] = val \div 16 /\ new[1] = Low(val) * 16 + Low(bytes[1])
        /\ new[2] = bytes[2] /\ new[3] = bytes[3] /\ new[4] = bytes[4] /\ new[5] = bytes[5]
    <3> DEFINE u == (val \div 16) % 256
               v == Low(val) * 16 + Low(bytes[1])
    <3>1. new = [bytes EXCEPT ![0] = u, ![1] = v]
      BY <2>1
    <3> HIDE DEF u, v
    <3>2. new[0] = u /\ new[1] = v /\ new[2] = bytes[2] /\ new[3] = bytes[3] /\ new[4] = bytes[4] /\ new[5] = bytes[5]
      BY <3>1 DEF Bytes
    <3>3. QED
      BY <3>2, Parts DEF u, v
  <2>3. new[1] \in 0 .. 255 /\ High(new[1]) = Low(val) /\ Low(new[1]) = Low(bytes[1])
    <3>1. Low(val) \in 0 .. 15 /\ Low(bytes[1]) \in 0 .. 15
      BY <1>2, Parts
    <3>2. QED
      BY <2>2, <3>1, Nibbles
  <2>4. new \in Bytes
    <3>1. (val \div 16) % 256 \in 0 .. 255 /\ Low(val) \in 0 .. 15
      BY Parts
    <3>2. Low(val) * 16 + Low(bytes[1]) \in 0 .. 255
      BY <1>2, <3>1
    <3>3. QED
      BY <2>1, <3>1, <3>2 DEF Bytes
  <2>5. PcOf(new, 0) = val
    BY <1>3, <2>2, <2>3, Parts
  <2>6. \A j \in 0 .. 3 \ {i} : PcOf(new, j) = PcOf(bytes, j)
    <3>1. \A j \in 0 .. 3 \ {i} : j = 1 \/ j = 2 \/ j = 3
      BY <1>5
    <3>2. PcOf(new, 1) = PcOf(bytes, 1) /\ PcOf(new, 2) = PcOf(bytes, 2) /\ PcOf(new, 3) = PcOf(bytes, 3)
      BY <1>3, <2>2, <2>3
    <3>3. QED
      BY <3>1, <3>2
  <2>7. QED
    BY <1>5, <2>4, <2>5, <2>6 DEF new
<1>6. CASE i = 1
  <2>1. new = [bytes EXCEPT ![1] = High(bytes[1]) * 16 + Low(val \div 256), ![2] = val % 256]
    BY <1>6, SetForms DEF new
  <2>2. /\ new[1] = High(bytes[1]) * 16 + (val \div 256) /\ new[2] = val % 256
        /\ new[0] = bytes[0] /\ new[3] = bytes[3] /\ new[4] = bytes[4] /\ new[5] = bytes[5]
    <3> DEFINE u == val % 256
               v == High(bytes[1]) * 16 + Low(val \div 256)
    <3>1. new = [bytes EXCEPT ![1] = v, ![2] = u]
      BY <2>1
    <3> HIDE DEF u, v
    <3>2. new[2] = u /\ new[1] = v /\ new[0] = bytes[0] /\ new[3] = bytes[3] /\ new[4] = bytes[4] /\ new[5] = bytes[5]
      BY <3>1 DEF Bytes
    <3>3. QED
      BY <3>2, Parts DEF u, v
  <2>3. new[1] \in 0 .. 255 /\ High(new[1]) = High(bytes[1]) /\ Low(new[1]) = val \div 256
    <3>1. High(bytes[1]) \in 0 .. 15 /\ val \div 256 \in 0 .. 15
      BY <1>2, Parts
    <3>2. QED
      BY <2>2, <3>1, Nibbles
  <2>4. new \in Bytes
    <3>1. val % 256 \in 0 .. 255 /\ Low(val \div 256) \in 0 .. 15
      BY Parts
    <3>2. High(bytes[1]) * 16 + Low(val \div 256) \in 0 .. 255
      BY <1>2, <3>1
    <3>3. QED
      BY <2>1, <3>1, <3>2 DEF Bytes
  <2>5. PcOf(new, 1) = val
    BY <1>3, <2>2, <2>3, Parts
  <2>6. \A j \in 0 .. 3 \ {i} : PcOf(new, j) = PcOf(bytes, j)
    <3>1. \A j \in 0 .. 3 \ {i} : j = 0 \/ j = 2 \/ j = 3
      BY <1>6
    <3>2. PcOf(new, 0) = PcOf(bytes, 0) /\ PcOf(new, 2) = PcOf(bytes, 2) /\ PcOf(new, 3) = PcOf(bytes, 3)
      BY <1>3, <2>2, <2>3
    <3>3. QED
      BY <3>1, <3>2
  <2>7. QED
    BY <1>6, <2>4, <2>5, <2>6 DEF new
<1>7. CASE i = 2
  <2>1. new = [bytes EXCEPT ![3] = (val \div 16) % 256, ![4] = Low(val) * 16 + Low(bytes[4])]
    BY <1>7, SetForms DEF new
  <2>2. /\ new[3] = val \div 16 /\ new[4] = Low(val) * 16 + Low(bytes[4])
        /\ new[0] = bytes[0] /\ new[1] = bytes[1] /\ new[2] = bytes[2] /\ new[5] = bytes[5]
    <3> DEFINE u == (val \div 16) % 256
               v == Low(val) * 16 + Low(bytes[4])
    <3>1. new = [bytes EXCEPT ![3] = u, ![4] = v]
      BY <2>1
    <3> HIDE DEF u, v
    <3>2. new[3] = u /\ new[4] = v /\ new[0] = bytes[0] /\ new[1] = bytes[1] /\ new[2] = bytes[2] /\ new[5] = bytes[5]
      BY <3>1 DEF Bytes
    <3>3. QED
      BY <3>2, Parts DEF u, v
  <2>3. new[4] \in 0 .. 255 /\ High(new[4]) = Low(val) /\ Low(new[4]) = Low(bytes[4])
    <3>1. Low(val) \in 0 .. 15 /\ Low(bytes[4]) \in 0 .. 15
      BY <1>2, Parts
    <3>2. QED
      BY <2>2, <3>1, Nibbles
  <2>4. new \in Bytes
    <3>1. (val \div 16) % 256 \in 0 .. 255 /\ Low(val) \in 0 .. 15
      BY Parts
    <3>2. Low(val) * 16 + Low(bytes[4]) \in 0 .. 255
      BY <1>2, <3>1
    <3>3. QED
      BY <2>1, <3>1, <3>2 DEF Bytes
  <2>5. PcOf(new, 2) = val
    BY <1>3, <2>2, <2>3, Parts
  <2>6. \A j \in 0 .. 3 \ {i} : PcOf(new, j) = PcOf(bytes, j)
    <3>1. \A j \in 0 .. 3 \ {i} : j = 0 \/ j = 1 \/ j = 3
      BY <1>7
    <3>2. PcOf(new, 0) = PcOf(bytes, 0) /\ PcOf(new, 1) = PcOf(bytes, 1) /\ PcOf(new, 3) = PcOf(bytes, 3)
      BY <1>3, <2>2, <2>3
    <3>3. QED
      BY <3>1, <3>2
  <2>7. QED
    BY <1>7, <2>4, <2>5, <2>6 DEF new
<1>8. CASE i = 3
  <2>1. new = [bytes EXCEPT ![4] = High(bytes[4]) * 16 + Low(val \div 256), ![5] = val % 256]
    BY <1>8, SetForms DEF new
  <2>2. /\ new[4] = High(bytes[4]) * 16 + (val \div 256) /\ new[5] = val % 256
        /\ new[0] = bytes[0] /\ new[1] = bytes[1] /\ new[2] = bytes[2] /\ new[3] = bytes[3]
    <3> DEFINE u == val % 256
               v == High(bytes[4]) * 16 + Low(val \div 256)
    <3>1. new = [bytes EXCEPT ![4] = v, ![5] = u]
      BY <2>1
    <3> HIDE DEF u, v
    <3>2. new[5] = u /\ new[4] = v /\ new[0] = bytes[0] /\ new[1] = bytes[1] /\ new[2] = bytes[2] /\ new[3] = bytes[3]
      BY <3>1 DEF Bytes
    <3>3. QED
      BY <3>2, Parts DEF u, v
  <2>3. new[4] \in 0 .. 255 /\ High(new[4]) = High(bytes[4]) /\ Low(new[4]) = val \div 256
    <3>1. High(bytes[4]) \in 0 .. 15 /\ val \div 256 \in 0 .. 15
      BY <1>2, Parts
    <3>2. QED
      BY <2>2, <3>1, Nibbles
  <2>4. new \in Bytes
    <3>1. val % 256 \in 0 .. 255 /\ Low(val \div 256) \in 0 .. 15
      BY Parts
    <3>2. High(bytes[4]) * 16 + Low(val \div 256) \in 0 .. 255
      BY <1>2, <3>1
    <3>3. QED
      BY <2>1, <3>1, <3>2 DEF Bytes
  <2>5. PcOf(new, 3) = val
    BY <1>3, <2>2, <2>3, Parts
  <2>6. \A j \in 0 .. 3 \ {i} : PcOf(new, j) = PcOf(bytes, j)
    <3>1. \A j \in 0 .. 3 \ {i} : j = 0 \/ j = 1 \/ j = 2
      BY <1>8
    <3>2. PcOf(new, 0) = PcOf(bytes, 0) /\ PcOf(new, 1) = PcOf(bytes, 1) /\ PcOf(new, 2) = PcOf(bytes, 2)
      BY <1>3, <2>2, <2>3
    <3>3. QED
      BY <3>1, <3>2
  <2>7. QED
    BY <1>8, <2>4, <2>5, <2>6 DEF new
<1>9. QED
  BY <1>4, <1>5, <1>6, <1>7, <1>8

-----------------------------------------------------------------------------
(* What the instructions compute stays in its width                        *)

\* A byte of the program, and the address after one.
LEMMA Fetched ==
  ASSUME Mcs4Assumption, prom \in Programs, NEW x \in Counters
  PROVE  ByteAt(x) \in 0 .. 255
<1> DEFINE i == x % 2048
<1>1. i \in DOMAIN prom => prom[i] \in 0 .. 255
  BY DEF Mcs4Assumption
<1>2. QED
  BY <1>1 DEF ByteAt

LEMMA NextTyped ==
  ASSUME NEW x \in Counters
  PROVE  Next1(x) \in Counters
<1>1. x \div 256 \in 0 .. 15 /\ (x + 1) % 256 \in 0 .. 255
  BY DEF Counters
<1>2. QED
  BY <1>1, JoinedTyped DEF Next1

\* An address of a page of the one and an offset within a page.
LEMMA PageTyped ==
  ASSUME NEW x \in Counters, NEW byte \in 0 .. 255
  PROVE  (x \div 256) * 256 + byte \in Counters
<1>1. x \div 256 \in 0 .. 15
  BY DEF Counters
<1>2. QED
  BY <1>1, JoinedTyped

LEMMA FlagTyped ==
  ASSUME NEW holds \in BOOLEAN
  PROVE  Flag(holds) \in {0, 1}
BY DEF Flag

LEMMA OrTyped ==
  ASSUME NEW nibble \in 0 .. 15, NEW x \in Counters
  PROVE  OrPage(nibble, x) \in Counters
<1> DEFINE Digit(b) == Flag(((nibble \div b) % 2) + (((x \div 256) \div b) % 2) > 0)
           page == 1 * Digit(1) + 2 * Digit(2) + 4 * Digit(4) + 8 * Digit(8)
<1>1. Digit(1) \in {0, 1} /\ Digit(2) \in {0, 1} /\ Digit(4) \in {0, 1} /\ Digit(8) \in {0, 1}
  BY DEF Flag
<1>2. OrPage(nibble, x) = page * 256 + (x % 256)
  BY DEF OrPage
<1> HIDE DEF Digit
<1>3. page \in 0 .. 15
  BY <1>1
<1>4. x % 256 \in 0 .. 255
  BY DEF Counters
<1> HIDE DEF page
<1>5. QED
  BY <1>2, <1>3, <1>4, JoinedTyped

\* Writing the running counter keeps the return addresses.
LEMMA RunningOnly ==
  ASSUME NEW bytes \in Bytes, NEW x \in Counters
  PROVE  /\ SetPc(bytes, 0, x) \in Bytes /\ PcOf(SetPc(bytes, 0, x), 0) = x
         /\ \A j \in 1 .. 3 : PcOf(SetPc(bytes, 0, x), j) = PcOf(bytes, j)
<1>1. \A j \in 1 .. 3 : j \in 0 .. 3 \ {0}
  OBVIOUS
<1>2. QED
  BY <1>1, SetThenGet

-----------------------------------------------------------------------------
(* The stack of return addresses                                           *)

Calls(bytes, n) == [i \in 1 .. n |-> PcOf(bytes, i)]

LEMMA CallsTyped ==
  ASSUME NEW bytes \in Bytes, NEW n \in 0 .. 3
  PROVE  /\ Calls(bytes, n) \in Seq(Counters) /\ Len(Calls(bytes, n)) = n
         /\ \A i \in 1 .. n : Calls(bytes, n)[i] = PcOf(bytes, i)
<1>1. \A i \in 1 .. n : PcOf(bytes, i) \in Counters
  BY PcTyped
<1>2. QED
  BY <1>1 DEF Calls

\* A sequence with one more in front, and one less.
LEMMA PushedSeq ==
  ASSUME NEW old \in Seq(Counters), NEW new \in Seq(Counters), NEW x \in Counters,
         Len(new) = Len(old) + 1, new[1] = x, \A j \in 1 .. Len(old) : new[j + 1] = old[j]
  PROVE  new = <<x>> \o old
<1>1. /\ <<x>> \in Seq(Counters) /\ Len(<<x>>) = 1 /\ <<x>>[1] = x /\ Len(old) \in Nat
  OBVIOUS
<1>2. /\ <<x>> \o old \in Seq(Counters) /\ Len(<<x>> \o old) = 1 + Len(old)
      /\ \A i \in 1 .. 1 + Len(old) :
           (<<x>> \o old)[i] = IF i <= 1 THEN <<x>>[i] ELSE old[i - 1]
  BY <1>1, ConcatProperties
<1>3. ASSUME NEW i \in 1 .. Len(new)
      PROVE  new[i] = (<<x>> \o old)[i]
  <2>1. CASE i = 1
    BY <1>1, <1>2, <2>1
  <2>2. CASE i # 1
    <3>1. i - 1 \in 1 .. Len(old) /\ (i - 1) + 1 = i
      BY <1>1, <2>2
    <3>2. new[i] = old[i - 1]
      BY <3>1
    <3>3. QED
      BY <1>1, <1>2, <2>2, <3>2
  <2>3. QED
    BY <2>1, <2>2
<1>4. Len(new) = Len(<<x>> \o old)
  BY <1>1, <1>2
<1>5. QED
  BY <1>2, <1>3, <1>4, SeqEqual

LEMMA PoppedSeq ==
  ASSUME NEW old \in Seq(Counters), NEW new \in Seq(Counters), old # <<>>,
         Len(new) = Len(old) - 1, \A j \in 1 .. Len(new) : new[j] = old[j + 1]
  PROVE  new = Tail(old)
<1>1. /\ Tail(old) \in Seq(Counters) /\ Len(Tail(old)) = Len(old) - 1
      /\ \A i \in 1 .. Len(Tail(old)) : Tail(old)[i] = old[i + 1]
  BY HeadTailProperties
<1>2. QED
  BY <1>1, SeqEqual

\* Writing the running counter is a step of the program counter alone.
LEMMA GoStep ==
  ASSUME MachineOK, NEW x \in Counters, pcs' = SetPc(pcs, 0, x), sp' = sp
  PROVE  pcs' \in Bytes /\ Abstract!Go
<1>1. /\ pcs' \in Bytes /\ PcOf(pcs', 0) = x
      /\ \A j \in 1 .. 3 : PcOf(pcs', j) = PcOf(pcs, j)
  BY RunningOnly DEF MachineOK
<1>2. [i \in 1 .. sp' |-> PcOf(pcs', i)] = [i \in 1 .. sp |-> PcOf(pcs, i)]
  <2>1. 1 .. sp \subseteq 1 .. 3
    BY DEF MachineOK
  <2>2. QED
    BY <1>1, <2>1
<1>3. Here' = x
  BY <1>1 DEF Here
<1>4. x \in Abstract!Addresses
  BY DEF Abstract!Addresses, Counters
<1>5. QED
  BY <1>1, <1>2, <1>3, <1>4 DEF Abstract!Go

\* The two ways an instruction ends that does not jump.
LEMMA OnStep ==
  ASSUME MachineOK, sp' = sp, pcs' = Advanced \/ pcs' = Passed
  PROVE  pcs' \in Bytes /\ Abstract!Go
<1>1. Here \in Counters
  BY PcTyped DEF MachineOK, Here
<1>2. Next1(Here) \in Counters /\ Next1(Next1(Here)) \in Counters
  BY <1>1, NextTyped
<1>3. QED
  BY <1>2, GoStep DEF Advanced, Passed

\* Moving one counter over another.
LEMMA MovedPc ==
  ASSUME NEW bytes \in Bytes, NEW i \in 0 .. 3, NEW j \in 0 .. 3
  PROVE  /\ Moved(bytes, i, j) \in Bytes
         /\ PcOf(Moved(bytes, i, j), i) = PcOf(bytes, j)
         /\ \A k \in 0 .. 3 \ {i} : PcOf(Moved(bytes, i, j), k) = PcOf(bytes, k)
<1>1. PcOf(bytes, j) \in Counters
  BY PcTyped
<1>2. QED
  BY <1>1, SetThenGet DEF Moved

\* A push moves every counter up to the new top one up, a pop one down.
LEMMA PushedPc ==
  ASSUME NEW bytes \in Bytes, NEW top \in 1 .. 3
  PROVE  /\ Pushed(bytes, top) \in Bytes
         /\ \A j \in 1 .. top : PcOf(Pushed(bytes, top), j) = PcOf(bytes, j - 1)
<1> DEFINE Done(new, n) == new \in Bytes /\ \A j \in 1 .. n : PcOf(new, j) = PcOf(bytes, j - 1)
<1>1. top = 1 \/ top = 2 \/ top = 3
  OBVIOUS
<1>2. CASE top = 1
  <2>1. Pushed(bytes, top) = Moved(bytes, 1, 0)
    BY <1>2 DEF Pushed
  <2>2. Done(Moved(bytes, 1, 0), 1)
    BY MovedPc
  <2>3. QED
    BY <1>2, <2>1, <2>2
<1>3. CASE top = 2
  <2> DEFINE one == Moved(bytes, 2, 1)
             two == Moved(one, 1, 0)
  <2>1. Pushed(bytes, top) = two
    BY <1>3 DEF Pushed
  <2>2. /\ one \in Bytes /\ PcOf(one, 2) = PcOf(bytes, 1) /\ PcOf(one, 0) = PcOf(bytes, 0)
    BY MovedPc
  <2> HIDE DEF one
  <2>3. /\ two \in Bytes /\ PcOf(two, 1) = PcOf(one, 0) /\ PcOf(two, 2) = PcOf(one, 2)
    BY <2>2, MovedPc
  <2> HIDE DEF two
  <2>4. Done(two, 2)
    BY <2>2, <2>3
  <2>5. QED
    BY <1>3, <2>1, <2>4
<1>4. CASE top = 3
  <2> DEFINE one == Moved(bytes, 3, 2)
             two == Moved(one, 2, 1)
             three == Moved(two, 1, 0)
  <2>1. Pushed(bytes, top) = three
    BY <1>4 DEF Pushed
  <2>2. /\ one \in Bytes /\ PcOf(one, 3) = PcOf(bytes, 2)
        /\ PcOf(one, 0) = PcOf(bytes, 0) /\ PcOf(one, 1) = PcOf(bytes, 1)
    BY MovedPc
  <2> HIDE DEF one
  <2>3. /\ two \in Bytes /\ PcOf(two, 2) = PcOf(one, 1)
        /\ PcOf(two, 0) = PcOf(one, 0) /\ PcOf(two, 3) = PcOf(one, 3)
    BY <2>2, MovedPc
  <2> HIDE DEF two
  <2>4. /\ three \in Bytes /\ PcOf(three, 1) = PcOf(two, 0)
        /\ PcOf(three, 2) = PcOf(two, 2) /\ PcOf(three, 3) = PcOf(two, 3)
    BY <2>3, MovedPc
  <2> HIDE DEF three
  <2>5. Done(three, 3)
    BY <2>2, <2>3, <2>4
  <2>6. QED
    BY <1>4, <2>1, <2>5
<1>5. QED
  BY <1>1, <1>2, <1>3, <1>4

LEMMA PoppedPc ==
  ASSUME NEW bytes \in Bytes, NEW top \in 1 .. 3
  PROVE  /\ Popped(bytes, top) \in Bytes
         /\ \A j \in 1 .. top : PcOf(Popped(bytes, top), j - 1) = PcOf(bytes, j)
<1> DEFINE Done(new, n) == new \in Bytes /\ \A j \in 1 .. n : PcOf(new, j - 1) = PcOf(bytes, j)
<1>1. top = 1 \/ top = 2 \/ top = 3
  OBVIOUS
<1>2. CASE top = 1
  <2>1. Popped(bytes, top) = Moved(bytes, 0, 1)
    BY <1>2 DEF Popped
  <2>2. Done(Moved(bytes, 0, 1), 1)
    BY MovedPc
  <2>3. QED
    BY <1>2, <2>1, <2>2
<1>3. CASE top = 2
  <2> DEFINE one == Moved(bytes, 0, 1)
             two == Moved(one, 1, 2)
  <2>1. Popped(bytes, top) = two
    BY <1>3 DEF Popped
  <2>2. /\ one \in Bytes /\ PcOf(one, 0) = PcOf(bytes, 1) /\ PcOf(one, 2) = PcOf(bytes, 2)
    BY MovedPc
  <2> HIDE DEF one
  <2>3. /\ two \in Bytes /\ PcOf(two, 1) = PcOf(one, 2) /\ PcOf(two, 0) = PcOf(one, 0)
    BY <2>2, MovedPc
  <2> HIDE DEF two
  <2>4. Done(two, 2)
    BY <2>2, <2>3
  <2>5. QED
    BY <1>3, <2>1, <2>4
<1>4. CASE top = 3
  <2> DEFINE one == Moved(bytes, 0, 1)
             two == Moved(one, 1, 2)
             three == Moved(two, 2, 3)
  <2>1. Popped(bytes, top) = three
    BY <1>4 DEF Popped
  <2>2. /\ one \in Bytes /\ PcOf(one, 0) = PcOf(bytes, 1)
        /\ PcOf(one, 2) = PcOf(bytes, 2) /\ PcOf(one, 3) = PcOf(bytes, 3)
    BY MovedPc
  <2> HIDE DEF one
  <2>3. /\ two \in Bytes /\ PcOf(two, 1) = PcOf(one, 2)
        /\ PcOf(two, 0) = PcOf(one, 0) /\ PcOf(two, 3) = PcOf(one, 3)
    BY <2>2, MovedPc
  <2> HIDE DEF two
  <2>4. /\ three \in Bytes /\ PcOf(three, 2) = PcOf(two, 3)
        /\ PcOf(three, 0) = PcOf(two, 0) /\ PcOf(three, 1) = PcOf(two, 1)
    BY <2>3, MovedPc
  <2> HIDE DEF three
  <2>5. Done(three, 3)
    BY <2>2, <2>3, <2>4
  <2>6. QED
    BY <1>4, <2>1, <2>5
<1>5. QED
  BY <1>1, <1>2, <1>3, <1>4

-----------------------------------------------------------------------------
(* The instructions                                                        *)

\* What an instruction reads: its two bytes, registers, a pair of them.
LEMMA Readings ==
  ASSUME Mcs4Assumption, MachineOK
  PROVE  /\ Here \in Counters /\ Next1(Here) \in Counters /\ Next1(Next1(Here)) \in Counters
         /\ Op \in 0 .. 255 /\ High(Op) \in 0 .. 15 /\ Low(Op) \in 0 .. 15
         /\ Operand \in 0 .. 255 /\ r[Low(Op)] \in 0 .. 15
<1>1. Here \in Counters
  BY PcTyped DEF MachineOK, Here
<1>2. Next1(Here) \in Counters
  BY <1>1, NextTyped
<1>3. Next1(Next1(Here)) \in Counters
  BY <1>2, NextTyped
<1>4. Op \in 0 .. 255 /\ Operand \in 0 .. 255
  BY <1>1, <1>2, Fetched DEF MachineOK, Op, Operand
<1>5. High(Op) \in 0 .. 15 /\ Low(Op) \in 0 .. 15
  BY <1>4, ByteNibbles
<1>6. QED
  BY <1>1, <1>2, <1>3, <1>4, <1>5 DEF MachineOK

LEMMA PairTyped ==
  ASSUME MachineOK, NEW p \in 0 .. 7
  PROVE  Pair(p) \in 0 .. 255
<1>1. 2 * p \in 0 .. 15 /\ 2 * p + 1 \in 0 .. 15
  OBVIOUS
<1>2. r[2 * p] \in 0 .. 15 /\ r[2 * p + 1] \in 0 .. 15
  BY <1>1 DEF MachineOK
<1>3. QED
  BY <1>2, Nibbles DEF Pair

LEMMA SetPairTyped ==
  ASSUME MachineOK, NEW p \in 0 .. 7, NEW byte \in 0 .. 255
  PROVE  SetPair(p, byte) \in [0 .. 15 -> 0 .. 15]
<1>1. 2 * p \in 0 .. 15 /\ 2 * p + 1 \in 0 .. 15
  OBVIOUS
<1>2. High(byte) \in 0 .. 15 /\ Low(byte) \in 0 .. 15
  BY ByteNibbles
<1>3. QED
  BY <1>1, <1>2 DEF SetPair, MachineOK

LEMMA HalfTyped ==
  ASSUME NEW nibble \in 0 .. 15
  PROVE  nibble \div 2 \in 0 .. 7
OBVIOUS

\* What every step but a call or a return does.
Plain == MachineOK' /\ Abstract!Go

LEMMA SimpleStep ==
  ASSUME MachineOK, NEW newA \in 0 .. 15, NEW newC \in {0, 1}, Simple(newA, newC)
  PROVE  Plain
<1>1. pcs' \in Bytes /\ Abstract!Go
  BY OnStep DEF Simple
<1>2. QED
  BY <1>1 DEF Simple, MachineOK, Plain

LEMMA AddStep ==
  ASSUME MachineOK, NEW n \in 0 .. 15, Add(n)
  PROVE  Plain
<1> DEFINE sum == (a + n + c) % 16
           carry == Flag(a > sum \/ (a = sum /\ c = 1))
<1>1. sum \in 0 .. 15 /\ carry \in {0, 1}
  BY DEF MachineOK, Flag
<1>2. Simple(sum, carry)
  BY DEF Add
<1> HIDE DEF sum, carry
<1>3. QED
  BY <1>1, <1>2, SimpleStep

LEMMA SubStep ==
  ASSUME MachineOK, NEW n \in 0 .. 15, Sub(n)
  PROVE  Plain
<1> DEFINE diff == (a + 32 - n - c - 2) % 16
           carry == Flag(a >= diff)
<1>1. diff \in 0 .. 15 /\ carry \in {0, 1}
  BY DEF MachineOK, Flag
<1>2. Simple(diff, carry)
  BY DEF Sub
<1> HIDE DEF diff, carry
<1>3. QED
  BY <1>1, <1>2, SimpleStep

LEMMA ArithmeticStep ==
  ASSUME Mcs4Assumption, MachineOK, Arithmetic
  PROVE  Plain
<1>1. Low(Op) \in 0 .. 15 /\ r[Low(Op)] \in 0 .. 15 /\ c \in {0, 1}
  BY Readings DEF MachineOK
<1>2. CASE Add(r[Low(Op)])
  BY <1>1, <1>2, AddStep
<1>3. CASE Sub(r[Low(Op)])
  BY <1>1, <1>3, SubStep
<1>4. CASE Simple(r[Low(Op)], c)
  BY <1>1, <1>4, SimpleStep
<1>5. CASE Simple(Low(Op), c)
  BY <1>1, <1>5, SimpleStep
<1>6. QED
  BY <1>2, <1>3, <1>4, <1>5 DEF Arithmetic

LEMMA MemoryStep ==
  ASSUME Mcs4Assumption, MachineOK, Memory
  PROVE  Plain
<1>1. PICK m \in RamValues : Sub(m) \/ Simple(m, c) \/ Add(m)
  BY DEF Memory
<1>2. m \in 0 .. 15 /\ c \in {0, 1}
  BY DEF Mcs4Assumption, MachineOK
<1>3. QED
  BY <1>1, <1>2, SubStep, SimpleStep, AddStep

LEMMA KeysTyped ==
  ASSUME NEW n \in 0 .. 15
  PROVE  Keys[n] \in 0 .. 15
<1>1. Keys[n] = CASE n <= 2 -> n [] n = 4 -> 3 [] n = 8 -> 4 [] OTHER -> 15
  BY DEF Keys
<1>2. CASE n <= 2
  <2>1. n # 4 /\ n # 8
    BY <1>2
  <2>2. QED
    BY <1>1, <1>2, <2>1
<1>3. CASE n > 2
  <2>1. ~ (n <= 2)
    BY <1>3
  <2>2. QED
    BY <1>1, <2>1
<1>4. QED
  BY <1>2, <1>3

LEMMA AccumulatorStep ==
  ASSUME MachineOK, Accumulator
  PROVE  Plain
<1> DEFINE left == ((2 * a) % 16) + c
           adjusted == IF a > 9 \/ c = 1 THEN (a + 6) % 16 ELSE a
<1>1. a \in 0 .. 15 /\ c \in {0, 1}
  BY DEF MachineOK
<1>2. \/ Simple(0, 0) \/ Simple(a, 0) \/ Simple((a + 1) % 16, Flag(a = 15))
      \/ Simple(a, 1 - c) \/ Simple(15 - a, c)
      \/ Simple(left, Flag(a >= left /\ c = 1)) \/ Simple(a \div 2 + 8 * c, a % 2)
      \/ Simple(c, 0) \/ Simple((a + 15) % 16, Flag(a # 0)) \/ Simple(9 + c, 0)
      \/ Simple(a, 1) \/ Simple(adjusted, Flag(a > adjusted)) \/ Simple(Keys[a], c)
  BY DEF Accumulator
<1>3. CASE Simple(0, 0) \/ Simple(a, 0) \/ Simple(a, 1) \/ Simple(c, 0)
  <2>1. c \in 0 .. 15 /\ 0 \in 0 .. 15 /\ 0 \in {0, 1} /\ 1 \in {0, 1}
    BY <1>1
  <2>2. QED
    BY <1>1, <1>3, <2>1, SimpleStep
<1>4. CASE Simple((a + 1) % 16, Flag(a = 15))
  <2>1. (a + 1) % 16 \in 0 .. 15 /\ Flag(a = 15) \in {0, 1}
    BY <1>1 DEF Flag
  <2>2. QED
    BY <1>4, <2>1, SimpleStep
<1>5. CASE Simple(a, 1 - c) \/ Simple(15 - a, c)
  <2>1. 1 - c \in {0, 1} /\ 15 - a \in 0 .. 15
    BY <1>1
  <2>2. QED
    BY <1>1, <1>5, <2>1, SimpleStep
<1>6. CASE Simple(left, Flag(a >= left /\ c = 1))
  <2>1. left \in 0 .. 15 /\ Flag(a >= left /\ c = 1) \in {0, 1}
    BY <1>1 DEF Flag
  <2> HIDE DEF left
  <2>2. QED
    BY <1>6, <2>1, SimpleStep
<1>7. CASE Simple(a \div 2 + 8 * c, a % 2)
  <2>1. a \div 2 + 8 * c \in 0 .. 15 /\ a % 2 \in {0, 1}
    BY <1>1
  <2>2. QED
    BY <1>7, <2>1, SimpleStep
<1>8. CASE Simple((a + 15) % 16, Flag(a # 0))
  <2>1. (a + 15) % 16 \in 0 .. 15 /\ Flag(a # 0) \in {0, 1}
    BY <1>1 DEF Flag
  <2>2. QED
    BY <1>8, <2>1, SimpleStep
<1>9. CASE Simple(9 + c, 0)
  <2>1. 9 + c \in 0 .. 15 /\ 0 \in {0, 1}
    BY <1>1
  <2>2. QED
    BY <1>9, <2>1, SimpleStep
<1>10. CASE Simple(adjusted, Flag(a > adjusted))
  <2>1. adjusted \in 0 .. 15 /\ Flag(a > adjusted) \in {0, 1}
    BY <1>1 DEF Flag
  <2> HIDE DEF adjusted
  <2>2. QED
    BY <1>10, <2>1, SimpleStep
<1>11. CASE Simple(Keys[a], c)
  BY <1>1, <1>11, KeysTyped, SimpleStep
<1>12. QED
  BY <1>2, <1>3, <1>4, <1>5, <1>6, <1>7, <1>8, <1>9, <1>10, <1>11

\* Jumps and the instructions of two bytes.
LEMMA JumpStep ==
  ASSUME Mcs4Assumption, MachineOK, JCN \/ FIM \/ FIN \/ JIN \/ JUN \/ ISZ
  PROVE  Plain
<1>1. /\ Here \in Counters /\ Next1(Here) \in Counters /\ Op \in 0 .. 255
      /\ Low(Op) \in 0 .. 15 /\ Operand \in 0 .. 255 /\ r[Low(Op)] \in 0 .. 15
  BY Readings
<1>2. Low(Op) \div 2 \in 0 .. 7
  BY <1>1, HalfTyped
<1>3. CASE JCN
  <2>1. Operand \in Counters
    BY <1>1, ByteCounts
  <2>2. pcs' \in Bytes /\ Abstract!Go
    BY <1>3, <2>1, GoStep, OnStep DEF JCN
  <2>3. QED
    BY <1>3, <2>2 DEF JCN, MachineOK, Plain
<1>4. CASE FIM
  <2>1. r' \in [0 .. 15 -> 0 .. 15]
    BY <1>1, <1>2, <1>4, SetPairTyped DEF FIM
  <2>2. pcs' \in Bytes /\ Abstract!Go
    BY <1>4, OnStep DEF FIM
  <2>3. QED
    BY <1>4, <2>1, <2>2 DEF FIM, MachineOK, Plain
<1>5. CASE FIN
  <2>1. r' \in [0 .. 15 -> 0 .. 15]
    <3>1. Pair(Low(Op) \div 2) \in 0 .. 255
      BY <1>2, PairTyped
    <3>2. QED
      BY <1>2, <1>5, <3>1, SetPairTyped DEF FIN
  <2>2. pcs' \in Bytes /\ Abstract!Go
    BY <1>5, OnStep DEF FIN
  <2>3. QED
    BY <1>5, <2>1, <2>2 DEF FIN, MachineOK, Plain
<1>6. CASE JIN
  <2>1. Low(Here) \in 0 .. 15
    BY <1>1 DEF Low, Counters
  <2>2. Pair(Low(Here) \div 2) \in 0 .. 255
    BY <2>1, HalfTyped, PairTyped
  <2>3. (Here \div 256) * 256 + Pair(Low(Here) \div 2) \in Counters
    BY <1>1, <2>2, PageTyped
  <2>4. pcs' \in Bytes /\ Abstract!Go
    BY <1>6, <2>3, GoStep DEF JIN
  <2>5. QED
    BY <1>6, <2>4 DEF JIN, MachineOK, Plain
<1>7. CASE JUN
  <2>1. Low(Here) \in 0 .. 15
    BY <1>1 DEF Low, Counters
  <2>2. OrPage(Low(Here), Next1(Here)) \in Counters
    BY <1>1, <2>1, OrTyped
  <2>3. pcs' \in Bytes /\ Abstract!Go
    BY <1>7, <2>2, GoStep DEF JUN
  <2>4. QED
    BY <1>7, <2>3 DEF JUN, MachineOK, Plain
<1>8. CASE ISZ
  <2> DEFINE counted == (r[Low(Op)] + 1) % 16
             target == (Next1(Here) \div 256) * 256 + Operand
  <2>1. counted \in 0 .. 15
    BY <1>1
  <2>2. target \in Counters
    BY <1>1, PageTyped
  <2>3. /\ r' = [r EXCEPT ![Low(Op)] = counted] /\ UNCHANGED <<prom, sp, a, c>>
        /\ pcs' = SetPc(pcs, 0, target) \/ pcs' = Passed
    BY <1>8 DEF ISZ
  <2> HIDE DEF counted, target
  <2>4. r' \in [0 .. 15 -> 0 .. 15]
    BY <1>1, <2>1, <2>3 DEF MachineOK
  <2>5. pcs' \in Bytes /\ Abstract!Go
    BY <2>2, <2>3, GoStep, OnStep
  <2>6. QED
    BY <2>3, <2>4, <2>5 DEF MachineOK, Plain
<1>9. QED
  BY <1>3, <1>4, <1>5, <1>6, <1>7, <1>8

\* INC, XCH and the instructions that do nothing here.
LEMMA RegisterStep ==
  ASSUME Mcs4Assumption, MachineOK, Nop \/ INC \/ XCH
  PROVE  Plain
<1>1. Low(Op) \in 0 .. 15 /\ r[Low(Op)] \in 0 .. 15 /\ a \in 0 .. 15 /\ c \in {0, 1}
  BY Readings DEF MachineOK
<1>2. CASE Nop
  BY <1>1, <1>2, SimpleStep DEF Nop
<1>3. CASE INC
  <2>1. (r[Low(Op)] + 1) % 16 \in 0 .. 15
    BY <1>1
  <2>2. r' \in [0 .. 15 -> 0 .. 15]
    BY <1>1, <1>3, <2>1 DEF INC, MachineOK
  <2>3. pcs' \in Bytes /\ Abstract!Go
    BY <1>3, OnStep DEF INC
  <2>4. QED
    BY <1>3, <2>2, <2>3 DEF INC, MachineOK, Plain
<1>4. CASE XCH
  <2>1. r' \in [0 .. 15 -> 0 .. 15] /\ a' \in 0 .. 15
    BY <1>1, <1>4 DEF XCH, MachineOK
  <2>2. pcs' \in Bytes /\ Abstract!Go
    BY <1>4, OnStep DEF XCH
  <2>3. QED
    BY <1>4, <2>1, <2>2 DEF XCH, MachineOK, Plain
<1>5. QED
  BY <1>2, <1>3, <1>4

\* A call pushes the address after it, or forgets every address.
LEMMA CallStep ==
  ASSUME Mcs4Assumption, MachineOK, JMS
  PROVE  MachineOK' /\ Abstract!Call
<1> DEFINE top == (sp + 1) % 4
           target == Low(Op) * 256 + Operand
           return == Next1(Next1(Here))
           pushed == Pushed(Passed, top)
<1>1. Here \in Counters /\ return \in Counters /\ target \in Counters
  BY Readings, JoinedTyped
<1>2. pcs' = SetPc(pushed, 0, target) /\ sp' = top /\ UNCHANGED <<prom, a, c, r>>
  BY DEF JMS
<1>3. sp \in 0 .. 3 /\ pcs \in Bytes /\ top \in 0 .. 3
  BY DEF MachineOK
<1>4. Passed = SetPc(pcs, 0, return)
  BY DEF Passed
<1> HIDE DEF target, return
<1>5. /\ Passed \in Bytes /\ PcOf(Passed, 0) = return
      /\ \A j \in 1 .. 3 : PcOf(Passed, j) = PcOf(pcs, j)
  BY <1>1, <1>3, <1>4, RunningOnly
<1>6. pushed \in Bytes /\ \A j \in 1 .. top : PcOf(pushed, j) = PcOf(Passed, j - 1)
  <2>1. CASE top = 0
    BY <1>5, <2>1 DEF Pushed
  <2>2. CASE top # 0
    <3>1. top \in 1 .. 3
      BY <1>3, <2>2
    <3> HIDE DEF top
    <3>2. QED
      BY <1>5, <3>1, PushedPc
  <2>3. QED
    BY <2>1, <2>2
<1> HIDE DEF pushed
<1>7. /\ pcs' \in Bytes /\ PcOf(pcs', 0) = target
      /\ \A j \in 1 .. 3 : PcOf(pcs', j) = PcOf(pushed, j)
  BY <1>1, <1>2, <1>6, RunningOnly
<1>8. MachineOK'
  BY <1>2, <1>3, <1>7 DEF MachineOK
<1>9. Calls(pcs', sp') = IF Len(Calls(pcs, sp)) = 3 THEN <<>> ELSE <<return>> \o Calls(pcs, sp)
  <2>1. /\ Calls(pcs, sp) \in Seq(Counters) /\ Len(Calls(pcs, sp)) = sp
        /\ \A i \in 1 .. sp : Calls(pcs, sp)[i] = PcOf(pcs, i)
    BY <1>3, CallsTyped
  <2>2. /\ Calls(pcs', sp') \in Seq(Counters) /\ Len(Calls(pcs', sp')) = top
        /\ \A i \in 1 .. top : Calls(pcs', sp')[i] = PcOf(pcs', i)
    BY <1>2, <1>3, <1>7, CallsTyped
  <2>3. CASE sp = 3
    <3>1. top = 0
      BY <2>3
    <3>2. QED
      BY <2>1, <2>2, <2>3, <3>1, EmptySeq
  <2>4. CASE sp # 3
    <3>1. top = sp + 1
      BY <1>3, <2>4
    <3>2. Calls(pcs', sp')[1] = return
      <4>1. 1 \in 1 .. top /\ 1 \in 1 .. 3
        BY <1>3, <3>1
      <4>2. PcOf(pushed, 1) = PcOf(Passed, 0)
        BY <1>6, <4>1
      <4>3. QED
        BY <1>5, <1>7, <2>2, <4>1, <4>2
    <3>3. ASSUME NEW j \in 1 .. sp
          PROVE  Calls(pcs', sp')[j + 1] = Calls(pcs, sp)[j]
      <4>1. j + 1 \in 1 .. top /\ j + 1 \in 1 .. 3 /\ (j + 1) - 1 = j /\ j \in 1 .. 3
        BY <1>3, <3>1
      <4> HIDE DEF top
      <4>2. PcOf(pushed, j + 1) = PcOf(Passed, j)
        BY <1>6, <4>1
      <4>3. PcOf(Passed, j) = PcOf(pcs, j)
        BY <1>5, <4>1
      <4>4. QED
        BY <1>7, <2>1, <2>2, <4>1, <4>2, <4>3
    <3>4. Calls(pcs', sp') = <<return>> \o Calls(pcs, sp)
      BY <1>1, <2>1, <2>2, <3>1, <3>2, <3>3, PushedSeq
    <3>5. QED
      BY <2>1, <2>4, <3>4
  <2>5. QED
    BY <2>3, <2>4
<1>10. Here' \in Abstract!Addresses
  <2>1. Here' = target
    BY <1>7 DEF Here
  <2>2. Counters = Abstract!Addresses
    BY SMT DEF Abstract!Addresses, Counters
  <2>3. target \in Counters
    BY <1>1
  <2>4. QED
    BY <2>1, <2>2, <2>3
<1>11. return = Abstract!After(Abstract!After(Here))
  BY DEF return, Next1, Abstract!After
<1>12. QED
  BY <1>8, <1>9, <1>10, <1>11 DEF Calls, Abstract!Call

\* A return takes the last address; without an open call it steps on.
LEMMA ReturnStep ==
  ASSUME Mcs4Assumption, MachineOK, BBL
  PROVE  MachineOK' /\ (Abstract!Go \/ Abstract!Return)
<1>1. Low(Op) \in 0 .. 15 /\ sp \in 0 .. 3 /\ pcs \in Bytes
  BY Readings DEF MachineOK
<1>2. CASE sp = 0
  <2>1. pcs' = Advanced /\ UNCHANGED <<prom, sp, a, c, r>>
    BY <1>2 DEF BBL
  <2>2. pcs' \in Bytes /\ Abstract!Go
    BY <2>1, OnStep
  <2>3. QED
    BY <2>1, <2>2 DEF MachineOK
<1>3. CASE sp # 0
  <2> DEFINE popped == Popped(pcs, sp)
  <2>1. /\ pcs' = SetPc(popped, sp, 0) /\ sp' = sp - 1 /\ a' = Low(Op)
        /\ UNCHANGED <<prom, c, r>>
    BY <1>1, <1>3 DEF BBL
  <2>2. sp \in 1 .. 3 /\ sp' \in 0 .. 3 /\ 0 \in Counters
    BY <1>1, <1>3, <2>1 DEF Counters
  <2>3. popped \in Bytes /\ \A j \in 1 .. sp : PcOf(popped, j - 1) = PcOf(pcs, j)
    BY <1>1, <2>2, PoppedPc
  <2> HIDE DEF popped
  <2>4. pcs' \in Bytes /\ \A j \in 0 .. 3 \ {sp} : PcOf(pcs', j) = PcOf(popped, j)
    BY <2>1, <2>2, <2>3, SetThenGet
  <2>5. \A j \in 1 .. sp : PcOf(pcs', j - 1) = PcOf(pcs, j)
    <3>1. \A j \in 1 .. sp : j - 1 \in 0 .. 3 \ {sp}
      BY <2>2
    <3>2. QED
      BY <2>3, <2>4, <3>1
  <2>6. MachineOK'
    BY <1>1, <2>1, <2>2, <2>4 DEF MachineOK
  <2>7. /\ Calls(pcs, sp) \in Seq(Counters) /\ Len(Calls(pcs, sp)) = sp
        /\ \A i \in 1 .. sp : Calls(pcs, sp)[i] = PcOf(pcs, i)
    BY <1>1, CallsTyped
  <2>8. /\ Calls(pcs', sp') \in Seq(Counters) /\ Len(Calls(pcs', sp')) = sp - 1
        /\ \A i \in 1 .. sp - 1 : Calls(pcs', sp')[i] = PcOf(pcs', i)
    BY <2>1, <2>2, <2>4, CallsTyped
  <2>9. Calls(pcs, sp) # <<>>
    BY <2>2, <2>7, EmptySeq
  <2>10. Here' = Head(Calls(pcs, sp))
    <3>1. 1 \in 1 .. sp /\ 1 - 1 = 0
      BY <2>2
    <3>2. PcOf(pcs', 0) = Calls(pcs, sp)[1]
      BY <2>5, <2>7, <3>1
    <3>3. QED
      BY <2>7, <2>9, <3>2 DEF Here
  <2>11. ASSUME NEW j \in 1 .. sp - 1
         PROVE  Calls(pcs', sp')[j] = Calls(pcs, sp)[j + 1]
    <3>1. j + 1 \in 1 .. sp /\ (j + 1) - 1 = j
      BY <2>2
    <3>2. PcOf(pcs', j) = PcOf(pcs, j + 1)
      BY <2>5, <3>1
    <3>3. QED
      BY <2>7, <2>8, <3>1, <3>2
  <2>12. Calls(pcs', sp') = Tail(Calls(pcs, sp))
    BY <2>7, <2>8, <2>9, <2>11, PoppedSeq
  <2>13. QED
    BY <2>6, <2>9, <2>10, <2>12 DEF Calls, Abstract!Return
<1>4. QED
  BY <1>2, <1>3

-----------------------------------------------------------------------------

\* What selects RAM or writes it goes on to the next byte and leaves the counters alone,
\* and registers keep their width.
LEMMA RamStep ==
  ASSUME MachineOK, SRC \/ DCL \/ WMP \/ WriteRam
  PROVE  Plain
<1>1. a \in 0 .. 15 /\ c \in {0, 1} /\ r \in [0 .. 15 -> 0 .. 15]
  BY DEF MachineOK
<1>2. CASE SRC \/ DCL
  BY <1>1, <1>2, SimpleStep DEF SRC, DCL
<1>3. CASE WMP \/ WriteRam
  <2>1. pcs' = Advanced /\ UNCHANGED <<prom, sp, a, c>>
    BY <1>3 DEF WMP, WriteRam
  <2>2. r' \in [0 .. 15 -> 0 .. 15]
    <3>1. CASE WMP
      <4> DEFINE k == (ms \div 128) + (IF cmram = 4 THEN 0 ELSE 2)
                 low == (ms \div 64) % 2 = 1
                 even == IF low THEN a ELSE 0
                 odd == IF low THEN 0 ELSE a
      <4>1. r' = r \/ r' = [r EXCEPT ![2 * k] = even, ![2 * k + 1] = odd]
        BY <3>1 DEF WMP
      <4>2. even \in 0 .. 15 /\ odd \in 0 .. 15
        BY <1>1
      <4> HIDE DEF k, even, odd
      <4>3. QED
        BY <1>1, <4>1, <4>2
    <3>2. CASE WriteRam
      <4>1. r' = r \/ \E n : r' = [r EXCEPT ![n - 8] = a]
        BY <3>2 DEF WriteRam
      <4>2. QED
        BY <1>1, <4>1
    <3>3. QED
      BY <1>3, <3>1, <3>2
  <2>3. pcs' \in Bytes /\ Abstract!Go
    BY <2>1, OnStep
  <2>4. QED
    BY <2>1, <2>2, <2>3 DEF MachineOK, Plain
<1>4. QED
  BY <1>2, <1>3

\* What selects RAM keeps its width: a pair of registers, a bank or a nibble.
LEMMA SelectionStep ==
  ASSUME Mcs4Assumption, MachineOK, SelectionOK, Step
  PROVE  SelectionOK'
<1>1. a \in 0 .. 15 /\ ms \in 0 .. 255 /\ cmram \in 0 .. 15
  BY DEF MachineOK, SelectionOK
<1>2. CASE SRC
  <2>1. Low(Op) \div 2 \in 0 .. 7
    BY Readings, HalfTyped
  <2>2. QED
    BY <1>1, <1>2, <2>1, PairTyped DEF SRC, SelectionOK
<1>3. CASE DCL
  <2>1. a % 8 \in 0 .. 7
    BY <1>1
  <2>2. ASSUME NEW n \in 0 .. 7 PROVE Banks[n] \in 0 .. 15
    <3>1. CASE n < 2
      BY <3>1 DEF Banks
    <3>2. CASE n = 2 \/ n = 3
      BY <3>2 DEF Banks
    <3>3. CASE n > 3
      <4>1. n # 3 /\ n # 2 /\ ~ (n < 2)
        BY <3>3
      <4>2. Banks[n] = 2 * n
        BY <4>1 DEF Banks
      <4>3. QED
        BY <4>2
    <3>4. QED
      BY <3>1, <3>2, <3>3
  <2>3. QED
    BY <1>1, <1>3, <2>1, <2>2 DEF DCL, SelectionOK
<1>4. CASE WriteRam
  <2>1. High(ms) * 16 + a \in 0 .. 255 /\ a * 16 + Low(ms) \in 0 .. 255
    BY <1>1, ByteNibbles, Nibbles
  <2>2. ms' \in {ms, High(ms) * 16 + a, a * 16 + Low(ms)} /\ cmram' \in {a, cmram}
    BY <1>4 DEF WriteRam
  <2>3. QED
    BY <1>1, <2>1, <2>2 DEF SelectionOK
<1>5. CASE WMP \/ UNCHANGED selection
  BY <1>5 DEF WMP, selection, SelectionOK
<1>6. QED
  BY <1>2, <1>3, <1>4, <1>5 DEF Step

LEMMA CountersStep ==
  ASSUME Mcs4Assumption, MachineOK, Step
  PROVE  MachineOK' /\ (Abstract!Go \/ Abstract!Call \/ Abstract!Return)
<1>1. CASE Nop \/ INC \/ XCH
  BY <1>1, RegisterStep DEF Plain
<1>2. CASE JCN \/ FIM \/ FIN \/ JIN \/ JUN \/ ISZ
  BY <1>2, JumpStep DEF Plain
<1>3. CASE JMS
  BY <1>3, CallStep
<1>4. CASE BBL
  BY <1>4, ReturnStep
<1>5. CASE Arithmetic
  BY <1>5, ArithmeticStep DEF Plain
<1>6. CASE Memory
  BY <1>6, MemoryStep DEF Plain
<1>7. CASE Accumulator
  BY <1>7, AccumulatorStep DEF Plain
<1>8. CASE SRC \/ DCL \/ WMP \/ WriteRam
  BY <1>8, RamStep DEF Plain
<1>9. QED
  BY <1>1, <1>2, <1>3, <1>4, <1>5, <1>6, <1>7, <1>8 DEF Step

\* No step is taken once the counters are lost.
LEMMA StepImplements ==
  ASSUME Mcs4Assumption, MachineOK, Step
  PROVE  MachineOK' /\ Abstract!CallNext
BY CountersStep DEF Step, Abstract!CallNext

\* At reset every counter is 0 and no call is open.
LEMMA ResetImplements ==
  ASSUME Mcs4Init
  PROVE  /\ MachineOK /\ SelectionOK /\ ~ overwritten
         /\ Here = 0 /\ [i \in 1 .. sp |-> PcOf(pcs, i)] = <<>>
<1>1. MachineOK /\ SelectionOK /\ ~ overwritten
  BY DEF Mcs4Init, Mcs4Reset, MachineOK, SelectionOK, Bytes
<1>2. pcs[0] = 0 /\ pcs[1] = 0 /\ sp = 0
  BY DEF Mcs4Init, Mcs4Reset
<1>3. Here = 0
  BY <1>2, PcForms DEF Here, High
<1>4. Calls(pcs, sp) \in Seq(Counters) /\ Len(Calls(pcs, sp)) = 0
  BY <1>1, <1>2, CallsTyped DEF MachineOK
<1>5. Calls(pcs, sp) = <<>>
  BY <1>4, EmptySeq
<1>6. QED
  BY <1>1, <1>3, <1>5 DEF Calls

\* Whatever the program and whatever RAM holds, the six packed bytes behave as
\* a program counter and a stack of return addresses (mcs4.c:182, 544, 667), unless
\* and until a write to RAM overwrites what controls the emulator (mcs4.c:78).
THEOREM CountersAreStack == Mcs4Spec => ImplementsCallStack
<1>1. Mcs4Init => /\ MachineOK /\ ~ overwritten
                  /\ Here = 0 /\ [i \in 1 .. sp |-> PcOf(pcs, i)] = <<>>
  BY ResetImplements
<1>2. MachineOK /\ [Step]_mcs4Vars => MachineOK' /\ [Abstract!CallNext]_(Abstract!callVars)
  <2> SUFFICES ASSUME MachineOK, [Step]_mcs4Vars
               PROVE  MachineOK' /\ [Abstract!CallNext]_(Abstract!callVars)
    OBVIOUS
  <2>1. CASE Step
    BY <2>1, Mcs4Assumption, StepImplements
  <2>2. CASE UNCHANGED mcs4Vars
    BY <2>2 DEF mcs4Vars, selection, MachineOK, Here, Abstract!callVars
  <2>3. QED
    BY <2>1, <2>2
<1>3. QED
  BY <1>1, <1>2, PTL DEF Mcs4Spec, ImplementsCallStack, Abstract!CallStackSpec

-----------------------------------------------------------------------------
(* Its types                                                               *)

\* An instruction counts no cycle (a return, a jump by a register pair), one or two.
LEMMA StepCycles ==
  ASSUME Step
  PROVE  cycles' \in {cycles, cycles + 1, cycles + 2}
<1>1. CASE Nop
  BY <1>1 DEF Nop, Simple
<1>2. CASE JCN \/ FIM \/ FIN \/ JIN \/ JUN
  BY <1>2 DEF JCN, FIM, FIN, JIN, JUN
<1>3. CASE JMS \/ INC \/ ISZ \/ XCH \/ BBL
  BY <1>3 DEF JMS, INC, ISZ, XCH, BBL
<1>4. CASE Arithmetic
  BY <1>4 DEF Arithmetic, Add, Sub, Simple
<1>5. CASE Memory
  BY <1>5 DEF Memory, Add, Sub, Simple
<1>6. CASE Accumulator
  BY <1>6 DEF Accumulator, Simple
<1>7. CASE SRC \/ DCL
  BY <1>7 DEF SRC, DCL, Simple
<1>8. CASE WMP \/ WriteRam
  <2>1. cycles' = cycles + 1
    BY <1>8 DEF WMP, WriteRam
  <2>2. QED
    BY <2>1
<1> QED
  BY <1>1, <1>2, <1>3, <1>4, <1>5, <1>6, <1>7, <1>8 DEF Step

\* Main calls mcs4_step only below the limit (faggin.c:91): it is passed by at most the
\* second cycle of one instruction, and accumulator, carry, registers and counters keep
\* their widths, whatever the program and whatever RAM holds (mcs4.c:182, 614), unless
\* and until a write to RAM overwrites what controls the emulator (mcs4.c:78).
THEOREM Mcs4Typed == Mcs4Spec => []Mcs4TypeOK
<1> DEFINE Inv == MachineOK /\ SelectionOK /\ cycles \in 0 .. MaxCycles + 1
<1>1. Mcs4Init => Inv
  <2>1. Mcs4Init => cycles = 0
    BY DEF Mcs4Init, Mcs4Reset
  <2>2. 0 \in 0 .. MaxCycles + 1
    BY Mcs4Assumption
  <2>3. QED
    BY <2>1, <2>2, ResetImplements
<1>2. Inv /\ [Step]_mcs4Vars => Inv'
  <2>1. ASSUME Inv, Step PROVE Inv'
    <3>1. MachineOK' /\ SelectionOK'
      BY <2>1, Mcs4Assumption, StepImplements, SelectionStep
    <3>2. cycles < MaxCycles
      BY <2>1, Mcs4Assumption DEF Step, Halted
    <3>3. cycles' \in 0 .. MaxCycles + 1
      BY <2>1, <3>2, Mcs4Assumption, StepCycles
    <3> QED BY <3>1, <3>3
  <2>2. ASSUME Inv, UNCHANGED mcs4Vars PROVE Inv'
    BY <2>2 DEF mcs4Vars, selection, MachineOK, SelectionOK
  <2> QED BY <2>1, <2>2
<1>3. Inv => Mcs4TypeOK
  BY DEF MachineOK, SelectionOK, Mcs4TypeOK, Bytes
<1> QED
  BY <1>1, <1>2, <1>3, PTL DEF Mcs4Spec

-----------------------------------------------------------------------------
(* reeses_revenge: Reeses *)

\* Between two steps no jump is half way: DELAYING has become DELAYSLOT.
AtRest == delayState \in {NORMAL, DELAYSLOT}

\* What an instruction that does not end the process does to the flow.
Moves ==
  /\ nextEpc' = IF delayState # DELAYSLOT THEN pc ELSE nextEpc
  /\ After(request')

\* No instruction has a way of its own to the next one.
LEMMA GoToFlow ==
  ASSUME NEW target, GoTo(target)
  PROVE  UNCHANGED flowVars \/ Moves
BY DEF GoTo, Moves

LEMMA GoOnFlow == GoOn => UNCHANGED flowVars \/ Moves
BY GoToFlow DEF GoOn

LEMMA EndsFlow ==
  ASSUME NEW reason, Ends(reason) \/ doException(reason)
  PROVE  UNCHANGED flowVars
BY DEF Ends, doException

LEMMA ReadFailsFlow ==
  ASSUME NEW addr, NEW n, ReadFails(addr, n)
  PROVE  UNCHANGED flowVars
BY EndsFlow DEF ReadFails

LEMMA ResultFlow ==
  ASSUME NEW reg, NEW w, Result(reg, w)
  PROVE  UNCHANGED flowVars \/ Moves
BY GoOnFlow DEF Result

LEMMA StoreFlow ==
  ASSUME NEW addr, NEW data, StoreAt(addr, data)
  PROVE  UNCHANGED flowVars \/ Moves
BY GoOnFlow, EndsFlow DEF StoreAt

LEMMA ReturnsFlow ==
  ASSUME NEW rr, Returns(rr)
  PROVE  UNCHANGED flowVars \/ Moves
BY GoOnFlow DEF Returns

LEMMA ReturnsV0Flow ==
  ASSUME NEW v, ReturnsV0(v)
  PROVE  UNCHANGED flowVars \/ Moves
BY ReturnsFlow DEF ReturnsV0

LEMMA FailedFlow == Failed => UNCHANGED flowVars \/ Moves
BY ReturnsFlow DEF Failed

\* Whatever an instruction does, it moves on or ends the process.
LEMMA ExecuteFlow == Execute => UNCHANGED flowVars \/ Moves
<1> SUFFICES ASSUME Execute PROVE UNCHANGED flowVars \/ Moves
  OBVIOUS
<1>1. CASE Compute
  <2>1. CASE doException("Ov")
    BY <2>1, EndsFlow
  <2>2. CASE Result(Operands.dest, Value(Operands.op, Operands.x, Operands.y))
    BY <2>2, ResultFlow
  <2> QED BY <1>1, <2>1, <2>2 DEF Compute
<1>2. CASE MultiplyDivide
  <2>1. \/ doException("RI") \/ doException("SIGFPE") \/ GoOn
        \/ Result(Instr.rd, hi) \/ Result(Instr.rd, lo)
    BY <1>2 DEF MultiplyDivide
  <2> QED BY <2>1, EndsFlow, GoOnFlow, ResultFlow
<1>3. CASE Branch
  <2>1. doException("RI") \/ GoTo(IF Taken(regs') THEN BranchTarget ELSE NoTarget)
    BY <1>3 DEF Branch
  <2> QED BY <2>1, EndsFlow, GoToFlow
<1>4. CASE Jumps
  <2>1. doException("RI") \/ JumpTo(JumpTarget) \/ JumpTo(Rs)
    BY <1>4 DEF Jumps
  <2> QED BY <2>1, EndsFlow, GoToFlow DEF JumpTo
<1>5. CASE Load
  <2>1. doException("AdEL") \/ GoOn \/ \E addr, n : ReadFails(addr, n)
    BY <1>5 DEF Load
  <2> QED BY <2>1, EndsFlow, GoOnFlow, ReadFailsFlow
<1>6. CASE Store
  <2>1. doException("AdES") \/ StoreAt(Address, BytesOf(Rt, Width[Instr.op]))
    BY <1>6 DEF Store
  <2> QED BY <2>1, EndsFlow, StoreFlow
<1>7. CASE StorePart
  <2>1. \/ \E addr, n : ReadFails(addr, n)
        \/ StoreAt(Address, BytesOf(swl(Rt, WordAt(Address - (Address % 4), 4), Address % 4), 1))
        \/ StoreAt(Address, BytesOf(swr(Rt, WordAt(Address, 4), Address % 4), 4))
    BY <1>7 DEF StorePart
  <2> QED BY <2>1, ReadFailsFlow, StoreFlow
<1>8. CASE Syscall
  <2>1. DoRead => UNCHANGED flowVars \/ Moves
    BY EndsFlow, ReturnsFlow, ReturnsV0Flow, FailedFlow DEF DoRead
  <2>2. DoWrite => UNCHANGED flowVars \/ Moves
    BY ReadFailsFlow, ReturnsFlow, ReturnsV0Flow, FailedFlow DEF DoWrite
  <2>3. \/ doException("undefined") \/ doException("exit") \/ GoOn \/ DoRead \/ DoWrite
        \/ \E v : ReturnsV0(v)
    BY <1>8 DEF Syscall
  <2> QED BY <2>1, <2>2, <2>3, EndsFlow, GoOnFlow, ReturnsV0Flow
<1>9. CASE CopTwo
  <2>1. \/ \E addr, n : ReadFails(addr, n)
        \/ doException("CpU") \/ GoOn
        \/ \E addr, data : StoreAt(addr, data)
    BY <1>9 DEF CopTwo
  <2> QED BY <2>1, EndsFlow, GoOnFlow, ReadFailsFlow, StoreFlow
<1>10. CASE CopZero
  BY <1>10, GoOnFlow DEF CopZero
<1>11. CASE Refused
  BY <1>11, EndsFlow DEF Refused
<1> QED
  BY <1>1, <1>2, <1>3, <1>4, <1>5, <1>6, <1>7, <1>8, <1>9, <1>10, <1>11 DEF Execute

LEMMA NextFlow == [ReesesNext]_reesesVars => UNCHANGED flowVars \/ Moves
<1>1. LoadSection => UNCHANGED flowVars
  BY DEF LoadSection
<1>2. CpuStep => UNCHANGED flowVars \/ Moves
  BY ExecuteFlow, ReadFailsFlow DEF CpuStep
<1> QED BY <1>1, <1>2 DEF ReesesNext, reesesVars

\* A jump is never seen half way: every step ends with the delay state at rest
\* (cpu.cpp:105, advanceDelayState).
THEOREM DelayStateRests == ReesesSpec => []AtRest
<1>1. ReesesInit => AtRest
  BY DEF ReesesInit, ReesesReset, AtRest
<1>2. AtRest /\ [ReesesNext]_reesesVars => AtRest'
  <2> SUFFICES ASSUME AtRest, UNCHANGED flowVars \/ Moves PROVE AtRest'
    BY NextFlow
  <2>1. CASE UNCHANGED flowVars
    BY <2>1 DEF flowVars, AtRest
  <2>2. CASE Moves
    BY <2>2 DEF Moves, After, AtRest, NORMAL, DELAYING, DELAYSLOT
  <2> QED BY <2>1, <2>2
<1> QED BY <1>1, <1>2, PTL DEF ReesesSpec

\* Delay slots are kept: for every program, the instruction behind a jump or a taken
\* branch runs before the target, a jump in a slot has a slot of its own, and an
\* exception in a slot is charged to the jump (cpu.cpp:53 to 111).
THEOREM SlotsAreKept == ReesesSpec => ImplementsDelaySlots
<1>1. ReesesInit => Slots!SlotsInit
  BY DEF ReesesInit, ReesesReset, Slots!SlotsInit, Slots!Behind, NORMAL, DELAYSLOT
<1>2. AtRest /\ [ReesesNext]_reesesVars => [Slots!Continue \/ Slots!Jump]_(Slots!slotVars)
  <2> SUFFICES ASSUME AtRest, UNCHANGED flowVars \/ Moves
               PROVE  [Slots!Continue \/ Slots!Jump]_(Slots!slotVars)
    BY NextFlow
  <2>1. CASE UNCHANGED flowVars
    BY <2>1 DEF flowVars, Slots!slotVars
  <2>2. CASE Moves /\ request' = NoTarget
    <3>1. delayState' = NORMAL
      BY <2>2 DEF Moves, After, AtRest, NORMAL, DELAYING, DELAYSLOT
    <3>2. pc' = IF delayState = DELAYSLOT THEN delayPC ELSE (pc + 4) % WordMod
      BY <2>2 DEF Moves, After
    <3> QED
      BY <2>2, <3>1, <3>2 DEF Slots!Continue, Slots!Behind, NORMAL, DELAYSLOT
  <2>3. CASE Moves /\ request' # NoTarget
    <3>1. delayState' = DELAYSLOT
      BY <2>3 DEF Moves, After, DELAYING, DELAYSLOT
    <3>2. pc' = (pc + 4) % WordMod /\ delayPC' = request'
      BY <2>3 DEF Moves, After, DELAYING, DELAYSLOT
    <3>3. nextEpc' = IF delayState # DELAYSLOT THEN pc ELSE nextEpc
      BY <2>3 DEF Moves
    <3> QED
      BY <2>3, <3>1, <3>2, <3>3 DEF Slots!Jump, Slots!Behind, DELAYSLOT
  <2> QED BY <2>1, <2>2, <2>3
<1> QED
  BY <1>1, <1>2, DelayStateRests, PTL DEF ReesesSpec, ImplementsDelaySlots, Slots!SlotsSpec


-----------------------------------------------------------------------------
(* reeses_revenge: words, pages and addresses *)

LEMMA PowerIs ==
  /\ Power[0] = 1
  /\ \A k \in 1 .. 4 : Power[k] = ByteValues * Power[k - 1]
  /\ \A k \in 0 .. 4 : Power[k] \in Nat /\ Power[k] > 0
<1>1. ByteValues \in Nat /\ ByteValues > 0
  BY ReesesMemoryAssumption
<1>2. \E g : g = [k \in 0 .. 4 |-> IF k = 0 THEN 1 ELSE ByteValues * g[k - 1]]
  BY <1>1, PowersExist
<1>3. Power = [k \in 0 .. 4 |-> IF k = 0 THEN 1 ELSE ByteValues * Power[k - 1]]
  BY <1>2 DEF Power
<1> QED BY <1>1, <1>3, PowersAre

\* The ends of the memory in pages.
LEMMA Pages ==
  /\ WordMod \in Nat /\ WordMod > 0 /\ PageSize \in Nat /\ PageSize > 0
  /\ \E m, w \in Nat : /\ m > 0 /\ m < w /\ MmuBase = PageSize * m /\ WordMod = PageSize * w
                       /\ PageCount = w - m
<1>1. WordMod \in Nat /\ WordMod > 0
  BY PowerIs DEF WordMod
<1>2. /\ PageSize \in Nat /\ PageSize > 0 /\ MmuBase \in Nat /\ MmuBase > 0 /\ MmuBase < WordMod
      /\ MmuBase % PageSize = 0 /\ WordMod % PageSize = 0
  BY <1>1, ReesesMemoryAssumption
<1>3. PICK m \in Nat : MmuBase = PageSize * m
  <2>1. MmuBase = PageSize * (MmuBase \div PageSize) + (MmuBase % PageSize) /\ MmuBase \div PageSize \in Nat
    BY <1>2, DivisionIs
  <2> QED BY <1>2, <2>1
<1>4. PICK w \in Nat : WordMod = PageSize * w
  <2>1. WordMod = PageSize * (WordMod \div PageSize) + (WordMod % PageSize) /\ WordMod \div PageSize \in Nat
    BY <1>1, <1>2, DivisionIs
  <2> QED BY <1>1, <1>2, <2>1
<1>5. m > 0 /\ m < w
  <2> HIDE DEF WordMod
  <2>1. m = 0 => MmuBase = 0
    BY <1>2, <1>3
  <2>2. m >= w => PageSize * m >= PageSize * w
    BY <1>2
  <2> QED BY <1>1, <1>2, <1>3, <1>4, <2>1, <2>2
<1>6. PageCount = w - m
  <2>1. WordMod - MmuBase = PageSize * (w - m) + 0 /\ w - m \in Nat
    BY <1>2, <1>3, <1>4, <1>5
  <2>2. (PageSize * (w - m) + 0) \div PageSize = w - m
    BY <1>2, <2>1, QuotientUnique
  <2> QED BY <2>1, <2>2 DEF PageCount
<1> QED BY <1>1, <1>2, <1>3, <1>4, <1>5, <1>6

\* Where an address is.
LEMMA Places ==
  ASSUME NEW x \in Nat, x >= MmuBase
  PROVE  /\ PageOf(x) \in Nat /\ OffsetIn(x) \in 0 .. PageSize - 1
         /\ x = MmuBase + PageSize * PageOf(x) + OffsetIn(x)
         /\ x < WordMod => PageOf(x) \in PageNumbers
<1> DEFINE Q == PageSize
<1>1. PICK m, w \in Nat : /\ m > 0 /\ m < w /\ MmuBase = Q * m /\ WordMod = Q * w /\ PageCount = w - m
  BY Pages
<1>2. Q \in Nat /\ Q > 0 /\ MmuBase \in Nat
  BY Pages, ReesesMemoryAssumption
<1> HIDE DEF Q
<1>3. PICK q \in Nat, rem \in 0 .. Q - 1 : q = (x - MmuBase) \div Q /\ x - MmuBase = Q * q + rem
  <2>1. x - MmuBase \in Nat
    BY <1>2
  <2> QED BY <1>2, <2>1, DivisionIs
<1>4. x = Q * (m + q) + rem /\ m + q \in Nat
  BY <1>1, <1>2, <1>3
<1>5. x % Q = rem
  BY <1>2, <1>4, QuotientUnique
<1>6. PageOf(x) = q /\ OffsetIn(x) = rem
  BY <1>3, <1>5 DEF PageOf, OffsetIn, Q
<1>7. x = MmuBase + Q * q + rem
  BY <1>2, <1>3
<1>8. x < WordMod => q <= w - m - 1
  <2> SUFFICES ASSUME q >= w - m PROVE x >= WordMod
    BY <1>1, <1>2, <1>3, Pages
  <2>1. Q * (m + q) >= Q * w
    BY <1>1, <1>2, <1>3
  <2> QED BY <1>1, <1>2, <1>3, <1>4, <2>1
<1> QED BY <1>1, <1>3, <1>6, <1>7, <1>8 DEF Q, PageNumbers

\* An address has one place.
LEMMA PlaceUnique ==
  ASSUME NEW p \in Nat, NEW o \in 0 .. PageSize - 1
  PROVE  /\ PageOf(MmuBase + PageSize * p + o) = p
         /\ OffsetIn(MmuBase + PageSize * p + o) = o
<1> DEFINE Q == PageSize
           x == MmuBase + Q * p + o
<1>1. PICK m \in Nat : MmuBase = Q * m
  BY Pages
<1>2. Q \in Nat /\ Q > 0
  BY Pages
<1>3. x - MmuBase = Q * p + o /\ x = Q * (m + p) + o /\ m + p \in Nat
  BY <1>1, <1>2
<1>4. (Q * p + o) \div Q = p /\ (Q * (m + p) + o) % Q = o
  BY <1>2, <1>3, QuotientUnique
<1> QED BY <1>3, <1>4 DEF PageOf, OffsetIn

\* A step within a page.
LEMMA SamePage ==
  ASSUME NEW x \in Nat, x >= MmuBase, x < WordMod, NEW d \in Nat, OffsetIn(x) + d < PageSize
  PROVE  /\ PageOf(x + d) = PageOf(x) /\ OffsetIn(x + d) = OffsetIn(x) + d
         /\ x + d \in Nat /\ x + d >= MmuBase /\ x + d < WordMod
<1> DEFINE p == PageOf(x)
           o == OffsetIn(x)
<1>1. p \in Nat /\ o \in 0 .. PageSize - 1 /\ x = MmuBase + PageSize * p + o /\ p \in PageNumbers
  BY Places
<1>2. PICK m, w \in Nat : /\ m < w /\ MmuBase = PageSize * m /\ WordMod = PageSize * w
                          /\ PageCount = w - m
  BY Pages
<1>3. PageSize \in Nat /\ MmuBase \in Nat /\ o + d \in 0 .. PageSize - 1
  BY <1>1, Pages, ReesesMemoryAssumption
<1> HIDE DEF p, o
<1>4. x + d = MmuBase + PageSize * p + (o + d)
  <2>1. PICK z \in Nat : z = PageSize * p
    BY <1>1, <1>3
  <2> QED BY <1>1, <1>3, <2>1
<1>5. PageOf(x + d) = p /\ OffsetIn(x + d) = o + d
  BY <1>1, <1>3, <1>4, PlaceUnique
<1>6. x + d < WordMod
  <2>1. m + p + 1 <= w
    BY <1>1, <1>2 DEF PageNumbers
  <2>2. PageSize * (m + p + 1) <= PageSize * w
    BY <1>1, <1>2, <1>3, <2>1
  <2>3. PageSize * (m + p + 1) = PageSize * m + PageSize * p + PageSize
    BY <1>1, <1>2, <1>3
  <2>4. PICK z \in Nat, y \in Nat : z = PageSize * p /\ y = PageSize * m
    BY <1>1, <1>2, <1>3
  <2> QED BY <1>2, <1>3, <1>4, <2>2, <2>3, <2>4
<1> QED BY <1>3, <1>5, <1>6 DEF p, o

-----------------------------------------------------------------------------
(* The pieces of a transfer *)

PieceOf(F, j, addr) ==
  [at |-> (addr + F[j]) % WordMod, from |-> F[j], len |-> F[j + 1] - F[j]]

\* F[j] is where the j-th of count pieces of n bytes begins.
Cuts(F, count, addr, n) ==
  /\ count \in Nat /\ count > 0
  /\ F \in [1 .. count + 1 -> Nat] /\ F[1] = 0 /\ F[count + 1] = n
  /\ \A i, j \in 1 .. count + 1 : i < j => F[i] < F[j]
  /\ Split(addr, n) = {PieceOf(F, j, addr) : j \in 1 .. count}
  /\ \A j \in 1 .. count : OffsetIn(addr + F[j]) + F[j + 1] - F[j] <= PageSize
  /\ \A j \in 1 .. count : addr + F[j] >= WordMod => \E i \in 1 .. j : addr + F[i] = WordMod

LEMMA CutsExist ==
  ASSUME NEW addr \in Words, NEW n \in Nat, n > 0
  PROVE  \E F, uc : Cuts(F, uc, addr, n)
<1> DEFINE Q == PageSize
           o == OffsetIn(addr)
           first == Q - o
           From(j) == IF j = 1 THEN 0 ELSE first + (j - 2) * Q
           u == n - Smaller(n, first) + Q - 1
           uc == 1 + (u \div Q)
           F == [j \in 1 .. uc + 1 |-> Smaller(n, From(j))]
<1>1. Q \in Nat /\ Q > 0 /\ addr \in Nat /\ addr < WordMod
  BY Pages DEF Words
<1>2. PICK ua \in Nat : o \in 0 .. Q - 1 /\ addr = Q * ua + o
  <2>1. addr % Q \in 0 .. Q - 1 /\ addr \div Q \in Nat /\ addr = Q * (addr \div Q) + (addr % Q)
    BY <1>1, DivisionIs
  <2> QED BY <2>1 DEF OffsetIn
<1>3. PICK w \in Nat : WordMod = Q * w
  BY Pages
<1> HIDE DEF Q
<1>4. first \in Nat /\ first > 0 /\ o + first = Q /\ first <= Q
  BY <1>1, <1>2
<1> HIDE DEF o
<1>5. u \in Nat /\ u = (IF n <= first THEN Q - 1 ELSE n - first + Q - 1)
  BY <1>1, <1>4 DEF Smaller
<1> DEFINE q == u \div Q
<1>6. q \in Nat /\ Q * q <= u /\ u < Q * q + Q
  <2> HIDE DEF u
  <2>1. u \div Q \in Nat /\ u % Q \in 0 .. Q - 1 /\ u = Q * (u \div Q) + (u % Q)
    BY <1>1, <1>5, DivisionIs
  <2> QED BY <1>1, <2>1
<1> HIDE DEF first, u, q
<1>7. \A j, i \in Nat : i <= j => i * Q <= j * Q
  BY <1>1
<1>8. uc = q + 1 /\ uc \in Nat /\ uc > 0
  BY <1>6 DEF q
<1>9. \A j \in 1 .. uc + 1 : From(j) \in Nat
  <2> SUFFICES ASSUME NEW j \in 1 .. uc + 1, j # 1 PROVE first + (j - 2) * Q \in Nat
    OBVIOUS
  <2>1. j - 2 \in Nat
    BY <1>8
  <2>2. (j - 2) * Q \in Nat
    BY <1>1, <2>1
  <2> QED BY <1>4, <2>2
<1>10. \A i, j \in 1 .. uc + 1 : i < j => From(i) < From(j)
  <2> SUFFICES ASSUME NEW i \in 1 .. uc + 1, NEW j \in 1 .. uc + 1, i < j PROVE From(i) < From(j)
    OBVIOUS
  <2>1. j # 1 /\ j - 2 \in Nat /\ (j - 2) * Q \in Nat
    BY <1>1, <1>8
  <2>2. CASE i = 1
    BY <1>4, <2>1, <2>2
  <2>3. CASE i # 1
    <3>1. i - 2 \in Nat /\ (i - 2) + 1 <= j - 2
      BY <1>8, <2>3
    <3>2. ((i - 2) + 1) * Q <= (j - 2) * Q /\ ((i - 2) + 1) * Q = (i - 2) * Q + Q
      BY <1>1, <1>7, <2>1, <3>1
    <3>3. PICK y, z \in Nat : y = (i - 2) * Q /\ z = (j - 2) * Q
      BY <1>1, <2>1, <3>1
    <3> QED BY <1>1, <1>4, <2>1, <2>3, <3>2, <3>3
  <2> QED BY <2>2, <2>3
<1>11. From(uc) < n /\ n <= From(uc + 1)
  <2>1. CASE n <= first
    <3>1. q = 0
      <4>1. q >= 1 => Q * q >= Q
        BY <1>1, <1>6
      <4> QED BY <1>1, <1>5, <1>6, <2>1, <4>1
    <3>2. From(uc) = 0 /\ From(uc + 1) = first
      BY <1>1, <1>4, <1>8, <3>1
    <3> QED BY <2>1, <3>2
  <2>2. CASE n > first
    <3>1. q # 0
      <4>1. u >= Q
        BY <1>1, <1>4, <1>5, <2>2
      <4>2. q = 0 => Q * q + Q = Q
        BY <1>1
      <4> QED BY <1>1, <1>5, <1>6, <4>1, <4>2
    <3>2. From(uc) = first + (q - 1) * Q /\ From(uc + 1) = first + q * Q
      BY <1>6, <1>8, <3>1
    <3>3. (q - 1) * Q = Q * q - Q /\ q * Q = Q * q
      BY <1>1, <1>6
    <3>4. PICK z \in Nat : z = Q * q
      BY <1>1, <1>6
    <3>5. u = n - first + Q - 1 /\ z <= u /\ u < z + Q
      <4>1. u = n - first + Q - 1
        BY ONLY <1>5, <2>2, n \in Nat, <1>4
      <4> QED BY <1>6, <3>4, <4>1
    <3>6. From(uc) = first + (z - Q) /\ From(uc + 1) = first + z
      BY <3>2, <3>3, <3>4
    <3> HIDE DEF From, uc
    <3> QED BY <1>1, <1>4, <3>4, <3>5, <3>6
  <2> QED BY <1>4, <2>1, <2>2
<1>12. /\ \A j \in 1 .. uc : From(j) < n /\ Smaller(n, From(j)) = From(j)
       /\ Smaller(n, From(uc + 1)) = n
  <2>1. ASSUME NEW j \in 1 .. uc PROVE From(j) < n
    <3>1. j \in 1 .. uc + 1 /\ uc \in 1 .. uc + 1 /\ (j = uc \/ j < uc)
      BY <1>8
    <3>2. j < uc => From(j) < From(uc)
      BY <1>10, <3>1
    <3>3. From(j) \in Nat /\ From(uc) \in Nat
      BY <1>9, <3>1
    <3> HIDE DEF From, uc
    <3>4. CASE j = uc
      BY <1>11, <3>4
    <3>5. CASE j < uc
      BY <1>11, <3>2, <3>3, <3>5
    <3> QED BY <3>1, <3>4, <3>5
  <2>2. uc + 1 \in 1 .. uc + 1 /\ \A j \in 1 .. uc : j \in 1 .. uc + 1
    BY <1>8
  <2> HIDE DEF From, uc
  <2> QED BY <1>9, <1>11, <2>1, <2>2 DEF Smaller
<1>13. /\ F \in [1 .. uc + 1 -> Nat] /\ \A j \in 1 .. uc : F[j] = From(j) /\ F[j] < n
       /\ F[uc + 1] = n
  <2>1. uc + 1 \in 1 .. uc + 1 /\ \A j \in 1 .. uc : j \in 1 .. uc + 1
    BY <1>8
  <2> HIDE DEF From, uc
  <2> QED BY <1>9, <1>12, <2>1 DEF Smaller
<1>14. \A j \in 1 .. uc : F[j + 1] = Smaller(n, From(j + 1))
  <2>1. \A j \in 1 .. uc : j + 1 \in 1 .. uc + 1
    BY <1>8
  <2> HIDE DEF From, uc
  <2> QED BY <2>1
<1>15. F[1] = 0
  <2>1. 1 \in 1 .. uc
    BY <1>8
  <2>2. From(1) = 0
    OBVIOUS
  <2> HIDE DEF From, uc, F
  <2> QED BY <1>13, <2>1, <2>2
<1>16. \A i, j \in 1 .. uc + 1 : i < j => F[i] < F[j]
  <2> SUFFICES ASSUME NEW i \in 1 .. uc + 1, NEW j \in 1 .. uc + 1, i < j PROVE F[i] < F[j]
    OBVIOUS
  <2>1. i \in 1 .. uc /\ (j \in 1 .. uc \/ j = uc + 1)
    BY <1>8
  <2>2. From(i) < From(j)
    BY <1>10
  <2> HIDE DEF From, uc, F
  <2> QED BY <1>13, <2>1, <2>2
<1>17. Split(addr, n) = {PieceOf(F, j, addr) : j \in 1 .. uc}
  <2>1. Split(addr, n) = {[at |-> (addr + From(j)) % WordMod, from |-> From(j),
                           len |-> Smaller(n, From(j + 1)) - From(j)] : j \in 1 .. uc}
    BY DEF Split, From, uc, u, first, o, Q
  <2> HIDE DEF From, uc, F
  <2> QED BY <1>13, <1>14, <2>1 DEF PieceOf
<1>18. \A j \in 1 .. uc : /\ j # 1 => addr + From(j) = Q * (ua + j - 1)
                         /\ OffsetIn(addr + From(j)) + From(j + 1) - From(j) = Q
  <2> SUFFICES ASSUME NEW j \in 1 .. uc
               PROVE  /\ j # 1 => addr + From(j) = Q * (ua + j - 1)
                      /\ OffsetIn(addr + From(j)) + From(j + 1) - From(j) = Q
    OBVIOUS
  <2>1. CASE j = 1
    <3>1. From(j) = 0 /\ From(j + 1) = first
      BY <1>1, <1>4, <2>1
    <3>2. OffsetIn(addr + 0) = o
      BY <1>1 DEF o
    <3> QED BY <1>2, <1>4, <2>1, <3>1, <3>2
  <2>2. CASE j # 1
    <3>1. j \in Nat /\ j - 2 \in Nat /\ ua + j - 1 \in Nat
      BY <1>2, <1>8, <2>2
    <3>2. From(j) = first + (j - 2) * Q /\ From(j + 1) = first + (j - 1) * Q
      BY <2>2, <3>1
    <3>3. /\ (j - 1) * Q = (j - 2) * Q + Q
          /\ Q * (ua + j - 1) = Q * ua + (j - 2) * Q + Q
      BY <1>1, <1>2, <3>1
    <3>4. PICK x, y \in Nat : x = Q * ua /\ y = (j - 2) * Q
      BY <1>1, <1>2, <3>1
    <3>5. addr + From(j) = Q * (ua + j - 1) /\ From(j + 1) - From(j) = Q
      BY <1>1, <1>2, <1>4, <3>2, <3>3, <3>4
    <3>6. OffsetIn(addr + From(j)) = 0
      <4>1. (Q * (ua + j - 1) + 0) % Q = 0
        BY <1>1, <3>1, QuotientUnique
      <4> DEFINE z == Q * (ua + j - 1)
      <4>2. z + 0 = z
        BY <1>1, <3>1
      <4> QED BY <3>5, <4>1, <4>2 DEF OffsetIn, Q
    <3>7. From(j) \in Nat /\ From(j + 1) \in Nat
      <4>1. j \in 1 .. uc + 1 /\ j + 1 \in 1 .. uc + 1
        BY <1>8
      <4> QED BY <1>9, <4>1
    <3> HIDE DEF From
    <3> QED BY <1>1, <2>2, <3>5, <3>6, <3>7
  <2> QED BY <2>1, <2>2
<1>19. \A j \in 1 .. uc : OffsetIn(addr + F[j]) + F[j + 1] - F[j] <= PageSize
  <2> SUFFICES ASSUME NEW j \in 1 .. uc
               PROVE  OffsetIn(addr + F[j]) + F[j + 1] - F[j] <= PageSize
    OBVIOUS
  <2>1. j \in 1 .. uc + 1 /\ j + 1 \in 1 .. uc + 1
    BY <1>8
  <2>2. From(j) \in Nat /\ From(j + 1) \in Nat /\ F[j] = From(j) /\ F[j + 1] = Smaller(n, From(j + 1))
    BY <1>9, <1>13, <1>14, <2>1
  <2>3. OffsetIn(addr + From(j)) + From(j + 1) - From(j) = Q
    BY <1>18
  <2>4. OffsetIn(addr + From(j)) \in Nat
    BY <1>1, <2>2 DEF OffsetIn, Q
  <2> HIDE DEF From, F, uc
  <2>5. F[j + 1] <= From(j + 1) /\ F[j + 1] \in Nat
    BY <2>2 DEF Smaller
  <2> QED BY <2>2, <2>3, <2>4, <2>5 DEF Q
<1>20. \A j \in 1 .. uc : addr + F[j] >= WordMod => \E i \in 1 .. j : addr + F[i] = WordMod
  <2> SUFFICES ASSUME NEW j \in 1 .. uc, addr + F[j] >= WordMod
               PROVE  \E i \in 1 .. j : addr + F[i] = WordMod
    OBVIOUS
  <2>1. F[j] = From(j) /\ \A i \in 1 .. uc : F[i] = From(i)
    BY <1>13
  <2>2. j # 1
    <3> HIDE DEF F, uc, From
    <3> QED BY <1>1, <1>15, Pages
  <2>3. Q * (ua + j - 1) >= Q * w
    <3>1. addr + From(j) = Q * (ua + j - 1)
      BY <1>18, <2>2
    <3> HIDE DEF From, F, uc
    <3> QED BY <1>3, <2>1, <3>1
  <2>4. ua + j - 1 >= w
    <3> SUFFICES ASSUME ua + j - 1 < w PROVE FALSE
      BY <1>2, <1>3, <1>8
    <3>1. ua + j - 1 \in Nat
      BY <1>2, <1>8
    <3>2. Q * (ua + j - 1) < Q * w
      BY <1>1, <1>3, <3>1
    <3>3. Q * (ua + j - 1) \in Nat /\ Q * w \in Nat
      BY <1>1, <1>3, <3>1
    <3> QED BY <2>3, <3>2, <3>3
  <2>5. ua < w
    <3> SUFFICES ASSUME ua >= w PROVE FALSE
      BY <1>2, <1>3
    <3>1. Q * ua >= Q * w
      BY <1>1, <1>2, <1>3
    <3> QED BY <1>1, <1>2, <1>3, <3>1
  <2> DEFINE i == w - ua + 1
  <2>6. i \in 1 .. j /\ i # 1 /\ i \in 1 .. uc /\ ua + i - 1 = w
    BY <1>2, <1>3, <1>8, <2>4, <2>5
  <2> HIDE DEF i
  <2>7. addr + From(i) = Q * (ua + i - 1)
    BY <1>18, <2>6
  <2> HIDE DEF From, F, uc
  <2> QED BY <1>3, <2>1, <2>6, <2>7
<1> HIDE DEF F, uc, From
<1>21. Cuts(F, uc, addr, n)
  BY <1>8, <1>13, <1>15, <1>16, <1>17, <1>19, <1>20 DEF Cuts
<1> QED BY <1>21

\* What Cuts says, in the forms that proofs use.
LEMMA CutsSay ==
  ASSUME NEW F, NEW count, NEW addr \in Words, NEW n \in Nat, Cuts(F, count, addr, n)
  PROVE  /\ count \in Nat /\ count > 0 /\ F[1] = 0 /\ F[count + 1] = n
         /\ \A j \in 1 .. count + 1 : F[j] \in Nat
         /\ \A j \in 1 .. count : F[j] < F[j + 1]
         /\ \A i, j \in 1 .. count + 1 : F[i] <= F[j] <=> i <= j
         /\ Split(addr, n) = {PieceOf(F, j, addr) : j \in 1 .. count}
<1>1. count \in Nat /\ count > 0 /\ F[1] = 0 /\ F[count + 1] = n
  BY DEF Cuts
<1>2. \A j \in 1 .. count + 1 : F[j] \in Nat
  BY <1>1 DEF Cuts
<1>3. \A i, j \in 1 .. count + 1 : i < j => F[i] < F[j]
  BY DEF Cuts
<1>4. \A j \in 1 .. count : F[j] < F[j + 1]
  <2> SUFFICES ASSUME NEW j \in 1 .. count PROVE F[j] < F[j + 1]
    OBVIOUS
  <2>1. j \in 1 .. count + 1 /\ j + 1 \in 1 .. count + 1 /\ j < j + 1
    BY <1>1
  <2> QED BY <1>3, <2>1
<1>5. \A i, j \in 1 .. count + 1 : F[i] <= F[j] <=> i <= j
  <2> SUFFICES ASSUME NEW i \in 1 .. count + 1, NEW j \in 1 .. count + 1
               PROVE  F[i] <= F[j] <=> i <= j
    OBVIOUS
  <2>1. F[i] \in Nat /\ F[j] \in Nat /\ i \in Nat /\ j \in Nat
    BY <1>1, <1>2
  <2>2. (i < j => F[i] < F[j]) /\ (j < i => F[j] < F[i])
    BY <1>3
  <2> QED BY <2>1, <2>2
<1>6. Split(addr, n) = {PieceOf(F, j, addr) : j \in 1 .. count}
  BY DEF Cuts
<1> QED BY <1>1, <1>2, <1>4, <1>5, <1>6

\* The first e - 1 of the pieces are reached; none of them is past the end.
ReachedBefore(F, count, addr, n, e) ==
  /\ \A j \in 1 .. e - 1 : /\ Present(addr + F[j]) /\ addr + F[j] < WordMod
                           /\ PieceOf(F, j, addr).at = addr + F[j]
  /\ e <= count => ~ Present((addr + F[e]) % WordMod)
  /\ Reached(addr, n) = {PieceOf(F, j, addr) : j \in 1 .. e - 1}
  /\ Accessible(addr, n) <=> e = count + 1

LEMMA PiecesReached ==
  ASSUME NEW F, NEW count, NEW addr \in Words, NEW n \in Nat, n > 0, Cuts(F, count, addr, n)
  PROVE  \E e \in 1 .. count + 1 : ReachedBefore(F, count, addr, n, e)
<1> DEFINE Where(j) == (addr + F[j]) % WordMod
           P(j) == PieceOf(F, j, addr)
           Out == {j \in 1 .. count + 1 : j = count + 1 \/ ~ Present(Where(j))}
<1>1. /\ count \in Nat /\ count > 0 /\ F[1] = 0 /\ F[count + 1] = n
      /\ \A j \in 1 .. count + 1 : F[j] \in Nat
      /\ \A i, j \in 1 .. count + 1 : F[i] <= F[j] <=> i <= j
      /\ Split(addr, n) = {P(j) : j \in 1 .. count}
  BY CutsSay
<1>2. addr \in Nat /\ WordMod \in Nat /\ WordMod > 0 /\ MmuBase \in Nat /\ MmuBase > 0
  BY Pages, ReesesMemoryAssumption DEF Words
<1>3. \A j : P(j).at = Where(j) /\ P(j).from = F[j]
  BY DEF PieceOf
<1>4. PICK e \in Out : \A y \in Out : e <= y
  <2>1. Out \in SUBSET Nat /\ count + 1 \in Out
    BY <1>1
  <2> HIDE DEF Out
  <2> QED BY <2>1, SmallestExists
<1>5. /\ e \in 1 .. count + 1 /\ (e <= count => ~ Present(Where(e)))
      /\ \A j \in 1 .. e - 1 : j \in 1 .. count /\ j \in 1 .. count + 1 /\ Present(Where(j))
  <2>1. e \in 1 .. count + 1 /\ (e <= count => ~ Present(Where(e)))
    BY <1>1, <1>4
  <2>2. ASSUME NEW j \in 1 .. e - 1
        PROVE  j \in 1 .. count /\ j \in 1 .. count + 1 /\ Present(Where(j))
    <3>1. j \in 1 .. count /\ j \in 1 .. count + 1 /\ ~ e <= j
      BY <1>1, <2>1
    <3>2. j \notin Out
      BY <1>4, <3>1
    <3> QED BY <3>1, <3>2
  <2> QED BY <2>1, <2>2
<1> HIDE DEF Out, P
<1>6. ASSUME NEW j \in 1 .. e - 1
      PROVE  Where(j) = addr + F[j] /\ addr + F[j] < WordMod
  <2>1. j \in 1 .. count /\ j \in 1 .. count + 1 /\ F[j] \in Nat
    BY <1>1, <1>5
  <2>2. addr + F[j] < WordMod
    <3> SUFFICES ASSUME addr + F[j] >= WordMod PROVE FALSE
      BY <1>2, <2>1
    <3>1. PICK i \in 1 .. j : addr + F[i] = WordMod
      BY <2>1 DEF Cuts
    <3>2. i \in 1 .. e - 1
      BY <1>1, <1>5
    <3>3. WordMod % WordMod = 0
      <4>1. (WordMod * 1 + 0) % WordMod = 0
        BY <1>2, QuotientUnique
      <4>2. WordMod * 1 + 0 = WordMod
        BY <1>2
      <4> QED BY <4>1, <4>2
    <3>4. Present(0)
      BY <1>5, <3>1, <3>2, <3>3
    <3> QED BY <1>2, <3>4 DEF Present
  <2>3. (WordMod * 0 + (addr + F[j])) % WordMod = addr + F[j]
    BY <1>2, <2>1, <2>2, QuotientUnique
  <2>4. WordMod * 0 + (addr + F[j]) = addr + F[j]
    BY <1>2, <2>1
  <2> QED BY <2>2, <2>3, <2>4
<1>7. \A j \in 1 .. count : P(j) \in Reached(addr, n) <=> j < e
  <2> SUFFICES ASSUME NEW j \in 1 .. count PROVE P(j) \in Reached(addr, n) <=> j < e
    OBVIOUS
  <2>1. P(j) \in Reached(addr, n) <=> \A i \in 1 .. count : F[i] <= F[j] => Present(Where(i))
    BY <1>1, <1>3 DEF Reached
  <2>2. \A i \in 1 .. count : i \in 1 .. count + 1 /\ (F[i] <= F[j] <=> i <= j)
    BY <1>1
  <2>3. ASSUME j < e PROVE \A i \in 1 .. count : F[i] <= F[j] => Present(Where(i))
    <3>1. \A i \in 1 .. count : i <= j => i \in 1 .. e - 1
      BY <1>5, <2>3
    <3> QED BY <1>5, <2>2, <3>1
  <2>4. ASSUME ~ j < e PROVE ~ \A i \in 1 .. count : F[i] <= F[j] => Present(Where(i))
    <3>1. e \in 1 .. count /\ e <= j
      BY <1>1, <1>5, <2>4
    <3> QED BY <1>5, <2>2, <3>1
  <2> QED BY <2>1, <2>3, <2>4
<1>8. Reached(addr, n) = {P(j) : j \in 1 .. e - 1}
  <2>1. Reached(addr, n) \subseteq {P(j) : j \in 1 .. count}
    BY <1>1 DEF Reached
  <2>2. \A j \in 1 .. count : j < e => j \in 1 .. e - 1
    BY <1>5
  <2>3. \A j \in 1 .. e - 1 : j \in 1 .. count /\ j < e
    BY <1>5
  <2> QED BY <1>7, <2>1, <2>2, <2>3
<1>9. Accessible(addr, n) <=> e = count + 1
  <2>1. ASSUME e = count + 1 PROVE Accessible(addr, n)
    <3>1. e - 1 = count
      BY <1>1, <2>1
    <3> QED BY <1>1, <1>8, <3>1 DEF Accessible
  <2>2. ASSUME e # count + 1 PROVE ~ Accessible(addr, n)
    <3>1. e \in 1 .. count /\ ~ e < e
      BY <1>1, <1>5, <2>2
    <3>2. P(e) \in Split(addr, n) /\ P(e) \notin Reached(addr, n)
      BY <1>1, <1>7, <3>1
    <3> QED BY <3>2 DEF Accessible
  <2> QED BY <2>1, <2>2
<1>10. \A j \in 1 .. e - 1 : /\ Present(addr + F[j]) /\ addr + F[j] < WordMod
                             /\ P(j).at = addr + F[j]
  BY <1>3, <1>5, <1>6
<1>11. ReachedBefore(F, count, addr, n, e)
  BY <1>5, <1>8, <1>9, <1>10 DEF ReachedBefore, P
<1> QED BY <1>5, <1>11

-----------------------------------------------------------------------------
(* A transfer, byte by byte *)

\* There is memory at an address.
InMemory(x) == x \in MmuBase .. WordMod - 1 /\ Present(x)

\* A piece that was reached: its first byte, and the rest of it in the same page.
PieceFits(piece, addr, m) ==
  /\ piece.from \in Nat /\ piece.len \in Nat /\ piece.len > 0 /\ piece.from + piece.len <= m
  /\ piece.at = addr + piece.from /\ piece.at \in MmuBase .. WordMod - 1
  /\ OffsetIn(piece.at) + piece.len <= PageSize

\* The first m of n bytes at an address are there, and the next one is not.
Goes(addr, n, m) ==
  /\ \A k \in 0 .. m - 1 : InMemory(addr + k)
  /\ m < n => ~ InMemory((addr + m) % WordMod)
  /\ Accessible(addr, n) <=> m = n
  /\ \A piece \in Reached(addr, n) : PieceFits(piece, addr, m)
  /\ \A k \in 0 .. m - 1 : \E piece \in Reached(addr, n) : Holds(piece, k)

\* The bytes of a piece in memory are those at its addresses.
LEMMA PieceIsFlat ==
  ASSUME NEW piece, NEW addr \in Nat, NEW m \in Nat, PieceFits(piece, addr, m),
         NEW k \in Nat, Holds(piece, k)
  PROVE  /\ addr + k \in MmuBase .. WordMod - 1 /\ k \in 0 .. m - 1
         /\ PageOf(addr + k) = PageOf(piece.at)
         /\ OffsetIn(addr + k) = OffsetIn(piece.at) + k - piece.from
<1>1. /\ piece.from \in Nat /\ piece.len \in Nat /\ piece.from + piece.len <= m
      /\ piece.at = addr + piece.from /\ piece.at \in MmuBase .. WordMod - 1
      /\ OffsetIn(piece.at) + piece.len <= PageSize
  BY DEF PieceFits
<1>2. piece.from <= k /\ k < piece.from + piece.len
  BY <1>1 DEF Holds
<1>3. PICK d \in Nat : d = k - piece.from
  BY <1>1, <1>2
<1>0. PageSize \in Nat /\ WordMod \in Nat /\ MmuBase \in Nat
  BY Pages, ReesesMemoryAssumption
<1>4. PICK x \in Nat : x = piece.at /\ x >= MmuBase /\ x < WordMod
  BY <1>0, <1>1
<1>5. OffsetIn(x) \in Nat /\ PageSize \in Nat /\ WordMod \in Nat /\ MmuBase \in Nat
  <2>1. OffsetIn(x) \in 0 .. PageSize - 1
    BY <1>4, Places
  <2> QED BY <1>0, <2>1
<1>6. OffsetIn(x) + d < PageSize
  BY <1>1, <1>2, <1>3, <1>4, <1>5
<1>7. /\ PageOf(x + d) = PageOf(x) /\ OffsetIn(x + d) = OffsetIn(x) + d
      /\ x + d \in Nat /\ x + d >= MmuBase /\ x + d < WordMod
  BY <1>4, <1>6, SamePage
<1>8. x + d = addr + k /\ OffsetIn(x) + d = OffsetIn(x) + k - piece.from
  BY <1>1, <1>3, <1>4, <1>5
<1> QED BY <1>1, <1>2, <1>4, <1>5, <1>7, <1>8

LEMMA TransferGoes ==
  ASSUME NEW addr \in Words, NEW n \in Nat, n > 0
  PROVE  \E m \in 0 .. n : Goes(addr, n, m)
<1>1. PICK F, count : Cuts(F, count, addr, n)
  BY CutsExist
<1>2. PICK e \in 1 .. count + 1 : ReachedBefore(F, count, addr, n, e)
  BY <1>1, PiecesReached
<1> DEFINE m == F[e]
           P(j) == PieceOf(F, j, addr)
<1>3. /\ count \in Nat /\ count > 0 /\ F[1] = 0 /\ F[count + 1] = n
      /\ \A j \in 1 .. count + 1 : F[j] \in Nat
      /\ \A j \in 1 .. count : F[j] < F[j + 1]
      /\ \A i, j \in 1 .. count + 1 : F[i] <= F[j] <=> i <= j
  BY <1>1, CutsSay
<1>4. addr \in Nat /\ WordMod \in Nat /\ MmuBase \in Nat /\ PageSize \in Nat
  BY Pages, ReesesMemoryAssumption DEF Words
<1>5. m \in 0 .. n /\ (m = n <=> e = count + 1)
  <2>1. count + 1 \in 1 .. count + 1 /\ e \in Nat /\ e <= count + 1
    BY <1>3
  <2> QED BY <1>3, <2>1
<1>6. ASSUME NEW j \in 1 .. e - 1 PROVE PieceFits(P(j), addr, m)
  <2>1. j \in 1 .. count /\ j \in 1 .. count + 1 /\ j + 1 \in 1 .. count + 1 /\ j + 1 <= e
    BY <1>3
  <2>2. F[j] \in Nat /\ F[j + 1] \in Nat /\ F[j] < F[j + 1] /\ F[j + 1] <= F[e]
    BY <1>3, <2>1
  <2>3. P(j).at = addr + F[j] /\ Present(addr + F[j]) /\ addr + F[j] < WordMod
    BY <1>2 DEF ReachedBefore
  <2>4. OffsetIn(addr + F[j]) + F[j + 1] - F[j] <= PageSize
    BY <1>1, <2>1 DEF Cuts
  <2>5. addr + F[j] \in MmuBase .. WordMod - 1
    BY <1>4, <2>2, <2>3 DEF Present
  <2>6. P(j).from = F[j] /\ P(j).len = F[j + 1] - F[j]
    BY DEF PieceOf
  <2>7. OffsetIn(addr + F[j]) \in Nat
    BY <1>4, <2>2, <2>5, Places
  <2> HIDE DEF P
  <2> QED BY <1>4, <1>5, <2>2, <2>3, <2>4, <2>5, <2>6, <2>7 DEF PieceFits
<1>7. \A piece \in Reached(addr, n) : PieceFits(piece, addr, m)
  BY <1>2, <1>6 DEF ReachedBefore
<1>8. ASSUME NEW k \in 0 .. m - 1
      PROVE  InMemory(addr + k) /\ \E piece \in Reached(addr, n) : Holds(piece, k)
  <2> DEFINE Above == {i \in 1 .. count + 1 : k < F[i]}
  <2>1. e \in Above /\ Above \in SUBSET Nat
    BY <1>3, <1>5
  <2> HIDE DEF Above
  <2>2. PICK i \in Above : \A y \in Above : i <= y
    BY <2>1, SmallestExists
  <2>3. i \in 1 .. count + 1 /\ k < F[i] /\ i <= e /\ i # 1
    BY <1>3, <2>1, <2>2 DEF Above
  <2>4. PICK j \in 1 .. e - 1 : j = i - 1
    BY <1>3, <2>3
  <2>5. j \in 1 .. count + 1 /\ j + 1 = i /\ j \notin Above /\ F[j] \in Nat /\ F[i] \in Nat
    BY <1>3, <2>2, <2>3, <2>4
  <2>6. F[j] <= k
    BY <2>5 DEF Above
  <2>7. P(j) \in Reached(addr, n) /\ P(j).at = addr + F[j] /\ Present(addr + F[j])
    BY <1>2 DEF ReachedBefore
  <2>8. P(j).from = F[j] /\ P(j).len = F[i] - F[j]
    BY <2>5 DEF PieceOf
  <2>9. k \in Nat /\ m \in Nat
    BY <1>5
  <2>10. PieceFits(P(j), addr, m)
    BY <1>6
  <2> HIDE DEF P, m
  <2>11. Holds(P(j), k)
    BY <2>3, <2>5, <2>6, <2>8, <2>9 DEF Holds
  <2>12. addr + k \in MmuBase .. WordMod - 1 /\ PageOf(addr + k) = PageOf(P(j).at)
    BY <1>4, <2>9, <2>10, <2>11, PieceIsFlat
  <2>13. InMemory(addr + k)
    BY <1>4, <2>7, <2>12 DEF InMemory, Present
  <2> QED BY <2>7, <2>11, <2>13
<1>9. m < n => ~ InMemory((addr + m) % WordMod)
  BY <1>2, <1>3, <1>5 DEF ReachedBefore, InMemory
<1>10. Accessible(addr, n) <=> m = n
  BY <1>2, <1>5 DEF ReachedBefore
<1> HIDE DEF m
<1>11. Goes(addr, n, m)
  BY <1>7, <1>8, <1>9, <1>10 DEF Goes
<1> QED BY <1>5, <1>11

\* The byte at an address.
CellAt(x) == pages[PageOf(x)][OffsetIn(x)]

LEMMA ReadIs ==
  ASSUME NEW addr \in Words, NEW n \in Nat, Accessible(addr, n)
  PROVE  \A k \in 1 .. n : InMemory(addr + (k - 1)) /\ BytesAt(addr, n)[k] = CellAt(addr + (k - 1))
<1> SUFFICES ASSUME NEW k \in 1 .. n
             PROVE  InMemory(addr + (k - 1)) /\ BytesAt(addr, n)[k] = CellAt(addr + (k - 1))
  OBVIOUS
<1>1. n > 0 /\ Reached(addr, n) = Split(addr, n)
  BY DEF Accessible
<1>2. PICK m \in 0 .. n : Goes(addr, n, m)
  BY <1>1, TransferGoes
<1>3. m = n /\ m \in Nat /\ addr \in Nat
  BY <1>2, Pages DEF Goes, Words
<1>4. PICK j \in 0 .. m - 1 : j = k - 1
  BY <1>3
<1>5. InMemory(addr + j) /\ \E piece \in Split(addr, n) : Holds(piece, j)
  BY <1>1, <1>2 DEF Goes
<1> DEFINE it == CHOOSE piece \in Split(addr, n) : Holds(piece, k - 1)
<1>6. it \in Split(addr, n) /\ Holds(it, j)
  BY <1>4, <1>5
<1>7. BytesAt(addr, n)[k] = pages[PageOf(it.at)][OffsetIn(it.at) + k - 1 - it.from]
  BY DEF BytesAt
<1> HIDE DEF it
<1>8. PieceFits(it, addr, m)
  BY <1>1, <1>2, <1>6 DEF Goes
<1>9. PageOf(addr + j) = PageOf(it.at) /\ OffsetIn(addr + j) = OffsetIn(it.at) + j - it.from
  BY <1>3, <1>6, <1>8, PieceIsFlat
<1>10. OffsetIn(it.at) + j - it.from = OffsetIn(it.at) + k - 1 - it.from
  <2>0. MmuBase \in Nat /\ WordMod \in Nat
    BY Pages, ReesesMemoryAssumption
  <2>1. it.at \in Nat /\ it.at >= MmuBase /\ it.from \in Nat
    BY <1>8, <2>0 DEF PieceFits
  <2>2. OffsetIn(it.at) \in 0 .. PageSize - 1
    BY <2>1, Places
  <2>3. OffsetIn(it.at) \in Int
    BY <2>2, Pages
  <2> QED BY <1>4, <2>1, <2>3
<1> QED BY <1>4, <1>5, <1>7, <1>9, <1>10 DEF CellAt

LEMMA WrittenIs ==
  ASSUME NEW addr \in Words, NEW n \in Nat, NEW m \in Nat, Goes(addr, n, m), NEW data,
         NEW x \in Nat, x >= MmuBase, x < WordMod
  PROVE  Written(PageOf(x), Reached(addr, n), data)[OffsetIn(x)] =
           IF x - addr \in 0 .. m - 1 THEN data[x - addr + 1] ELSE CellAt(x)
<1> DEFINE p == PageOf(x)
           o == OffsetIn(x)
           Place(piece) == piece.from + o - OffsetIn(piece.at)
           hits == {piece \in Reached(addr, n) : PageOf(piece.at) = p /\ Holds(piece, Place(piece))}
<1>1. p \in Nat /\ o \in 0 .. PageSize - 1 /\ x = MmuBase + PageSize * p + o
  BY Places
<1>2. addr \in Nat /\ PageSize \in Nat /\ WordMod \in Nat /\ MmuBase \in Nat
  BY Pages, ReesesMemoryAssumption DEF Words
<1>3. Written(p, Reached(addr, n), data)[o] =
        IF hits = {} THEN pages[p][o] ELSE data[Place(CHOOSE piece \in hits : TRUE) + 1]
  BY <1>1 DEF Written
<1> HIDE DEF p, o
<1>4. ASSUME NEW piece \in Reached(addr, n)
      PROVE  /\ PieceFits(piece, addr, m) /\ piece.from \in Nat /\ piece.len \in Nat
             /\ OffsetIn(piece.at) \in Int
  <2>1. PieceFits(piece, addr, m)
    BY DEF Goes
  <2>2. piece.from \in Nat /\ piece.len \in Nat /\ piece.at \in Nat /\ piece.at >= MmuBase
    BY <1>2, <2>1 DEF PieceFits
  <2>3. OffsetIn(piece.at) \in 0 .. PageSize - 1
    BY <2>2, Places
  <2> QED BY <1>2, <2>1, <2>2, <2>3
<1>5. ASSUME NEW piece \in hits
      PROVE  Place(piece) = x - addr /\ x - addr \in 0 .. m - 1
  <2>1. piece \in Reached(addr, n) /\ PageOf(piece.at) = p /\ Holds(piece, Place(piece))
    OBVIOUS
  <2>2. PICK k \in Nat : k = Place(piece)
    <3>1. Place(piece) \in Int
      BY <1>1, <1>2, <1>4, <2>1
    <3> HIDE DEF Place
    <3> QED BY <1>4, <2>1, <3>1 DEF Holds
  <2>3. Holds(piece, k) /\ PieceFits(piece, addr, m)
    BY <1>4, <2>1, <2>2
  <2>4. /\ addr + k \in MmuBase .. WordMod - 1 /\ k \in 0 .. m - 1
        /\ PageOf(addr + k) = p
        /\ OffsetIn(addr + k) = OffsetIn(piece.at) + k - piece.from
    BY <1>2, <2>1, <2>3, PieceIsFlat
  <2>5. OffsetIn(addr + k) = o
    BY <1>1, <1>2, <1>4, <2>1, <2>2, <2>4
  <2>6. addr + k = MmuBase + PageSize * p + o
    <3>1. addr + k \in Nat /\ addr + k >= MmuBase
      BY <1>2, <2>4
    <3>2. addr + k = MmuBase + PageSize * PageOf(addr + k) + OffsetIn(addr + k)
      BY <3>1, Places
    <3> QED BY <2>4, <2>5, <3>2
  <2>7. k = x - addr
    BY <1>1, <1>2, <2>6
  <2> HIDE DEF Place
  <2> QED BY <2>2, <2>4, <2>7
<1>6. ASSUME x - addr \in 0 .. m - 1 PROVE hits # {}
  <2>1. PICK k \in 0 .. m - 1 : k = x - addr
    BY <1>6
  <2>2. PICK piece \in Reached(addr, n) : Holds(piece, k)
    BY DEF Goes
  <2>3. k \in Nat /\ addr + k = x
    BY <1>2, <2>1
  <2>4. p = PageOf(piece.at) /\ o = OffsetIn(piece.at) + k - piece.from
    BY <1>2, <1>4, <2>2, <2>3, PieceIsFlat DEF p, o
  <2>5. Place(piece) = k
    BY <1>4, <2>3, <2>4
  <2> HIDE DEF Place
  <2> QED BY <2>2, <2>4, <2>5
<1>7. CASE x - addr \in 0 .. m - 1
  <2>1. hits # {}
    BY <1>6, <1>7
  <2> DEFINE it == CHOOSE piece \in hits : TRUE
  <2>2. it \in hits
    BY <2>1
  <2> HIDE DEF it, hits
  <2>3. Place(it) = x - addr
    BY <1>5, <2>2
  <2> HIDE DEF Place
  <2> QED BY <1>3, <1>7, <2>1, <2>3 DEF it, p, o
<1>8. CASE ~ x - addr \in 0 .. m - 1
  <2>1. hits = {}
    <3> HIDE DEF Place, hits
    <3> QED BY <1>5, <1>8
  <2> HIDE DEF hits
  <2> QED BY <1>3, <1>8, <2>1 DEF CellAt, p, o
<1> QED BY <1>7, <1>8

-----------------------------------------------------------------------------
(* The requests to the memory *)

Mapped == {x \in MmuBase .. WordMod - 1 : Present(x)}
PageBytes == [0 .. PageSize - 1 -> ByteRange]
PagesOK == pages \in [PageNumbers -> {NoPage} \cup PageBytes]

\* A memory whose first m bytes at addr are those of data.
Over(addr, data, m) ==
  [x \in Mapped |-> IF x - addr \in 0 .. m - 1 THEN data[x - addr + 1] ELSE CellAt(x)]

LEMMA Numbers ==
  /\ WordMod \in Nat /\ WordMod > 0 /\ PageSize \in Nat /\ PageSize > 0
  /\ MmuBase \in Nat /\ MmuBase > 0
BY Pages, ReesesMemoryAssumption

LEMMA WordIsItself ==
  ASSUME NEW x \in Nat, x < WordMod
  PROVE  x % WordMod = x
<1>1. (WordMod * 0 + x) % WordMod = x
  BY Numbers, QuotientUnique
<1>2. WordMod * 0 + x = x
  BY Numbers
<1> QED BY <1>1, <1>2

LEMMA CoveredIs ==
  ASSUME NEW req, req.addr \in Words, NEW n \in Nat, NEW m \in 0 .. n, Goes(req.addr, n, m)
  PROVE  /\ Flat!Covered(req, m)
         /\ m < n => ~ Flat!Covered(req, m + 1)
<1>1. \A k \in 0 .. m - 1 : Flat!At(req.addr, k) = req.addr + k /\ req.addr + k \in Mapped
  <2> SUFFICES ASSUME NEW k \in 0 .. m - 1
               PROVE  Flat!At(req.addr, k) = req.addr + k /\ req.addr + k \in Mapped
    OBVIOUS
  <2>1. InMemory(req.addr + k)
    BY DEF Goes
  <2>2. req.addr + k \in Nat /\ req.addr + k < WordMod
    BY <2>1, Numbers DEF InMemory, Words
  <2> QED BY <2>1, <2>2, WordIsItself DEF Flat!At, InMemory, Mapped
<1>2. Flat!Covered(req, m)
  BY <1>1 DEF Flat!Covered, Mapped
<1>3. ASSUME m < n PROVE ~ Flat!Covered(req, m + 1)
  <2>1. (req.addr + m) % WordMod \notin Mapped
    BY <1>3 DEF Goes, InMemory, Mapped
  <2>2. m \in 0 .. (m + 1) - 1
    OBVIOUS
  <2> QED BY <2>1, <2>2 DEF Flat!Covered, Flat!At, Mapped
<1> QED BY <1>2, <1>3

LEMMA OverlaidIs ==
  ASSUME NEW req, req.addr \in Words, NEW n \in Nat, NEW m \in 0 .. n, Goes(req.addr, n, m)
  PROVE  Flat!Overlaid(req, m) = Over(req.addr, req.data, m)
<1> DEFINE addr == req.addr
           Holder(x) == {k \in 1 .. m : Flat!At(addr, k - 1) = x}
           Old == [x \in Mapped |-> CellAt(x)]
<1>1. Flat!Overlaid(req, m) =
        [x \in DOMAIN Old |-> IF Holder(x) = {} THEN Old[x] ELSE req.data[CHOOSE k \in Holder(x) : TRUE]]
  BY DEF Flat!Overlaid, Mapped, CellAt
<1>2. ASSUME NEW x \in Mapped
      PROVE  (IF Holder(x) = {} THEN Old[x] ELSE req.data[CHOOSE k \in Holder(x) : TRUE])
               = IF x - addr \in 0 .. m - 1 THEN req.data[x - addr + 1] ELSE CellAt(x)
  <2>1. x \in Nat /\ addr \in Nat
    BY Numbers DEF Mapped, Words
  <2>2. \A k \in 1 .. m : Flat!At(addr, k - 1) = addr + (k - 1)
    <3> SUFFICES ASSUME NEW k \in 1 .. m PROVE Flat!At(addr, k - 1) = addr + (k - 1)
      OBVIOUS
    <3>1. k - 1 \in 0 .. m - 1
      OBVIOUS
    <3>2. InMemory(addr + (k - 1))
      BY <3>1 DEF Goes
    <3>3. addr + (k - 1) \in Nat /\ addr + (k - 1) < WordMod
      BY <2>1, <3>2, Numbers DEF InMemory
    <3> QED BY <3>3, WordIsItself DEF Flat!At
  <2> HIDE DEF addr
  <2>3. \A k \in Holder(x) : k = x - addr + 1 /\ x - addr \in 0 .. m - 1
    BY <2>1, <2>2
  <2>4. x - addr \in 0 .. m - 1 => x - addr + 1 \in Holder(x)
    BY <2>1, <2>2
  <2> HIDE DEF Holder
  <2> QED BY <2>3, <2>4
<1> HIDE DEF Holder
<1> QED BY <1>1, <1>2 DEF Over

\* A page with bytes written over it is a page.
LEMMA WrittenTyped ==
  ASSUME PagesOK, NEW addr \in Words, NEW data \in Seq(ByteRange), NEW m \in 0 .. Len(data),
         Goes(addr, Len(data), m), NEW p \in PageNumbers, pages[p] # NoPage
  PROVE  Written(p, Reached(addr, Len(data)), data) \in PageBytes
<1> DEFINE w == Written(p, Reached(addr, Len(data)), data)
<1>1. w = [x \in 0 .. PageSize - 1 |-> w[x]]
  BY DEF Written
<1>2. ASSUME NEW o \in 0 .. PageSize - 1 PROVE w[o] \in ByteRange
  <2>1. PICK ua, ub \in Nat : /\ ua > 0 /\ ua < ub /\ MmuBase = PageSize * ua /\ WordMod = PageSize * ub
                            /\ PageCount = ub - ua
    BY Pages
  <2>2. p \in Nat /\ p < ub - ua
    BY <2>1 DEF PageNumbers
  <2>3. PICK x \in Nat : x = MmuBase + PageSize * p + o
    <3>1. PageSize * p \in Nat
      BY <2>2, Numbers
    <3> QED BY <3>1, Numbers
  <2>4. PageOf(x) = p /\ OffsetIn(x) = o
    BY <2>2, <2>3, PlaceUnique
  <2>5. x >= MmuBase /\ x < WordMod
    <3>1. PageSize * (ua + p + 1) <= PageSize * ub
      BY <2>1, <2>2, Numbers
    <3>2. PageSize * (ua + p + 1) = PageSize * ua + PageSize * p + PageSize
      BY <2>1, <2>2, Numbers
    <3>3. PICK y, z \in Nat : y = PageSize * ua /\ z = PageSize * p
      BY <2>1, <2>2, Numbers
    <3> QED BY <2>1, <2>3, <3>1, <3>2, <3>3, Numbers
  <2>6. w[o] = IF x - addr \in 0 .. m - 1 THEN data[x - addr + 1] ELSE CellAt(x)
    <3>1. Len(data) \in Nat /\ m \in Nat
      OBVIOUS
    <3> QED BY <2>4, <2>5, <3>1, WrittenIs
  <2>7. CellAt(x) \in ByteRange
    BY <2>4 DEF PagesOK, CellAt, PageBytes
  <2>8. x - addr \in 0 .. m - 1 => data[x - addr + 1] \in ByteRange
    <3>1. x - addr \in 0 .. m - 1 => x - addr + 1 \in 1 .. Len(data)
      OBVIOUS
    <3>2. \A k \in 1 .. Len(data) : data[k] \in ByteRange
      OBVIOUS
    <3> QED BY <3>1, <3>2
  <2> QED BY <2>6, <2>7, <2>8
<1> HIDE DEF w
<1> QED BY <1>1, <1>2 DEF PageBytes, w

\* The memory after a write, at each address.
LEMMA WriteMakes ==
  ASSUME PagesOK, NEW addr \in Words, NEW data \in Seq(ByteRange), NEW m \in 0 .. Len(data),
         Goes(addr, Len(data), m),
         pages' = [p \in PageNumbers |->
                     IF pages[p] = NoPage THEN NoPage
                     ELSE Written(p, Reached(addr, Len(data)), data)]
  PROVE  /\ PagesOK'
         /\ \A p \in PageNumbers : pages'[p] = NoPage <=> pages[p] = NoPage
         /\ Mapped' = Mapped
         /\ [x \in Mapped' |-> CellAt(x)'] = Over(addr, data, m)
<1> DEFINE W(p) == Written(p, Reached(addr, Len(data)), data)
<1>1. \A p \in PageNumbers : pages[p] # NoPage => W(p) \in PageBytes /\ W(p) # NoPage
  <2>1. NoPage \notin PageBytes
    BY ReesesMemoryAssumption DEF PageBytes
  <2>2. \A p \in PageNumbers : pages[p] # NoPage => W(p) \in PageBytes
    BY WrittenTyped
  <2> HIDE DEF W
  <2> QED BY <2>1, <2>2
<1>2. pages' = [p \in PageNumbers |-> IF pages[p] = NoPage THEN NoPage ELSE W(p)]
  OBVIOUS
<1>3. ASSUME NEW x \in MmuBase .. WordMod - 1
      PROVE  /\ x \in Nat /\ x >= MmuBase /\ x < WordMod /\ PageOf(x) \in PageNumbers
             /\ W(PageOf(x))[OffsetIn(x)] =
                  IF x - addr \in 0 .. m - 1 THEN data[x - addr + 1] ELSE CellAt(x)
  <2>1. x \in Nat /\ x >= MmuBase /\ x < WordMod
    BY Numbers
  <2>2. PageOf(x) \in PageNumbers
    BY <2>1, Places
  <2>3. Len(data) \in Nat /\ m \in Nat
    OBVIOUS
  <2>4. W(PageOf(x))[OffsetIn(x)] =
          IF x - addr \in 0 .. m - 1 THEN data[x - addr + 1] ELSE CellAt(x)
    BY <2>1, <2>3, WrittenIs
  <2> HIDE DEF W
  <2> QED BY <2>1, <2>2, <2>4
<1> HIDE DEF W
<1>4. \A p \in PageNumbers : pages'[p] = NoPage <=> pages[p] = NoPage
  BY <1>1, <1>2
<1>5. PagesOK'
  BY <1>1, <1>2 DEF PagesOK
<1>6. Mapped' = Mapped
  <2>1. \A x \in MmuBase .. WordMod - 1 : Present(x)' <=> Present(x)
    BY <1>3, <1>4 DEF Present
  <2> QED BY <2>1 DEF Mapped
<1>7. [x \in Mapped' |-> CellAt(x)'] = Over(addr, data, m)
  <2>1. ASSUME NEW x \in Mapped
        PROVE  CellAt(x)' = IF x - addr \in 0 .. m - 1 THEN data[x - addr + 1] ELSE CellAt(x)
    <3>1. x \in MmuBase .. WordMod - 1 /\ Present(x)
      BY DEF Mapped
    <3>2. CellAt(x)' = W(PageOf(x))[OffsetIn(x)]
      BY <1>2, <1>3, <3>1 DEF CellAt, Present
    <3> QED BY <1>3, <3>1, <3>2
  <2> QED BY <1>6, <2>1 DEF Over
<1> QED BY <1>4, <1>5, <1>6, <1>7

LEMMA WriteIsFlat ==
  ASSUME PagesOK, NEW addr \in Words, NEW data \in Seq(ByteRange) \ {<<>>},
         NEW strays \in BOOLEAN, WriteMemory(addr, data, strays)
  PROVE  /\ PagesOK' /\ UNCHANGED table
         /\ \A p \in PageNumbers : pages'[p] = NoPage <=> pages[p] = NoPage
         /\ io'.addr = addr
         /\ Flat!Write \/ Flat!Torn \/ Flat!Lost
<1> DEFINE n == Len(data)
<1>1. n \in Nat /\ n > 0
  OBVIOUS
<1>2. PICK m \in 0 .. n : Goes(addr, n, m)
  BY <1>1, TransferGoes
<1>3. /\ pages' = [p \in PageNumbers |->
                     IF pages[p] = NoPage THEN NoPage ELSE Written(p, Reached(addr, n), data)]
      /\ io' = [op |-> IF Accessible(addr, n) THEN "write" ELSE IF strays THEN "lost" ELSE "torn",
                addr |-> addr, data |-> data]
      /\ UNCHANGED table
  BY DEF WriteMemory
<1>4. /\ PagesOK' /\ (\A p \in PageNumbers : pages'[p] = NoPage <=> pages[p] = NoPage)
      /\ [x \in Mapped' |-> CellAt(x)'] = Over(addr, data, m)
  BY <1>2, <1>3, WriteMakes
<1>5. io'.addr = addr /\ io'.data = data
  BY <1>3
<1>6. /\ Flat!Covered(io', m) /\ (m < n => ~ Flat!Covered(io', m + 1))
      /\ Flat!Overlaid(io', m) = Over(addr, data, m)
  <2>1. io'.addr \in Words /\ Goes(io'.addr, n, m)
    BY <1>2, <1>5
  <2> HIDE DEF n
  <2> QED BY <1>1, <1>5, <2>1, CoveredIs, OverlaidIs
<1>7. [x \in {y \in MmuBase .. WordMod - 1 : Present(y)} |-> pages[PageOf(x)][OffsetIn(x)]]'
        = Flat!Overlaid(io', m)
  BY <1>4, <1>6 DEF Mapped, CellAt
<1>8. CASE Accessible(addr, n)
  <2>1. m = n /\ io'.op = "write"
    BY <1>2, <1>3, <1>8 DEF Goes
  <2>2. Flat!Write
    BY <1>5, <1>6, <1>7, <2>1 DEF Flat!Write
  <2> QED BY <1>3, <1>4, <1>5, <2>2
<1>9. CASE strays /\ ~ Accessible(addr, n)
  <2>1. io'.op = "lost"
    BY <1>3, <1>9
  <2>2. Flat!Lost
    BY <2>1 DEF Flat!Lost
  <2> QED BY <1>3, <1>4, <1>5, <2>2
<1>10. CASE ~ strays /\ ~ Accessible(addr, n)
  <2>1. m # n /\ io'.op = "torn"
    BY <1>2, <1>3, <1>10 DEF Goes
  <2>2. m \in 0 .. Len(io'.data) - 1
    BY <1>1, <1>2, <1>5, <2>1
  <2>3. m < n
    BY <1>1, <2>1
  <2> HIDE DEF n
  <2>4. Flat!Covered(io', m) /\ ~ Flat!Covered(io', m + 1)
    BY <1>6, <2>3
  <2>5. Flat!Torn
    BY <1>7, <2>1, <2>2, <2>4 DEF Flat!Torn
  <2> QED BY <1>3, <1>4, <1>5, <2>5
<1> QED BY <1>8, <1>9, <1>10

LEMMA ReadIsFlat ==
  ASSUME NEW addr \in Words, NEW n \in Nat, Accessible(addr, n), ReadIO(addr, n), UNCHANGED <<pages, table>>
  PROVE  io'.addr = addr /\ Flat!Read
<1>1. n > 0
  BY DEF Accessible
<1>2. PICK m \in 0 .. n : Goes(addr, n, m)
  BY <1>1, TransferGoes
<1>3. m = n
  BY <1>2 DEF Goes
<1>4. io'.op = "read" /\ io'.addr = addr /\ io'.data = BytesAt(addr, n)
  BY DEF ReadIO
<1>5. Len(io'.data) = n
  BY <1>4 DEF BytesAt
<1>6. Flat!Covered(io', n)
  BY <1>2, <1>3, <1>4, CoveredIs
<1>7. ASSUME NEW k \in 1 .. n
      PROVE  /\ io'.data[k] = CellAt(addr + (k - 1))
             /\ Flat!At(addr, k - 1) = addr + (k - 1) /\ addr + (k - 1) \in Mapped
  <2>1. InMemory(addr + (k - 1)) /\ BytesAt(addr, n)[k] = CellAt(addr + (k - 1))
    BY ReadIs
  <2>2. addr + (k - 1) \in Nat /\ addr + (k - 1) < WordMod
    BY <2>1, Numbers DEF InMemory, Words
  <2> QED BY <1>4, <2>1, <2>2, WordIsItself DEF Flat!At, InMemory, Mapped
<1>8. \A k \in 1 .. n :
        io'.data[k] = [x \in Mapped |-> CellAt(x)][Flat!At(addr, k - 1)]
  BY <1>7
<1>9. UNCHANGED [x \in {y \in MmuBase .. WordMod - 1 : Present(y)} |-> pages[PageOf(x)][OffsetIn(x)]]
  BY DEF Present
<1>10. Flat!Read
  BY <1>4, <1>5, <1>6, <1>8, <1>9 DEF Flat!Read, Mapped, CellAt
<1> QED BY <1>4, <1>10

-----------------------------------------------------------------------------
(* The regions of mmap *)

\* A region of whole pages in the address space: its first page and how many.
Spans(start, len, s, k) ==
  /\ s \in Nat /\ k \in Nat /\ s + k <= PageCount
  /\ start = MmuBase + PageSize * s
  /\ len <= PageSize * k /\ PageSize * k < len + PageSize
  /\ k = (len + PageSize - 1) \div PageSize
  /\ PagesWanted(start, len) = s .. s + k - 1

LEMMA SpanExists ==
  ASSUME NEW start \in Nat, start >= MmuBase, OffsetIn(start) = 0, NEW len \in Nat,
         start + len <= WordMod
  PROVE  \E s, k : Spans(start, len, s, k)
<1> DEFINE Q == PageSize
           s == PageOf(start)
           k == (len + Q - 1) \div Q
<1>1. Q \in Nat /\ Q > 0 /\ MmuBase \in Nat /\ WordMod \in Nat
  BY Numbers
<1>2. s \in Nat /\ start = MmuBase + Q * s
  <2>1. s \in Nat /\ start = MmuBase + Q * s + OffsetIn(start)
    BY Places
  <2>2. PICK z \in Nat : z = Q * s
    BY <1>1, <2>1
  <2> HIDE DEF Q, s
  <2> QED BY <1>1, <2>1, <2>2
<1>3. k \in Nat /\ len <= Q * k /\ Q * k < len + Q
  <2> DEFINE u == len + Q - 1
  <2>1. u \in Nat
    BY <1>1
  <2> HIDE DEF u
  <2>2. u \div Q \in Nat /\ u % Q \in 0 .. Q - 1 /\ u = Q * (u \div Q) + (u % Q)
    BY <1>1, <2>1, DivisionIs
  <2> DEFINE uc == u \div Q
             rem == u % Q
  <2>3. uc \in Nat /\ rem \in 0 .. Q - 1 /\ u = Q * uc + rem
    BY <2>2
  <2> HIDE DEF uc, rem
  <2>4. PICK z \in Nat : z = Q * uc
    BY <1>1, <2>3
  <2> HIDE DEF Q
  <2>5. len <= z /\ z < len + Q
    BY <1>1, <2>3, <2>4 DEF u
  <2> QED BY <2>3, <2>4, <2>5 DEF u, uc
<1> HIDE DEF k, s, Q
<1>4. s + k <= PageCount
  <2>1. PICK m, w \in Nat : m < w /\ MmuBase = Q * m /\ WordMod = Q * w /\ PageCount = w - m
    BY Pages DEF Q
  <2>2. Q * (m + s + k) = Q * m + Q * s + Q * k /\ Q * (w + 1) = Q * w + Q
    BY <1>1, <1>2, <1>3, <2>1
  <2>3. Q * (m + s + k) < Q * (w + 1)
    <3>1. PICK ua, ub, uc \in Nat : ua = Q * m /\ ub = Q * s /\ uc = Q * k
      BY <1>1, <1>2, <1>3, <2>1
    <3>2. PICK d \in Nat : d = Q * w
      BY <1>1, <2>1
    <3>3. ua + ub + uc < d + Q
      BY <1>1, <1>2, <1>3, <2>1, <3>1, <3>2
    <3> QED BY <2>2, <3>1, <3>2, <3>3
  <2>4. m + s + k < w + 1
    <3> SUFFICES ASSUME m + s + k >= w + 1 PROVE FALSE
      BY <1>2, <1>3, <2>1
    <3>1. Q * (m + s + k) >= Q * (w + 1)
      BY <1>1, <1>2, <1>3, <2>1
    <3>2. Q * (m + s + k) \in Nat /\ Q * (w + 1) \in Nat
      BY <1>1, <1>2, <1>3, <2>1
    <3> QED BY <2>3, <3>1, <3>2
  <2> QED BY <1>2, <1>3, <2>1, <2>4
<1>5. PagesWanted(start, len) = s .. s + k - 1
  BY DEF PagesWanted, s, k, Q
<1>6. Spans(start, len, s, k)
  BY <1>2, <1>3, <1>4, <1>5 DEF Spans, Q, k
<1> QED BY <1>6

\* The addresses of a region are those in its pages.
LEMMA SpanHolds ==
  ASSUME NEW start, NEW len, NEW s, NEW k, Spans(start, len, s, k), NEW x \in Nat, x >= MmuBase
  PROVE  PageOf(x) \in s .. s + k - 1 <=> x \in start .. start + PageSize * k - 1
<1> DEFINE Q == PageSize
<1>3. Q \in Nat /\ Q > 0 /\ MmuBase \in Nat
  BY Numbers
<1>1. PICK p \in Nat, o \in Nat : p = PageOf(x) /\ o < Q /\ x = MmuBase + Q * p + o
  BY <1>3, Places
<1>2. s \in Nat /\ k \in Nat /\ start = MmuBase + Q * s
  BY DEF Spans
<1> HIDE DEF Q
<1>4. PICK ua, ub, uc \in Nat : ua = Q * p /\ ub = Q * s /\ uc = Q * k
  BY <1>1, <1>2, <1>3
<1>5. x \in start .. start + Q * k - 1 <=> ub <= ua + o /\ ua + o < ub + uc
  BY <1>1, <1>2, <1>3, <1>4
<1>6. s <= p <=> ub <= ua + o
  <2>1. ASSUME s <= p PROVE ub <= ua + o
    <3>1. Q * s <= Q * p
      BY <1>1, <1>2, <1>3, <2>1
    <3> QED BY <1>1, <1>3, <1>4, <3>1
  <2>2. ASSUME ~ s <= p PROVE ~ ub <= ua + o
    <3>1. Q * (p + 1) <= Q * s /\ Q * (p + 1) = Q * p + Q
      BY <1>1, <1>2, <1>3, <2>2
    <3> QED BY <1>1, <1>3, <1>4, <3>1
  <2> QED BY <2>1, <2>2
<1>7. p <= s + k - 1 <=> ua + o < ub + uc
  <2>1. Q * (s + k) = ub + uc
    BY <1>2, <1>3, <1>4
  <2>2. ASSUME p <= s + k - 1 PROVE ua + o < ub + uc
    <3>1. Q * (p + 1) <= Q * (s + k) /\ Q * (p + 1) = Q * p + Q
      BY <1>1, <1>2, <1>3, <2>2
    <3> QED BY <1>1, <1>3, <1>4, <2>1, <3>1
  <2>3. ASSUME ~ p <= s + k - 1 PROVE ~ ua + o < ub + uc
    <3>1. Q * (s + k) <= Q * p
      BY <1>1, <1>2, <1>3, <2>3
    <3> QED BY <1>1, <1>3, <1>4, <2>1, <3>1
  <2> QED BY <2>2, <2>3
<1> QED BY <1>1, <1>2, <1>3, <1>5, <1>6, <1>7 DEF Q

\* Two regions with a page in common overlap.
LEMMA SharedOverlaps ==
  ASSUME NEW old, old.start \in Nat, old.len \in Nat, NEW start \in Nat, NEW len \in Nat,
         NEW s, NEW k, Spans(old.start, old.len, s, k),
         NEW t, NEW l, Spans(start, len, t, l),
         NEW p, p \in s .. s + k - 1, p \in t .. t + l - 1
  PROVE  Overlaps(old, start, len)
<1> DEFINE Q == PageSize
<1>1. Q \in Nat /\ Q > 0 /\ MmuBase \in Nat
  BY Numbers
<1> HIDE DEF Q
<1>2. /\ s \in Nat /\ k \in Nat /\ old.start = MmuBase + Q * s /\ Q * k < old.len + Q
      /\ t \in Nat /\ l \in Nat /\ start = MmuBase + Q * t /\ Q * l < len + Q
  BY DEF Spans, Q
<1>3. PICK i, j \in Nat : p = s + i /\ i < k /\ p = t + j /\ j < l
  <2>1. p \in Nat /\ p >= s /\ p < s + k /\ p >= t /\ p < t + l
    BY <1>2
  <2>2. p - s \in Nat /\ p - t \in Nat
    BY <1>2, <2>1
  <2> QED BY <1>2, <2>1, <2>2
<1>4. /\ Q * (i + 1) <= Q * k /\ Q * (i + 1) = Q * i + Q
      /\ Q * (j + 1) <= Q * l /\ Q * (j + 1) = Q * j + Q
  BY <1>1, <1>2, <1>3
<1>5. Q * (s + i) = Q * s + Q * i /\ Q * (t + j) = Q * t + Q * j /\ s + i = t + j
  BY <1>1, <1>2, <1>3
<1>6. PICK ua, ub, uc, ud \in Nat : ua = Q * s /\ ub = Q * i /\ uc = Q * t /\ ud = Q * j
  BY <1>1, <1>2, <1>3
<1>7. PICK y, z \in Nat : y = Q * k /\ z = Q * l
  BY <1>1, <1>2
<1>8. ua + ub = uc + ud /\ ub < old.len /\ ud < len /\ old.start = MmuBase + ua /\ start = MmuBase + uc
  BY <1>1, <1>2, <1>4, <1>5, <1>6, <1>7
<1> QED BY <1>1, <1>8 DEF Overlaps

TextPages == (TextEnd - MmuBase) \div PageSize

\* Regions lie above the text in whole pages, within the pages of the table.
RegionOK(old) ==
  /\ old.start \in Nat /\ old.len \in Nat /\ old.start >= TextEnd /\ OffsetIn(old.start) = 0
  /\ old.start + old.len <= MmuMax /\ old.len <= MmapMaxLength

TableOK == table \in Seq([start : Nat, len : Nat]) /\ \A j \in DOMAIN table : RegionOK(table[j])

\* A page in use is one of the text or of a region.
PagesOwned ==
  \A p \in PageNumbers : pages[p] # NoPage =>
    p < TextPages \/ \E j \in DOMAIN table : p \in PagesWanted(table[j].start, table[j].len)

LEMMA TextIs ==
  /\ TextPages \in Nat /\ TextEnd = MmuBase + PageSize * TextPages
  /\ TextEnd \in Nat /\ MmuBase < TextEnd
<1> DEFINE e == PageOf(TextEnd)
<1>1. TextEnd \in Nat /\ MmuBase < TextEnd /\ TextEnd % PageSize = 0 /\ MmuBase \in Nat /\ PageSize \in Nat
  BY Numbers, ReesesMemoryAssumption
<1>2. e \in Nat /\ TextEnd = MmuBase + PageSize * e + OffsetIn(TextEnd)
  BY <1>1, Places
<1>3. OffsetIn(TextEnd) = 0
  BY <1>1 DEF OffsetIn
<1>4. e = TextPages
  BY DEF PageOf, TextPages
<1> HIDE DEF e
<1>5. PICK z \in Nat : z = PageSize * e
  BY <1>1, <1>2
<1>6. TextEnd = MmuBase + PageSize * e
  BY <1>1, <1>2, <1>3, <1>5
<1> QED BY <1>1, <1>2, <1>4, <1>6

\* The end of the table in pages.
LEMMA TopIs ==
  /\ PAGE_COUNT_MAX \in Nat /\ MmuMax = MmuBase + PageSize * PAGE_COUNT_MAX
  /\ MmuMax \in Nat /\ MmuMax < WordMod /\ TextEnd <= MmuMax
<1> DEFINE e == PageOf(MmuMax)
<1>1. /\ MmuMax \in Nat /\ MmuBase < MmuMax /\ MmuMax % PageSize = 0 /\ MmuBase \in Nat
      /\ MmuMax < WordMod /\ TextEnd <= MmuMax
  BY TextIs, Numbers, ReesesMemoryAssumption
<1>2. e \in Nat /\ MmuMax = MmuBase + PageSize * e + OffsetIn(MmuMax)
  BY <1>1, Places
<1>3. OffsetIn(MmuMax) = 0
  BY <1>1 DEF OffsetIn
<1>4. e = PAGE_COUNT_MAX
  BY DEF PageOf, PAGE_COUNT_MAX
<1> HIDE DEF e
<1>5. PICK z \in Nat : z = PageSize * e
  BY <1>2, Numbers
<1>6. MmuMax = MmuBase + PageSize * e
  BY <1>1, <1>2, <1>3, <1>5
<1> QED BY <1>1, <1>2, <1>4, <1>6

\* What DoMMAP does not refuse has its pages free.
LEMMA WantedFree ==
  ASSUME PagesOwned, TableOK, NEW start \in Words, NEW len \in Words, ~ MmapRefused(start, len),
         NEW s, NEW k, Spans(start, len, s, k), NEW p \in PagesWanted(start, len)
  PROVE  p \in PageNumbers /\ pages[p] = NoPage
<1>1. s \in Nat /\ k \in Nat /\ s + k <= PageCount /\ p \in s .. s + k - 1
      /\ start = MmuBase + PageSize * s
  BY DEF Spans
<1>2. start \in Nat /\ len \in Nat
  BY Numbers DEF Words
<1>3. PageCount \in Nat
  BY Pages
<1>4. p \in PageNumbers
  BY <1>1, <1>3 DEF PageNumbers
<1>5. ~ p < TextPages
  <2>1. s >= TextPages
    <3> SUFFICES ASSUME s + 1 <= TextPages PROVE FALSE
      BY <1>1, TextIs
    <3>1. PageSize * (s + 1) <= PageSize * TextPages /\ PageSize * (s + 1) = PageSize * s + PageSize
      BY <1>1, TextIs, Numbers
    <3>2. ~ start < TextEnd
      BY DEF MmapRefused
    <3>3. PICK y, z \in Nat : y = PageSize * s /\ z = PageSize * TextPages
      BY <1>1, TextIs, Numbers
    <3> QED BY <1>1, <1>2, <3>1, <3>2, <3>3, TextIs, Numbers
  <2> QED BY <1>1, <2>1, TextIs
<1>6. ASSUME NEW j \in DOMAIN table, p \in PagesWanted(table[j].start, table[j].len)
      PROVE  FALSE
  <2> DEFINE old == table[j]
  <2>1. RegionOK(old)
    BY DEF TableOK
  <2> HIDE DEF old
  <2>2. /\ old.start \in Nat /\ old.len \in Nat /\ old.start >= TextEnd /\ OffsetIn(old.start) = 0
        /\ old.start + old.len <= WordMod
    BY <2>1, TopIs, Numbers DEF RegionOK
  <2>3. old.start >= MmuBase
    BY <2>2, TextIs, Numbers
  <2>4. PICK t, l : Spans(old.start, old.len, t, l)
    BY <2>2, <2>3, SpanExists
  <2>5. p \in t .. t + l - 1
    BY <1>6, <2>4 DEF Spans, old
  <2>6. Overlaps(old, start, len)
    BY <1>1, <1>2, <2>2, <2>4, <2>5, SharedOverlaps
  <2> QED BY <2>6 DEF MmapRefused, old
<1> QED BY <1>4, <1>5, <1>6 DEF PagesOwned

LEMMA RefusedStays ==
  ASSUME NEW start, NEW len, DoMMAP(start, len), MmapRefused(start, len)
  PROVE  UNCHANGED memVars
BY DEF DoMMAP, MmapWorks, memVars

LEMMA ZeroedIs == Zeroed \in PageBytes /\ Zeroed # NoPage
<1>1. 0 \in ByteRange
  BY ReesesMemoryAssumption DEF ByteRange
<1>2. Zeroed \in PageBytes
  BY <1>1 DEF Zeroed, PageBytes
<1> QED BY <1>2, ReesesMemoryAssumption DEF PageBytes

\* What DoMMAP does when it does not refuse.
LEMMA MapsAll ==
  ASSUME PagesOK, PagesOwned, TableOK, NEW start \in Words, NEW len \in Words,
         ~ MmapRefused(start, len), DoMMAP(start, len)
  PROVE  /\ \E s, k : Spans(start, len, s, k)
         /\ RegionOK([start |-> start, len |-> len])
         /\ \A p \in PagesWanted(start, len) : p \in PageNumbers /\ pages[p] = NoPage
         /\ pages' = [p \in PageNumbers |-> IF p \in PagesWanted(start, len) THEN Zeroed ELSE pages[p]]
         /\ table' = Append(table, [start |-> start, len |-> len])
         /\ io' = [op |-> "map", addr |-> start, data |-> [k \in 1 .. len |-> 0]]
<1>1. start \in Nat /\ len \in Nat
  BY Numbers DEF Words
<1>2. /\ start >= TextEnd /\ start >= MmuBase /\ OffsetIn(start) = 0 /\ start + len <= MmuMax
      /\ start + len <= WordMod /\ len <= MmapMaxLength
  BY <1>1, TextIs, TopIs, Numbers, ReesesMemoryAssumption DEF MmapRefused
<1>3. PICK s, k : Spans(start, len, s, k)
  BY <1>1, <1>2, SpanExists
<1>4. \A p \in PagesWanted(start, len) : p \in PageNumbers /\ pages[p] = NoPage
  BY <1>3, WantedFree
<1>5. PagesTaken(start, len) = PagesWanted(start, len)
  BY <1>4 DEF PagesTaken
<1>6. MmapWorks(start, len)
  BY <1>5 DEF MmapWorks
<1> QED BY <1>1, <1>2, <1>3, <1>4, <1>5, <1>6 DEF DoMMAP, RegionOK

LEMMA MapKeepsTable ==
  ASSUME PagesOK, PagesOwned, TableOK, NEW start \in Words, NEW len \in Words,
         ~ MmapRefused(start, len), DoMMAP(start, len)
  PROVE  PagesOK' /\ PagesOwned' /\ TableOK'
<1> DEFINE new == [start |-> start, len |-> len]
           wanted == PagesWanted(start, len)
<1>1. /\ RegionOK(new)
      /\ pages' = [p \in PageNumbers |-> IF p \in wanted THEN Zeroed ELSE pages[p]]
      /\ table' = Append(table, new)
  BY MapsAll
<1>2. PagesOK'
  <2> HIDE DEF wanted
  <2> QED BY <1>1, ZeroedIs DEF PagesOK
<1>3. new \in [start : Nat, len : Nat] /\ new.start = start /\ new.len = len
  BY <1>1 DEF RegionOK
<1> HIDE DEF new
<1>4. /\ table \in Seq([start : Nat, len : Nat]) /\ Len(table) \in Nat
      /\ table' \in Seq([start : Nat, len : Nat]) /\ DOMAIN table' = 1 .. Len(table) + 1
      /\ DOMAIN table = 1 .. Len(table)
      /\ (\A j \in 1 .. Len(table) : table'[j] = table[j]) /\ table'[Len(table) + 1] = new
  BY <1>1, <1>3 DEF TableOK
<1>5. TableOK'
  <2>1. \A j \in DOMAIN table' : RegionOK(table'[j])
    BY <1>1, <1>4 DEF TableOK
  <2> QED BY <1>4, <2>1 DEF TableOK, RegionOK
<1>6. PagesOwned'
  <2> SUFFICES ASSUME NEW p \in PageNumbers, pages'[p] # NoPage, ~ p < TextPages
               PROVE  \E j \in DOMAIN table' : p \in PagesWanted(table'[j].start, table'[j].len)
    BY DEF PagesOwned, PagesWanted
  <2>1. CASE p \in wanted
    <3>1. Len(table) + 1 \in DOMAIN table'
      BY <1>4
    <3> QED BY <1>3, <1>4, <2>1, <3>1
  <2>2. CASE p \notin wanted
    <3>1. pages[p] # NoPage
      BY <1>1, <2>2
    <3>2. PICK j \in DOMAIN table : p \in PagesWanted(table[j].start, table[j].len)
      BY <3>1 DEF PagesOwned
    <3>3. j \in DOMAIN table' /\ table'[j] = table[j]
      BY <1>4
    <3> QED BY <3>2, <3>3
  <2> QED BY <2>1, <2>2
<1> QED BY <1>2, <1>5, <1>6

LEMMA MapIsFlat ==
  ASSUME PagesOK, PagesOwned, TableOK, NEW start \in Words, NEW len \in Words,
         ~ MmapRefused(start, len), DoMMAP(start, len)
  PROVE  Flat!Map
<1>1. /\ \A p \in PagesWanted(start, len) : p \in PageNumbers /\ pages[p] = NoPage
      /\ pages' = [p \in PageNumbers |-> IF p \in PagesWanted(start, len) THEN Zeroed ELSE pages[p]]
      /\ io' = [op |-> "map", addr |-> start, data |-> [k \in 1 .. len |-> 0]]
  BY MapsAll
<1>2. PICK s, k : Spans(start, len, s, k)
  BY MapsAll
<1>3. /\ s \in Nat /\ k \in Nat /\ s + k <= PageCount /\ start = MmuBase + PageSize * s
      /\ k = (len + PageSize - 1) \div PageSize /\ PagesWanted(start, len) = s .. s + k - 1
  BY <1>2 DEF Spans
<1>4. start \in Nat /\ len \in Nat /\ Len(io'.data) = len /\ io'.addr = start /\ io'.op = "map"
  BY <1>1, Numbers DEF Words
<1> DEFINE fresh == start .. start + PageSize * k - 1
<1>5. start + PageSize * k <= WordMod
  <2>1. PICK m, w \in Nat : m < w /\ MmuBase = PageSize * m /\ WordMod = PageSize * w /\ PageCount = w - m
    BY Pages
  <2>2. PageSize * (m + s + k) <= PageSize * w
    BY <1>3, <2>1, Numbers
  <2>3. PageSize * (m + s + k) = PageSize * m + PageSize * s + PageSize * k
    BY <1>3, <2>1, Numbers
  <2> QED BY <1>3, <2>1, <2>2, <2>3
<1>6. ASSUME NEW x \in MmuBase .. WordMod - 1
      PROVE  /\ x \in fresh <=> PageOf(x) \in PagesWanted(start, len)
             /\ x \in fresh => ~ Present(x)
             /\ Present(x)' <=> x \in fresh \/ Present(x)
             /\ Present(x)' => CellAt(x)' = IF x \in fresh THEN 0 ELSE CellAt(x)
  <2>1. x \in Nat /\ x >= MmuBase /\ x < WordMod
    BY Numbers
  <2>2. PageOf(x) \in PageNumbers /\ OffsetIn(x) \in 0 .. PageSize - 1
    BY <2>1, Places
  <2>3. x \in fresh <=> PageOf(x) \in PagesWanted(start, len)
    BY <1>2, <1>3, <2>1, SpanHolds
  <2> HIDE DEF fresh
  <2>4. x \in fresh => ~ Present(x)
    BY <1>1, <2>3 DEF Present
  <2>5. pages'[PageOf(x)] = IF x \in fresh THEN Zeroed ELSE pages[PageOf(x)]
    BY <1>1, <2>2, <2>3
  <2>6. Zeroed # NoPage /\ Zeroed[OffsetIn(x)] = 0
    BY <2>2, ZeroedIs DEF Zeroed
  <2> QED BY <2>1, <2>3, <2>4, <2>5, <2>6 DEF Present, CellAt
<1>7. \A x \in fresh : x \in MmuBase .. WordMod - 1
  <2>1. PICK z, y \in Nat : z = PageSize * k /\ y = PageSize * s
    BY <1>3, Numbers
  <2>2. start + z <= WordMod /\ start >= MmuBase
    BY <1>3, <1>5, <2>1, Numbers
  <2> QED BY <1>4, <2>1, <2>2, Numbers
<1> HIDE DEF fresh
<1>8. fresh \cap Mapped = {} /\ Mapped' = Mapped \cup fresh
  BY <1>6, <1>7 DEF Mapped
<1>9. [x \in Mapped' |-> CellAt(x)']
        = [x \in Mapped \cup fresh |-> IF x \in fresh THEN 0 ELSE [y \in Mapped |-> CellAt(y)][x]]
  <2>1. ASSUME NEW x \in Mapped'
        PROVE  CellAt(x)' = IF x \in fresh THEN 0 ELSE [y \in Mapped |-> CellAt(y)][x]
    <3>1. x \in MmuBase .. WordMod - 1 /\ Present(x)'
      BY DEF Mapped
    <3>2. x \notin fresh => x \in Mapped
      BY <1>8
    <3> QED BY <1>6, <3>1, <3>2
  <2> QED BY <1>8, <2>1
<1>10. start .. start + ((len + PageSize - 1) \div PageSize) * PageSize - 1 = fresh
  <2>1. k * PageSize = PageSize * k
    BY <1>3, Numbers
  <2> QED BY <1>3, <2>1 DEF fresh
<1> QED BY <1>4, <1>8, <1>9, <1>10 DEF Flat!Map, Mapped, CellAt

-----------------------------------------------------------------------------
(* The memory through a step *)

\* The inductive invariant of the memory.
MemoryOK == PagesOK /\ TableOK /\ PagesOwned /\ io.addr \in Words

\* What a step does with the memory.
Accesses ==
  \/ UNCHANGED memVars
  \/ \E addr \in Words, data \in Seq(ByteRange) \ {<<>>}, strays \in BOOLEAN :
       WriteMemory(addr, data, strays)
  \/ \E addr \in Words :
       io' = [op |-> "lost", addr |-> addr, data |-> <<>>] /\ UNCHANGED <<pages, table>>
  \/ \E addr \in Words, n \in Nat :
       Accessible(addr, n) /\ ReadIO(addr, n) /\ UNCHANGED <<pages, table>>
  \/ \E start, len \in Words : DoMMAP(start, len)

LEMMA SetupIs ==
  ASSUME Setup
  PROVE  MemoryOK /\ Flat!FlatInit
<1>1. /\ pages = [p \in PageNumbers |-> IF p < TextPages THEN Zeroed ELSE NoPage]
      /\ table = <<>> /\ io = [op |-> "none", addr |-> 0, data |-> <<>>]
  BY DEF Setup, TextPages
<1>2. PagesOK
  BY <1>1, ZeroedIs DEF PagesOK
<1>3. TableOK
  BY <1>1 DEF TableOK
<1>4. PagesOwned
  BY <1>1 DEF PagesOwned
<1>5. io.addr \in Words /\ io.op = "none"
  BY <1>1, Numbers DEF Words
<1>6. \A x \in Mapped : CellAt(x) = 0
  <2> SUFFICES ASSUME NEW x \in Mapped PROVE CellAt(x) = 0
    OBVIOUS
  <2>1. x \in Nat /\ x >= MmuBase /\ x < WordMod /\ pages[PageOf(x)] # NoPage
    BY Numbers DEF Mapped, Present
  <2>2. PageOf(x) \in PageNumbers /\ OffsetIn(x) \in 0 .. PageSize - 1
    BY <2>1, Places
  <2>3. pages[PageOf(x)] = Zeroed
    BY <1>1, <2>1, <2>2
  <2> QED BY <2>2, <2>3 DEF CellAt, Zeroed
<1>7. Flat!FlatInit
  BY <1>5, <1>6 DEF Flat!FlatInit, Mapped, CellAt
<1> QED BY <1>2, <1>3, <1>4, <1>5, <1>7 DEF MemoryOK

\* Of the memory, a step does what FlatMemory does.
LEMMA AccessIsFlat ==
  ASSUME MemoryOK, Accesses
  PROVE  /\ MemoryOK'
         /\ \/ Flat!Read \/ Flat!Write \/ Flat!Torn \/ Flat!Map \/ Flat!Lost
            \/ UNCHANGED Flat!flatVars
<1>1. PagesOK /\ TableOK /\ PagesOwned /\ io.addr \in Words
  BY DEF MemoryOK
<1>2. ASSUME UNCHANGED <<pages, table>>
      PROVE  /\ PagesOK' /\ TableOK' /\ PagesOwned'
             /\ UNCHANGED [x \in {y \in MmuBase .. WordMod - 1 : Present(y)} |->
                             pages[PageOf(x)][OffsetIn(x)]]
  <2>1. pages' = pages /\ table' = table
    BY <1>2
  <2> QED BY <1>1, <2>1 DEF PagesOK, TableOK, RegionOK, PagesOwned, PagesWanted, Present
<1>3. CASE UNCHANGED memVars
  <2>1. UNCHANGED <<pages, table>> /\ io' = io
    BY <1>3 DEF memVars
  <2> QED BY <1>1, <1>2, <2>1 DEF MemoryOK, Flat!flatVars
<1>4. ASSUME NEW addr \in Words, NEW data \in Seq(ByteRange) \ {<<>>}, NEW strays \in BOOLEAN,
             WriteMemory(addr, data, strays)
      PROVE  MemoryOK' /\ (Flat!Write \/ Flat!Torn \/ Flat!Lost)
  <2>1. /\ PagesOK' /\ table' = table /\ io'.addr = addr
        /\ \A p \in PageNumbers : pages'[p] = NoPage <=> pages[p] = NoPage
        /\ Flat!Write \/ Flat!Torn \/ Flat!Lost
    BY <1>1, <1>4, WriteIsFlat
  <2>2. TableOK' /\ PagesOwned'
    BY <1>1, <2>1 DEF TableOK, RegionOK, PagesOwned, PagesWanted
  <2> QED BY <2>1, <2>2 DEF MemoryOK
<1>5. ASSUME NEW addr \in Words, NEW n \in Nat, Accessible(addr, n), ReadIO(addr, n),
             UNCHANGED <<pages, table>>
      PROVE  MemoryOK' /\ Flat!Read
  <2>1. io'.addr = addr /\ Flat!Read
    BY <1>5, ReadIsFlat
  <2>2. PagesOK' /\ TableOK' /\ PagesOwned'
    BY <1>2, <1>5
  <2> QED BY <2>1, <2>2 DEF MemoryOK
<1>6. ASSUME NEW start \in Words, NEW len \in Words, DoMMAP(start, len)
      PROVE  MemoryOK' /\ (Flat!Map \/ UNCHANGED Flat!flatVars)
  <2>1. CASE MmapRefused(start, len)
    <3>1. UNCHANGED <<pages, table>> /\ io' = io
      BY <1>6, <2>1, RefusedStays DEF memVars
    <3> QED BY <1>1, <1>2, <3>1 DEF MemoryOK, Flat!flatVars
  <2>2. CASE ~ MmapRefused(start, len)
    <3>1. PagesOK' /\ PagesOwned' /\ TableOK' /\ Flat!Map
      BY <1>1, <1>6, <2>2, MapKeepsTable, MapIsFlat
    <3>2. io' = [op |-> "map", addr |-> start, data |-> [k \in 1 .. len |-> 0]]
      BY ONLY <1>1, <1>6, <2>2, start \in Words, len \in Words, MapsAll
    <3>3. io'.addr = start
      BY <3>2
    <3> QED BY <3>1, <3>3 DEF MemoryOK
  <2> QED BY <2>1, <2>2
<1>7. ASSUME NEW addr \in Words, io' = [op |-> "lost", addr |-> addr, data |-> <<>>],
             UNCHANGED <<pages, table>>
      PROVE  MemoryOK' /\ Flat!Lost
  <2>1. io'.addr = addr /\ io'.op = "lost"
    BY <1>7
  <2>2. PagesOK' /\ TableOK' /\ PagesOwned'
    BY <1>2, <1>7
  <2> QED BY <2>1, <2>2 DEF MemoryOK, Flat!Lost
<1> QED BY <1>3, <1>4, <1>5, <1>6, <1>7 DEF Accesses

\* No page is in use past the table.
LEMMA OwnedInTable ==
  ASSUME MemoryOK, NEW p \in PageNumbers, pages[p] # NoPage
  PROVE  p < PAGE_COUNT_MAX
<1>1. TableOK /\ PagesOwned
  BY DEF MemoryOK
<1>2. p \in Nat /\ PageSize \in Nat /\ PageSize > 0
  BY Pages DEF PageNumbers
<1>3. ASSUME NEW q \in Nat, MmuBase + PageSize * q < MmuMax
      PROVE  q < PAGE_COUNT_MAX
  <2> SUFFICES ASSUME PAGE_COUNT_MAX <= q PROVE FALSE
    BY TopIs
  <2>1. PageSize * PAGE_COUNT_MAX <= PageSize * q
    BY <1>2, TopIs
  <2>2. PICK y, z \in Nat : y = PageSize * q /\ z = PageSize * PAGE_COUNT_MAX
    BY <1>2, TopIs
  <2> QED BY <1>3, <2>1, <2>2, TopIs, Numbers
<1>4. CASE p < TextPages
  <2>1. PageSize * p < PageSize * TextPages
    BY <1>2, <1>4, TextIs
  <2>2. PICK y, z \in Nat : y = PageSize * p /\ z = PageSize * TextPages
    BY <1>2, TextIs
  <2>3. MmuBase + PageSize * p < MmuMax
    BY <2>1, <2>2, TextIs, TopIs, Numbers
  <2> QED BY <1>2, <1>3, <2>3
<1>5. ASSUME NEW j \in DOMAIN table, p \in PagesWanted(table[j].start, table[j].len)
      PROVE  p < PAGE_COUNT_MAX
  <2> DEFINE old == table[j]
  <2>1. RegionOK(old)
    BY <1>1 DEF TableOK
  <2> HIDE DEF old
  <2>2. /\ old.start \in Nat /\ old.len \in Nat /\ old.start >= MmuBase /\ OffsetIn(old.start) = 0
        /\ old.start + old.len <= MmuMax /\ old.start + old.len <= WordMod
    BY <2>1, TextIs, TopIs, Numbers DEF RegionOK
  <2>3. PICK s, k : Spans(old.start, old.len, s, k)
    BY <2>2, SpanExists
  <2>4. /\ s \in Nat /\ k \in Nat /\ old.start = MmuBase + PageSize * s
        /\ PageSize * k < old.len + PageSize /\ p <= s + k - 1
    BY <1>2, <1>5, <2>3 DEF Spans, old
  <2>5. PageSize * p <= PageSize * (s + k - 1) /\ PageSize * (s + k - 1) = PageSize * s + PageSize * k - PageSize
    BY <1>2, <2>4
  <2>6. PICK x, y, z \in Nat : x = PageSize * p /\ y = PageSize * s /\ z = PageSize * k
    BY <1>2, <2>4
  <2>7. MmuBase + PageSize * p < MmuMax
    BY <1>2, <2>2, <2>4, <2>5, <2>6, TopIs, Numbers
  <2> QED BY <1>2, <1>3, <2>7
<1> QED BY <1>1, <1>4, <1>5 DEF PagesOwned

\* The invariant gives the types.
LEMMA MemoryTyped ==
  ASSUME MemoryOK
  PROVE  MemoryTypeOK
<1>1. PagesOK /\ TableOK /\ io.addr \in Words
  BY DEF MemoryOK
<1>2. pages \in [PageNumbers -> {NoPage} \cup [0 .. PageSize - 1 -> 0 .. ByteValues - 1]]
  BY <1>1 DEF PagesOK, PageBytes, ByteRange
<1>3. io.addr \in 0 .. WordMod
  BY <1>1, Numbers DEF Words
<1>4. \A j \in DOMAIN table : table[j].start \in MmuBase .. WordMod /\ table[j].len \in 0 .. MmapMaxLength
  <2> SUFFICES ASSUME NEW old, RegionOK(old)
               PROVE  old.start \in MmuBase .. WordMod /\ old.len \in 0 .. MmapMaxLength
    BY <1>1 DEF TableOK
  <2> QED BY TextIs, TopIs, Numbers, ReesesMemoryAssumption DEF RegionOK
<1>5. \A p \in PageNumbers : p >= PAGE_COUNT_MAX => pages[p] = NoPage
  <2> SUFFICES ASSUME NEW p \in PageNumbers, p >= PAGE_COUNT_MAX, pages[p] # NoPage PROVE FALSE
    OBVIOUS
  <2>1. p \in Nat /\ PAGE_COUNT_MAX \in Nat
    BY Pages, TopIs DEF PageNumbers
  <2> QED BY <2>1, OwnedInTable
<1> QED BY <1>2, <1>3, <1>4, <1>5 DEF MemoryTypeOK

-----------------------------------------------------------------------------
(* Words and their bits *)

LEMMA Bits == WordBits \in Nat /\ WordBits >= 4
BY ReesesAssumption

LEMMA TwoToIs ==
  /\ TwoTo[0] = 1
  /\ \A k \in 1 .. WordBits : TwoTo[k] = 2 * TwoTo[k - 1]
  /\ \A k \in 0 .. WordBits : TwoTo[k] \in Nat /\ TwoTo[k] > 0
<1>1. WordBits \in Nat
  BY Bits
<1>2. \E g : g = [k \in 0 .. WordBits |-> IF k = 0 THEN 1 ELSE 2 * g[k - 1]]
  <2> DEFINE b == 2
  <2>1. b \in Nat /\ b > 0
    OBVIOUS
  <2> HIDE DEF b
  <2>2. \E g : g = [k \in 0 .. WordBits |-> IF k = 0 THEN 1 ELSE b * g[k - 1]]
    BY <1>1, <2>1, PowersExist
  <2> QED BY <2>2 DEF b
<1>3. TwoTo = [k \in 0 .. WordBits |-> IF k = 0 THEN 1 ELSE 2 * TwoTo[k - 1]]
  BY <1>2 DEF TwoTo
<1>4. 2 \in Nat /\ 2 > 0
  OBVIOUS
<1> QED BY <1>1, <1>3, <1>4, PowersAre

LEMMA TwoToUp ==
  ASSUME NEW j \in 0 .. WordBits, NEW i \in 0 .. j
  PROVE  TwoTo[i] <= TwoTo[j]
<1> DEFINE S == {k \in 0 .. WordBits : i <= k => TwoTo[i] <= TwoTo[k]}
<1>1. WordBits \in Nat /\ i \in 0 .. WordBits
  BY Bits
<1>2. 0 \in S
  BY <1>1, TwoToIs
<1>3. ASSUME NEW k \in 1 .. WordBits, k - 1 \in S PROVE k \in S
  <2>1. k - 1 \in 0 .. WordBits /\ k \in 0 .. WordBits /\ k \in Nat
    BY <1>1
  <2>2. TwoTo[k] = 2 * TwoTo[k - 1] /\ TwoTo[k - 1] \in Nat /\ TwoTo[i] \in Nat /\ TwoTo[k] \in Nat
    BY <1>1, <2>1, TwoToIs
  <2>3. i <= k - 1 \/ i = k \/ ~ i <= k
    BY <1>1, <2>1
  <2> QED BY <1>1, <1>3, <2>1, <2>2, <2>3
<1> HIDE DEF S
<1>4. 0 .. WordBits \subseteq S
  BY ONLY <1>1, <1>2, <1>3, LoopInduction
<1> QED BY <1>4, <1>1 DEF S

BitOf(w, k) == (w \div TwoTo[k]) % 2
Table(T) == T \in [Bit -> [Bit -> Bit]]

\* f[k] is made of the first k bits.
FirstBits(f, x, y, T) ==
  /\ f[0] = 0 /\ \A k \in 0 .. WordBits : f[k] \in Nat
  /\ \A k \in 1 .. WordBits : f[k] = f[k - 1] + T[BitOf(x, k - 1)][BitOf(y, k - 1)] * TwoTo[k - 1]
  /\ f[WordBits] = Bitwise2(x, y, T)

LEMMA BitOfBit ==
  ASSUME NEW w \in Nat, NEW k \in 0 .. WordBits
  PROVE  BitOf(w, k) \in Bit
<1>1. TwoTo[k] \in Nat /\ TwoTo[k] > 0
  BY TwoToIs
<1>2. w \div TwoTo[k] \in Nat
  BY <1>1, DivisionIs
<1> DEFINE q == w \div TwoTo[k]
<1>3. q \in Nat
  BY <1>2
<1> HIDE DEF q
<1>4. q % 2 \in {0, 1}
  BY <1>3
<1> QED BY <1>4 DEF BitOf, Bit, q

LEMMA BitwiseIs ==
  ASSUME NEW x \in Nat, NEW y \in Nat, NEW T, Table(T)
  PROVE  \E f : FirstBits(f, x, y, T)
<1> DEFINE t(k) == T[BitOf(x, k - 1)][BitOf(y, k - 1)] * TwoTo[k - 1]
           F == [k \in 1 .. WordBits |-> [v \in Nat |-> v + t(k)]]
           X == Nat
           zero == 0
<1>1. WordBits \in Nat
  BY Bits
<1>2. \A k \in 1 .. WordBits : t(k) \in Nat
  <2> SUFFICES ASSUME NEW k \in 1 .. WordBits PROVE t(k) \in Nat
    OBVIOUS
  <2>1. k - 1 \in 0 .. WordBits
    BY <1>1
  <2>2. BitOf(x, k - 1) \in Bit /\ BitOf(y, k - 1) \in Bit /\ TwoTo[k - 1] \in Nat
    BY <2>1, BitOfBit, TwoToIs
  <2>3. T[BitOf(x, k - 1)][BitOf(y, k - 1)] \in Bit
    BY <2>2 DEF Table
  <2> QED BY <2>2, <2>3 DEF Bit
<1> HIDE DEF t
<1>3. zero \in X /\ F \in [1 .. WordBits -> [X -> X]]
  BY <1>2
<1> HIDE DEF X, zero, F
<1>4. PICK g : IsLoop(g, WordBits, X, zero, F)
  BY <1>1, <1>3, LoopExists
<1>5. g \in [0 .. WordBits -> Nat] /\ g[0] = 0 /\ \A k \in 1 .. WordBits : g[k] = F[k][g[k - 1]]
  BY <1>4 DEF IsLoop, X, zero
<1>6. \A k \in 1 .. WordBits : g[k] = g[k - 1] + t(k)
  <2> SUFFICES ASSUME NEW k \in 1 .. WordBits PROVE g[k] = g[k - 1] + t(k)
    OBVIOUS
  <2>1. g[k - 1] \in Nat
    BY <1>1, <1>5
  <2> QED BY <1>5, <2>1 DEF F
<1>7. g = [k \in 0 .. WordBits |-> IF k = 0 THEN 0 ELSE g[k - 1] + t(k)]
  BY <1>1, <1>5, <1>6
<1> DEFINE IsSum(f) == f = [k \in 0 .. WordBits |-> IF k = 0 THEN 0 ELSE f[k - 1] + t(k)]
           h == CHOOSE f : IsSum(f)
<1>8. IsSum(h)
  BY <1>7
<1>9. Bitwise2(x, y, T) = h[WordBits]
  BY DEF Bitwise2, t, BitOf
<1> HIDE DEF h
<1>10. h[0] = 0 /\ \A k \in 1 .. WordBits : h[k] = h[k - 1] + t(k)
  BY <1>1, <1>8
<1> HIDE DEF IsSum
<1>11. \A k \in 0 .. WordBits : h[k] \in Nat
  <2> DEFINE S == {k \in 0 .. WordBits : h[k] \in Nat}
  <2>1. 0 \in S
    BY <1>1, <1>10
  <2>2. ASSUME NEW k \in 1 .. WordBits, k - 1 \in S PROVE k \in S
    BY <1>1, <1>2, <1>10, <2>2
  <2> HIDE DEF S
  <2>3. 0 .. WordBits \subseteq S
    BY ONLY <1>1, <2>1, <2>2, LoopInduction
  <2> QED BY <2>3 DEF S
<1>12. FirstBits(h, x, y, T)
  BY <1>9, <1>10, <1>11 DEF FirstBits, t
<1> QED BY <1>12

\* An operation on bits makes words of words, and bytes of bytes.
LEMMA BitwiseTyped ==
  ASSUME NEW x \in Nat, NEW y \in Nat, NEW T, Table(T)
  PROVE  /\ Bitwise2(x, y, T) \in Words
         /\ x \in ByteRange /\ y \in ByteRange /\ T[0][0] = 0 => Bitwise2(x, y, T) \in ByteRange
<1>1. PICK f : FirstBits(f, x, y, T)
  BY BitwiseIs
<1>2. WordBits \in Nat /\ WordMod = TwoTo[WordBits]
  BY ReesesAssumption
<1>3. /\ f[0] = 0 /\ f[WordBits] = Bitwise2(x, y, T)
      /\ \A k \in 0 .. WordBits : f[k] \in Nat
      /\ \A k \in 1 .. WordBits :
           f[k] = f[k - 1] + T[BitOf(x, k - 1)][BitOf(y, k - 1)] * TwoTo[k - 1]
  BY <1>1 DEF FirstBits
<1>4. ASSUME NEW k \in 1 .. WordBits
      PROVE  /\ k - 1 \in 0 .. WordBits /\ k \in 0 .. WordBits
             /\ T[BitOf(x, k - 1)][BitOf(y, k - 1)] \in Bit
             /\ TwoTo[k] = 2 * TwoTo[k - 1] /\ TwoTo[k - 1] \in Nat /\ TwoTo[k - 1] > 0
  <2>1. k - 1 \in 0 .. WordBits /\ k \in 0 .. WordBits
    BY <1>2
  <2>2. BitOf(x, k - 1) \in Bit /\ BitOf(y, k - 1) \in Bit
    BY <2>1, BitOfBit
  <2>3. T[BitOf(x, k - 1)][BitOf(y, k - 1)] \in Bit
    BY <2>2 DEF Table
  <2> QED BY <2>1, <2>3, TwoToIs
<1> DEFINE t(k) == T[BitOf(x, k - 1)][BitOf(y, k - 1)]
<1>5. ASSUME NEW k \in 1 .. WordBits
      PROVE  /\ t(k) = 0 => f[k] = f[k - 1]
             /\ t(k) # 0 => f[k] = f[k - 1] + TwoTo[k - 1]
  <2>1. t(k) = 0 \/ t(k) = 1
    BY <1>4 DEF Bit
  <2>2. f[k] = f[k - 1] + t(k) * TwoTo[k - 1] /\ f[k - 1] \in Nat /\ TwoTo[k - 1] \in Nat
    BY <1>3, <1>4
  <2> HIDE DEF t
  <2> QED BY <2>1, <2>2
<1> HIDE DEF t
<1>6. f[WordBits] < TwoTo[WordBits]
  <2> DEFINE S == {k \in 0 .. WordBits : f[k] < TwoTo[k]}
  <2>1. 0 \in S
    BY <1>2, <1>3, TwoToIs
  <2>2. ASSUME NEW k \in 1 .. WordBits, k - 1 \in S PROVE k \in S
    <3>1. f[k - 1] \in Nat /\ f[k - 1] < TwoTo[k - 1] /\ f[k] \in Nat
      BY <1>3, <1>4, <2>2
    <3>2. f[k] < TwoTo[k]
      BY <1>4, <1>5, <3>1
    <3> QED BY <1>4, <3>2
  <2> HIDE DEF S
  <2>3. 0 .. WordBits \subseteq S
    BY ONLY <1>2, <2>1, <2>2, LoopInduction
  <2>4. WordBits \in S
    BY <1>2, <2>3
  <2> QED BY <2>4 DEF S
<1>7. Bitwise2(x, y, T) \in Words
  <2>1. WordBits \in 0 .. WordBits
    BY <1>2
  <2>2. f[WordBits] \in Nat
    BY <1>3, <2>1
  <2> QED BY <1>2, <1>3, <1>6, <2>2, Numbers DEF Words
<1>8. ASSUME x \in ByteRange, y \in ByteRange, T[0][0] = 0
      PROVE  Bitwise2(x, y, T) \in ByteRange
  <2>1. PICK b \in 1 .. WordBits : ByteValues = TwoTo[b]
    BY ReesesAssumption
  <2>2. ByteValues \in Nat /\ ByteValues > 0 /\ x < ByteValues /\ y < ByteValues /\ b \in 0 .. WordBits
    BY <1>2, <1>8, ReesesMemoryAssumption DEF ByteRange
  <2>3. ASSUME NEW k \in 1 .. WordBits, k - 1 >= b PROVE f[k] = f[k - 1]
    <3>1. k - 1 \in 0 .. WordBits /\ b \in 0 .. k - 1
      BY <1>4, <2>2, <2>3
    <3>2. ByteValues <= TwoTo[k - 1] /\ TwoTo[k - 1] \in Nat /\ TwoTo[k - 1] > 0
      BY <1>4, <2>1, <3>1, TwoToUp
    <3>3. \A w \in Nat : w < ByteValues => BitOf(w, k - 1) = 0
      <4> SUFFICES ASSUME NEW w \in Nat, w < ByteValues PROVE BitOf(w, k - 1) = 0
        OBVIOUS
      <4> DEFINE p == TwoTo[k - 1]
      <4>1. p \in Nat /\ p > 0 /\ w \in 0 .. p - 1
        BY <2>2, <3>2
      <4> HIDE DEF p
      <4>2. (p * 0 + w) \div p = 0 /\ p * 0 + w = w
        BY <4>1, QuotientUnique
      <4> QED BY <4>2 DEF BitOf, p
    <3>4. t(k) = 0
      BY <1>8, <2>2, <3>3 DEF t
    <3> QED BY <1>5, <3>4
  <2> DEFINE S == {k \in 0 .. WordBits : f[k] < TwoTo[k] /\ f[k] < TwoTo[b]}
  <2>4. 0 \in S
    BY <1>2, <1>3, <2>2, TwoToIs
  <2>5. ASSUME NEW k \in 1 .. WordBits, k - 1 \in S PROVE k \in S
    <3>1. /\ f[k - 1] \in Nat /\ f[k - 1] < TwoTo[k - 1] /\ f[k - 1] < TwoTo[b] /\ f[k] \in Nat
          /\ TwoTo[k] \in Nat /\ TwoTo[b] \in Nat
      BY <1>3, <1>4, <2>2, <2>5, TwoToIs
    <3>2. f[k] < TwoTo[k]
      BY <1>4, <1>5, <3>1
    <3>3. f[k] < TwoTo[b]
      <4>1. CASE k - 1 >= b
        BY <2>3, <3>1, <4>1
      <4>2. CASE k - 1 < b
        <5>1. k \in 0 .. b /\ b \in 0 .. WordBits
          BY <1>2, <2>2, <4>2
        <5>2. TwoTo[k] <= TwoTo[b]
          BY <5>1, TwoToUp
        <5> QED BY <3>1, <3>2, <5>2
      <4> QED BY <1>4, <2>2, <4>1, <4>2
    <3> QED BY <1>4, <3>2, <3>3
  <2> HIDE DEF S
  <2>6. 0 .. WordBits \subseteq S
    BY ONLY <1>2, <2>4, <2>5, LoopInduction
  <2>7. WordBits \in S /\ f[WordBits] \in Nat
    BY <1>2, <1>3, <2>6
  <2> QED BY <1>3, <2>1, <2>2, <2>7 DEF S, ByteRange
<1> QED BY <1>7, <1>8

LEMMA Tables ==
  Table(AndBit) /\ Table(OrBit) /\ Table(XorBit) /\ Table(NorBit) /\ XorBit[0][0] = 0
<1>1. Table(AndBit)
  BY DEF Table, AndBit, Bit
<1>2. Table(OrBit)
  BY DEF Table, OrBit, Bit
<1>3. Table(XorBit) /\ XorBit[0][0] = 0
  BY DEF Table, XorBit, Bit
<1>4. Table(NorBit)
  BY DEF Table, NorBit, OrBit, Bit
<1> QED BY <1>1, <1>2, <1>3, <1>4

-----------------------------------------------------------------------------
(* What arithmetic makes *)

LEMMA ModWord ==
  ASSUME NEW z \in Int
  PROVE  z % WordMod \in Words
BY Numbers, DivMod DEF Words

LEMMA WordIs ==
  ASSUME NEW x \in Words
  PROVE  x \in Nat /\ x < WordMod
BY Numbers DEF Words

LEMMA IsWord ==
  ASSUME NEW x \in Nat, x < WordMod
  PROVE  x \in Words
BY Numbers DEF Words

\* A number of two digits.
LEMMA TwoDigits ==
  ASSUME NEW A \in Nat, NEW C \in Nat, A * C = WordMod, NEW x \in 0 .. A - 1, NEW y \in 0 .. C - 1
  PROVE  x * C + y \in Words
<1>1. x \in Nat /\ y \in Nat /\ y < C /\ x + 1 <= A
  OBVIOUS
<1>2. (x + 1) * C <= A * C /\ (x + 1) * C = x * C + C
  BY <1>1
<1>3. PICK z, w \in Nat : z = x * C /\ w = A * C
  BY <1>1
<1>4. z + y \in Nat /\ z + y < WordMod
  BY <1>1, <1>2, <1>3
<1> QED BY <1>3, <1>4, IsWord

LEMMA FirstDigit ==
  ASSUME NEW A \in Nat, NEW C \in Nat, C > 0, A * C = WordMod, NEW x \in Words
  PROVE  x \div C \in 0 .. A - 1 /\ x % C \in 0 .. C - 1
<1>1. x \in Nat /\ x < WordMod
  BY WordIs
<1>2. PICK q \in Nat, rem \in 0 .. C - 1 : q = x \div C /\ rem = x % C /\ x = C * q + rem
  BY <1>1, DivisionIs
<1>3. q < A
  <2> SUFFICES ASSUME q >= A PROVE FALSE
    BY <1>2
  <2>1. C * q >= C * A /\ C * A = A * C
    BY <1>2
  <2>2. PICK z, w \in Nat : z = C * q /\ w = A * C
    BY <1>2
  <2> QED BY <1>1, <1>2, <2>1, <2>2
<1> QED BY <1>2, <1>3

LEMMA PowerSplits ==
  ASSUME NEW k \in 0 .. 4
  PROVE  Power[k] * Power[4 - k] = WordMod
<1> DEFINE B == ByteValues
<1>1. B \in Nat
  BY ReesesMemoryAssumption
<1>2. /\ Power[0] = 1 /\ Power[1] = B * Power[0] /\ Power[2] = B * Power[1]
      /\ Power[3] = B * Power[2] /\ Power[4] = B * Power[3]
  BY PowerIs
<1>3. PICK p \in Nat : p = B * B
  BY <1>1
<1> HIDE DEF B
<1>4. Power[1] = B /\ Power[2] = p /\ Power[3] = B * p /\ Power[4] = B * (B * p)
  BY <1>1, <1>2, <1>3
<1>5. B * (B * p) = p * p /\ (B * p) * B = B * (B * p)
  <2>1. B * (B * p) = (B * B) * p
    BY ONLY <1>1, p \in Nat
  <2>2. (B * p) * B = B * (B * p)
    BY ONLY <1>1, p \in Nat
  <2> QED BY <1>3, <2>1, <2>2
<1>6. PICK w \in Nat : w = B * (B * p)
  BY <1>1
<1>7. w = WordMod
  BY <1>4, <1>6 DEF WordMod
<1>8. CASE k = 0
  BY <1>2, <1>4, <1>6, <1>7, <1>8
<1>9. CASE k = 1
  BY <1>4, <1>6, <1>7, <1>9
<1>10. CASE k = 2
  BY <1>4, <1>5, <1>6, <1>7, <1>10
<1>11. CASE k = 3
  BY <1>4, <1>5, <1>6, <1>7, <1>11
<1>12. CASE k = 4
  BY <1>2, <1>4, <1>6, <1>7, <1>12
<1> QED BY <1>8, <1>9, <1>10, <1>11, <1>12

LEMMA HalfIs ==
  HalfMod \in Nat /\ HalfMod > 0 /\ HalfMod * HalfMod = WordMod /\ HalfMod <= WordMod
<1>1. HalfMod \in Nat /\ HalfMod > 0
  BY PowerIs DEF HalfMod
<1>2. HalfMod * HalfMod = WordMod
  <2>1. Power[2] * Power[4 - 2] = WordMod
    BY PowerSplits
  <2> QED BY <2>1 DEF HalfMod
<1>3. HalfMod <= HalfMod * HalfMod
  <2> DEFINE h == HalfMod
  <2> HIDE DEF h
  <2>1. h \in Nat /\ h > 0 => h <= h * h
    OBVIOUS
  <2> QED BY <1>1, <2>1 DEF h
<1> QED BY <1>1, <1>2, <1>3

LEMMA SignedInt ==
  ASSUME NEW w \in Words
  PROVE  Signed(w) \in Int
BY WordIs, Numbers DEF Signed

LEMMA ExtendedWord ==
  ASSUME NEW mod \in Nat, mod <= WordMod, NEW v \in 0 .. mod - 1
  PROVE  Extended(v, mod) \in Words
<1>1. v \in Nat /\ v < mod
  OBVIOUS
<1>2. WordMod - mod + v \in Nat /\ WordMod - mod + v < WordMod /\ v < WordMod
  BY <1>1, Numbers
<1> QED BY <1>1, <1>2, IsWord DEF Extended

LEMMA FlagWord == ASSUME NEW b \in BOOLEAN PROVE Flag01(b) \in Words
<1>1. 1 < WordMod
  BY HalfIs, Numbers, ReesesMemoryAssumption, TextIs
<1>2. 0 \in Words /\ 1 \in Words
  BY <1>1, IsWord, Numbers
<1> QED BY <1>2 DEF Flag01

LEMMA ShiftedWord ==
  ASSUME NEW w \in Words, NEW n \in 0 .. WordBits
  PROVE  ShiftedDown(w, n) \in Words
<1>1. TwoTo[n] \in Nat /\ TwoTo[n] > 0
  BY TwoToIs
<1>2. Signed(w) \div TwoTo[n] \in Int
  BY <1>1, SignedInt
<1> QED BY <1>2, ModWord DEF ShiftedDown

LEMMA srlWord ==
  ASSUME NEW w \in Words, NEW n \in 0 .. WordBits
  PROVE  srl(w, n) \in Words
<1> DEFINE x == ShiftedDown(w, n)
           t == TwoTo[WordBits - n]
<1>1. x \in Nat /\ x < WordMod
  BY ShiftedWord, WordIs
<1>2. t \in Nat /\ t > 0
  BY Bits, TwoToIs
<1> HIDE DEF x, t
<1>3. PICK q \in Nat, rem \in 0 .. t - 1 : q = x \div t /\ rem = x % t /\ x = t * q + rem
  BY <1>1, <1>2, DivisionIs
<1>4. PICK z \in Nat : z = t * q
  BY <1>2, <1>3
<1>5. rem \in Nat /\ rem < WordMod
  BY <1>1, <1>2, <1>3, <1>4, Numbers
<1> QED BY <1>3, <1>5, IsWord DEF srl, x, t

LEMMA sraWord ==
  ASSUME NEW w \in Words, NEW n \in 0 .. WordBits
  PROVE  sra(w, n) \in Words
<1> DEFINE x == ShiftedDown(w, n)
           y(s) == s * (TwoTo[n] - 1) * TwoTo[WordBits - n]
<1>1. x \in Nat
  BY ShiftedWord, WordIs
<1>2. \A s \in {0, 1} : y(s) \in Nat
  <2> SUFFICES ASSUME NEW s \in {0, 1} PROVE y(s) \in Nat
    OBVIOUS
  <2>1. TwoTo[n] \in Nat /\ TwoTo[n] > 0 /\ TwoTo[WordBits - n] \in Nat
    BY Bits, TwoToIs
  <2>2. PICK ua, ub \in Nat : ua = TwoTo[n] - 1 /\ ub = TwoTo[WordBits - n]
    BY <2>1
  <2>3. s * ua * ub \in Nat
    BY <2>2
  <2> QED BY <2>2, <2>3
<1> HIDE DEF x, y
<1>3. \A s \in {0, 1} : Bitwise2(x, y(s), OrBit) \in Words
  BY <1>1, <1>2, Tables, BitwiseTyped
<1> QED BY <1>3 DEF sra, x, y

ValueOps ==
  {"add", "addu", "sub", "subu", "slt", "sltu", "and", "or", "xor", "nor", "lui", "sll", "srl", "sra"}

\* What an operation and its two operands may be.
OperandsOK(op, x, y) ==
  /\ op \in ValueOps /\ x \in Words /\ y \in Words
  /\ op \in ShiftBy => y < WordBits
  /\ op = "lui" => y < HalfMod

LEMMA ValueWord ==
  ASSUME NEW op, NEW x, NEW y, OperandsOK(op, x, y)
  PROVE  Value(op, x, y) \in Words
<1>1. op \in ValueOps /\ x \in Words /\ y \in Words /\ x \in Nat /\ y \in Nat
  BY WordIs DEF OperandsOK
<1>2. CASE op \in {"add", "addu"}
  <2>1. Value(op, x, y) = (x + y) % WordMod
    BY <1>2 DEF Value
  <2> QED BY <1>1, <2>1, ModWord
<1>3. CASE op \in {"sub", "subu"}
  <2>1. Value(op, x, y) = (x - y) % WordMod
    BY <1>3 DEF Value
  <2> QED BY <1>1, <2>1, ModWord
<1>4. CASE op = "slt"
  <2>1. Value(op, x, y) = Flag01(Signed(x) < Signed(y))
    BY <1>4 DEF Value
  <2>2. (Signed(x) < Signed(y)) \in BOOLEAN
    BY <1>1, SignedInt
  <2> QED BY <2>1, <2>2, FlagWord
<1>5. CASE op = "sltu"
  <2>1. Value(op, x, y) = Flag01(x < y)
    BY <1>5 DEF Value
  <2>2. (x < y) \in BOOLEAN
    BY <1>1
  <2> QED BY <2>1, <2>2, FlagWord
<1>6. CASE op \in {"and", "or", "xor", "nor"}
  <2>1. \E T \in {AndBit, OrBit, XorBit, NorBit} : Value(op, x, y) = Bitwise2(x, y, T)
    BY <1>6 DEF Value
  <2> QED BY <1>1, <2>1, Tables, BitwiseTyped
<1>7. CASE op = "lui"
  <2>1. Value(op, x, y) = y * HalfMod
    BY <1>7 DEF Value
  <2>2. y \in 0 .. HalfMod - 1 /\ 0 \in 0 .. HalfMod - 1
    BY <1>1, <1>7, HalfIs DEF OperandsOK
  <2>3. y * HalfMod + 0 \in Words
    BY <2>2, HalfIs, TwoDigits
  <2>4. y * HalfMod + 0 = y * HalfMod
    BY <1>1, HalfIs
  <2> QED BY <2>1, <2>3, <2>4
<1>8. CASE op \in ShiftBy
  <2>1. y \in 0 .. WordBits
    BY <1>1, <1>8, Bits DEF OperandsOK
  <2>2. TwoTo[y] \in Nat /\ x * TwoTo[y] \in Int
    BY <1>1, <2>1, TwoToIs
  <2>3. Value(op, x, y) \in {(x * TwoTo[y]) % WordMod, srl(x, y), sra(x, y)}
    BY <1>8 DEF Value, ShiftBy
  <2> QED BY <1>1, <2>1, <2>2, <2>3, ModWord, srlWord, sraWord
<1> QED BY <1>1, <1>2, <1>3, <1>4, <1>5, <1>6, <1>7, <1>8 DEF ValueOps, ShiftBy

-----------------------------------------------------------------------------
(* Words of bytes and bytes of words *)

\* The sum of the first k bytes of a word.
FirstBytes(f, bytes) ==
  /\ f[0] = 0 /\ \A k \in 0 .. Len(bytes) : f[k] \in Nat
  /\ \A k \in 1 .. Len(bytes) : f[k] = f[k - 1] + bytes[k] * Power[k - 1]
  /\ f[Len(bytes)] = ValueOf(bytes)

LEMMA ByteRangeIs == ByteValues \in Nat /\ ByteValues > 1 /\ \A b \in ByteRange : b \in Nat /\ b < ByteValues
BY ReesesMemoryAssumption DEF ByteRange

LEMMA FirstBytesExist ==
  ASSUME NEW bytes \in Seq(ByteRange), Len(bytes) <= 4
  PROVE  \E f : FirstBytes(f, bytes)
<1> DEFINE n == Len(bytes)
           t(k) == bytes[k] * Power[k - 1]
           F == [k \in 1 .. n |-> [v \in Nat |-> v + t(k)]]
           X == Nat
           zero == 0
<1>1. n \in Nat /\ n <= 4
  OBVIOUS
<1>2. \A k \in 1 .. n : t(k) \in Nat
  <2> SUFFICES ASSUME NEW k \in 1 .. n PROVE t(k) \in Nat
    OBVIOUS
  <2>1. k - 1 \in 0 .. 4 /\ bytes[k] \in ByteRange
    BY <1>1
  <2>2. bytes[k] \in Nat /\ Power[k - 1] \in Nat
    BY <2>1, ByteRangeIs, PowerIs
  <2> QED BY <2>2
<1> HIDE DEF t, n
<1>3. zero \in X /\ F \in [1 .. n -> [X -> X]]
  BY <1>2
<1> HIDE DEF X, zero, F
<1>4. PICK g : IsLoop(g, n, X, zero, F)
  BY <1>1, <1>3, LoopExists
<1>5. g \in [0 .. n -> Nat] /\ g[0] = 0 /\ \A k \in 1 .. n : g[k] = F[k][g[k - 1]]
  BY <1>4 DEF IsLoop, X, zero
<1>6. \A k \in 1 .. n : g[k] = g[k - 1] + t(k)
  <2> SUFFICES ASSUME NEW k \in 1 .. n PROVE g[k] = g[k - 1] + t(k)
    OBVIOUS
  <2>1. g[k - 1] \in Nat
    BY <1>1, <1>5
  <2> QED BY <1>5, <2>1 DEF F
<1>7. g = [k \in 0 .. n |-> IF k = 0 THEN 0 ELSE g[k - 1] + t(k)]
  BY <1>1, <1>5, <1>6
<1> DEFINE IsSum(f) == f = [k \in 0 .. n |-> IF k = 0 THEN 0 ELSE f[k - 1] + t(k)]
           h == CHOOSE f : IsSum(f)
<1>8. IsSum(h)
  BY <1>7
<1>9. ValueOf(bytes) = h[n]
  BY DEF ValueOf, t, n
<1> HIDE DEF h
<1>10. h[0] = 0 /\ \A k \in 1 .. n : h[k] = h[k - 1] + t(k)
  BY <1>1, <1>8
<1> HIDE DEF IsSum
<1>11. \A k \in 0 .. n : h[k] \in Nat
  <2> DEFINE S == {k \in 0 .. n : h[k] \in Nat}
  <2>1. 0 \in S
    BY <1>1, <1>10
  <2>2. ASSUME NEW k \in 1 .. n, k - 1 \in S PROVE k \in S
    BY <1>1, <1>2, <1>10, <2>2
  <2> HIDE DEF S
  <2>3. 0 .. n \subseteq S
    BY ONLY <1>1, <2>1, <2>2, LoopInduction
  <2> QED BY <2>3 DEF S
<1>12. FirstBytes(h, bytes)
  BY <1>9, <1>10, <1>11 DEF FirstBytes, t, n
<1> QED BY <1>12

LEMMA NextDigit ==
  ASSUME NEW B \in Nat, NEW p \in Nat, NEW b \in Nat, b + 1 <= B, NEW v \in Nat, v < p
  PROVE  v + b * p < B * p
<1>1. (b + 1) * p <= B * p /\ (b + 1) * p = b * p + p
  OBVIOUS
<1>2. PICK y, z \in Nat : y = b * p /\ z = B * p
  OBVIOUS
<1> QED BY <1>1, <1>2

LEMMA ValueIs ==
  ASSUME NEW bytes \in Seq(ByteRange), Len(bytes) <= 4
  PROVE  ValueOf(bytes) \in 0 .. Power[Len(bytes)] - 1
<1> DEFINE n == Len(bytes)
<1>1. n \in Nat /\ n <= 4 /\ \A k \in 1 .. n : bytes[k] \in ByteRange
  OBVIOUS
<1>2. PICK f : FirstBytes(f, bytes)
  BY FirstBytesExist
<1>3. /\ f[0] = 0 /\ (\A k \in 0 .. n : f[k] \in Nat) /\ f[n] = ValueOf(bytes)
      /\ \A k \in 1 .. n : f[k] = f[k - 1] + bytes[k] * Power[k - 1]
  BY <1>2 DEF FirstBytes
<1> HIDE DEF n
<1> DEFINE S == {k \in 0 .. n : f[k] < Power[k]}
<1>4. 0 \in S
  BY <1>1, <1>3, PowerIs
<1>5. ASSUME NEW k \in 1 .. n, k - 1 \in S PROVE k \in S
  <2>1. k - 1 \in 0 .. n /\ k - 1 \in 0 .. 4 /\ k \in 1 .. 4 /\ k \in 0 .. n
    BY <1>1
  <2>2. PICK p \in Nat : p = Power[k - 1] /\ Power[k] = ByteValues * p
    BY <2>1, PowerIs
  <2>3. PICK b \in Nat : b = bytes[k] /\ b + 1 <= ByteValues
    BY <1>1, ByteRangeIs
  <2>4. f[k] = f[k - 1] + b * p /\ f[k - 1] \in Nat /\ f[k - 1] < p
    BY <1>3, <1>5, <2>1, <2>2, <2>3
  <2>5. f[k - 1] + b * p < ByteValues * p
    BY <2>3, <2>4, ByteRangeIs, NextDigit
  <2>6. f[k] < Power[k]
    BY <2>2, <2>4, <2>5
  <2> QED BY <2>1, <2>6
<1> HIDE DEF S
<1>6. 0 .. n \subseteq S
  BY ONLY <1>1, <1>4, <1>5, LoopInduction
<1>7. n \in S /\ f[n] \in Nat /\ Power[n] \in Nat
  <2>1. n \in 0 .. n /\ n \in 0 .. 4
    BY <1>1
  <2> QED BY <1>3, <1>6, <2>1, PowerIs
<1> QED BY <1>3, <1>7 DEF S, n

LEMMA BytesTyped ==
  ASSUME NEW w \in Nat, NEW n \in 1 .. 4
  PROVE  BytesOf(w, n) \in Seq(ByteRange) \ {<<>>} /\ Len(BytesOf(w, n)) = n
<1>1. ASSUME NEW k \in 1 .. n PROVE (w \div Power[k - 1]) % ByteValues \in ByteRange
  <2>1. k - 1 \in 0 .. 4
    OBVIOUS
  <2>2. w \div Power[k - 1] \in Nat
    BY <2>1, PowerIs, DivisionIs
  <2> QED BY <2>2, ByteRangeIs, DivisionIs DEF ByteRange
<1>2. BytesOf(w, n) = [k \in 1 .. n |-> (w \div Power[k - 1]) % ByteValues]
  BY DEF BytesOf
<1> DEFINE b == BytesOf(w, n)
<1>3. b \in [1 .. n -> ByteRange]
  BY <1>1, <1>2
<1> HIDE DEF b
<1>4. b \in Seq(ByteRange) /\ Len(b) = n
  BY <1>3
<1>5. b # <<>>
  BY <1>4
<1> QED BY <1>4, <1>5 DEF b

LEMMA BytesAtTyped ==
  ASSUME PagesOK, NEW addr \in Words, NEW n \in Nat, Accessible(addr, n)
  PROVE  BytesAt(addr, n) \in Seq(ByteRange) \ {<<>>} /\ Len(BytesAt(addr, n)) = n
<1> DEFINE b == BytesAt(addr, n)
<1>1. b = [k \in 1 .. n |-> b[k]]
  BY DEF BytesAt
<1>2. ASSUME NEW k \in 1 .. n PROVE b[k] \in ByteRange
  <2>1. InMemory(addr + (k - 1)) /\ b[k] = CellAt(addr + (k - 1))
    BY ReadIs
  <2>2. PICK x \in Nat : x = addr + (k - 1) /\ x >= MmuBase /\ x < WordMod /\ Present(x)
    BY <2>1, WordIs, Numbers DEF InMemory
  <2>3. PageOf(x) \in PageNumbers /\ OffsetIn(x) \in 0 .. PageSize - 1
    BY <2>2, Places
  <2>4. pages[PageOf(x)] \in PageBytes
    BY <2>2, <2>3 DEF PagesOK, Present
  <2>5. CellAt(x) \in ByteRange
    BY <2>3, <2>4 DEF PageBytes, CellAt
  <2> QED BY <2>1, <2>2, <2>5
<1>3. n > 0
  BY DEF Accessible
<1> HIDE DEF b
<1>4. b \in [1 .. n -> ByteRange]
  BY <1>1, <1>2
<1>5. b \in Seq(ByteRange) /\ Len(b) = n
  BY <1>4
<1>6. b # <<>>
  BY <1>3, <1>5
<1> QED BY <1>5, <1>6 DEF b

LEMMA WordAtIs ==
  ASSUME PagesOK, NEW addr \in Words, NEW n \in 1 .. 4, Accessible(addr, n)
  PROVE  WordAt(addr, n) \in 0 .. Power[n] - 1 /\ WordAt(addr, n) \in Words
<1>1. BytesAt(addr, n) \in Seq(ByteRange) /\ Len(BytesAt(addr, n)) = n
  BY BytesAtTyped
<1>2. WordAt(addr, n) \in 0 .. Power[n] - 1
  BY <1>1, ValueIs DEF WordAt
<1>3. Power[n] <= WordMod
  <2>1. Power[n] * Power[4 - n] = WordMod /\ Power[n] \in Nat /\ Power[4 - n] \in Nat /\ Power[4 - n] > 0
    BY PowerSplits, PowerIs
  <2> DEFINE p == Power[n]
             q == Power[4 - n]
  <2> HIDE DEF p, q
  <2>2. p \in Nat /\ q \in Nat /\ q > 0 => p <= p * q
    OBVIOUS
  <2> QED BY <2>1, <2>2 DEF p, q
<1> DEFINE w == WordAt(addr, n)
<1>4. w \in 0 .. Power[n] - 1 /\ Power[n] \in Nat
  BY <1>2, PowerIs
<1> HIDE DEF w
<1>5. w \in Nat /\ w < WordMod
  BY <1>3, <1>4, Numbers
<1> QED BY <1>2, <1>5, IsWord DEF w

\* The partial loads and stores make words of words.
LEMMA PartialWords ==
  ASSUME NEW reg \in Words, NEW word \in Words, NEW k \in 0 .. 3
  PROVE  /\ lwl(reg, word, k) \in Words /\ lwr(reg, word, k) \in Words
         /\ swl(reg, word, k) \in Nat /\ swr(reg, word, k) \in Nat
<1>1. reg \in Nat /\ word \in Nat
  BY WordIs
<1>2. /\ Power[k] \in Nat /\ Power[k] > 0 /\ Power[4 - k] \in Nat /\ Power[4 - k] > 0
      /\ Power[k + 1] \in Nat /\ Power[k + 1] > 0 /\ Power[3 - k] \in Nat /\ Power[3 - k] > 0
  BY PowerIs
<1>3. Power[k] * Power[4 - k] = WordMod /\ Power[k + 1] * Power[3 - k] = WordMod
  <2>1. k \in 0 .. 4 /\ k + 1 \in 0 .. 4 /\ 4 - (k + 1) = 3 - k
    OBVIOUS
  <2>2. Power[k] * Power[4 - k] = WordMod /\ Power[k + 1] * Power[4 - (k + 1)] = WordMod
    BY <2>1, PowerSplits
  <2> QED BY <2>1, <2>2
<1>4. lwl(reg, word, k) \in Words
  <2>1. word % Power[k + 1] \in 0 .. Power[k + 1] - 1 /\ reg % Power[3 - k] \in 0 .. Power[3 - k] - 1
    BY <1>1, <1>2, DivisionIs
  <2> QED BY <1>2, <1>3, <2>1, TwoDigits DEF lwl
<1>5. lwr(reg, word, k) \in Words
  <2>1. reg \div Power[4 - k] \in 0 .. Power[k] - 1
    BY <1>2, <1>3, FirstDigit
  <2>2. Power[4 - k] * Power[k] = WordMod
    BY <1>2, <1>3
  <2>3. word \div Power[k] \in 0 .. Power[4 - k] - 1
    BY <1>2, <2>2, FirstDigit
  <2> QED BY <1>2, <1>3, <2>1, <2>3, TwoDigits DEF lwr
<1>6. swl(reg, word, k) \in Nat
  <2>1. PICK ua, ub, uc \in Nat : ua = word \div Power[k + 1] /\ ub = reg \div Power[3 - k] /\ uc = Power[k + 1]
    BY <1>1, <1>2, DivisionIs
  <2>2. ua * uc + ub \in Nat
    OBVIOUS
  <2> QED BY <2>1, <2>2 DEF swl
<1>7. swr(reg, word, k) \in Nat
  <2>1. reg * Power[k] \in Nat
    BY <1>1, <1>2
  <2>2. PICK ua \in Nat : ua = (reg * Power[k]) % WordMod
    BY <2>1, ModWord, WordIs
  <2>3. PICK ub \in Nat : ub = word % Power[k]
    BY <1>1, <1>2, DivisionIs
  <2>4. ua + ub \in Nat
    OBVIOUS
  <2> QED BY <2>2, <2>3, <2>4 DEF swr
<1> QED BY <1>4, <1>5, <1>6, <1>7

-----------------------------------------------------------------------------
(* The processor keeps its types *)

GoodRegs(f) == f \in [RegNums -> Words] /\ f[ZERO] = 0

FlowOK ==
  /\ pc \in Words /\ delayPC \in Words /\ nextEpc \in Words
  /\ delayState \in {NORMAL, DELAYSLOT} /\ instrCount \in 0 .. MaxInstructions

CpuOK == GoodRegs(regs) /\ hi \in Words /\ lo \in Words /\ FlowOK

\* What an instruction may start from, and what it keeps.
Ready == image \in Images /\ PagesOK /\ CpuOK
Kept == CpuOK' /\ Accesses

LEMMA RegNumbers ==
  /\ {ZERO, V0, A0, A1, A2, A3, RA} \subseteq RegNums
  /\ V0 # ZERO /\ A3 # ZERO /\ RA # ZERO
BY ReesesAssumption DEF ZERO, V0, A3, RA

LEMMA ZeroWord == 0 \in Words
BY Numbers, IsWord

LEMMA GoodRegsSet ==
  ASSUME NEW f, GoodRegs(f), NEW reg \in RegNums, NEW w \in Words, reg = ZERO => w = 0
  PROVE  GoodRegs([f EXCEPT ![reg] = w])
BY RegNumbers DEF GoodRegs

LEMMA ReadReg ==
  ASSUME NEW f, GoodRegs(f), NEW reg \in RegNums
  PROVE  f[reg] \in Words
BY DEF GoodRegs

LEMMA SetKeeps ==
  ASSUME GoodRegs(regs), NEW reg \in RegNums, NEW w \in Words, Set(reg, w)
  PROVE  GoodRegs(regs')
<1>1. regs' = [regs EXCEPT ![reg] = IF reg = ZERO THEN 0 ELSE w]
  BY DEF Set
<1>2. (IF reg = ZERO THEN 0 ELSE w) \in Words
  BY ZeroWord
<1>3. GoodRegs([regs EXCEPT ![reg] = IF reg = ZERO THEN 0 ELSE w])
  BY <1>2, GoodRegsSet
<1> QED BY <1>1, <1>3

LEMMA GoToKeeps ==
  ASSUME FlowOK, NEW target \in Words \cup {NoTarget}, GoTo(target)
  PROVE  FlowOK'
<1>1. CASE instrCount = MaxInstructions
  BY <1>1 DEF GoTo, flowVars, FlowOK
<1>2. CASE instrCount # MaxInstructions
  <2> DEFINE state == IF target # NoTarget THEN DELAYING ELSE delayState
  <2>1. /\ nextEpc' = IF delayState # DELAYSLOT THEN pc ELSE nextEpc
        /\ instrCount' = instrCount + 1
        /\ delayPC' = IF target # NoTarget THEN target ELSE delayPC
        /\ pc' = IF state = DELAYSLOT THEN delayPC' ELSE (pc + 4) % WordMod
        /\ delayState' = (2 * state) % 4
    BY <1>2 DEF GoTo, After
  <2>2. (pc + 4) % WordMod \in Words
    BY WordIs, ModWord DEF FlowOK
  <2>3. instrCount' \in 0 .. MaxInstructions
    BY <1>2, <2>1, ReesesAssumption DEF FlowOK
  <2>4. delayState' \in {NORMAL, DELAYSLOT}
    <3>1. state \in {0, 1, 2}
      BY DEF FlowOK, NORMAL, DELAYSLOT, DELAYING
    <3> HIDE DEF state
    <3>2. (2 * state) % 4 \in {0, 2}
      BY <3>1
    <3> QED BY <2>1, <3>2 DEF NORMAL, DELAYSLOT
  <2> HIDE DEF state
  <2> QED BY <2>1, <2>2, <2>3, <2>4 DEF FlowOK
<1> QED BY <1>1, <1>2

LEMMA GoOnKeeps ==
  ASSUME FlowOK, GoOn
  PROVE  FlowOK'
BY GoToKeeps DEF GoOn

LEMMA EndsKeeps ==
  ASSUME CpuOK, NEW reason, Ends(reason)
  PROVE  CpuOK'
BY DEF Ends, CpuOK, FlowOK, GoodRegs, mulVars, flowVars

LEMMA ExceptionKeeps ==
  ASSUME CpuOK, NEW reason, doException(reason)
  PROVE  Kept
BY EndsKeeps DEF doException, Accesses, Kept

\* A read that fails raises an exception or strays.
LEMMA ReadFailsKeeps ==
  ASSUME CpuOK, NEW addr \in Words, NEW n, ReadFails(addr, n)
  PROVE  Kept
<1>1. CpuOK'
  BY EndsKeeps DEF ReadFails
<1>2. CASE Stray(addr, n)
  BY <1>1, <1>2 DEF ReadFails, Accesses, Kept
<1>3. CASE ~ Stray(addr, n)
  <2>1. UNCHANGED memVars
    BY <1>3 DEF ReadFails, memVars
  <2> QED BY <1>1, <2>1 DEF Accesses, Kept
<1> QED BY <1>2, <1>3

LEMMA WriteAccesses ==
  ASSUME NEW addr \in Words, NEW data \in Seq(ByteRange) \ {<<>>},
         WriteMemory(addr, data, Stray(addr, Len(data)))
  PROVE  Accesses
<1>1. CASE Stray(addr, Len(data))
  <2>1. WriteMemory(addr, data, TRUE)
    BY <1>1 DEF WriteMemory
  <2> QED BY <2>1 DEF Accesses
<1>2. CASE ~ Stray(addr, Len(data))
  <2>1. WriteMemory(addr, data, FALSE)
    BY <1>2 DEF WriteMemory
  <2> QED BY <2>1 DEF Accesses
<1> QED BY <1>1, <1>2

LEMMA ResultKeeps ==
  ASSUME CpuOK, NEW reg \in RegNums, NEW w \in Words, Result(reg, w)
  PROVE  Kept
<1>1. Set(reg, w) /\ GoOn /\ UNCHANGED <<memVars, mulVars>>
  BY DEF Result
<1>2. GoodRegs(regs') /\ FlowOK'
  BY <1>1, SetKeeps, GoOnKeeps DEF CpuOK
<1> QED BY <1>1, <1>2 DEF Kept, Accesses, CpuOK, mulVars, GoodRegs

LEMMA StoreKeeps ==
  ASSUME CpuOK, NEW addr \in Words, NEW data \in Seq(ByteRange) \ {<<>>}, StoreAt(addr, data)
  PROVE  Kept
<1>1. Accesses
  BY WriteAccesses DEF StoreAt
<1>2. CASE Accessible(addr, Len(data))
  <2>1. GoOn /\ UNCHANGED <<regs, mulVars>>
    BY <1>2 DEF StoreAt
  <2>2. FlowOK'
    BY <2>1, GoOnKeeps DEF CpuOK
  <2> QED BY <1>1, <2>1, <2>2 DEF Kept, CpuOK, GoodRegs, mulVars
<1>3. CASE ~ Accessible(addr, Len(data))
  <2>1. Ends(Fault(addr, Len(data), "AdES"))
    BY <1>3 DEF StoreAt
  <2> QED BY <1>1, <2>1, EndsKeeps DEF Kept
<1> QED BY <1>2, <1>3

LEMMA ReturnsKeep ==
  ASSUME CpuOK, NEW reg, GoodRegs(reg), Returns(reg), Accesses
  PROVE  Kept
<1>1. regs' = reg /\ GoOn /\ UNCHANGED mulVars
  BY DEF Returns
<1>2. FlowOK'
  BY <1>1, GoOnKeeps DEF CpuOK
<1> QED BY <1>1, <1>2 DEF Kept, CpuOK, GoodRegs, mulVars

\* The fields of an instruction, and the numbers in them.
LEMMA InstrIs ==
  ASSUME Ready
  PROVE  /\ Instr.rs \in RegNums /\ Instr.rt \in RegNums /\ Instr.rd \in RegNums
         /\ Instr.imm \in Nat
         /\ Instr.op \in ShiftBy => Instr.imm < WordBits
         /\ Instr.op \notin {"j", "jal"} => Instr.imm < HalfMod
         /\ Rs \in Words /\ Rt \in Words
<1> DEFINE Fine(i) == /\ {i.rs, i.rt, i.rd} \subseteq RegNums /\ i.imm \in Nat
                      /\ i.op \in ShiftBy => i.imm < WordBits
                      /\ i.op \notin {"j", "jal"} => i.imm < HalfMod
<1>1. Fine(Nothing)
  BY RegNumbers, Bits, HalfIs DEF Nothing, ZERO, ShiftBy
<1>2. pc \in DOMAIN image.prog => Fine(image.prog[pc])
  BY ImageAssumption DEF Ready
<1> DEFINE i == Instr
<1>3. Fine(i)
  BY <1>1, <1>2 DEF Instr
<1>4. {i.rs, i.rt, i.rd} \subseteq RegNums
  BY <1>3
<1>5. regs[i.rs] \in Words /\ regs[i.rt] \in Words
  BY <1>4, ReadReg DEF Ready, CpuOK
<1> QED BY <1>3, <1>4, <1>5 DEF Rs, Rt

LEMMA ImmediateIs ==
  ASSUME Ready, Instr.op \notin {"j", "jal"}
  PROVE  SImm \in Words /\ Address \in Words /\ Instr.imm \in Words
<1>1. Instr.imm \in Nat /\ Instr.imm < HalfMod /\ Rs \in Words
  BY InstrIs
<1>2. Instr.imm \in 0 .. HalfMod - 1
  BY <1>1, HalfIs
<1>3. SImm \in Words
  BY <1>2, HalfIs, ExtendedWord DEF SImm
<1>4. Address \in Words
  BY <1>1, <1>3, WordIs, ModWord DEF Address
<1>5. Instr.imm \in Words
  BY <1>1, HalfIs, IsWord, Numbers
<1> QED BY <1>3, <1>4, <1>5

\* The operations behind the mnemonics.
LEMMA Mnemonics ==
  /\ \A op \in DOMAIN SignedImmediate :
       op \notin {"j", "jal"} /\ SignedImmediate[op] \in {"add", "addu", "slt", "sltu"}
  /\ \A op \in DOMAIN PlainImmediate :
       op \notin {"j", "jal"} /\ PlainImmediate[op] \in {"and", "or", "xor", "lui"}
  /\ \A op \in DOMAIN ShiftByRegister :
       op \notin {"j", "jal"} /\ ShiftByRegister[op] \in ShiftBy
<1>1. /\ DOMAIN SignedImmediate = {"addi", "addiu", "slti", "sltiu"}
      /\ DOMAIN PlainImmediate = {"andi", "ori", "xori", "lui"}
      /\ DOMAIN ShiftByRegister = {"sllv", "srlv", "srav"}
  BY DEF SignedImmediate, PlainImmediate, ShiftByRegister
<1>2. /\ SignedImmediate["addi"] = "add" /\ SignedImmediate["addiu"] = "addu"
      /\ SignedImmediate["slti"] = "slt" /\ SignedImmediate["sltiu"] = "sltu"
  BY DEF SignedImmediate
<1>3. /\ PlainImmediate["andi"] = "and" /\ PlainImmediate["ori"] = "or"
      /\ PlainImmediate["xori"] = "xor" /\ PlainImmediate["lui"] = "lui"
  BY DEF PlainImmediate
<1>4. /\ ShiftByRegister["sllv"] = "sll" /\ ShiftByRegister["srlv"] = "srl"
      /\ ShiftByRegister["srav"] = "sra"
  BY DEF ShiftByRegister
<1> QED BY <1>1, <1>2, <1>3, <1>4 DEF ShiftBy

LEMMA OperandsTyped ==
  ASSUME Ready, Instr.op \in ArithmeticOps
  PROVE  OperandsOK(Operands.op, Operands.x, Operands.y) /\ Operands.dest \in RegNums
<1> DEFINE i == Instr
           Of(op, x, y, dest) == [op |-> op, x |-> x, y |-> y, dest |-> dest]
           Fine(it) == OperandsOK(it.op, it.x, it.y) /\ it.dest \in RegNums
<1>1. /\ i.rs \in RegNums /\ i.rt \in RegNums /\ i.rd \in RegNums /\ i.imm \in Nat
      /\ (i.op \in ShiftBy => i.imm < WordBits) /\ Rs \in Words /\ Rt \in Words
      /\ (i.op \notin {"j", "jal"} => i.imm < HalfMod)
  BY InstrIs
<1>2. i.op \notin {"j", "jal"} => SImm \in Words /\ i.imm \in Words
  BY ImmediateIs
<1>3. \A op, x, y, dest : OperandsOK(op, x, y) /\ dest \in RegNums => Fine(Of(op, x, y, dest))
  OBVIOUS
<1> HIDE DEF i
<1>4. CASE i.op \in DOMAIN SignedImmediate
  <2>1. Operands = Of(SignedImmediate[i.op], Rs, SImm, i.rt)
    BY <1>4 DEF Operands, i, SignedImmediate, PlainImmediate, Register, ShiftBy, ShiftByRegister
  <2> HIDE DEF Of, Fine
  <2>2. OperandsOK(SignedImmediate[i.op], Rs, SImm)
    BY <1>1, <1>2, <1>4, Mnemonics DEF OperandsOK, ValueOps, ShiftBy
  <2> QED BY <1>1, <1>3, <2>1, <2>2 DEF Fine
<1>5. CASE i.op \in DOMAIN PlainImmediate /\ i.op \notin DOMAIN SignedImmediate
  <2>1. Operands = Of(PlainImmediate[i.op], Rs, i.imm, i.rt)
    BY <1>5, Mnemonics DEF Operands, i, SignedImmediate, PlainImmediate, Register, ShiftBy, ShiftByRegister
  <2> HIDE DEF Of, Fine
  <2>2. OperandsOK(PlainImmediate[i.op], Rs, i.imm)
    BY <1>1, <1>2, <1>5, Mnemonics DEF OperandsOK, ValueOps, ShiftBy
  <2> QED BY <1>1, <1>3, <2>1, <2>2 DEF Fine
<1>6. CASE i.op \in Register
  <2>1. Operands = Of(i.op, Rs, Rt, i.rd)
    BY <1>6 DEF Operands, i, SignedImmediate, PlainImmediate, Register, ShiftBy, ShiftByRegister
  <2> HIDE DEF Of, Fine
  <2>2. OperandsOK(i.op, Rs, Rt)
    BY <1>1, <1>6 DEF OperandsOK, ValueOps, ShiftBy, Register
  <2> QED BY <1>1, <1>3, <2>1, <2>2 DEF Fine
<1>7. CASE i.op \in ShiftBy
  <2>1. Operands = Of(i.op, Rt, i.imm, i.rd)
    BY <1>7 DEF Operands, i, SignedImmediate, PlainImmediate, Register, ShiftBy, ShiftByRegister
  <2> HIDE DEF Of, Fine
  <2>2. OperandsOK(i.op, Rt, i.imm)
    BY <1>1, <1>2, <1>7 DEF OperandsOK, ValueOps, ShiftBy
  <2> QED BY <1>1, <1>3, <2>1, <2>2 DEF Fine
<1>8. CASE i.op \in DOMAIN ShiftByRegister
  <2>1. Operands = Of(ShiftByRegister[i.op], Rt, Rs % WordBits, i.rd)
    BY <1>8 DEF Operands, i, SignedImmediate, PlainImmediate, Register, ShiftBy, ShiftByRegister
  <2> HIDE DEF Of, Fine
  <2>2. Rs % WordBits \in Words /\ Rs % WordBits < WordBits
    <3>0. Rs \in Nat /\ WordBits \in Nat /\ WordBits > 0
      BY <1>1, WordIs, Bits
    <3>1. PICK q \in Nat, rem \in 0 .. WordBits - 1 :
            q = Rs \div WordBits /\ rem = Rs % WordBits /\ Rs = WordBits * q + rem
      BY <3>0, DivisionIs
    <3>2. PICK z \in Nat : z = WordBits * q
      BY <3>1, Bits
    <3>3. rem \in Nat /\ rem < WordBits /\ rem < WordMod
      BY <1>1, <3>1, <3>2, WordIs, Numbers, Bits
    <3> QED BY <3>1, <3>3, IsWord
  <2>3. OperandsOK(ShiftByRegister[i.op], Rt, Rs % WordBits)
    BY <1>1, <1>8, <2>2, Mnemonics DEF OperandsOK, ValueOps, ShiftBy
  <2> QED BY <1>1, <1>3, <2>1, <2>3 DEF Fine
<1> QED BY <1>4, <1>5, <1>6, <1>7, <1>8 DEF ArithmeticOps, i

LEMMA ComputeKeeps ==
  ASSUME Ready, Compute
  PROVE  Kept
<1> DEFINE it == Operands
<1>1. Instr.op \in ArithmeticOps
  BY DEF Compute
<1>2. OperandsOK(it.op, it.x, it.y) /\ it.dest \in RegNums
  BY <1>1, OperandsTyped
<1>3. Value(it.op, it.x, it.y) \in Words
  BY <1>2, ValueWord
<1>4. doException("Ov") \/ Result(it.dest, Value(it.op, it.x, it.y))
  BY DEF Compute
<1> HIDE DEF it
<1> QED BY <1>2, <1>3, <1>4, ExceptionKeeps, ResultKeeps DEF Ready

\* A step that only sets hi and lo, and goes on.
LEMMA MulKeeps ==
  ASSUME CpuOK, hi' \in Words, lo' \in Words, GoOn, UNCHANGED <<memVars, regs>>
  PROVE  Kept
<1>1. FlowOK'
  BY GoOnKeeps DEF CpuOK
<1> QED BY <1>1 DEF Kept, Accesses, CpuOK, GoodRegs

LEMMA ProductWords ==
  ASSUME NEW x \in Int, NEW y \in Int, Product(x, y)
  PROVE  hi' \in Words /\ lo' \in Words
<1>1. PICK z \in Int : z = x * y
  OBVIOUS
<1>2. z \div WordMod \in Int
  BY Numbers
<1> QED BY <1>1, <1>2, ModWord DEF Product

LEMMA QuotientInt ==
  ASSUME NEW x \in Int, NEW y \in Int, y # 0
  PROVE  Quotient(x, y) \in Int
<1> DEFINE abs(n) == IF n < 0 THEN - n ELSE n
           q == abs(x) \div abs(y)
<1>1. abs(x) \in Nat /\ abs(y) \in Nat /\ abs(y) > 0
  OBVIOUS
<1> HIDE DEF abs
<1>2. q \in Nat
  BY <1>1, DivisionIs
<1> HIDE DEF q
<1>3. (IF (x < 0) = (y < 0) THEN q ELSE - q) \in Int
  BY <1>2
<1> QED BY <1>3 DEF Quotient, q, abs

LEMMA SignedZero ==
  ASSUME NEW w \in Words, Signed(w) = 0
  PROVE  w = 0
BY WordIs, Numbers DEF Signed

LEMMA MultiplyDivideKeeps ==
  ASSUME Ready, MultiplyDivide
  PROVE  Kept
<1> DEFINE s == Signed(Rs)
           t == Signed(Rt)
<1>1. Rs \in Words /\ Rt \in Words /\ Rs \in Nat /\ Rt \in Nat /\ Instr.rd \in RegNums
  BY InstrIs, WordIs
<1>2. s \in Int /\ t \in Int
  BY <1>1, SignedInt
<1>3. CpuOK /\ hi \in Words /\ lo \in Words
  BY DEF Ready, CpuOK
<1>4. (Rt # 0) => t # 0
  BY <1>1, SignedZero
<1> HIDE DEF s, t
<1>5. ASSUME GoOn, UNCHANGED <<memVars, regs>>, hi' \in Words, lo' \in Words PROVE Kept
  BY <1>3, <1>5, MulKeeps
<1>6. CASE \E reason : doException(reason)
  BY <1>3, <1>6, ExceptionKeeps
<1>7. CASE Product(s, t) /\ GoOn /\ UNCHANGED <<memVars, regs>>
  BY <1>2, <1>5, <1>7, ProductWords
<1>8. CASE Product(Rs, Rt) /\ GoOn /\ UNCHANGED <<memVars, regs>>
  <2>1. Rs \in Int /\ Rt \in Int
    BY <1>1
  <2> QED BY <1>5, <1>8, <2>1, ProductWords
<1>9. CASE /\ Rt # 0 /\ lo' = Quotient(s, t) % WordMod
           /\ hi' = (s - t * Quotient(s, t)) % WordMod
           /\ GoOn /\ UNCHANGED <<memVars, regs>>
  <2>1. PICK q \in Int : q = Quotient(s, t)
    BY <1>2, <1>4, <1>9, QuotientInt
  <2>2. s - t * q \in Int
    BY <1>2, <2>1
  <2>3. q % WordMod \in Words /\ (s - t * q) % WordMod \in Words
    BY <2>1, <2>2, ModWord
  <2> QED BY <1>5, <1>9, <2>1, <2>3
<1>10. CASE Rt # 0 /\ lo' = Rs \div Rt /\ hi' = Rs % Rt /\ GoOn /\ UNCHANGED <<memVars, regs>>
  <2>1. PICK x, y \in Nat : x = Rs /\ y = Rt /\ y > 0 /\ x < WordMod /\ y < WordMod
    BY <1>1, <1>10, WordIs
  <2>2. PICK q \in Nat, rem \in 0 .. y - 1 : q = x \div y /\ rem = x % y /\ x = y * q + rem
    BY <2>1, DivisionIs
  <2>3. rem \in Nat /\ rem < y /\ rem < WordMod
    BY <2>1, <2>2, Numbers
  <2>4. q <= y * q
    <3>1. 1 * q <= y * q
      BY <2>1, <2>2
    <3> QED BY <2>2, <3>1
  <2>5. PICK z \in Nat : z = y * q
    BY <2>1, <2>2
  <2>6. q < WordMod
    BY <2>1, <2>2, <2>3, <2>4, <2>5, Numbers
  <2>7. q \in Words /\ rem \in Words
    BY <2>2, <2>3, <2>6, IsWord
  <2> QED BY <1>5, <1>10, <2>1, <2>2, <2>7
<1>11. CASE hi' = Rs /\ UNCHANGED lo /\ GoOn /\ UNCHANGED <<memVars, regs>>
  BY <1>1, <1>3, <1>5, <1>11
<1>12. CASE lo' = Rs /\ UNCHANGED hi /\ GoOn /\ UNCHANGED <<memVars, regs>>
  BY <1>1, <1>3, <1>5, <1>12
<1>13. CASE Result(Instr.rd, hi) \/ Result(Instr.rd, lo)
  BY <1>1, <1>3, <1>13, ResultKeeps
<1> QED BY <1>6, <1>7, <1>8, <1>9, <1>10, <1>11, <1>12, <1>13 DEF MultiplyDivide, s, t

LEMMA NextWords ==
  ASSUME Ready
  PROVE  /\ (pc + 4) % WordMod \in Words /\ (pc + 8) % WordMod \in Words /\ pc \in Nat
         /\ Instr.op \notin {"j", "jal"} => BranchTarget \in Words
         /\ JumpTarget \in Words
<1>1. pc \in Nat
  BY WordIs DEF Ready, CpuOK, FlowOK
<1>2. (pc + 4) % WordMod \in Words /\ (pc + 8) % WordMod \in Words
  BY <1>1, ModWord
<1>3. ASSUME Instr.op \notin {"j", "jal"} PROVE BranchTarget \in Words
  <2>1. SImm \in Nat
    BY <1>3, ImmediateIs, WordIs
  <2>2. pc + 4 + 4 * SImm \in Int
    BY <1>1, <2>1
  <2> QED BY <2>2, ModWord DEF BranchTarget
<1>4. JumpTarget \in Words
  <2> DEFINE rem == TwoTo[WordBits - 4]
             slot == (pc + 4) % WordMod
  <2>1. rem \in Nat /\ rem > 0
    BY Bits, TwoToIs
  <2>2. WordMod = 16 * rem
    <3>1. /\ WordBits \in 1 .. WordBits /\ WordBits - 1 \in 1 .. WordBits
          /\ WordBits - 2 \in 1 .. WordBits /\ WordBits - 3 \in 1 .. WordBits
          /\ (WordBits - 1) - 1 = WordBits - 2 /\ (WordBits - 2) - 1 = WordBits - 3
          /\ (WordBits - 3) - 1 = WordBits - 4
      BY Bits
    <3>2. /\ TwoTo[WordBits] = 2 * TwoTo[WordBits - 1]
          /\ TwoTo[WordBits - 1] = 2 * TwoTo[WordBits - 2]
          /\ TwoTo[WordBits - 2] = 2 * TwoTo[WordBits - 3]
          /\ TwoTo[WordBits - 3] = 2 * rem
      BY <3>1, TwoToIs
    <3>3. WordMod = TwoTo[WordBits]
      BY ReesesAssumption
    <3> HIDE DEF rem
    <3> QED BY <2>1, <3>2, <3>3
  <2> HIDE DEF rem
  <2>3. WordMod \div 16 = rem
    <3>1. (16 * rem + 0) \div 16 = rem
      BY <2>1, QuotientUnique
    <3>2. 16 * rem + 0 = WordMod
      BY <2>1, <2>2
    <3> QED BY <3>1, <3>2
  <2>4. slot \in Words /\ slot \div rem \in 0 .. 15
    <3>1. slot \in Words
      BY <1>2
    <3> HIDE DEF slot
    <3>2. slot \div rem \in 0 .. 16 - 1
      BY <2>1, <2>2, <3>1, FirstDigit
    <3> QED BY <3>1, <3>2
  <2>5. (4 * Instr.imm) % rem \in 0 .. rem - 1
    <3>1. 4 * Instr.imm \in Nat
      BY InstrIs
    <3> QED BY <2>1, <3>1, DivisionIs
  <2> HIDE DEF slot
  <2>6. (slot \div rem) * rem + ((4 * Instr.imm) % rem) \in Words
    <3>1. slot \div rem \in 0 .. 16 - 1 /\ 16 \in Nat
      BY <2>4
    <3> QED BY <2>1, <2>2, <2>5, <3>1, TwoDigits
  <2> QED BY <2>3, <2>6 DEF JumpTarget, slot
<1> QED BY <1>1, <1>2, <1>3, <1>4

LEMMA BranchKeeps ==
  ASSUME Ready, Branch
  PROVE  Kept
<1>1. Instr.op \notin {"j", "jal"} /\ CpuOK
  BY DEF Branch, Branches, Ready
<1>2. BranchTarget \in Words /\ (pc + 8) % WordMod \in Words
  BY <1>1, NextWords
<1>3. CASE Instr.op \in {"blez", "bgtz"} /\ Instr.rt # 0
  BY <1>1, <1>3, ExceptionKeeps DEF Branch
<1>4. CASE ~ (Instr.op \in {"blez", "bgtz"} /\ Instr.rt # 0)
  <2>1. /\ regs' = IF Instr.op \in {"bltzal", "bgezal"}
                     THEN [regs EXCEPT ![RA] = (pc + 8) % WordMod] ELSE regs
        /\ GoTo(IF Taken(regs') THEN BranchTarget ELSE NoTarget)
        /\ UNCHANGED <<memVars, mulVars>>
    BY <1>4 DEF Branch
  <2>2. GoodRegs(regs) /\ FlowOK
    BY <1>1 DEF CpuOK
  <2>3. GoodRegs([regs EXCEPT ![RA] = (pc + 8) % WordMod])
    BY <1>2, <2>2, RegNumbers, GoodRegsSet
  <2>4. GoodRegs(regs')
    BY <2>1, <2>2, <2>3
  <2>5. (IF Taken(regs') THEN BranchTarget ELSE NoTarget) \in Words \cup {NoTarget}
    BY <1>2
  <2>6. FlowOK'
    BY <2>1, <2>2, <2>5, GoToKeeps
  <2> QED BY <1>1, <2>1, <2>4, <2>6 DEF Kept, CpuOK, Accesses, GoodRegs, mulVars
<1> QED BY <1>3, <1>4

\* A jump, with the register that it may set.
LEMMA JumpToKeeps ==
  ASSUME CpuOK, NEW target \in Words, JumpTo(target), GoodRegs(regs')
  PROVE  Kept
<1>1. GoTo(target) /\ UNCHANGED <<memVars, mulVars>>
  BY DEF JumpTo
<1>2. FlowOK'
  BY <1>1, GoToKeeps DEF CpuOK
<1> QED BY <1>1, <1>2 DEF Kept, CpuOK, Accesses, GoodRegs, mulVars

LEMMA JumpsKeep ==
  ASSUME Ready, Jumps
  PROVE  Kept
<1>1. JumpTarget \in Words /\ (pc + 8) % WordMod \in Words /\ Rs \in Words /\ Instr.rd \in RegNums
  BY NextWords, InstrIs
<1>2. CpuOK /\ GoodRegs(regs) /\ RA \in RegNums
  BY RegNumbers DEF Ready, CpuOK
<1>3. UNCHANGED regs => GoodRegs(regs')
  BY <1>2
<1>4. CASE JumpTo(JumpTarget) /\ UNCHANGED regs
  BY <1>1, <1>2, <1>3, <1>4, JumpToKeeps
<1>5. CASE JumpTo(JumpTarget) /\ Set(RA, (pc + 8) % WordMod)
  BY <1>1, <1>2, <1>5, SetKeeps, JumpToKeeps
<1>6. CASE doException("RI")
  BY <1>2, <1>6, ExceptionKeeps
<1>7. CASE JumpTo(Rs) /\ UNCHANGED regs
  BY <1>1, <1>2, <1>3, <1>7, JumpToKeeps
<1>8. CASE JumpTo(Rs) /\ Set(Instr.rd, (pc + 8) % WordMod)
  BY <1>1, <1>2, <1>8, SetKeeps, JumpToKeeps
<1> QED BY <1>4, <1>5, <1>6, <1>7, <1>8 DEF Jumps

-----------------------------------------------------------------------------
(* Loads and stores *)

LEMMA Widths ==
  /\ Width["lb"] = 1 /\ Width["lbu"] = 1 /\ Width["lh"] = 2 /\ Width["lhu"] = 2
  /\ Width["lw"] = 4 /\ Width["lwl"] = 4 /\ Width["lwr"] = 4
  /\ Width["sb"] = 1 /\ Width["sh"] = 2 /\ Width["sw"] = 4
BY DEF Width

\* The word around an address.
LEMMA AroundWord ==
  ASSUME NEW x \in Words
  PROVE  x - (x % 4) \in Words /\ x % 4 \in 0 .. 3
<1>1. x \in Nat /\ x < WordMod
  BY WordIs
<1>2. x % 4 \in 0 .. 3
  BY <1>1
<1>3. PICK rem \in 0 .. 3, q \in Nat : rem = x % 4 /\ x = 4 * q + rem
  BY <1>1, <1>2, DivisionIs
<1>4. x - rem \in Nat /\ x - rem < WordMod
  BY <1>1, <1>3, Numbers
<1> QED BY <1>2, <1>3, <1>4, IsWord

LEMMA LoadedWord ==
  ASSUME Ready, NEW op \in Loads, NEW addr \in Words, Accessible(addr, Width[op]), Address \in Words
  PROVE  LoadedValue(op, WordAt(addr, Width[op])) \in Words
<1> DEFINE w == WordAt(addr, Width[op])
<1>1. PagesOK /\ Rt \in Words
  BY InstrIs DEF Ready
<1>2. Width[op] \in 1 .. 4
  BY Widths DEF Loads
<1>3. w \in 0 .. Power[Width[op]] - 1 /\ w \in Words
  BY <1>1, <1>2, WordAtIs
<1> HIDE DEF w
<1>4. Address % 4 \in 0 .. 3
  BY AroundWord
<1>5. CASE op = "lb"
  <2>1. Width[op] = 1 /\ Power[1] = ByteValues
    <3>1. Power[1] = ByteValues * Power[1 - 1] /\ Power[0] = 1
      BY PowerIs
    <3> QED BY <1>5, <3>1, Widths, ByteRangeIs
  <2>2. w \in 0 .. ByteValues - 1
    BY <1>3, <2>1
  <2>3. ByteValues <= WordMod
    <3>1. Power[1] * Power[4 - 1] = WordMod
      BY PowerSplits
    <3>2. PICK p \in Nat : p = Power[3] /\ p > 0
      BY PowerIs
    <3>3. ByteValues * p >= ByteValues * 1
      BY <3>2, ByteRangeIs
    <3> QED BY <2>1, <3>1, <3>2, <3>3, ByteRangeIs
  <2>4. Extended(w, ByteValues) \in Words
    BY <2>2, <2>3, ByteRangeIs, ExtendedWord
  <2> QED BY <1>5, <2>4 DEF LoadedValue, w
<1>6. CASE op = "lh"
  <2>1. Width[op] = 2
    BY <1>6, Widths
  <2>2. w \in 0 .. HalfMod - 1
    BY <1>3, <2>1 DEF HalfMod
  <2>3. Extended(w, HalfMod) \in Words
    BY <2>2, HalfIs, ExtendedWord
  <2> QED BY <1>6, <2>3 DEF LoadedValue, w
<1>7. CASE op \in {"lbu", "lhu", "lw"}
  BY <1>3, <1>7 DEF LoadedValue, w
<1>8. CASE op = "lwl"
  <2>1. lwl(Rt, w, Address % 4) \in Words
    BY <1>1, <1>3, <1>4, PartialWords
  <2> QED BY <1>8, <2>1 DEF LoadedValue, w
<1>9. CASE op = "lwr"
  <2>1. lwr(Rt, w, Address % 4) \in Words
    BY <1>1, <1>3, <1>4, PartialWords
  <2> QED BY <1>9, <2>1 DEF LoadedValue, w
<1> QED BY <1>5, <1>6, <1>7, <1>8, <1>9 DEF Loads

LEMMA LoadKeeps ==
  ASSUME Ready, Load
  PROVE  Kept
<1> DEFINE n == Width[Instr.op]
           where == IF Instr.op \in {"lwl", "lwr"} THEN Address - (Address % 4) ELSE Address
<1>1. Instr.op \in Loads /\ Instr.op \notin {"j", "jal"}
  BY DEF Load, Loads
<1>2. Address \in Words /\ Instr.rt \in RegNums /\ CpuOK
  BY <1>1, ImmediateIs, InstrIs DEF Ready
<1>3. where \in Words
  BY <1>2, AroundWord
<1>4. n \in Nat
  BY <1>1, Widths DEF Loads
<1>5. CASE doException("AdEL")
  BY <1>2, <1>5, ExceptionKeeps
<1>7. CASE ReadFails(where, n)
  BY <1>2, <1>3, <1>7, ReadFailsKeeps
<1>6. CASE /\ Accessible(where, n)
           /\ ReadIO(where, n) /\ UNCHANGED <<pages, table>>
           /\ Set(Instr.rt, LoadedValue(Instr.op, WordAt(where, n)))
           /\ GoOn /\ UNCHANGED mulVars
  <2>1. LoadedValue(Instr.op, WordAt(where, n)) \in Words
    BY <1>1, <1>2, <1>3, <1>6, LoadedWord
  <2> HIDE DEF where, n
  <2>2. GoodRegs(regs') /\ FlowOK'
    BY <1>2, <1>6, <2>1, SetKeeps, GoOnKeeps DEF CpuOK
  <2>3. Accesses
    BY <1>3, <1>4, <1>6 DEF Accesses
  <2> QED BY <1>2, <1>6, <2>2, <2>3 DEF Kept, CpuOK, GoodRegs, mulVars
<1> QED BY <1>5, <1>6, <1>7 DEF Load

LEMMA StoreInstrKeeps ==
  ASSUME Ready, Store
  PROVE  Kept
<1>1. Instr.op \in Stores /\ Instr.op \notin {"j", "jal"}
  BY DEF Store, Stores
<1>2. Address \in Words /\ Rt \in Nat /\ CpuOK
  BY <1>1, ImmediateIs, InstrIs, WordIs DEF Ready
<1>3. Width[Instr.op] \in 1 .. 4
  BY <1>1, Widths DEF Stores
<1>4. BytesOf(Rt, Width[Instr.op]) \in Seq(ByteRange) \ {<<>>}
  BY <1>2, <1>3, BytesTyped
<1>5. doException("AdES") \/ StoreAt(Address, BytesOf(Rt, Width[Instr.op]))
  BY DEF Store
<1> QED BY <1>2, <1>4, <1>5, ExceptionKeeps, StoreKeeps

LEMMA StorePartKeeps ==
  ASSUME Ready, StorePart
  PROVE  Kept
<1>1. Instr.op \notin {"j", "jal"}
  BY DEF StorePart
<1>2. Address \in Words /\ Rt \in Words /\ CpuOK /\ PagesOK
  BY <1>1, ImmediateIs, InstrIs DEF Ready
<1>3. Address - (Address % 4) \in Words /\ Address % 4 \in 0 .. 3
  BY <1>2, AroundWord
<1>4. CASE ReadFails(Address - (Address % 4), 4) \/ ReadFails(Address, 4)
  BY <1>2, <1>3, <1>4, ReadFailsKeeps
<1>5. CASE /\ Accessible(Address - (Address % 4), 4)
           /\ StoreAt(Address, BytesOf(swl(Rt, WordAt(Address - (Address % 4), 4), Address % 4), 1))
  <2>1. WordAt(Address - (Address % 4), 4) \in Words
    BY <1>2, <1>3, <1>5, WordAtIs
  <2>2. swl(Rt, WordAt(Address - (Address % 4), 4), Address % 4) \in Nat
    BY <1>2, <1>3, <2>1, PartialWords
  <2> DEFINE data == BytesOf(swl(Rt, WordAt(Address - (Address % 4), 4), Address % 4), 1)
  <2>3. data \in Seq(ByteRange) \ {<<>>} /\ StoreAt(Address, data)
    BY <1>5, <2>2, BytesTyped
  <2> HIDE DEF data
  <2> QED BY <1>2, <2>3, StoreKeeps
<1>6. CASE /\ Accessible(Address, 4)
           /\ StoreAt(Address, BytesOf(swr(Rt, WordAt(Address, 4), Address % 4), 4))
  <2>1. WordAt(Address, 4) \in Words
    BY <1>2, <1>6, WordAtIs
  <2>2. swr(Rt, WordAt(Address, 4), Address % 4) \in Nat
    BY <1>2, <1>3, <2>1, PartialWords
  <2> DEFINE data == BytesOf(swr(Rt, WordAt(Address, 4), Address % 4), 4)
  <2>3. data \in Seq(ByteRange) \ {<<>>} /\ StoreAt(Address, data)
    BY <1>6, <2>2, BytesTyped
  <2> HIDE DEF data
  <2> QED BY <1>2, <2>3, StoreKeeps
<1> QED BY <1>4, <1>5, <1>6 DEF StorePart

-----------------------------------------------------------------------------
(* System calls and coprocessors *)

\* The results of a system call are good registers.
LEMMA ResultsGood ==
  ASSUME CpuOK
  PROVE  /\ GoodRegs(Cleared)
         /\ \A v \in Words : GoodRegs([Cleared EXCEPT ![V0] = v])
         /\ \A t \in Times : GoodRegs([regs EXCEPT ![A3] = MinusOne, ![V0] = t])
         /\ MinusOne \in Words /\ \A t \in Times : t \in Words
<1>1. GoodRegs(regs) /\ V0 \in RegNums /\ A3 \in RegNums /\ V0 # ZERO /\ A3 # ZERO
  BY RegNumbers DEF CpuOK
<1>2. GoodRegs(Cleared)
  BY <1>1, ZeroWord, GoodRegsSet DEF Cleared
<1>3. ASSUME NEW v \in Words PROVE GoodRegs([Cleared EXCEPT ![V0] = v])
  BY <1>1, <1>2, GoodRegsSet
<1>4. MinusOne \in Words
  BY Numbers, IsWord DEF MinusOne
<1>5. ASSUME NEW t \in Times PROVE t \in Words /\ GoodRegs([regs EXCEPT ![A3] = MinusOne, ![V0] = t])
  <2>1. t \in Words
    BY ReesesAssumption
  <2>2. GoodRegs([regs EXCEPT ![A3] = MinusOne])
    BY <1>1, <1>4, GoodRegsSet
  <2>3. GoodRegs([[regs EXCEPT ![A3] = MinusOne] EXCEPT ![V0] = t])
    BY <1>1, <2>1, <2>2, GoodRegsSet
  <2> QED BY <2>1, <2>3
<1> QED BY <1>2, <1>3, <1>4, <1>5

LEMMA ReturnsV0Keeps ==
  ASSUME CpuOK, NEW v \in Words, ReturnsV0(v), Accesses
  PROVE  Kept
<1>1. GoodRegs([Cleared EXCEPT ![V0] = v]) /\ Returns([Cleared EXCEPT ![V0] = v])
  BY ResultsGood DEF ReturnsV0
<1> QED BY <1>1, ReturnsKeep

LEMMA FailedKeeps ==
  ASSUME CpuOK, Failed, Accesses
  PROVE  Kept
<1>1. PICK t \in Times : Returns([regs EXCEPT ![A3] = MinusOne, ![V0] = t])
  BY DEF Failed
<1>2. GoodRegs([regs EXCEPT ![A3] = MinusOne, ![V0] = t])
  BY ResultsGood
<1> QED BY <1>1, <1>2, ReturnsKeep

\* The length of a transfer.
LEMMA TransferLength ==
  ASSUME CpuOK
  PROVE  /\ Smaller(regs[A2], MaxReadBuf) \in Nat
         /\ \A m \in 0 .. Smaller(regs[A2], MaxReadBuf) : m \in Words
         /\ regs[A0] \in Words /\ regs[A1] \in Words /\ regs[V0] \in Words
<1>1. GoodRegs(regs) /\ A0 \in RegNums /\ A1 \in RegNums /\ A2 \in RegNums /\ V0 \in RegNums
  BY RegNumbers DEF CpuOK
<1>2. regs[A0] \in Words /\ regs[A1] \in Words /\ regs[A2] \in Words /\ regs[V0] \in Words
  BY <1>1, ReadReg
<1>3. regs[A2] \in Nat /\ regs[A2] < WordMod /\ MaxReadBuf \in Nat
  BY <1>2, WordIs, ReesesAssumption
<1>4. Smaller(regs[A2], MaxReadBuf) \in Nat /\ Smaller(regs[A2], MaxReadBuf) < WordMod
  BY <1>3, Numbers DEF Smaller
<1>5. ASSUME NEW m \in 0 .. Smaller(regs[A2], MaxReadBuf) PROVE m \in Words
  BY <1>4, IsWord, Numbers
<1> QED BY <1>2, <1>4, <1>5

LEMMA DoReadKeeps ==
  ASSUME CpuOK, DoRead
  PROVE  Kept
<1> DEFINE n == Smaller(regs[A2], MaxReadBuf)
<1>1. n \in Nat /\ (\A m \in 0 .. n : m \in Words) /\ regs[A1] \in Words
  BY TransferLength
<1>2. UNCHANGED memVars => Accesses
  BY DEF Accesses
<1>3. CASE Returns(Cleared) /\ UNCHANGED memVars
  BY <1>2, <1>3, ResultsGood, ReturnsKeep
<1>4. CASE ReturnsV0(0) /\ UNCHANGED memVars
  BY <1>2, <1>4, ZeroWord, ReturnsV0Keeps
<1>5. CASE Failed /\ UNCHANGED memVars
  BY <1>2, <1>5, FailedKeeps
<1>6. CASE \E data \in Inputs :
             /\ Len(data) <= n
             /\ WriteMemory(regs[A1], data, Stray(regs[A1], Len(data)))
             /\ IF Accessible(regs[A1], Len(data)) THEN ReturnsV0(Len(data))
                ELSE Ends(Fault(regs[A1], Len(data), "AdES"))
  <2>1. PICK data \in Inputs :
             /\ Len(data) <= n
             /\ WriteMemory(regs[A1], data, Stray(regs[A1], Len(data)))
             /\ IF Accessible(regs[A1], Len(data)) THEN ReturnsV0(Len(data))
                ELSE Ends(Fault(regs[A1], Len(data), "AdES"))
    BY <1>6
  <2>2. data \in Seq(ByteRange) \ {<<>>}
    BY ReesesAssumption
  <2>3. Accesses
    BY <1>1, <2>1, <2>2, WriteAccesses
  <2>4. Len(data) \in Words
    <3>1. Len(data) \in Nat
      BY <2>2
    <3> HIDE DEF n
    <3>2. Len(data) \in 0 .. n
      BY <1>1, <2>1, <3>1
    <3> QED BY <1>1, <3>2
  <2>5. CASE ReturnsV0(Len(data))
    BY <2>3, <2>4, <2>5, ReturnsV0Keeps
  <2>6. CASE Ends(Fault(regs[A1], Len(data), "AdES"))
    BY <2>3, <2>6, EndsKeeps DEF Kept
  <2> QED BY <2>1, <2>5, <2>6
<1> QED BY <1>3, <1>4, <1>5, <1>6 DEF DoRead

LEMMA DoWriteKeeps ==
  ASSUME CpuOK, DoWrite
  PROVE  Kept
<1> DEFINE n == Smaller(regs[A2], MaxReadBuf)
<1>1. n \in Nat /\ (\A m \in 0 .. n : m \in Words) /\ regs[A1] \in Words
  BY TransferLength
<1>2. UNCHANGED memVars => Accesses
  BY DEF Accesses
<1>3. CASE Returns(Cleared) /\ UNCHANGED memVars
  BY <1>2, <1>3, ResultsGood, ReturnsKeep
<1>4. CASE ReturnsV0(0) /\ UNCHANGED memVars
  BY <1>2, <1>4, ZeroWord, ReturnsV0Keeps
<1>5. CASE ReadFails(regs[A1], n)
  BY <1>1, <1>5, ReadFailsKeeps
<1>6. CASE /\ Accessible(regs[A1], n)
           /\ ReadIO(regs[A1], n) /\ UNCHANGED <<pages, table>>
           /\ Failed \/ \E m \in 0 .. n : ReturnsV0(m)
  <2> HIDE DEF n
  <2>1. Accesses
    BY <1>1, <1>6 DEF Accesses
  <2>2. CASE Failed
    BY <2>1, <2>2, FailedKeeps
  <2>3. ASSUME NEW m \in 0 .. n, ReturnsV0(m) PROVE Kept
    BY <1>1, <2>1, <2>3, ReturnsV0Keeps
  <2> QED BY <1>6, <2>2, <2>3
<1> QED BY <1>3, <1>4, <1>5, <1>6 DEF DoWrite

LEMMA SyscallKeeps ==
  ASSUME Ready, Syscall
  PROVE  Kept
<1>1. CpuOK /\ regs[A0] \in Words /\ regs[A1] \in Words
  BY TransferLength DEF Ready
<1>2. UNCHANGED memVars => Accesses
  BY DEF Accesses
<1>3. ASSUME NEW reason, doException(reason) PROVE Kept
  BY <1>1, <1>3, ExceptionKeeps
<1>4. CASE GoOn /\ UNCHANGED <<memVars, regs, mulVars>>
  <2>1. FlowOK'
    BY <1>1, <1>4, GoOnKeeps DEF CpuOK
  <2> QED BY <1>1, <1>2, <1>4, <2>1 DEF Kept, CpuOK, GoodRegs, mulVars
<1>5. CASE ReturnsV0(0) /\ UNCHANGED memVars
  BY <1>1, <1>2, <1>5, ZeroWord, ReturnsV0Keeps
<1>6. CASE DoRead
  BY <1>1, <1>6, DoReadKeeps
<1>7. CASE DoWrite
  BY <1>1, <1>7, DoWriteKeeps
<1>8. CASE (\E t \in Times : ReturnsV0(t)) /\ UNCHANGED memVars
  <2>1. PICK t \in Times : ReturnsV0(t)
    BY <1>8
  <2>2. t \in Words
    BY ReesesAssumption
  <2> QED BY <1>1, <1>2, <1>8, <2>1, <2>2, ReturnsV0Keeps
<1>9. CASE /\ DoMMAP(regs[A0], regs[A1])
           /\ ReturnsV0(IF MmapWorks(regs[A0], regs[A1]) THEN regs[A0] ELSE MinusOne)
  <2>1. Accesses
    BY <1>1, <1>9 DEF Accesses
  <2>2. (IF MmapWorks(regs[A0], regs[A1]) THEN regs[A0] ELSE MinusOne) \in Words
    BY <1>1, ResultsGood
  <2> QED BY <1>1, <1>9, <2>1, <2>2, ReturnsV0Keeps
<1> DEFINE number == Signed(regs[V0]) - SyscallBase
<1>10. \/ doException("undefined")
       \/ GoOn /\ UNCHANGED <<memVars, regs, mulVars>>
       \/ ReturnsV0(0) /\ UNCHANGED memVars
       \/ doException("exit")
       \/ DoRead
       \/ DoWrite
       \/ (\E t \in Times : ReturnsV0(t)) /\ UNCHANGED memVars
       \/ /\ DoMMAP(regs[A0], regs[A1])
          /\ ReturnsV0(IF MmapWorks(regs[A0], regs[A1]) THEN regs[A0] ELSE MinusOne)
  BY DEF Syscall
<1> QED BY <1>3, <1>4, <1>5, <1>6, <1>7, <1>8, <1>9, <1>10

\* A block that was enciphered is bytes again.
LEMMA CipherTyped ==
  ASSUME NEW block \in Seq(ByteRange) \ {<<>>}, NEW key \in ByteRange, NEW n \in Nat, Len(block) = n
  PROVE  [k \in 1 .. n |-> IF k <= n % ByteValues
                             THEN Bitwise2(block[k], key, XorBit) ELSE block[k]]
           \in Seq(ByteRange) \ {<<>>}
<1> DEFINE e(k) == IF k <= n % ByteValues THEN Bitwise2(block[k], key, XorBit) ELSE block[k]
<1>1. ASSUME NEW k \in 1 .. n PROVE e(k) \in ByteRange
  <2>1. block[k] \in ByteRange /\ block[k] \in Nat /\ key \in Nat
    BY ByteRangeIs
  <2>2. Bitwise2(block[k], key, XorBit) \in ByteRange
    BY <2>1, Tables, BitwiseTyped
  <2> QED BY <2>1, <2>2
<1>2. n > 0
  BY EmptySeq
<1> HIDE DEF e
<1>3. [k \in 1 .. n |-> e(k)] \in Seq(ByteRange) /\ Len([k \in 1 .. n |-> e(k)]) = n
  BY <1>1
<1>4. [k \in 1 .. n |-> e(k)] # <<>>
  BY <1>2, <1>3
<1> QED BY <1>3, <1>4 DEF e

LEMMA CopTwoKeeps ==
  ASSUME Ready, CopTwo
  PROVE  Kept
<1>1. CpuOK /\ PagesOK /\ Rs \in Words /\ Rt \in Nat /\ Instr.rd \in RegNums
  BY InstrIs, WordIs DEF Ready
<1>2. regs[Instr.rd] \in Words
  BY <1>1, ReadReg DEF CpuOK
<1>3. ASSUME NEW reason, NEW n, doException(reason) \/ ReadFails(Rs, n) PROVE Kept
  BY <1>1, <1>3, ExceptionKeeps, ReadFailsKeeps
<1>4. KeyMask \in Nat /\ KeyMask > 0 /\ BlockMask \in Nat /\ BlockMask > 0
  BY ByteRangeIs DEF KeyMask, BlockMask
<1>5. Rt % KeyMask \in Nat /\ Rt % BlockMask \in Nat
  BY <1>1, <1>4, DivisionIs
<1>6. ASSUME NEW n \in Nat, Accessible(Rs, n),
             ReadIO(Rs, n), GoOn, UNCHANGED <<pages, table, regs, mulVars>>
      PROVE  Kept
  <2>1. Accesses
    BY <1>1, <1>6 DEF Accesses
  <2>2. FlowOK'
    BY <1>1, <1>6, GoOnKeeps DEF CpuOK
  <2> QED BY <1>1, <1>6, <2>1, <2>2 DEF Kept, CpuOK, GoodRegs, mulVars
<1>7. ASSUME NEW n \in Nat, Accessible(Rs, n), NEW key \in 0 .. ByteValues - 1,
             StoreAt(regs[Instr.rd],
                     [k \in 1 .. n |-> IF k <= n % ByteValues
                                         THEN Bitwise2(BytesAt(Rs, n)[k], key, XorBit)
                                         ELSE BytesAt(Rs, n)[k]])
      PROVE  Kept
  <2> DEFINE block == BytesAt(Rs, n)
             data == [k \in 1 .. n |-> IF k <= n % ByteValues
                                         THEN Bitwise2(block[k], key, XorBit) ELSE block[k]]
  <2>1. block \in Seq(ByteRange) \ {<<>>} /\ Len(block) = n
    BY <1>1, <1>7, BytesAtTyped
  <2>2. key \in ByteRange
    BY DEF ByteRange
  <2>3. StoreAt(regs[Instr.rd], data)
    BY <1>7
  <2> HIDE DEF block
  <2>4. data \in Seq(ByteRange) \ {<<>>}
    BY <2>1, <2>2, CipherTyped
  <2> HIDE DEF data
  <2> QED BY <1>1, <1>2, <2>3, <2>4, StoreKeeps
<1>8. CASE LET n == Rt % KeyMask IN
           IF ~ Accessible(Rs, n) THEN ReadFails(Rs, n)
           ELSE ReadIO(Rs, n) /\ GoOn /\ UNCHANGED <<pages, table, regs, mulVars>>
  BY <1>3, <1>5, <1>6, <1>8
<1>9. CASE LET n == Rt % BlockMask
               block == BytesAt(Rs, n) IN
           IF ~ Accessible(Rs, n) THEN ReadFails(Rs, n)
           ELSE \E key \in 0 .. ByteValues - 1 :
                  StoreAt(regs[Instr.rd],
                          [k \in 1 .. n |-> IF k <= n % ByteValues
                                              THEN Bitwise2(block[k], key, XorBit) ELSE block[k]])
  BY <1>3, <1>5, <1>7, <1>9
<1> QED BY <1>3, <1>8, <1>9 DEF CopTwo

LEMMA RefusedKeeps ==
  ASSUME Ready, Refused
  PROVE  Kept
<1>1. \E reason \in {"RI", "CpU", "Bp", "HSC", "undefined"} : doException(reason)
  BY DEF Refused
<1> QED BY <1>1, ExceptionKeeps DEF Ready

LEMMA CopZeroKeeps ==
  ASSUME Ready, CopZero
  PROVE  Kept
<1>1. GoOn /\ UNCHANGED <<memVars, regs, mulVars>> /\ CpuOK
  BY DEF CopZero, Ready
<1>2. FlowOK'
  BY <1>1, GoOnKeeps DEF CpuOK
<1> QED BY <1>1, <1>2 DEF Kept, CpuOK, Accesses, GoodRegs, mulVars

LEMMA ExecuteKeeps ==
  ASSUME Ready, Execute
  PROVE  Kept
<1>1. CASE Compute
  BY <1>1, ComputeKeeps
<1>2. CASE MultiplyDivide
  BY <1>2, MultiplyDivideKeeps
<1>3. CASE Branch
  BY <1>3, BranchKeeps
<1>4. CASE Jumps
  BY <1>4, JumpsKeep
<1>5. CASE Load
  BY <1>5, LoadKeeps
<1>6. CASE Store
  BY <1>6, StoreInstrKeeps
<1>7. CASE StorePart
  BY <1>7, StorePartKeeps
<1>8. CASE Syscall
  BY <1>8, SyscallKeeps
<1>9. CASE CopTwo
  BY <1>9, CopTwoKeeps
<1>10. CASE CopZero
  BY <1>10, CopZeroKeeps
<1>11. CASE Refused
  BY <1>11, RefusedKeeps
<1> QED
  BY <1>1, <1>2, <1>3, <1>4, <1>5, <1>6, <1>7, <1>8, <1>9, <1>10, <1>11 DEF Execute

-----------------------------------------------------------------------------
(* The emulator *)

\* The inductive invariant: the pages that exist are those of the text and those of
\* the regions, and every register, counter and byte has its width.
EmulatorOK ==
  /\ MemoryOK /\ CpuOK
  /\ image \in Images /\ loaded \in 0 .. Len(image.sections)

LEMMA InitOK ==
  ASSUME ReesesInit
  PROVE  EmulatorOK /\ Flat!FlatInit
<1>1. /\ image \in Images /\ loaded = 0 /\ Setup
      /\ regs = [x \in RegNums |-> IF x \in DOMAIN image.regs THEN image.regs[x] ELSE 0]
      /\ hi = 0 /\ lo = 0 /\ pc = image.start
      /\ delayState = NORMAL /\ delayPC = 0 /\ nextEpc = 0 /\ instrCount = 0
  BY DEF ReesesInit, ReesesReset
<1>2. /\ image.start \in Words /\ image.sections \in Seq([addr : Words, data : Seq(ByteRange)])
      /\ \A x \in DOMAIN image.regs :
           image.regs[x] \in Words /\ (x = ZERO => image.regs[x] = 0)
  BY <1>1, ImageAssumption
<1>3. GoodRegs(regs)
  BY <1>1, <1>2, ZeroWord, RegNumbers DEF GoodRegs
<1>4. FlowOK
  BY <1>1, <1>2, ZeroWord, ReesesAssumption DEF FlowOK, NORMAL, DELAYSLOT
<1>5. loaded \in 0 .. Len(image.sections)
  <2>1. Len(image.sections) \in Nat
    BY <1>2
  <2> QED BY <1>1, <2>1
<1>6. MemoryOK /\ Flat!FlatInit
  BY <1>1, SetupIs
<1> QED BY <1>1, <1>3, <1>4, <1>5, <1>6, ZeroWord DEF EmulatorOK, CpuOK

\* A step makes one of the accesses, and keeps the types.
LEMMA StepKeeps ==
  ASSUME EmulatorOK, [ReesesNext]_reesesVars
  PROVE  Accesses /\ CpuOK' /\ image' \in Images /\ loaded' \in 0 .. Len(image'.sections)
<1>1. /\ CpuOK /\ image \in Images /\ loaded \in 0 .. Len(image.sections)
      /\ PagesOK /\ Ready
      /\ image.sections \in Seq([addr : Words, data : Seq(ByteRange)])
  BY ImageAssumption DEF EmulatorOK, MemoryOK, Ready
<1>2. Len(image.sections) \in Nat
  BY <1>1
<1>3. CASE LoadSection
  <2> DEFINE sec == image.sections[loaded + 1]
  <2>1. /\ loaded < Len(image.sections) /\ loaded' = loaded + 1
        /\ IF Len(sec.data) = 0 THEN UNCHANGED memVars ELSE WriteMemory(sec.addr, sec.data, FALSE)
        /\ UNCHANGED <<image, regs, mulVars, flowVars>>
    BY <1>3 DEF LoadSection
  <2>2. loaded + 1 \in 1 .. Len(image.sections)
    BY <1>1, <1>2, <2>1
  <2>3. sec.addr \in Words /\ sec.data \in Seq(ByteRange)
    <3>1. sec \in [addr : Words, data : Seq(ByteRange)]
      BY <1>1, <2>2, ElementOfSeq
    <3> HIDE DEF sec
    <3> QED BY <3>1
  <2>4. Accesses
    <3>1. CASE UNCHANGED memVars
      BY <3>1 DEF Accesses
    <3>2. CASE WriteMemory(sec.addr, sec.data, FALSE) /\ Len(sec.data) # 0
      <4> HIDE DEF sec
      <4>1. sec.data \in Seq(ByteRange) \ {<<>>}
        BY <2>3, <3>2
      <4> QED BY <2>3, <3>2, <4>1 DEF Accesses
    <3> QED BY <2>1, <3>1, <3>2
  <2>5. CpuOK'
    BY <1>1, <2>1 DEF CpuOK, FlowOK, GoodRegs, mulVars, flowVars
  <2>6. loaded' \in 0 .. Len(image'.sections)
    BY <1>1, <1>2, <2>1, <2>2
  <2> QED BY <1>1, <2>1, <2>4, <2>5, <2>6
<1>4. CASE CpuStep
  <2>1. image' = image /\ loaded' = loaded /\ (Execute \/ ReadFails(pc, 4))
    BY <1>4 DEF CpuStep
  <2>2. Kept
    <3>1. pc \in Words
      BY <1>1 DEF CpuOK, FlowOK
    <3> QED BY <1>1, <2>1, <3>1, ExecuteKeeps, ReadFailsKeeps
  <2> QED BY <1>1, <2>1, <2>2 DEF Kept
<1>5. CASE UNCHANGED reesesVars
  <2>1. UNCHANGED <<memVars, image, loaded, regs, mulVars, flowVars>>
    BY <1>5 DEF reesesVars
  <2>2. CpuOK'
    BY <1>1, <2>1 DEF CpuOK, FlowOK, GoodRegs, mulVars, flowVars
  <2> QED BY <1>1, <2>1, <2>2 DEF Accesses
<1> QED BY <1>3, <1>4, <1>5 DEF ReesesNext

\* And so does with the memory what FlatMemory does.
LEMMA StepIsFlat ==
  ASSUME EmulatorOK, [ReesesNext]_reesesVars
  PROVE  EmulatorOK' /\ [Flat!Read \/ Flat!Write \/ Flat!Torn \/ Flat!Map \/ Flat!Lost]_(Flat!flatVars)
<1>1. Accesses /\ CpuOK' /\ image' \in Images /\ loaded' \in 0 .. Len(image'.sections)
  BY StepKeeps
<1>2. /\ MemoryOK'
      /\ \/ Flat!Read \/ Flat!Write \/ Flat!Torn \/ Flat!Map \/ Flat!Lost
         \/ UNCHANGED Flat!flatVars
  BY <1>1, AccessIsFlat DEF EmulatorOK
<1>3. EmulatorOK'
  BY <1>1, <1>2 DEF EmulatorOK
<1> QED BY <1>2, <1>3

LEMMA EmulatorStays == ReesesSpec => []EmulatorOK
<1>1. ReesesInit => EmulatorOK
  BY InitOK
<1>2. EmulatorOK /\ [ReesesNext]_reesesVars => EmulatorOK'
  BY StepIsFlat
<1> QED BY <1>1, <1>2, PTL DEF ReesesSpec

\* The invariant the other theorems on memory rest on: regions allocated by mmap are
\* apart, in the table and within the pages of the MMU, every page in use is one of
\* theirs or of the text and holds bytes, registers and counters keep their width
\* (mmu.cpp:118, cpu.cpp:92).  Every instruction, system call and load of a section
\* keeps it, but one that does what is undefined: among these is an access to the page
\* behind the last, which the test of its index lets through (mmu.cpp:131, 171).
THEOREM EmulatorKept == ReesesSpec => [](halted # "undefined" => EmulatorOK)
<1>1. EmulatorOK => (halted # "undefined" => EmulatorOK)
  OBVIOUS
<1> QED BY <1>1, EmulatorStays, PTL

\* Whatever a program does, as long as it is defined, registers, counters and the bytes
\* of memory keep their width, and no step ends between a jump and its slot (cpu.cpp:92,
\* mmu.cpp:118).
THEOREM ReesesTyped == ReesesSpec => []ReesesTypeOK
<1>1. EmulatorOK => ReesesTypeOK
  <2> SUFFICES ASSUME EmulatorOK PROVE ReesesTypeOK
    OBVIOUS
  <2>1. MemoryOK /\ CpuOK
    BY DEF EmulatorOK
  <2>2. MemoryTypeOK
    BY <2>1, MemoryTyped
  <2> QED BY <2>1, <2>2 DEF ReesesTypeOK, CpuOK, GoodRegs, FlowOK
<1> QED BY <1>1, EmulatorStays, PTL

\* The memory of pages is a flat one, for every program, page size and table: an access
\* that the MMU splits at the ends of pages reads and writes as if there were none, or
\* reports a fault; what mmap gives is fresh (mmu.cpp:118, syscall_handler.cpp:177).
\* It is flat until an access gets to the page behind the last one, whose entry is the
\* pointer to the MMU (mmu.cpp:131, 171): from there on nothing is promised.
THEOREM MemoryIsFlat == ReesesSpec => ImplementsFlatMemory
<1>1. ReesesInit => Flat!FlatInit
  BY InitOK
<1>2. EmulatorOK /\ [ReesesNext]_reesesVars
        => [Flat!Read \/ Flat!Write \/ Flat!Torn \/ Flat!Map \/ Flat!Lost]_(Flat!flatVars)
  BY StepIsFlat
<1> QED
  BY <1>1, <1>2, EmulatorStays, PTL DEF ReesesSpec, ImplementsFlatMemory, Flat!FlatSpec

-----------------------------------------------------------------------------
(* Arithmetic is that of numbers *)

\* Division of any number, negative ones too.
LEMMA FloorUnique ==
  ASSUME NEW w \in Nat, w > 0, NEW q \in Int, NEW t \in 0 .. w - 1
  PROVE  (w * q + t) \div w = q /\ (w * q + t) % w = t
<1>1. PICK x \in Int : x = w * q + t
  OBVIOUS
<1>2. x % w \in 0 .. w - 1 /\ x \div w \in Int
  BY DivMod
<1>3. x % w = x - w * (x \div w)
  BY Z3T(30)
<1>4. PICK p \in Int, s \in 0 .. w - 1 : p = x \div w /\ s = x % w
  BY <1>2
<1>5. w * p + s = w * q + t
  <2>1. PICK z \in Int : z = w * p
    OBVIOUS
  <2> QED BY <1>1, <1>3, <1>4, <2>1
<1>6. s = t
  BY <1>5, ModUnique
<1>7. p = q
  <2>1. w * (p - q) = 0
    BY <1>5, <1>6
  <2>2. p - q >= 1 => w * (p - q) >= w * 1
    OBVIOUS
  <2>3. p - q <= -1 => w * (p - q) <= w * (-1)
    OBVIOUS
  <2> QED BY <2>1, <2>2, <2>3
<1> QED BY <1>1, <1>4, <1>6, <1>7

\* Half of the words are negative.
IsHalf(h) == h \in Nat /\ h > 0 /\ WordMod = 2 * h /\ WordMod \div 2 = h

LEMMA HalfExists == \E h : IsHalf(h)
<1>1. WordBits \in 1 .. WordBits /\ WordBits - 1 \in 0 .. WordBits
  BY Bits
<1>2. PICK h \in Nat : h = TwoTo[WordBits - 1] /\ h > 0
  BY <1>1, TwoToIs
<1>3. WordMod = 2 * h
  BY <1>1, <1>2, TwoToIs, ReesesAssumption
<1>4. (2 * h + 0) \div 2 = h
  BY <1>2, QuotientUnique
<1>5. 2 * h + 0 = WordMod
  BY <1>3
<1> QED BY <1>2, <1>3, <1>4, <1>5 DEF IsHalf

LEMMA SignedIs ==
  ASSUME NEW h, IsHalf(h), NEW w \in Words
  PROVE  /\ w \in Nat /\ w < 2 * h
         /\ Negative(w) <=> w >= h
         /\ Signed(w) = IF w >= h THEN w - 2 * h ELSE w
         /\ Signed(w) \in Int /\ - h <= Signed(w) /\ Signed(w) < h
<1>1. h \in Nat /\ WordMod = 2 * h /\ WordMod \div 2 = h /\ w \in Nat /\ w < WordMod
  BY WordIs DEF IsHalf
<1>2. (Negative(w) <=> w >= h) /\ Signed(w) = IF w >= h THEN w - 2 * h ELSE w
  BY <1>1 DEF Negative, Signed
<1> QED BY <1>1, <1>2

\* A number that is not more than one word away from the words.
LEMMA WrappedIs ==
  ASSUME NEW z \in Int, - WordMod <= z, z < 2 * WordMod
  PROVE  z % WordMod = IF z < 0 THEN z + WordMod ELSE IF z >= WordMod THEN z - WordMod ELSE z
<1> DEFINE q == IF z < 0 THEN -1 ELSE IF z >= WordMod THEN 1 ELSE 0
           t == IF z < 0 THEN z + WordMod ELSE IF z >= WordMod THEN z - WordMod ELSE z
<1>1. WordMod \in Nat /\ WordMod > 0
  BY Numbers
<1>2. q \in Int /\ t \in 0 .. WordMod - 1 /\ z = WordMod * q + t
  BY <1>1
<1> HIDE DEF q, t
<1>3. (WordMod * q + t) % WordMod = t
  BY <1>1, <1>2, FloorUnique
<1> QED BY <1>2, <1>3 DEF t

\* A number in the range of signed words is the number of its word.
LEMMA SignedBack ==
  ASSUME NEW h, IsHalf(h), NEW z \in Int, - h <= z, z < h
  PROVE  Signed(z % WordMod) = z
<1>1. h \in Nat /\ h > 0 /\ WordMod = 2 * h
  BY DEF IsHalf
<1>2. z % WordMod = IF z < 0 THEN z + 2 * h ELSE z
  BY <1>1, WrappedIs
<1>3. z % WordMod \in Words
  BY ModWord
<1> QED BY <1>1, <1>2, <1>3, SignedIs

\* Sums and differences: the tests by the signs find what does not fit.
LEMMA SumIs ==
  ASSUME NEW h, IsHalf(h), NEW x \in Words, NEW y \in Words
  PROVE  /\ SumOverflows(x, y) <=> ~ (- h <= Signed(x) + Signed(y) /\ Signed(x) + Signed(y) < h)
         /\ ~ SumOverflows(x, y) => Signed((x + y) % WordMod) = Signed(x) + Signed(y)
<1>1. h \in Nat /\ h > 0 /\ WordMod = 2 * h
  BY DEF IsHalf
<1>2. /\ x \in Nat /\ x < 2 * h /\ (Negative(x) <=> x >= h) /\ Signed(x) = IF x >= h THEN x - 2 * h ELSE x
      /\ y \in Nat /\ y < 2 * h /\ (Negative(y) <=> y >= h) /\ Signed(y) = IF y >= h THEN y - 2 * h ELSE y
  BY SignedIs
<1>3. (x + y) % WordMod = IF x + y >= 2 * h THEN x + y - 2 * h ELSE x + y
  <2>1. PICK z \in Int : z = x + y /\ 0 <= z /\ z < 4 * h
    BY <1>1, <1>2
  <2>2. z % WordMod = IF z < 0 THEN z + WordMod ELSE IF z >= WordMod THEN z - WordMod ELSE z
    BY <1>1, <2>1, WrappedIs
  <2>3. (x + y) % WordMod = z % WordMod
    BY <2>1
  <2>4. z % WordMod = IF z >= 2 * h THEN z - 2 * h ELSE z
    BY <1>1, <2>1, <2>2
  <2> QED BY <1>1, <1>2, <2>1, <2>3, <2>4
<1>4. (x + y) % WordMod \in Words
  BY <1>2, ModWord
<1> DEFINE s == (x + y) % WordMod
<1>5. (Negative(s) <=> s >= h) /\ Signed(s) = IF s >= h THEN s - 2 * h ELSE s
  BY <1>4, SignedIs
<1>6. SumOverflows(x, y) <=> \/ Negative(x) /\ Negative(y) /\ ~ Negative(s)
                             \/ ~ Negative(x) /\ ~ Negative(y) /\ Negative(s)
  BY DEF SumOverflows
<1>7. s = IF x + y >= 2 * h THEN x + y - 2 * h ELSE x + y
  BY <1>3
<1> HIDE DEF s
<1>8. SumOverflows(x, y) <=> ~ (- h <= Signed(x) + Signed(y) /\ Signed(x) + Signed(y) < h)
  BY <1>1, <1>2, <1>5, <1>6, <1>7
<1>9. ~ SumOverflows(x, y) => Signed(s) = Signed(x) + Signed(y)
  BY <1>1, <1>2, <1>5, <1>6, <1>7
<1> QED BY <1>8, <1>9 DEF s

LEMMA DifferenceIs ==
  ASSUME NEW h, IsHalf(h), NEW x \in Words, NEW y \in Words
  PROVE  /\ DifferenceOverflows(x, y) <=> ~ (- h <= Signed(x) - Signed(y) /\ Signed(x) - Signed(y) < h)
         /\ ~ DifferenceOverflows(x, y) => Signed((x - y) % WordMod) = Signed(x) - Signed(y)
<1>1. h \in Nat /\ h > 0 /\ WordMod = 2 * h
  BY DEF IsHalf
<1>2. /\ x \in Nat /\ x < 2 * h /\ (Negative(x) <=> x >= h) /\ Signed(x) = IF x >= h THEN x - 2 * h ELSE x
      /\ y \in Nat /\ y < 2 * h /\ (Negative(y) <=> y >= h) /\ Signed(y) = IF y >= h THEN y - 2 * h ELSE y
  BY SignedIs
<1>3. (x - y) % WordMod = IF x - y < 0 THEN x - y + 2 * h ELSE x - y
  <2>1. PICK z \in Int : z = x - y /\ - (2 * h) <= z /\ z < 2 * h
    BY <1>1, <1>2
  <2>2. z % WordMod = IF z < 0 THEN z + WordMod ELSE IF z >= WordMod THEN z - WordMod ELSE z
    BY <1>1, <2>1, WrappedIs
  <2>3. (x - y) % WordMod = z % WordMod
    BY <2>1
  <2>4. z % WordMod = IF z < 0 THEN z + 2 * h ELSE z
    BY <1>1, <2>1, <2>2
  <2> QED BY <1>1, <1>2, <2>1, <2>3, <2>4
<1>4. (x - y) % WordMod \in Words
  BY <1>2, ModWord
<1> DEFINE s == (x - y) % WordMod
<1>5. (Negative(s) <=> s >= h) /\ Signed(s) = IF s >= h THEN s - 2 * h ELSE s
  BY <1>4, SignedIs
<1>6. DifferenceOverflows(x, y) <=> \/ Negative(x) /\ ~ Negative(y) /\ ~ Negative(s)
                                    \/ ~ Negative(x) /\ Negative(y) /\ Negative(s)
  BY DEF DifferenceOverflows
<1>7. s = IF x - y < 0 THEN x - y + 2 * h ELSE x - y
  BY <1>3
<1> HIDE DEF s
<1>8. DifferenceOverflows(x, y) <=> ~ (- h <= Signed(x) - Signed(y) /\ Signed(x) - Signed(y) < h)
  BY <1>1, <1>2, <1>5, <1>6, <1>7
<1>9. ~ DifferenceOverflows(x, y) => Signed(s) = Signed(x) - Signed(y)
  BY <1>1, <1>2, <1>5, <1>6, <1>7
<1> QED BY <1>8, <1>9 DEF s

\* Powers of two add their exponents.
LEMMA TwoToSum ==
  ASSUME NEW k \in 0 .. WordBits, NEW i \in 0 .. k
  PROVE  TwoTo[i] * TwoTo[k - i] = TwoTo[k]
<1> DEFINE S == {j \in 0 .. k : TwoTo[j] * TwoTo[k - j] = TwoTo[k]}
<1>1. k \in Nat /\ k <= WordBits /\ WordBits \in Nat
  BY Bits
<1>2. 0 \in S
  <2>1. TwoTo[0] = 1 /\ TwoTo[k] \in Nat /\ k - 0 = k
    BY <1>1, TwoToIs
  <2>2. TwoTo[0] * TwoTo[k - 0] = TwoTo[k]
    BY <2>1
  <2> QED BY <1>1, <2>2
<1>3. ASSUME NEW j \in 1 .. k, j - 1 \in S PROVE j \in S
  <2>1. /\ j \in 1 .. WordBits /\ k - (j - 1) \in 1 .. WordBits /\ (k - (j - 1)) - 1 = k - j
        /\ j - 1 \in 0 .. WordBits /\ k - j \in 0 .. WordBits
    BY <1>1
  <2>2. TwoTo[j] = 2 * TwoTo[j - 1] /\ TwoTo[k - (j - 1)] = 2 * TwoTo[k - j]
    BY <2>1, TwoToIs
  <2>3. PICK x, y \in Nat : x = TwoTo[j - 1] /\ y = TwoTo[k - j]
    BY <2>1, TwoToIs
  <2>4. x * (2 * y) = TwoTo[k]
    BY <1>3, <2>2, <2>3
  <2>5. (2 * x) * y = x * (2 * y)
    OBVIOUS
  <2>6. TwoTo[j] * TwoTo[k - j] = TwoTo[k]
    BY <2>2, <2>3, <2>4, <2>5
  <2> QED BY <1>1, <2>6
<1> HIDE DEF S
<1>4. 0 .. k \subseteq S
  BY ONLY <1>1, <1>2, <1>3, LoopInduction
<1> QED BY <1>4 DEF S

\* What shifting down by n bits leaves: the upper digit q, and the sign above it.
Shifts(w, n, t, u, q) ==
  /\ t = TwoTo[n] /\ u = TwoTo[WordBits - n] /\ t \in Nat /\ t > 0 /\ u \in Nat /\ u > 0
  /\ t * u = WordMod /\ q \in Nat /\ q < u /\ w \div t = q
  /\ Signed(w) \div t = IF Negative(w) THEN q - u ELSE q
  /\ ShiftedDown(w, n) = IF Negative(w) THEN q - u + WordMod ELSE q

LEMMA ShiftsExist ==
  ASSUME NEW w \in Words, NEW n \in 0 .. WordBits
  PROVE  \E t, u, q : Shifts(w, n, t, u, q)
<1>1. WordBits - n \in 0 .. WordBits /\ WordBits \in 0 .. WordBits
  BY Bits
<1>2. PICK t, u \in Nat : t = TwoTo[n] /\ u = TwoTo[WordBits - n] /\ t > 0 /\ u > 0
  BY <1>1, TwoToIs
<1>3. t * u = WordMod
  <2>1. TwoTo[n] * TwoTo[WordBits - n] = TwoTo[WordBits]
    BY <1>1, TwoToSum
  <2> QED BY <1>2, <2>1, ReesesAssumption
<1>4. w \div t \in 0 .. u - 1 /\ w % t \in 0 .. t - 1 /\ w \in Nat /\ w < WordMod
  <2>1. u * t = WordMod
    BY <1>2, <1>3
  <2> QED BY <1>2, <2>1, FirstDigit, WordIs
<1>5. PICK q, s \in Nat : q = w \div t /\ s \in 0 .. t - 1 /\ w = t * q + s /\ q < u
  <2>0. w \in Nat /\ t \in Nat /\ t > 0
    BY <1>2, <1>4
  <2>1. PICK q \in Nat, s \in 0 .. t - 1 : q = w \div t /\ s = w % t /\ w = t * q + s
    BY <2>0, DivisionIs
  <2>2. q < u /\ s \in Nat
    BY <1>2, <1>4, <2>1
  <2> QED BY <2>1, <2>2
<1>6. Signed(w) \div t = IF Negative(w) THEN q - u ELSE q
  <2>1. CASE Negative(w)
    <3>1. Signed(w) = w - WordMod
      BY <2>1 DEF Signed
    <3>2. w - WordMod = t * (q - u) + s
      <4>1. t * (q - u) = t * q - t * u
        BY <1>2, <1>5
      <4>2. PICK x, y \in Nat : x = t * q /\ y = t * u
        BY <1>2, <1>5
      <4> QED BY <1>3, <1>5, <4>1, <4>2
    <3>3. (t * (q - u) + s) \div t = q - u
      <4>1. PICK z \in Int : z = q - u
        BY <1>2, <1>5
      <4>2. (t * z + s) \div t = z
        BY <1>2, <1>5, FloorUnique
      <4> QED BY <4>1, <4>2
    <3> QED BY <2>1, <3>1, <3>2, <3>3
  <2>2. CASE ~ Negative(w)
    BY <1>5, <2>2 DEF Signed
  <2> QED BY <2>1, <2>2
<1>7. ShiftedDown(w, n) = IF Negative(w) THEN q - u + WordMod ELSE q
  <2>1. u <= WordMod
    <3>1. t * u >= 1 * u
      BY <1>2
    <3> QED BY <1>2, <1>3, <3>1
  <2>2. PICK z \in Int : z = Signed(w) \div t /\ z = IF Negative(w) THEN q - u ELSE q
    BY <1>2, <1>5, <1>6
  <2>3. - WordMod <= z /\ z < WordMod
    BY <1>2, <1>5, <2>1, <2>2, Numbers
  <2>4. z % WordMod = IF z < 0 THEN z + WordMod ELSE z
    BY <2>3, WrappedIs, Numbers
  <2>5. ShiftedDown(w, n) = z % WordMod
    BY <1>2, <2>2 DEF ShiftedDown
  <2> QED BY <1>2, <1>5, <2>2, <2>4, <2>5, Numbers
<1> QED BY <1>2, <1>3, <1>5, <1>6, <1>7 DEF Shifts

\* The mask makes a shift of signed numbers one of words.
LEMMA srlIs ==
  ASSUME NEW w \in Words, NEW n \in 0 .. WordBits
  PROVE  srl(w, n) = w \div TwoTo[n]
<1>1. PICK t, u, q : Shifts(w, n, t, u, q)
  BY ShiftsExist
<1>2. /\ t = TwoTo[n] /\ u = TwoTo[WordBits - n] /\ t \in Nat /\ t > 0 /\ u \in Nat /\ u > 0
      /\ t * u = WordMod /\ q \in Nat /\ q < u /\ w \div t = q
      /\ ShiftedDown(w, n) = IF Negative(w) THEN q - u + WordMod ELSE q
  BY <1>1 DEF Shifts
<1>3. CASE n = 0
  <2>1. t = 1 /\ w \in Nat
    BY <1>2, <1>3, TwoToIs, WordIs
  <2>2. (1 * w + 0) \div 1 = w
    BY <2>1, FloorUnique
  <2>3. 1 * w + 0 = w
    BY <2>1
  <2> QED BY <1>2, <1>3, <2>1, <2>2, <2>3 DEF srl
<1>4. CASE n # 0
  <2>1. srl(w, n) = ShiftedDown(w, n) % u
    BY <1>2, <1>4 DEF srl
  <2>2. (u * (t - 1) + q) % u = q /\ (u * 0 + q) % u = q
    <3>1. u \in Nat /\ u > 0 /\ q \in 0 .. u - 1
      BY <1>2
    <3>2. ASSUME NEW z \in Int PROVE (u * z + q) % u = q
      BY <3>1, FloorUnique
    <3>3. t - 1 \in Int /\ 0 \in Int
      BY <1>2
    <3> QED BY <3>2, <3>3
  <2>3. u * (t - 1) + q = q - u + WordMod /\ u * 0 + q = q
    <3>1. u * (t - 1) = u * t - u /\ u * t = t * u
      BY <1>2
    <3>2. PICK x \in Nat : x = t * u
      BY <1>2
    <3> QED BY <1>2, <3>1, <3>2
  <2> QED BY <1>2, <2>1, <2>2, <2>3
<1> QED BY <1>3, <1>4

\* Dividing by a multiple of u does not see what is below u.
LEMMA HighPart ==
  ASSUME NEW u \in Nat, u > 0, NEW s \in Nat, s > 0, NEW p \in Nat, NEW q \in 0 .. u - 1
  PROVE  (u * p + q) \div (u * s) = p \div s
<1>1. PICK x \in Nat, y \in 0 .. s - 1 : x = p \div s /\ y = p % s /\ p = s * x + y
  BY DivisionIs
<1>2. u * y + q \in 0 .. (u * s) - 1
  <2>1. u * (y + 1) <= u * s /\ u * (y + 1) = u * y + u
    OBVIOUS
  <2>2. PICK z, w \in Nat : z = u * y /\ w = u * s
    OBVIOUS
  <2> QED BY <2>1, <2>2
<1>3. u * p + q = (u * s) * x + (u * y + q)
  <2>1. u * p = u * (s * x) + u * y /\ u * (s * x) = (u * s) * x
    BY <1>1
  <2>2. PICK z, w \in Nat : z = u * (s * x) /\ w = u * y
    BY <1>1
  <2> QED BY <2>1, <2>2
<1>4. PICK d, e \in Nat : d = u * s /\ e = u * y + q /\ d > 0 /\ e \in 0 .. d - 1
  <2>1. u * s \in Nat /\ u * y + q \in Nat
    OBVIOUS
  <2> QED BY <1>2, <2>1
<1>5. (d * x + e) \div d = x
  BY <1>4, FloorUnique
<1> QED BY <1>1, <1>3, <1>4, <1>5

\* One more bit of a number.
LEMMA OneMore ==
  ASSUME NEW x \in Nat, NEW p \in Nat, p > 0
  PROVE  x % (2 * p) = (x % p) + ((x \div p) % 2) * p
<1>1. PICK y \in Nat, q \in 0 .. p - 1 : y = x \div p /\ q = x % p /\ x = p * y + q
  BY DivisionIs
<1>2. PICK z \in Nat, d \in 0 .. 1 : z = y \div 2 /\ d = y % 2 /\ y = 2 * z + d
  <2>1. 2 \in Nat /\ 2 > 0
    OBVIOUS
  <2> QED BY <2>1, DivisionIs
<1>3. PICK s, t \in Nat : s = 2 * p /\ t = d * p + q
  BY <1>1, <1>2
<1>4. s > 0 /\ t \in 0 .. s - 1
  <2>1. CASE d = 0
    BY <1>1, <1>3, <2>1
  <2>2. CASE d = 1
    BY <1>1, <1>3, <2>2
  <2> QED BY <1>2, <2>1, <2>2
<1>5. x = s * z + t
  <2>1. p * y = p * (2 * z) + p * d
    BY <1>1, <1>2
  <2>2. p * (2 * z) = s * z
    BY <1>2, <1>3
  <2>3. p * d = d * p
    BY <1>2
  <2>4. PICK g, h, e \in Nat : g = p * (2 * z) /\ h = p * d /\ e = p * y
    BY <1>1, <1>2
  <2> QED BY <1>1, <1>3, <2>1, <2>2, <2>3, <2>4
<1>6. (s * z + t) % s = t
  BY <1>2, <1>4, FloorUnique
<1>7. x % (2 * p) = t
  BY <1>3, <1>5, <1>6
<1> QED BY <1>1, <1>2, <1>3, <1>7

LEMMA OneMoreBit ==
  ASSUME NEW x \in Nat, NEW k \in 1 .. WordBits
  PROVE  x % TwoTo[k] = (x % TwoTo[k - 1]) + BitOf(x, k - 1) * TwoTo[k - 1]
<1>1. k - 1 \in 0 .. WordBits /\ k \in 1 .. WordBits
  BY Bits
<1>2. PICK p \in Nat : p = TwoTo[k - 1] /\ p > 0 /\ TwoTo[k] = 2 * p
  BY <1>1, TwoToIs
<1>3. x % (2 * p) = (x % p) + ((x \div p) % 2) * p
  BY <1>2, OneMore
<1> QED BY <1>2, <1>3 DEF BitOf

\* A mask whose bits are set anyway changes nothing.
LEMMA OrMask ==
  ASSUME NEW x \in Nat, x < WordMod, NEW y \in Nat,
         \A k \in 0 .. WordBits - 1 : BitOf(y, k) = 1 => BitOf(x, k) = 1
  PROVE  Bitwise2(x, y, OrBit) = x
<1>1. PICK f : FirstBits(f, x, y, OrBit)
  BY Tables, BitwiseIs
<1>2. WordBits \in Nat /\ WordMod = TwoTo[WordBits]
  BY ReesesAssumption
<1>3. /\ f[0] = 0 /\ f[WordBits] = Bitwise2(x, y, OrBit)
      /\ \A k \in 1 .. WordBits :
           f[k] = f[k - 1] + OrBit[BitOf(x, k - 1)][BitOf(y, k - 1)] * TwoTo[k - 1]
  BY <1>1 DEF FirstBits
<1>4. ASSUME NEW k \in 1 .. WordBits
      PROVE  f[k] = f[k - 1] + BitOf(x, k - 1) * TwoTo[k - 1]
  <2>1. k - 1 \in 0 .. WordBits /\ k - 1 \in 0 .. WordBits - 1
    BY <1>2
  <2>2. PICK p, q \in Bit : p = BitOf(x, k - 1) /\ q = BitOf(y, k - 1)
    BY <2>1, BitOfBit
  <2>3. q = 1 => p = 1
    BY <2>1, <2>2
  <2>4. OrBit[p][q] = p + q - p * q
    BY <2>2 DEF OrBit
  <2>5. OrBit[p][q] = p
    BY <2>2, <2>3, <2>4 DEF Bit
  <2> QED BY <1>3, <2>2, <2>5
<1> DEFINE S == {k \in 0 .. WordBits : f[k] = x % TwoTo[k]}
<1>5. 0 \in S
  <2>1. TwoTo[0] = 1 /\ x % 1 = 0
    BY TwoToIs
  <2> QED BY <1>2, <1>3, <2>1
<1>6. ASSUME NEW k \in 1 .. WordBits, k - 1 \in S PROVE k \in S
  <2>1. x % TwoTo[k] = (x % TwoTo[k - 1]) + BitOf(x, k - 1) * TwoTo[k - 1]
    BY OneMoreBit
  <2>2. f[k - 1] = x % TwoTo[k - 1]
    BY <1>6
  <2>3. f[k] = x % TwoTo[k]
    BY <1>4, <2>1, <2>2
  <2> QED BY <2>3
<1> HIDE DEF S
<1>7. 0 .. WordBits \subseteq S
  BY ONLY <1>2, <1>5, <1>6, LoopInduction
<1>8. f[WordBits] = x % WordMod
  BY <1>2, <1>7 DEF S
<1>9. x % WordMod = x
  <2>1. 0 - WordMod <= x
    BY Numbers
  <2> QED BY <2>1, WrappedIs, Numbers
<1> QED BY <1>3, <1>8, <1>9

\* The bits of the mask, which lie above u, are those of any number with that upper part.
LEMMA MaskBits ==
  ASSUME NEW j \in 0 .. WordBits, NEW p \in Nat, NEW q \in 0 .. TwoTo[j] - 1,
         NEW k \in 0 .. WordBits - 1, BitOf(TwoTo[j] * p, k) = 1
  PROVE  BitOf(TwoTo[j] * p + q, k) = 1
<1>1. PICK u \in Nat : u = TwoTo[j] /\ u > 0
  BY TwoToIs
<1>2. WordBits \in Nat /\ k \in Nat /\ j \in Nat /\ k \in 0 .. WordBits
  BY Bits
<1>3. CASE k >= j
  <2>1. j \in 0 .. k /\ k - j \in 0 .. WordBits
    BY <1>2, <1>3
  <2>2. PICK s \in Nat : s = TwoTo[k - j] /\ s > 0
    BY <2>1, TwoToIs
  <2>3. TwoTo[k] = u * s
    BY <1>1, <1>2, <2>1, <2>2, TwoToSum
  <2>4. \A z \in 0 .. u - 1 : (u * p + z) \div (u * s) = p \div s
    BY <1>1, <2>2, HighPart
  <2>5. (u * p + 0) \div (u * s) = p \div s /\ (u * p + q) \div (u * s) = p \div s
    BY <1>1, <2>4
  <2>6. u * p + 0 = u * p
    BY <1>1
  <2> QED BY <1>1, <2>3, <2>5, <2>6 DEF BitOf
<1>4. CASE k < j
  <2>1. k \in 0 .. j /\ j - k \in 1 .. WordBits /\ (j - k) - 1 \in 0 .. WordBits
    BY <1>2, <1>4
  <2>2. PICK s \in Nat : s = TwoTo[(j - k) - 1] /\ TwoTo[j - k] = 2 * s
    BY <2>1, TwoToIs
  <2>3. PICK t \in Nat : t = TwoTo[k] /\ t > 0
    BY <1>2, TwoToIs
  <2>4. t * (2 * s) = u
    BY <1>1, <2>1, <2>2, <2>3, TwoToSum
  <2>5. PICK z \in Nat : z = s * p
    BY <2>2
  <2>6. u * p = t * (2 * z) + 0
    <3>1. (t * (2 * s)) * p = t * (2 * (s * p))
      BY <2>2, <2>3
    <3> QED BY <2>3, <2>4, <2>5, <3>1
  <2>7. (t * (2 * z) + 0) \div t = 2 * z
    <3>1. PICK y \in Nat : y = 2 * z
      OBVIOUS
    <3>2. (t * y + 0) \div t = y
      BY <2>3, FloorUnique
    <3> QED BY <3>1, <3>2
  <2>8. BitOf(TwoTo[j] * p, k) = 0
    <3>1. (u * p) \div t = 2 * z
      BY <2>6, <2>7
    <3>2. (2 * z) % 2 = 0
      OBVIOUS
    <3> QED BY <1>1, <2>3, <3>1, <3>2 DEF BitOf
  <2> QED BY <2>8
<1> QED BY <1>2, <1>3, <1>4

LEMMA ZeroBits ==
  ASSUME NEW k \in 0 .. WordBits
  PROVE  BitOf(0, k) = 0
<1>1. PICK p \in Nat : p = TwoTo[k] /\ p > 0
  BY TwoToIs
<1>2. (p * 0 + 0) \div p = 0
  BY <1>1, FloorUnique
<1>3. p * 0 + 0 = 0
  BY <1>1
<1> QED BY <1>1, <1>2, <1>3 DEF BitOf

\* The copies of the sign: a shift of a signed number rounds down.
LEMMA sraIs ==
  ASSUME NEW w \in Words, NEW n \in 0 .. WordBits
  PROVE  Signed(sra(w, n)) = Signed(w) \div TwoTo[n]
<1>1. PICK h : IsHalf(h)
  BY HalfExists
<1>2. h \in Nat /\ h > 0 /\ WordMod = 2 * h
  BY <1>1 DEF IsHalf
<1>3. PICK t, u, q : Shifts(w, n, t, u, q)
  BY ShiftsExist
<1>4. /\ t = TwoTo[n] /\ u = TwoTo[WordBits - n] /\ t \in Nat /\ t > 0 /\ u \in Nat /\ u > 0
      /\ t * u = WordMod /\ q \in Nat /\ q < u
      /\ Signed(w) \div t = IF Negative(w) THEN q - u ELSE q
      /\ ShiftedDown(w, n) = IF Negative(w) THEN q - u + WordMod ELSE q
  BY <1>3 DEF Shifts
<1>5. CASE n = 0
  <2>1. sra(w, n) = w /\ t = 1
    BY <1>4, <1>5, TwoToIs DEF sra
  <2>2. PICK z \in Int : z = Signed(w)
    BY SignedInt
  <2>3. (1 * z + 0) \div 1 = z
    BY FloorUnique
  <2>4. 1 * z + 0 = z
    OBVIOUS
  <2> QED BY <1>4, <2>1, <2>2, <2>3, <2>4
<1>6. CASE n # 0
  <2>1. u <= h
    <3>1. n \in 1 .. WordBits /\ n - 1 \in 0 .. WordBits
      BY <1>6, Bits
    <3>2. PICK s \in Nat : s = TwoTo[n - 1] /\ s > 0 /\ t = 2 * s
      BY <1>4, <3>1, TwoToIs
    <3>3. (2 * s) * u = 2 * (s * u) /\ s * u >= 1 * u
      BY <1>4, <3>2
    <3>4. PICK z \in Nat : z = s * u
      BY <1>4, <3>2
    <3> QED BY <1>2, <1>4, <3>2, <3>3, <3>4
  <2>2. CASE Negative(w)
    <3>1. ShiftedDown(w, n) = q - u + WordMod
      BY <1>4, <2>2
    <3>2. sra(w, n) = Bitwise2(q - u + WordMod, 1 * (t - 1) * u, OrBit)
      BY <1>4, <1>6, <2>2, <3>1 DEF sra
    <3>3. 1 * (t - 1) * u = u * (t - 1) /\ u * (t - 1) \in Nat
      BY <1>4
    <3>4. q - u + WordMod = u * (t - 1) + q
      <4>1. u * (t - 1) = u * t - u /\ u * t = t * u
        BY <1>4
      <4>2. PICK z \in Nat : z = t * u
        BY <1>4
      <4> QED BY <1>4, <4>1, <4>2
    <3>5. PICK v \in Nat : v = u * (t - 1) + q /\ v = q - u + WordMod /\ v < WordMod
      BY <1>4, <3>3, <3>4, Numbers
    <3>6. \A k \in 0 .. WordBits - 1 : BitOf(u * (t - 1), k) = 1 => BitOf(v, k) = 1
      <4>1. WordBits - n \in 0 .. WordBits /\ t - 1 \in Nat /\ q \in 0 .. TwoTo[WordBits - n] - 1
        BY <1>4, Bits
      <4>2. \A k \in 0 .. WordBits - 1 :
              BitOf(TwoTo[WordBits - n] * (t - 1), k) = 1
                => BitOf(TwoTo[WordBits - n] * (t - 1) + q, k) = 1
        BY <4>1, MaskBits
      <4> QED BY <1>4, <3>5, <4>2
    <3>7. Bitwise2(v, u * (t - 1), OrBit) = v
      BY <3>3, <3>5, <3>6, OrMask
    <3>8. sra(w, n) = v
      BY <3>2, <3>3, <3>5, <3>7
    <3>9. v \in Words /\ v >= h
      BY <1>2, <1>4, <2>1, <3>5, IsWord
    <3>10. Signed(v) = v - 2 * h
      BY <1>1, <3>9, SignedIs
    <3> QED BY <1>2, <1>4, <2>2, <3>5, <3>8, <3>10
  <2>3. CASE ~ Negative(w)
    <3>1. ShiftedDown(w, n) = q
      BY <1>4, <2>3
    <3>2. sra(w, n) = Bitwise2(q, 0 * (t - 1) * u, OrBit)
      BY <1>4, <1>6, <2>3, <3>1 DEF sra
    <3>3. 0 * (t - 1) * u = 0
      BY <1>4
    <3>4. q < WordMod /\ q < h
      BY <1>2, <1>4, <2>1
    <3>5. \A k \in 0 .. WordBits - 1 : BitOf(0, k) = 1 => BitOf(q, k) = 1
      BY ZeroBits, Bits
    <3>6. Bitwise2(q, 0, OrBit) = q
      BY <1>4, <3>4, <3>5, OrMask
    <3>7. sra(w, n) = q /\ q \in Words
      BY <1>4, <3>2, <3>3, <3>4, <3>6, IsWord
    <3>8. Signed(q) = q
      BY <1>1, <1>2, <1>4, <3>4, <3>7, SignedIs
    <3> QED BY <1>4, <2>3, <3>7, <3>8
  <2> QED BY <2>2, <2>3
<1> QED BY <1>5, <1>6

\* Products and quotients of words, with and without signs.
InHalf(z, h) == z \in Int /\ - h <= z /\ z < h

LEMMA ProductBound ==
  ASSUME NEW h \in Nat, NEW x \in Int, NEW y \in Int, - h <= x, x <= h, - h <= y, y <= h
  PROVE  - (h * h) <= x * y /\ x * y <= h * h
<1>1. \A m, n \in Nat : m * n \in Nat
  OBVIOUS
<1>2. h - x \in Nat /\ h + x \in Nat /\ h - y \in Nat /\ h + y \in Nat
  OBVIOUS
<1>3. /\ (h - x) * (h + y) >= 0 /\ (h + x) * (h - y) >= 0
      /\ (h - x) * (h - y) >= 0 /\ (h + x) * (h + y) >= 0
  BY <1>1, <1>2
<1>4. /\ (h - x) * (h + y) = h * h + h * y - x * h - x * y
      /\ (h + x) * (h - y) = h * h - h * y + x * h - x * y
      /\ (h - x) * (h - y) = h * h - h * y - x * h + x * y
      /\ (h + x) * (h + y) = h * h + h * y + x * h + x * y
  OBVIOUS
<1>5. PICK s, t, u, v \in Int : s = h * h /\ t = h * y /\ u = x * h /\ v = x * y
  OBVIOUS
<1> QED BY <1>3, <1>4, <1>5

LEMMA FloorIs ==
  ASSUME NEW z \in Int, NEW w \in Nat, w > 0
  PROVE  z \div w \in Int /\ z % w \in 0 .. w - 1 /\ z = w * (z \div w) + (z % w)
<1>1. z % w \in 0 .. w - 1 /\ z \div w \in Int
  OBVIOUS
<1>2. z % w = z - w * (z \div w)
  BY Z3T(30)
<1> DEFINE v == w * (z \div w)
<1>3. v \in Int /\ z % w \in Int
  BY <1>1
<1>4. z % w = z - v
  BY <1>2
<1> HIDE DEF v
<1>5. PICK y \in Int : y = z % w
  BY <1>3
<1>6. z = v + y
  BY <1>3, <1>4, <1>5
<1> QED BY <1>1, <1>5, <1>6 DEF v

LEMMA Commutes == ASSUME NEW x \in Int, NEW y \in Int PROVE x * y = y * x
OBVIOUS

LEMMA ProductIs ==
  ASSUME NEW h, IsHalf(h), NEW x, NEW y, InHalf(x, h), InHalf(y, h)
  PROVE  Signed(((x * y) \div WordMod) % WordMod) * WordMod + ((x * y) % WordMod) = x * y
<1>1. h \in Nat /\ h > 0 /\ WordMod = 2 * h
  BY DEF IsHalf
<1>2. PICK z \in Int : z = x * y
  BY DEF InHalf
<1>3. PICK e \in Nat : e = h * h
  BY <1>1
<1>4. - e <= z /\ z <= e
  BY <1>1, <1>2, <1>3, ProductBound DEF InHalf
<1>5. PICK w \in Nat : w = WordMod /\ w > 0
  BY Numbers
<1>6. PICK k \in Int, l \in 0 .. w - 1 : k = z \div w /\ l = z % w /\ z = w * k + l
  BY <1>5, FloorIs
<1>7. k < h
  <2> SUFFICES ASSUME k >= h PROVE FALSE
    BY <1>1
  <2>1. w * k >= w * h /\ w * h = 2 * (h * h)
    BY <1>1, <1>5
  <2>2. PICK v \in Int : v = w * k
    OBVIOUS
  <2>3. e > 0
    BY <1>1, <1>3
  <2> QED BY <1>3, <1>4, <1>6, <2>1, <2>2, <2>3
<1>8. - h <= k
  <2> SUFFICES ASSUME k <= - h - 1 PROVE FALSE
    BY <1>1
  <2>1. w * k <= w * (- h - 1) /\ w * (- h - 1) = - 2 * (h * h) - 2 * h
    BY <1>1, <1>5
  <2>2. PICK v \in Int : v = w * k
    OBVIOUS
  <2> QED BY <1>1, <1>3, <1>4, <1>5, <1>6, <2>1, <2>2
<1>9. Signed(k % WordMod) = k
  BY <1>6, <1>7, <1>8, SignedBack
<1>10. k * w = w * k
  <2>1. k \in Int /\ w \in Int
    BY <1>5, <1>6
  <2> QED BY ONLY <2>1, Commutes
<1>11. (x * y) \div WordMod = k /\ (x * y) % WordMod = l
  BY <1>2, <1>5, <1>6
<1>12. Signed(k % WordMod) * WordMod = w * k
  BY <1>5, <1>9, <1>10
<1> QED BY <1>2, <1>6, <1>11, <1>12

LEMMA PlainProductIs ==
  ASSUME NEW x \in Words, NEW y \in Words
  PROVE  (((x * y) \div WordMod) % WordMod) * WordMod + ((x * y) % WordMod) = x * y
<1>1. PICK w \in Nat : w = WordMod /\ w > 0 /\ x \in Nat /\ x < w /\ y \in Nat /\ y < w
  BY Numbers, WordIs
<1>2. PICK z \in Nat : z = x * y
  BY <1>1
<1>3. PICK k \in Nat, l \in 0 .. w - 1 : k = z \div w /\ l = z % w /\ z = w * k + l
  BY <1>1, DivisionIs
<1>4. k < w
  <2> SUFFICES ASSUME k >= w PROVE FALSE
    BY <1>3
  <2>1. w * k >= w * w /\ x * y <= w * y /\ w * y <= w * (w - 1) /\ w * (w - 1) = w * w - w
    BY <1>1, <1>3
  <2>2. PICK d, e, f \in Nat : d = w * k /\ e = w * w /\ f = w * y
    BY <1>1, <1>3
  <2> QED BY <1>1, <1>2, <1>3, <2>1, <2>2
<1>5. k % w = k
  <2>1. - WordMod <= k /\ k < 2 * WordMod
    BY <1>1, <1>3, <1>4
  <2> QED BY <1>1, <1>3, <1>4, <2>1, WrappedIs
<1>6. k * w = w * k
  <2>1. k \in Int /\ w \in Int
    BY <1>1, <1>3
  <2> QED BY ONLY <2>1, Commutes
<1>7. (x * y) \div WordMod = k /\ (x * y) % WordMod = l
  BY <1>1, <1>2, <1>3
<1>8. (k % WordMod) * WordMod = w * k
  BY <1>1, <1>5, <1>6
<1> QED BY <1>2, <1>3, <1>7, <1>8

\* Division without signs, and the signs of products.
Divided(x, y, p, m) ==
  /\ p \in Nat /\ m \in Nat /\ m < y /\ p = x \div y /\ x = y * p + m
  /\ p <= x /\ m * m < y * y /\ (y # 1 => 2 * p <= x)

LEMMA DividedExist ==
  ASSUME NEW x \in Nat, NEW y \in Nat, y > 0
  PROVE  \E p, m : Divided(x, y, p, m)
<1>1. PICK p \in Nat, m \in 0 .. y - 1 : p = x \div y /\ m = x % y /\ x = y * p + m
  BY DivisionIs
<1>2. PICK z \in Nat : z = y * p
  BY <1>1
<1>3. y * p >= 1 * p /\ (y # 1 => y * p >= 2 * p)
  BY <1>1
<1>4. m \in Nat /\ m < y
  BY <1>1
<1>5. m * m <= m * y /\ m * y <= (y - 1) * y /\ (y - 1) * y = y * y - y
  BY <1>4
<1>6. PICK d, e, f \in Nat : d = m * m /\ e = m * y /\ f = y * y
  BY <1>4
<1>7. m * m < y * y
  BY <1>5, <1>6
<1>8. p <= x /\ (y # 1 => 2 * p <= x)
  BY <1>1, <1>2, <1>3, <1>4
<1> QED BY <1>1, <1>4, <1>7, <1>8 DEF Divided

LEMMA SignsOfProduct ==
  ASSUME NEW x \in Nat, NEW y \in Nat
  PROVE  (- x) * y = - (x * y) /\ x * (- y) = - (x * y) /\ (- x) * (- y) = x * y
OBVIOUS

\* Division towards zero: the rest is smaller than the divisor and has the sign of
\* the dividend.
LEMMA QuotientIs ==
  ASSUME NEW h \in Nat, h > 0, NEW s, NEW t, InHalf(s, h), InHalf(t, h), t # 0, ~ (t = -1 /\ s = - h)
  PROVE  LET q == Quotient(s, t)
             e == s - t * q IN
         /\ InHalf(q, h) /\ InHalf(e, h)
         /\ e * e < t * t /\ (e = 0 \/ (e < 0) = (s < 0))
<1>1. s \in Int /\ t \in Int /\ - h <= s /\ s < h /\ - h <= t /\ t < h
  BY DEF InHalf
<1> DEFINE abs(n) == IF n < 0 THEN - n ELSE n
<1>2. PICK S, T \in Nat : S = abs(s) /\ T = abs(t) /\ T > 0 /\ S <= h /\ T <= h
  BY <1>1
<1>3. PICK p, m : Divided(S, T, p, m)
  BY <1>2, DividedExist
<1>4. p \in Nat /\ m \in Nat /\ m < T /\ p = S \div T /\ p <= S /\ (T # 1 => 2 * p <= S)
  BY <1>3 DEF Divided
<1>5. m * m < T * T
  BY <1>3 DEF Divided
<1>6. PICK z \in Nat : z = T * p /\ S = z + m
  <2>1. T * p \in Nat
    BY <1>2, <1>4
  <2>2. S = T * p + m
    BY <1>3 DEF Divided
  <2> DEFINE z == T * p
  <2> HIDE DEF z
  <2>3. z \in Nat /\ S = z + m
    BY <2>1, <2>2 DEF z
  <2> QED BY <2>3 DEF z
<1>7. Quotient(s, t) = IF (s < 0) = (t < 0) THEN p ELSE - p
  BY <1>2, <1>4 DEF Quotient
<1> DEFINE q == IF (s < 0) = (t < 0) THEN p ELSE - p
           e == s - t * q
<1>8. (- T) * p = - z /\ T * (- p) = - z /\ (- T) * (- p) = z /\ T * p = z
  BY <1>2, <1>4, <1>6, SignsOfProduct
<1>9. e = IF s < 0 THEN - m ELSE m
  <2>1. CASE s < 0 /\ t < 0
    <3>1. t = - T /\ s = - S /\ q = p
      BY <1>1, <1>2, <2>1
    <3>2. t * q = - z
      BY <1>8, <3>1
    <3> QED BY <1>4, <1>6, <2>1, <3>1, <3>2
  <2>2. CASE s < 0 /\ ~ t < 0
    <3>1. t = T /\ s = - S /\ q = - p
      BY <1>1, <1>2, <2>2
    <3>2. t * q = - z
      BY <1>8, <3>1
    <3> QED BY <1>4, <1>6, <2>2, <3>1, <3>2
  <2>3. CASE ~ s < 0 /\ t < 0
    <3>1. t = - T /\ s = S /\ q = - p
      BY <1>1, <1>2, <2>3
    <3>2. t * q = z
      BY <1>8, <3>1
    <3> QED BY <1>4, <1>6, <2>3, <3>1, <3>2
  <2>4. CASE ~ s < 0 /\ ~ t < 0
    <3>1. t = T /\ s = S /\ q = p
      BY <1>1, <1>2, <2>4
    <3>2. t * q = z
      BY <1>8, <3>1
    <3> QED BY <1>4, <1>6, <2>4, <3>1, <3>2
  <2> QED BY <2>1, <2>2, <2>3, <2>4
<1>10. InHalf(q, h)
  <2>1. CASE ~ (s < 0 /\ t < 0)
    BY <1>1, <1>2, <1>4, <2>1 DEF InHalf
  <2>2. CASE s < 0 /\ t < 0 /\ T = 1
    <3>1. t = -1 /\ S = - s /\ S < h
      BY <1>1, <1>2, <2>2
    <3> QED BY <1>1, <1>2, <1>4, <2>2, <3>1 DEF InHalf
  <2>3. CASE s < 0 /\ t < 0 /\ T # 1
    <3>1. p < h
      BY <1>2, <1>4, <2>3
    <3> QED BY <1>4, <2>3, <3>1 DEF InHalf
  <2> QED BY <2>1, <2>2, <2>3
<1>11. InHalf(e, h)
  <2> HIDE DEF e
  <2> QED BY <1>2, <1>4, <1>9 DEF InHalf
<1>12. e * e = m * m /\ t * t = T * T
  <2>1. e = m \/ e = - m
    BY <1>9
  <2>2. t = T \/ t = - T
    BY <1>1, <1>2
  <2> HIDE DEF e
  <2>3. (- m) * (- m) = m * m /\ (- T) * (- T) = T * T
    BY <1>2, <1>4, SignsOfProduct
  <2> QED BY <2>1, <2>2, <2>3
<1>13. e = 0 \/ (e < 0) = (s < 0)
  <2> HIDE DEF e
  <2> QED BY <1>4, <1>9
<1>14. e * e < t * t
  <2> HIDE DEF e
  <2> QED BY <1>5, <1>12
<1> HIDE DEF q
<1>15. Quotient(s, t) = q
  BY <1>7 DEF q
<1> QED BY <1>10, <1>11, <1>13, <1>14, <1>15

-----------------------------------------------------------------------------
(* The bytes of a word *)

DigitOf(w, j) == (w \div Power[j]) % ByteValues

\* Powers add their exponents.
LEMMA PowerSum ==
  ASSUME NEW m \in 0 .. 4, NEW j \in 0 .. m
  PROVE  Power[j] * Power[m - j] = Power[m]
<1> DEFINE B == ByteValues
<1>1. B \in Nat
  BY ByteRangeIs
<1>2. /\ Power[0] = 1 /\ Power[1] = B * Power[0] /\ Power[2] = B * Power[1]
      /\ Power[3] = B * Power[2] /\ Power[4] = B * Power[3]
  BY PowerIs
<1>3. PICK p, q, s \in Nat : p = B * B /\ q = B * p /\ s = B * q
  BY <1>1
<1>4. Power[0] = 1 /\ Power[1] = B /\ Power[2] = p /\ Power[3] = q /\ Power[4] = s
  BY <1>1, <1>2, <1>3
<1>5. /\ p = B * B /\ q = B * p /\ q = p * B /\ s = B * q /\ s = q * B /\ s = p * p
  <2>1. B * (B * B) = (B * B) * B /\ B * (B * (B * B)) = (B * B) * (B * B)
        /\ B * (B * (B * B)) = (B * (B * B)) * B
    BY <1>1
  <2> QED BY <1>3, <2>1
<1> HIDE DEF B
<1>6. \A x \in Nat : x * 1 = x /\ 1 * x = x
  OBVIOUS
<1>7. m \in {0, 1, 2, 3, 4} /\ j \in {0, 1, 2, 3, 4} /\ j <= m
  OBVIOUS
<1>8. m = 0 => Power[j] * Power[m - j] = Power[m]
  BY <1>4, <1>7
<1>9. m = 1 => Power[j] * Power[m - j] = Power[m]
  BY <1>1, <1>4, <1>6, <1>7
<1>10. m = 2 => Power[j] * Power[m - j] = Power[m]
  BY <1>1, <1>4, <1>5, <1>6, <1>7
<1>11. m = 3 => Power[j] * Power[m - j] = Power[m]
  BY <1>1, <1>4, <1>5, <1>6, <1>7
<1>12. m = 4 => Power[j] * Power[m - j] = Power[m]
  BY <1>1, <1>4, <1>5, <1>6, <1>7
<1> QED BY <1>7, <1>8, <1>9, <1>10, <1>11, <1>12

\* The bytes of a number of two parts.
LEMMA Glued ==
  ASSUME NEW m \in 0 .. 4, NEW x \in Nat, NEW y \in 0 .. Power[m] - 1, NEW j \in 0 .. 4
  PROVE  DigitOf(x * Power[m] + y, j) = IF j < m THEN DigitOf(y, j) ELSE DigitOf(x, j - m)
<1>1. PICK B \in Nat : B = ByteValues /\ B > 0
  BY ByteRangeIs
<1>2. PICK u \in Nat : u = Power[m] /\ u > 0
  BY PowerIs
<1>3. x * u = u * x /\ y \in Nat
  BY <1>2
<1>4. CASE j >= m
  <2>1. j - m \in 0 .. 4 /\ m \in 0 .. j
    BY <1>4
  <2>2. PICK s \in Nat : s = Power[j - m] /\ s > 0
    BY <2>1, PowerIs
  <2>3. Power[j] = u * s
    BY <1>2, <2>1, <2>2, PowerSum
  <2>4. (u * x + y) \div (u * s) = x \div s
    <3>1. u \in Nat /\ u > 0 /\ s \in Nat /\ s > 0 /\ x \in Nat /\ y \in 0 .. u - 1
      BY <1>2, <2>2
    <3> QED BY <3>1, HighPart
  <2> QED BY <1>2, <1>3, <1>4, <2>2, <2>3, <2>4 DEF DigitOf
<1>5. CASE j < m
  <2>1. m - j \in 1 .. 4 /\ (m - j) - 1 \in 0 .. 4 /\ j \in 0 .. m
    BY <1>5
  <2>2. PICK s \in Nat : s = Power[(m - j) - 1] /\ Power[m - j] = B * s
    BY <1>1, <2>1, PowerIs
  <2>3. PICK t \in Nat : t = Power[j] /\ t > 0
    BY PowerIs
  <2>4. t * (B * s) = u
    BY <1>2, <2>1, <2>2, <2>3, PowerSum
  <2>5. PICK d \in Nat, e \in 0 .. t - 1 : d = y \div t /\ e = y % t /\ y = t * d + e
    <3>1. y \in Nat /\ t \in Nat /\ t > 0
      BY <1>3, <2>3
    <3> QED BY <3>1, DivisionIs
  <2>6. PICK z \in Nat : z = s * x
    BY <2>2
  <2>7. x * u = t * (B * z)
    <3>1. x * (t * (B * s)) = t * (B * (s * x))
      BY <1>1, <2>2, <2>3
    <3> QED BY <2>4, <2>6, <3>1
  <2>8. PICK v \in Nat : v = B * z
    BY <1>1
  <2>9. x * u + y = t * (v + d) + e
    <3>1. t * (v + d) = t * v + t * d
      BY <2>3, <2>5, <2>8
    <3>2. PICK f, g \in Nat : f = t * v /\ g = t * d
      BY <2>3, <2>5, <2>8
    <3> QED BY <2>5, <2>7, <2>8, <3>1, <3>2
  <2>10. (t * (v + d) + e) \div t = v + d
    <3>1. PICK f \in Nat : f = v + d
      BY <2>5, <2>8
    <3>2. (t * f + e) \div t = f
      <4>1. t \in Nat /\ t > 0 /\ f \in Int /\ e \in 0 .. t - 1
        BY <2>3, <2>5, <3>1
      <4> QED BY <4>1, FloorUnique
    <3> QED BY <3>1, <3>2
  <2>11. (B * z + d) % B = d % B
    <3>1. PICK f \in Nat, g \in 0 .. B - 1 : f = d \div B /\ g = d % B /\ d = B * f + g
      <4>1. d \in Nat /\ B \in Nat /\ B > 0
        BY <1>1, <2>5
      <4> QED BY <4>1, DivisionIs
    <3>2. (B * (z + f) + g) % B = g
      <4>1. PICK h \in Nat : h = z + f
        BY <2>6, <3>1
      <4>2. (B * h + g) % B = g
        BY <1>1, <3>1, FloorUnique
      <4> QED BY <4>1, <4>2
    <3>3. B * z + d = B * (z + f) + g
      <4>1. B * (z + f) = B * z + B * f
        BY <1>1, <3>1
      <4>2. PICK k, l \in Nat : k = B * z /\ l = B * f
        BY <1>1, <3>1
      <4> QED BY <3>1, <4>1, <4>2
    <3> QED BY <3>1, <3>2, <3>3
  <2>12. DigitOf(x * Power[m] + y, j) = (v + d) % B
    BY <1>1, <1>2, <2>3, <2>9, <2>10 DEF DigitOf
  <2>13. DigitOf(y, j) = d % B
    BY <1>1, <2>3, <2>5 DEF DigitOf
  <2> QED BY <1>5, <2>8, <2>11, <2>12, <2>13
<1> QED BY <1>4, <1>5

\* The bytes of the two parts of a number.
LEMMA PartDigits ==
  ASSUME NEW w \in Nat, NEW m \in 0 .. 4, NEW j \in 0 .. 4
  PROVE  /\ j < m => DigitOf(w % Power[m], j) = DigitOf(w, j)
         /\ j + m <= 4 => DigitOf(w \div Power[m], j) = DigitOf(w, j + m)
<1>1. PICK u \in Nat : u = Power[m] /\ u > 0
  BY PowerIs
<1>2. PICK p \in Nat, q \in 0 .. u - 1 : p = w \div u /\ q = w % u /\ w = u * p + q
  BY <1>1, DivisionIs
<1>3. w = p * u + q
  <2>1. u * p = p * u
    BY <1>1, <1>2
  <2> QED BY <1>2, <2>1
<1>4. \A i \in 0 .. 4 : DigitOf(p * Power[m] + q, i) = IF i < m THEN DigitOf(q, i) ELSE DigitOf(p, i - m)
  BY <1>1, <1>2, Glued
<1>5. \A i \in 0 .. 4 : DigitOf(w, i) = IF i < m THEN DigitOf(q, i) ELSE DigitOf(p, i - m)
  BY <1>1, <1>3, <1>4
<1>6. j < m => DigitOf(w % Power[m], j) = DigitOf(w, j)
  BY <1>1, <1>2, <1>5
<1>7. j + m <= 4 => DigitOf(w \div Power[m], j) = DigitOf(w, j + m)
  <2> SUFFICES ASSUME j + m <= 4 PROVE DigitOf(p, j) = DigitOf(w, j + m)
    BY <1>1, <1>2
  <2>1. j + m \in 0 .. 4 /\ ~ (j + m < m) /\ (j + m) - m = j
    OBVIOUS
  <2> QED BY <1>5, <2>1
<1> QED BY <1>6, <1>7

\* The bytes of a word put together of bytes are these.
LEMMA WordDigits ==
  ASSUME NEW bytes \in Seq(ByteRange), Len(bytes) = 4
  PROVE  \A j \in 1 .. 4 : DigitOf(ValueOf(bytes), j - 1) = bytes[j]
<1>1. PICK f : FirstBytes(f, bytes)
  <2>1. Len(bytes) <= 4
    OBVIOUS
  <2> QED BY <2>1, FirstBytesExist
<1>2. /\ f[0] = 0 /\ \A k \in 0 .. 4 : f[k] \in Nat
      /\ \A k \in 1 .. 4 : f[k] = f[k - 1] + bytes[k] * Power[k - 1]
      /\ f[4] = ValueOf(bytes)
  BY <1>1 DEF FirstBytes
<1>3. PICK B \in Nat : B = ByteValues /\ B > 1 /\ \A k \in 1 .. 4 : bytes[k] \in Nat /\ bytes[k] < B
  <2>1. \A k \in 1 .. 4 : bytes[k] \in ByteRange
    <3>1. \A k \in 1 .. Len(bytes) : bytes[k] \in ByteRange
      BY ElementOfSeq
    <3> QED BY <3>1
  <2> QED BY <2>1, ByteRangeIs
<1> DEFINE Fits(k) == f[k] \in 0 .. Power[k] - 1
<1>4. Fits(0)
  BY <1>2, PowerIs
<1>5. ASSUME NEW k \in 1 .. 4, Fits(k - 1) PROVE Fits(k)
  <2>1. PICK p \in Nat : p = Power[k - 1] /\ Power[k] = B * p
    <3>1. k - 1 \in 0 .. 4
      OBVIOUS
    <3> QED BY <1>3, <3>1, PowerIs
  <2>2. PICK v \in Nat : v = f[k - 1] /\ v < p
    BY <1>5, <2>1
  <2>3. PICK b \in Nat : b = bytes[k] /\ b + 1 <= B
    BY <1>3
  <2>4. v + b * p < B * p
    BY <1>3, <2>1, <2>2, <2>3, NextDigit
  <2>5. f[k] = v + b * p
    BY <1>2, <2>1, <2>2, <2>3
  <2>6. f[k] \in Nat /\ Power[k] \in Nat
    <3>1. k \in 0 .. 4
      OBVIOUS
    <3> QED BY <1>2, <3>1, PowerIs
  <2>7. f[k] < Power[k]
    BY <2>1, <2>4, <2>5
  <2> QED BY <2>6, <2>7
<1>6. ASSUME NEW k \in 1 .. 4, Fits(k - 1), NEW j \in 0 .. k - 1
      PROVE  DigitOf(f[k], j) = IF j < k - 1 THEN DigitOf(f[k - 1], j) ELSE bytes[k]
  <2>1. k - 1 \in 0 .. 4 /\ bytes[k] \in Nat /\ bytes[k] < B /\ f[k - 1] \in 0 .. Power[k - 1] - 1 /\ j \in 0 .. 4
    BY <1>3, <1>6
  <2>2. PICK p, v, b \in Nat : p = Power[k - 1] /\ v = f[k - 1] /\ b = bytes[k]
    BY <2>1, <1>2, PowerIs
  <2>3. f[k] = b * p + v
    <3>1. f[k] = v + b * p
      BY <1>2, <2>2
    <3>2. PICK z \in Nat : z = b * p
      BY <2>2
    <3> QED BY <2>2, <3>1, <3>2
  <2>4. DigitOf(b * p + v, j) = IF j < k - 1 THEN DigitOf(v, j) ELSE DigitOf(b, j - (k - 1))
    BY <2>1, <2>2, Glued
  <2>5. DigitOf(b, 0) = b
    <3>1. Power[0] = 1 /\ b \div 1 = b
      BY PowerIs
    <3>2. (B * 0 + b) % B = b
      <4>1. B \in Nat /\ B > 0 /\ 0 \in Int /\ b \in 0 .. B - 1
        BY <1>3, <2>1, <2>2
      <4> QED BY <4>1, FloorUnique
    <3>3. B * 0 + b = b
      BY <1>3
    <3> QED BY <1>3, <3>1, <3>2, <3>3 DEF DigitOf
  <2>6. ~ (j < k - 1) => j - (k - 1) = 0
    OBVIOUS
  <2> QED BY <2>2, <2>3, <2>4, <2>5, <2>6
<1> HIDE DEF Fits
<1>7. Fits(0) /\ Fits(1) /\ Fits(2) /\ Fits(3)
  <2>1. Fits(1)
    <3>1. 1 \in 1 .. 4 /\ 1 - 1 = 0
      OBVIOUS
    <3> QED BY <1>4, <1>5, <3>1
  <2>2. Fits(2)
    <3>1. 2 \in 1 .. 4 /\ 2 - 1 = 1
      OBVIOUS
    <3> QED BY <1>5, <2>1, <3>1
  <2>3. Fits(3)
    <3>1. 3 \in 1 .. 4 /\ 3 - 1 = 2
      OBVIOUS
    <3> QED BY <1>5, <2>2, <3>1
  <2> QED BY <1>4, <2>1, <2>2, <2>3
<1>8. DigitOf(f[1], 0) = bytes[1]
  <2>1. 1 \in 1 .. 4 /\ 1 - 1 = 0 /\ 0 \in 0 .. 1 - 1 /\ ~ (0 < 1 - 1)
    OBVIOUS
  <2> QED BY <1>6, <1>7, <2>1
<1>9. DigitOf(f[2], 0) = bytes[1] /\ DigitOf(f[2], 1) = bytes[2]
  <2>1. 2 \in 1 .. 4 /\ 2 - 1 = 1 /\ 0 \in 0 .. 2 - 1 /\ 1 \in 0 .. 2 - 1 /\ 0 < 2 - 1 /\ ~ (1 < 2 - 1)
    OBVIOUS
  <2> QED BY <1>6, <1>7, <1>8, <2>1
<1>10. DigitOf(f[3], 0) = bytes[1] /\ DigitOf(f[3], 1) = bytes[2] /\ DigitOf(f[3], 2) = bytes[3]
  <2>1. /\ 3 \in 1 .. 4 /\ 3 - 1 = 2 /\ 0 \in 0 .. 3 - 1 /\ 1 \in 0 .. 3 - 1 /\ 2 \in 0 .. 3 - 1
        /\ 0 < 3 - 1 /\ 1 < 3 - 1 /\ ~ (2 < 3 - 1)
    OBVIOUS
  <2> QED BY <1>6, <1>7, <1>9, <2>1
<1>11. /\ DigitOf(f[4], 0) = bytes[1] /\ DigitOf(f[4], 1) = bytes[2]
       /\ DigitOf(f[4], 2) = bytes[3] /\ DigitOf(f[4], 3) = bytes[4]
  <2>1. /\ 4 \in 1 .. 4 /\ 4 - 1 = 3 /\ 0 \in 0 .. 4 - 1 /\ 1 \in 0 .. 4 - 1 /\ 2 \in 0 .. 4 - 1
        /\ 3 \in 0 .. 4 - 1 /\ 0 < 4 - 1 /\ 1 < 4 - 1 /\ 2 < 4 - 1 /\ ~ (3 < 4 - 1)
    OBVIOUS
  <2> QED BY <1>6, <1>7, <1>10, <2>1
<1> QED
  <2> SUFFICES ASSUME NEW j \in 1 .. 4 PROVE DigitOf(ValueOf(bytes), j - 1) = bytes[j]
    OBVIOUS
  <2>1. j \in {1, 2, 3, 4}
    OBVIOUS
  <2>2. 1 - 1 = 0 /\ 2 - 1 = 1 /\ 3 - 1 = 2 /\ 4 - 1 = 3
    OBVIOUS
  <2> QED BY <1>2, <1>11, <2>1, <2>2

\* Those of a word that is read are the bytes at its addresses.
LEMMA LoadedDigits ==
  ASSUME PagesOK, NEW addr \in Words, Accessible(addr, 4)
  PROVE  \A j \in 1 .. 4 : DigitOf(WordAt(addr, 4), j - 1) = CellAt(addr + (j - 1))
<1>1. BytesAt(addr, 4) \in Seq(ByteRange) /\ Len(BytesAt(addr, 4)) = 4
  BY BytesAtTyped
<1>2. \A j \in 1 .. 4 : BytesAt(addr, 4)[j] = CellAt(addr + (j - 1))
  BY ReadIs
<1> QED BY <1>1, <1>2, WordDigits DEF WordAt

\* The left part of a register: the word up to the address fills it from the top.
LEMMA lwlDigits ==
  ASSUME NEW reg \in Words, NEW word \in Words, NEW k \in 0 .. 3, NEW j \in 1 .. 4
  PROVE  DigitOf(lwl(reg, word, k), j - 1)
           = IF j >= 4 - k THEN DigitOf(word, j - (4 - k)) ELSE DigitOf(reg, j - 1)
<1>1. reg \in Nat /\ word \in Nat
  BY WordIs
<1>2. 3 - k \in 0 .. 4 /\ k + 1 \in 0 .. 4 /\ j - 1 \in 0 .. 4
  OBVIOUS
<1>3. PICK u, s \in Nat : u = Power[3 - k] /\ s = Power[k + 1] /\ u > 0 /\ s > 0
  BY <1>2, PowerIs
<1>4. PICK x \in Nat, y \in 0 .. u - 1 : x = word % s /\ y = reg % u
  BY <1>1, <1>3, DivMod
<1>5. DigitOf(x * Power[3 - k] + y, j - 1)
        = IF j - 1 < 3 - k THEN DigitOf(y, j - 1) ELSE DigitOf(x, (j - 1) - (3 - k))
  <2>1. x \in Nat /\ y \in 0 .. Power[3 - k] - 1
    BY <1>3, <1>4
  <2> QED BY <1>2, <2>1, Glued
<1>6. lwl(reg, word, k) = x * Power[3 - k] + y
  BY <1>3, <1>4 DEF lwl
<1>7. CASE j >= 4 - k
  <2>1. (j - 1) - (3 - k) = j - (4 - k) /\ j - (4 - k) \in 0 .. 4 /\ j - (4 - k) < k + 1 /\ ~ (j - 1 < 3 - k)
    BY <1>7
  <2>2. DigitOf(x, j - (4 - k)) = DigitOf(word, j - (4 - k))
    BY <1>1, <1>2, <1>3, <1>4, <2>1, PartDigits
  <2> QED BY <1>5, <1>6, <1>7, <2>1, <2>2
<1>8. CASE j < 4 - k
  <2>1. j - 1 < 3 - k
    BY <1>8
  <2>2. DigitOf(y, j - 1) = DigitOf(reg, j - 1)
    BY <1>1, <1>2, <1>3, <1>4, <2>1, PartDigits
  <2> QED BY <1>5, <1>6, <1>8, <2>1, <2>2
<1> QED BY <1>7, <1>8

\* The right part: the word from the address on fills it from the bottom.
LEMMA lwrDigits ==
  ASSUME NEW reg \in Words, NEW word \in Words, NEW k \in 0 .. 3, NEW j \in 1 .. 4
  PROVE  DigitOf(lwr(reg, word, k), j - 1)
           = IF j <= 4 - k THEN DigitOf(word, (j - 1) + k) ELSE DigitOf(reg, j - 1)
<1>1. reg \in Nat /\ word \in Nat
  BY WordIs
<1>2. 4 - k \in 0 .. 4 /\ k \in 0 .. 4 /\ j - 1 \in 0 .. 4
  OBVIOUS
<1>3. PICK u, s \in Nat : u = Power[4 - k] /\ s = Power[k] /\ u > 0 /\ s > 0
  BY <1>2, PowerIs
<1>4. PICK x \in Nat, y \in 0 .. u - 1 : x = reg \div u /\ y = word \div s
  <2>1. u * s = WordMod
    <3>1. s * u = WordMod /\ s * u = u * s
      BY <1>2, <1>3, PowerSplits
    <3> QED BY <3>1
  <2>2. word \div s \in 0 .. u - 1
    BY <1>3, <2>1, FirstDigit
  <2>3. reg \div u \in Nat
    BY <1>1, <1>3, DivisionIs
  <2> QED BY <2>2, <2>3
<1>5. DigitOf(x * Power[4 - k] + y, j - 1)
        = IF j - 1 < 4 - k THEN DigitOf(y, j - 1) ELSE DigitOf(x, (j - 1) - (4 - k))
  <2>1. x \in Nat /\ y \in 0 .. Power[4 - k] - 1
    BY <1>3, <1>4
  <2> QED BY <1>2, <2>1, Glued
<1>6. lwr(reg, word, k) = x * Power[4 - k] + y
  BY <1>3, <1>4 DEF lwr
<1>7. CASE j <= 4 - k
  <2>1. j - 1 < 4 - k /\ (j - 1) + k <= 4
    BY <1>7
  <2>2. DigitOf(y, j - 1) = DigitOf(word, (j - 1) + k)
    BY <1>1, <1>2, <1>3, <1>4, <2>1, PartDigits
  <2> QED BY <1>5, <1>6, <1>7, <2>1, <2>2
<1>8. CASE j > 4 - k
  <2>1. ~ (j - 1 < 4 - k) /\ (j - 1) - (4 - k) \in 0 .. 4 /\ ((j - 1) - (4 - k)) + (4 - k) = j - 1
    BY <1>8
  <2>2. DigitOf(x, (j - 1) - (4 - k)) = DigitOf(reg, j - 1)
    <3>1. ((j - 1) - (4 - k)) + (4 - k) <= 4
      BY <2>1
    <3>2. DigitOf(reg \div Power[4 - k], (j - 1) - (4 - k)) = DigitOf(reg, ((j - 1) - (4 - k)) + (4 - k))
      BY <1>1, <1>2, <2>1, <3>1, PartDigits
    <3> QED BY <1>3, <1>4, <2>1, <3>2
  <2> QED BY <1>5, <1>6, <1>8, <2>1, <2>2
<1> QED BY <1>7, <1>8

-----------------------------------------------------------------------------
(* What an instruction has computed *)

Ran == instrCount' = instrCount + 1

\* An instruction that ends the process has not run, and one that goes on has not trapped.
LEMMA EndsIs ==
  ASSUME CpuOK, NEW reason, doException(reason)
  PROVE  ~ Ran /\ halted' = reason
<1>1. instrCount \in Nat /\ instrCount' = instrCount /\ halted' = reason
  BY DEF CpuOK, FlowOK, doException, Ends, flowVars
<1> QED BY <1>1 DEF Ran

LEMMA ReadFailsIs ==
  ASSUME CpuOK, NEW addr, NEW n, ReadFails(addr, n)
  PROVE  ~ Ran
<1>1. instrCount \in Nat /\ instrCount' = instrCount
  BY DEF CpuOK, FlowOK, ReadFails, Ends, flowVars
<1> QED BY <1>1 DEF Ran

LEMMA GoOnIs ==
  ASSUME halted = "no", GoOn
  PROVE  halted' # "Ov"
BY DEF GoOn, GoTo

\* The groups of instructions are told by their opcodes.
LEMMA Groups ==
  /\ Compute => Instr.op \in ArithmeticOps
  /\ MultiplyDivide => Instr.op \in {"mult", "multu", "mthi", "mtlo", "div", "divu", "mfhi", "mflo"}
  /\ Branch => Instr.op \in Branches
  /\ Jumps => Instr.op \in {"j", "jal", "jr", "jalr"}
  /\ Load => Instr.op \in Loads
  /\ Store => Instr.op \in Stores
  /\ StorePart => Instr.op \in {"swl", "swr"}
  /\ Syscall => Instr.op = "syscall"
  /\ CopTwo => Instr.op \in {"rc4init", "rc4", "cop2"}
  /\ CopZero => Instr.op = "cop0"
  /\ Refused => Instr.op \in {"reserved", "cop1", "cop3", "lwc1", "lwc2", "lwc3", "swc1", "swc2",
                              "swc3", "break", "hsc"}
<1>1. Compute => Instr.op \in ArithmeticOps
  BY DEF Compute
<1>2. MultiplyDivide => Instr.op \in {"mult", "multu", "mthi", "mtlo", "div", "divu", "mfhi", "mflo"}
  BY DEF MultiplyDivide
<1>3. (Branch => Instr.op \in Branches) /\ (Load => Instr.op \in Loads) /\ (Store => Instr.op \in Stores)
  BY DEF Branch, Load, Store
<1>4. Jumps => Instr.op \in {"j", "jal", "jr", "jalr"}
  BY DEF Jumps
<1>5. StorePart => Instr.op \in {"swl", "swr"}
  BY DEF StorePart
<1>6. (Syscall => Instr.op = "syscall") /\ (CopZero => Instr.op = "cop0")
  BY DEF Syscall, CopZero
<1>7. CopTwo => Instr.op \in {"rc4init", "rc4", "cop2"}
  BY DEF CopTwo
<1>8. Refused => Instr.op \in {"reserved", "cop1", "cop3", "lwc1", "lwc2", "lwc3", "swc1", "swc2",
                               "swc3", "break", "hsc"}
  BY DEF Refused
<1> QED BY <1>1, <1>2, <1>3, <1>4, <1>5, <1>6, <1>7, <1>8

LEMMA ArithmeticOpsAre ==
  ArithmeticOps = {"addi", "addiu", "slti", "sltiu", "andi", "ori", "xori", "lui",
                   "add", "addu", "sub", "subu", "slt", "sltu", "and", "or", "xor", "nor",
                   "sll", "srl", "sra", "sllv", "srlv", "srav"}
<1>1. /\ DOMAIN SignedImmediate = {"addi", "addiu", "slti", "sltiu"}
      /\ DOMAIN PlainImmediate = {"andi", "ori", "xori", "lui"}
      /\ DOMAIN ShiftByRegister = {"sllv", "srlv", "srav"}
  BY DEF SignedImmediate, PlainImmediate, ShiftByRegister
<1> QED BY <1>1 DEF ArithmeticOps, Register, ShiftBy

LEMMA Dispatch ==
  ASSUME Execute
  PROVE  /\ Instr.op \in ArithmeticOps => Compute
         /\ Instr.op \in {"mult", "multu", "div"} => MultiplyDivide
         /\ Instr.op \in {"lwl", "lwr"} => Load
<1>1. Instr.op \in ArithmeticOps => Compute
  BY Groups, ArithmeticOpsAre DEF Execute, Branches, Loads, Stores
<1>2. Instr.op \in {"mult", "multu", "div"} => MultiplyDivide
  BY Groups, ArithmeticOpsAre DEF Execute, Branches, Loads, Stores
<1>3. Instr.op \in {"lwl", "lwr"} => Load
  BY Groups, ArithmeticOpsAre DEF Execute, Branches, Loads, Stores
<1> QED BY <1>1, <1>2, <1>3

\* An arithmetic instruction traps, or sets its destination and goes on.
LEMMA ComputeIs ==
  ASSUME Ready, halted = "no", Compute
  PROVE  LET it == Operands IN
         /\ halted' # "Ov" <=> ~ Traps(it.op, it.x, it.y)
         /\ Ran => ~ Traps(it.op, it.x, it.y)
         /\ Ran /\ it.dest # ZERO => regs'[it.dest] = Value(it.op, it.x, it.y)
<1> DEFINE it == Operands
<1>1. Instr.op \in ArithmeticOps
  BY DEF Compute
<1>2. it.dest \in RegNums /\ CpuOK /\ DOMAIN regs = RegNums
  BY <1>1, OperandsTyped DEF Ready, CpuOK, GoodRegs
<1>3. IF Traps(it.op, it.x, it.y) THEN doException("Ov") ELSE Result(it.dest, Value(it.op, it.x, it.y))
  BY DEF Compute
<1> HIDE DEF it
<1>4. CASE Traps(it.op, it.x, it.y)
  BY <1>2, <1>3, <1>4, EndsIs DEF it
<1>5. CASE ~ Traps(it.op, it.x, it.y)
  <2>1. GoOn /\ Set(it.dest, Value(it.op, it.x, it.y))
    BY <1>3, <1>5 DEF Result
  <2>2. halted' # "Ov"
    BY <2>1, GoOnIs
  <2>3. it.dest # ZERO => regs'[it.dest] = Value(it.op, it.x, it.y)
    BY <1>2, <2>1 DEF Set
  <2> QED BY <1>5, <2>2, <2>3 DEF it
<1> QED BY <1>4, <1>5

\* What add, sub and the shifts to the right make.
LEMMA ValuesAre ==
  ASSUME NEW x, NEW y
  PROVE  /\ Value("add", x, y) = (x + y) % WordMod
         /\ Value("sub", x, y) = (x - y) % WordMod
         /\ Value("srl", x, y) = srl(x, y)
         /\ Value("sra", x, y) = sra(x, y)
         /\ Traps("add", x, y) <=> SumOverflows(x, y)
         /\ Traps("sub", x, y) <=> DifferenceOverflows(x, y)
BY DEF Value, Traps

\* Which instructions they are.
LEMMA OperandsAre ==
  ASSUME Ready, Instr.op \in ArithmeticOps
  PROVE  /\ Instr.op \in {"add", "addi"} => Operands.op = "add"
         /\ Instr.op = "sub" <=> Operands.op = "sub"
         /\ Instr.op = "sub" => Operands.x = Rs /\ Operands.y = Rt
<1> DEFINE i == Instr
<1>1. /\ DOMAIN SignedImmediate = {"addi", "addiu", "slti", "sltiu"}
      /\ DOMAIN PlainImmediate = {"andi", "ori", "xori", "lui"}
      /\ DOMAIN ShiftByRegister = {"sllv", "srlv", "srav"}
  BY DEF SignedImmediate, PlainImmediate, ShiftByRegister
<1>2. SignedImmediate["addi"] = "add"
  BY DEF SignedImmediate
<1> HIDE DEF i
<1>3. CASE i.op \in DOMAIN SignedImmediate
  <2>1. Operands.op = SignedImmediate[i.op]
    BY <1>3 DEF Operands, i, SignedImmediate, PlainImmediate, Register, ShiftBy, ShiftByRegister
  <2>2. SignedImmediate[i.op] \in {"add", "addu", "slt", "sltu"}
    BY <1>3, Mnemonics
  <2> QED BY <1>1, <1>2, <1>3, <2>1, <2>2 DEF i
<1>4. CASE i.op \in DOMAIN PlainImmediate /\ i.op \notin DOMAIN SignedImmediate
  <2>1. Operands.op = PlainImmediate[i.op]
    BY <1>4, Mnemonics DEF Operands, i, SignedImmediate, PlainImmediate, Register, ShiftBy, ShiftByRegister
  <2>2. PlainImmediate[i.op] \in {"and", "or", "xor", "lui"}
    BY <1>4, Mnemonics
  <2> QED BY <1>1, <1>4, <2>1, <2>2 DEF i
<1>5. CASE i.op \in Register
  <2>1. Operands.op = i.op /\ Operands.x = Rs /\ Operands.y = Rt
    BY <1>5 DEF Operands, i, SignedImmediate, PlainImmediate, Register, ShiftBy, ShiftByRegister
  <2> QED BY <1>5, <2>1 DEF i, Register
<1>6. CASE i.op \in ShiftBy
  <2>1. Operands.op = i.op
    BY <1>6 DEF Operands, i, SignedImmediate, PlainImmediate, Register, ShiftBy, ShiftByRegister
  <2> QED BY <1>6, <2>1 DEF i, ShiftBy
<1>7. CASE i.op \in DOMAIN ShiftByRegister
  <2>1. Operands.op = ShiftByRegister[i.op]
    BY <1>7 DEF Operands, i, SignedImmediate, PlainImmediate, Register, ShiftBy, ShiftByRegister
  <2>2. ShiftByRegister[i.op] \in ShiftBy
    BY <1>7, Mnemonics
  <2> QED BY <1>1, <1>7, <2>1, <2>2 DEF i, ShiftBy
<1> QED BY <1>3, <1>4, <1>5, <1>6, <1>7 DEF ArithmeticOps, i

Within(n) == - (WordMod \div 2) <= n /\ n < WordMod \div 2

\* add, sub and the shifts to the right.
LEMMA ArithmeticComputes ==
  ASSUME Ready, halted = "no", Compute
  PROVE  LET it == Operands IN
         /\ Instr.op \in {"add", "addi"} => (halted' # "Ov" <=> Within(Signed(it.x) + Signed(it.y)))
         /\ Instr.op = "sub" => (halted' # "Ov" <=> Within(Signed(Rs) - Signed(Rt)))
         /\ Ran /\ it.dest # ZERO =>
              LET w == regs'[it.dest] IN
              /\ it.op = "add" => Signed(w) = Signed(it.x) + Signed(it.y)
              /\ it.op = "sub" => Signed(w) = Signed(Rs) - Signed(Rt)
              /\ it.op = "srl" => w = it.x \div TwoTo[it.y]
              /\ it.op = "sra" => Signed(w) = Signed(it.x) \div TwoTo[it.y]
<1> DEFINE it == Operands
<1>1. PICK h : IsHalf(h)
  BY HalfExists
<1>2. WordMod \div 2 = h
  BY <1>1 DEF IsHalf
<1>3. Instr.op \in ArithmeticOps
  BY DEF Compute
<1>4. /\ OperandsOK(it.op, it.x, it.y)
      /\ (Instr.op \in {"add", "addi"} => it.op = "add")
      /\ (Instr.op = "sub" <=> it.op = "sub")
      /\ (Instr.op = "sub" => it.x = Rs /\ it.y = Rt)
  BY <1>3, OperandsTyped, OperandsAre
<1>5. /\ halted' # "Ov" <=> ~ Traps(it.op, it.x, it.y)
      /\ Ran => ~ Traps(it.op, it.x, it.y)
      /\ Ran /\ it.dest # ZERO => regs'[it.dest] = Value(it.op, it.x, it.y)
  BY ComputeIs
<1>6. PICK x, y : x = it.x /\ y = it.y
  OBVIOUS
<1> HIDE DEF it
<1>7. x \in Words /\ y \in Words /\ (it.op \in {"srl", "sra"} => y \in 0 .. WordBits)
  <2>1. x \in Words /\ y \in Words /\ (it.op \in ShiftBy => y < WordBits)
    BY <1>4, <1>6 DEF OperandsOK
  <2>2. y \in Nat /\ WordBits \in Nat
    BY <2>1, WordIs, Bits
  <2> QED BY <2>1, <2>2 DEF ShiftBy
<1>8. /\ SumOverflows(x, y) <=> ~ Within(Signed(x) + Signed(y))
      /\ ~ SumOverflows(x, y) => Signed((x + y) % WordMod) = Signed(x) + Signed(y)
  BY <1>1, <1>2, <1>7, SumIs DEF Within
<1>9. /\ DifferenceOverflows(x, y) <=> ~ Within(Signed(x) - Signed(y))
      /\ ~ DifferenceOverflows(x, y) => Signed((x - y) % WordMod) = Signed(x) - Signed(y)
  BY <1>1, <1>2, <1>7, DifferenceIs DEF Within
<1>10. /\ Value("add", x, y) = (x + y) % WordMod /\ Value("sub", x, y) = (x - y) % WordMod
       /\ Value("srl", x, y) = srl(x, y) /\ Value("sra", x, y) = sra(x, y)
       /\ (Traps("add", x, y) <=> SumOverflows(x, y))
       /\ (Traps("sub", x, y) <=> DifferenceOverflows(x, y))
  BY ValuesAre
<1>11. Instr.op \in {"add", "addi"} => (halted' # "Ov" <=> Within(Signed(x) + Signed(y)))
  BY <1>4, <1>5, <1>6, <1>8, <1>10
<1>12. Instr.op = "sub" => (halted' # "Ov" <=> Within(Signed(Rs) - Signed(Rt)))
  BY <1>4, <1>5, <1>6, <1>9, <1>10
<1>13. ASSUME Ran, it.dest # ZERO
       PROVE  LET w == regs'[it.dest] IN
              /\ it.op = "add" => Signed(w) = Signed(x) + Signed(y)
              /\ it.op = "sub" => Signed(w) = Signed(Rs) - Signed(Rt)
              /\ it.op = "srl" => w = x \div TwoTo[y]
              /\ it.op = "sra" => Signed(w) = Signed(x) \div TwoTo[y]
  <2>1. PICK w : w = regs'[it.dest] /\ w = Value(it.op, x, y) /\ ~ Traps(it.op, x, y)
    BY <1>5, <1>6, <1>13
  <2>2. it.op = "add" => Signed(w) = Signed(x) + Signed(y)
    BY <1>8, <1>10, <2>1
  <2>3. it.op = "sub" => Signed(w) = Signed(Rs) - Signed(Rt)
    BY <1>4, <1>6, <1>9, <1>10, <2>1
  <2>4. it.op = "srl" => w = x \div TwoTo[y]
    BY <1>7, <1>10, <2>1, srlIs
  <2>5. it.op = "sra" => Signed(w) = Signed(x) \div TwoTo[y]
    BY <1>7, <1>10, <2>1, sraIs
  <2> QED BY <2>1, <2>2, <2>3, <2>4, <2>5
<1> QED BY <1>6, <1>11, <1>12, <1>13 DEF it

\* Products and quotients.
LEMMA ProductsCompute ==
  ASSUME Ready, MultiplyDivide, Ran
  PROVE  /\ Instr.op = "mult" => Signed(hi') * WordMod + lo' = Signed(Rs) * Signed(Rt)
         /\ Instr.op = "multu" => hi' * WordMod + lo' = Rs * Rt
<1>1. Rs \in Words /\ Rt \in Words /\ CpuOK
  BY InstrIs DEF Ready
<1>2. PICK h : IsHalf(h)
  BY HalfExists
<1> DEFINE s == Signed(Rs)
           t == Signed(Rt)
<1>3. InHalf(s, h) /\ InHalf(t, h)
  BY <1>1, <1>2, SignedIs DEF InHalf
<1>4. \A reason : ~ doException(reason)
  BY <1>1, EndsIs
<1>5. Instr.op = "mult" => Product(s, t)
  BY <1>4 DEF MultiplyDivide
<1>6. Instr.op = "multu" => Product(Rs, Rt)
  BY <1>4 DEF MultiplyDivide
<1>7. Signed(((s * t) \div WordMod) % WordMod) * WordMod + ((s * t) % WordMod) = s * t
  BY <1>2, <1>3, ProductIs
<1>8. (((Rs * Rt) \div WordMod) % WordMod) * WordMod + ((Rs * Rt) % WordMod) = Rs * Rt
  BY <1>1, PlainProductIs
<1> HIDE DEF s, t
<1>9. Instr.op = "mult" => Signed(hi') * WordMod + lo' = s * t
  BY <1>5, <1>7 DEF Product
<1>10. Instr.op = "multu" => hi' * WordMod + lo' = Rs * Rt
  BY <1>6, <1>8 DEF Product
<1> QED BY <1>9, <1>10 DEF s, t

LEMMA DivisionComputes ==
  ASSUME Ready, MultiplyDivide, Ran, Instr.op = "div"
  PROVE  LET q == Signed(lo')
             e == Signed(hi') IN
         /\ Signed(Rs) = q * Signed(Rt) + e
         /\ e * e < Signed(Rt) * Signed(Rt) /\ (e = 0 \/ (e < 0) = (Signed(Rs) < 0))
<1>1. Rs \in Words /\ Rt \in Words /\ CpuOK
  BY InstrIs DEF Ready
<1>2. PICK h : IsHalf(h)
  BY HalfExists
<1>3. h \in Nat /\ h > 0 /\ WordMod = 2 * h /\ WordMod \div 2 = h
  BY <1>2 DEF IsHalf
<1>4. PICK s, t \in Int : s = Signed(Rs) /\ t = Signed(Rt) /\ InHalf(s, h) /\ InHalf(t, h)
  BY <1>1, <1>2, SignedIs DEF InHalf
<1>5. \A reason : ~ doException(reason)
  BY <1>1, EndsIs
<1>6. /\ Rt # 0 /\ ~ (t = -1 /\ s = - h)
      /\ lo' = Quotient(s, t) % WordMod /\ hi' = (s - t * Quotient(s, t)) % WordMod
  BY <1>3, <1>4, <1>5 DEF MultiplyDivide
<1>7. t # 0
  BY <1>1, <1>4, <1>6, SignedZero
<1>8. PICK q, e \in Int : /\ q = Quotient(s, t) /\ e = s - t * q
                          /\ InHalf(q, h) /\ InHalf(e, h)
                          /\ e * e < t * t /\ (e = 0 \/ (e < 0) = (s < 0))
  BY <1>3, <1>4, <1>6, <1>7, QuotientIs DEF InHalf
<1>9. Signed(lo') = q /\ Signed(hi') = e
  <2>1. - h <= q /\ q < h /\ - h <= e /\ e < h
    BY <1>8 DEF InHalf
  <2>2. lo' = q % WordMod /\ hi' = e % WordMod
    BY <1>6, <1>8
  <2>3. Signed(q % WordMod) = q /\ Signed(e % WordMod) = e
    BY <1>2, <1>8, <2>1, SignedBack
  <2> QED BY <2>2, <2>3
<1>10. s = q * t + e
  <2>1. PICK z \in Int : z = t * q /\ z = q * t
    BY <1>4, <1>8, Commutes
  <2> QED BY <1>4, <1>8, <2>1
<1> QED BY <1>4, <1>8, <1>9, <1>10

\* lwl and lwr fill a register from both ends.
LEMMA LoadsCompute ==
  ASSUME Ready, Load, Ran, Instr.op \in {"lwl", "lwr"}, Instr.rt # ZERO, NEW j \in 1 .. 4
  PROVE  LET new == BytesOf(regs'[Instr.rt], 4)
             old == BytesOf(Rt, 4)
             k == Address % 4 IN
         /\ Instr.op = "lwl" => new[j] = IF j >= 4 - k THEN CellAt(Address - (4 - j)) ELSE old[j]
         /\ Instr.op = "lwr" => new[j] = IF j <= 4 - k THEN CellAt(Address + (j - 1)) ELSE old[j]
<1>1. /\ Rt \in Words /\ CpuOK /\ PagesOK /\ Instr.rt \in RegNums /\ Address \in Words
      /\ DOMAIN regs = RegNums
  <2>1. Instr.op \notin {"j", "jal"}
    OBVIOUS
  <2> QED BY <2>1, InstrIs, ImmediateIs DEF Ready, CpuOK, GoodRegs
<1>2. PICK addr, k : addr = Address - (Address % 4) /\ k = Address % 4 /\ addr \in Words /\ k \in 0 .. 3
  BY <1>1, AroundWord
<1>3. Address = addr + k /\ addr \in Nat
  BY <1>1, <1>2, WordIs
<1>4. Width[Instr.op] = 4
  BY DEF Width
<1>5. /\ \A reason : ~ doException(reason)
      /\ \A where, n : ~ ReadFails(where, n)
  BY <1>1, EndsIs, ReadFailsIs
<1>6. Accessible(addr, 4) /\ Set(Instr.rt, LoadedValue(Instr.op, WordAt(addr, 4)))
  BY <1>2, <1>4, <1>5 DEF Load
<1>7. PICK word : word = WordAt(addr, 4) /\ word \in Words
  BY <1>1, <1>2, <1>6, WordAtIs
<1>8. \A m \in 1 .. 4 : DigitOf(word, m - 1) = CellAt(addr + (m - 1))
  BY <1>1, <1>2, <1>6, <1>7, LoadedDigits
<1>9. regs'[Instr.rt] = LoadedValue(Instr.op, word)
  BY <1>1, <1>6, <1>7 DEF Set
<1>10. \A w : BytesOf(w, 4)[j] = DigitOf(w, j - 1)
  BY DEF BytesOf, DigitOf
<1>11. CASE Instr.op = "lwl"
  <2>1. regs'[Instr.rt] = lwl(Rt, word, k)
    BY <1>2, <1>9, <1>11 DEF LoadedValue
  <2>2. DigitOf(lwl(Rt, word, k), j - 1) = IF j >= 4 - k THEN DigitOf(word, j - (4 - k)) ELSE DigitOf(Rt, j - 1)
    BY <1>1, <1>2, <1>7, lwlDigits
  <2>3. ASSUME j >= 4 - k PROVE DigitOf(word, j - (4 - k)) = CellAt(Address - (4 - j))
    <3>1. PICK m \in 1 .. 4 : m = j - (4 - k) + 1
      BY <1>2, <2>3
    <3>2. m - 1 = j - (4 - k) /\ addr + (m - 1) = Address - (4 - j)
      BY <1>2, <1>3, <3>1
    <3> QED BY <1>8, <3>2
  <2> QED BY <1>2, <1>10, <1>11, <2>1, <2>2, <2>3
<1>12. CASE Instr.op = "lwr"
  <2>1. regs'[Instr.rt] = lwr(Rt, word, k)
    BY <1>2, <1>9, <1>12 DEF LoadedValue
  <2>2. DigitOf(lwr(Rt, word, k), j - 1) = IF j <= 4 - k THEN DigitOf(word, (j - 1) + k) ELSE DigitOf(Rt, j - 1)
    BY <1>1, <1>2, <1>7, lwrDigits
  <2>3. ASSUME j <= 4 - k PROVE DigitOf(word, (j - 1) + k) = CellAt(Address + (j - 1))
    <3>1. PICK m \in 1 .. 4 : m = j + k
      BY <1>2, <2>3
    <3>2. m - 1 = (j - 1) + k /\ addr + (m - 1) = Address + (j - 1)
      BY <1>2, <1>3, <3>1
    <3> QED BY <1>8, <3>2
  <2> QED BY <1>2, <1>10, <1>12, <2>1, <2>2, <2>3
<1> QED BY <1>11, <1>12

LEMMA StepComputes ==
  ASSUME EmulatorOK, CpuStep, Accessible(pc, 4)
  PROVE  ComputesNumbers
<1>1. Ready /\ Execute /\ halted = "no"
  BY DEF EmulatorOK, MemoryOK, Ready, CpuStep
<1> DEFINE it == Operands
           new == BytesOf(regs'[Instr.rt], 4)
           old == BytesOf(Rt, 4)
           k == Address % 4
<1>2. /\ Instr.op \in ArithmeticOps => Compute
      /\ Instr.op \in {"mult", "multu", "div"} => MultiplyDivide
      /\ Instr.op \in {"lwl", "lwr"} => Load
  BY <1>1, Dispatch
<1>3. Instr.op \in {"add", "addi", "sub"} => Instr.op \in ArithmeticOps
  BY ArithmeticOpsAre
<1>4. /\ Instr.op \in {"add", "addi"} => (halted' # "Ov" <=> Within(Signed(it.x) + Signed(it.y)))
      /\ Instr.op = "sub" => (halted' # "Ov" <=> Within(Signed(Rs) - Signed(Rt)))
  BY <1>1, <1>2, <1>3, ArithmeticComputes
<1>5. Ran /\ Instr.op \in ArithmeticOps /\ it.dest # ZERO =>
        LET w == regs'[it.dest] IN
        /\ it.op = "add" => Signed(w) = Signed(it.x) + Signed(it.y)
        /\ it.op = "sub" => Signed(w) = Signed(Rs) - Signed(Rt)
        /\ it.op = "srl" => w = it.x \div TwoTo[it.y]
        /\ it.op = "sra" => Signed(w) = Signed(it.x) \div TwoTo[it.y]
  BY <1>1, <1>2, ArithmeticComputes
<1>6. /\ Ran /\ Instr.op = "mult" => Signed(hi') * WordMod + lo' = Signed(Rs) * Signed(Rt)
      /\ Ran /\ Instr.op = "multu" => hi' * WordMod + lo' = Rs * Rt
  BY <1>1, <1>2, ProductsCompute
<1>7. Ran /\ Instr.op = "div" =>
        LET q == Signed(lo')
            e == Signed(hi') IN
        /\ Signed(Rs) = q * Signed(Rt) + e
        /\ e * e < Signed(Rt) * Signed(Rt) /\ (e = 0 \/ (e < 0) = (Signed(Rs) < 0))
  BY <1>1, <1>2, DivisionComputes
<1>8. Ran /\ Instr.rt # ZERO =>
        /\ Instr.op = "lwl" =>
             \A j \in 1 .. 4 : new[j] = IF j >= 4 - k THEN CellAt(Address - (4 - j)) ELSE old[j]
        /\ Instr.op = "lwr" =>
             \A j \in 1 .. 4 : new[j] = IF j <= 4 - k THEN CellAt(Address + (j - 1)) ELSE old[j]
  BY <1>1, <1>2, LoadsCompute
<1> HIDE DEF it, new, old, k
<1> QED BY <1>4, <1>5, <1>6, <1>7, <1>8 DEF ComputesNumbers, Ran, Within, CellAt, it, new, old, k

\* What arithmetic and partial loads compute is what numbers and bytes at addresses
\* say, for every program, every word and every size of a word: the tests by the signs
\* find every overflow and nothing else, the shifts to the right divide, hi and lo
\* hold the product or the quotient and the rest, and lwl and lwr fill a register from
\* both ends (cpu.cpp:480, 606, 1094).
THEOREM ArithmeticIsRight == ReesesSpec => WordArithmetic
<1>1. EmulatorOK => (CpuStep /\ Accessible(pc, 4) => ComputesNumbers)
  BY StepComputes
<1>2. EmulatorOK /\ [ReesesNext]_reesesVars => [CpuStep /\ Accessible(pc, 4) => ComputesNumbers]_reesesVars
  BY <1>1
<1> QED BY <1>2, EmulatorStays, PTL DEF ReesesSpec, WordArithmetic

-----------------------------------------------------------------------------
(* Both emulators                                                          *)

\* Neither emulator ever holds a value its C++ or C type could not, or has
\* truncated (mcs4.c:182, cpu.cpp:92, mmu.cpp:118).
THEOREM EmulatorsTyped == Mcs4Spec /\ ReesesSpec => []ProgramsTypeOK
  BY Mcs4Typed, ReesesTyped, PTL DEF ProgramsTypeOK

=============================================================================
