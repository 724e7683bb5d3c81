----------------------------- MODULE ReesesMemory -----------------------------
(***************************************************************************)
(* The memory of the emulator of src/reeses_revenge/server: the pages of   *)
(* mmu.cpp and the mmap system call of syscall_handler.cpp.                *)
(*                                                                         *)
(* A word is four bytes of ByteValues values each, little-endian.  The     *)
(* real pages are 4096 bytes, from 0x400000 to 0x1000000.                  *)
(***************************************************************************)
EXTENDS Integers, Sequences, FiniteSets

CONSTANTS
  ByteValues,        \* 256 in the code
  PageSize,          \* PAGETABLE_SIZE
  MmuBase,           \* MMU_BASE_ADDRESS, and the base of Setup
  MmuMax,            \* MMU_MAX_ADDRESS, where the pages end
  TextEnd,           \* the end of what Setup allocates
  MmapMaxLength,     \* MMAP_MAX_LENGTH
  MmapTableSize,     \* MMAP_TABLE_SIZE
  NoPage

Power[k \in 0 .. 4] == IF k = 0 THEN 1 ELSE ByteValues * Power[k - 1]
WordMod == Power[4]
Words == 0 .. WordMod - 1
ByteRange == 0 .. ByteValues - 1

ASSUME ReesesMemoryAssumption ==
  /\ ByteValues \in Nat \ {0, 1} /\ PageSize \in Nat \ {0}
  /\ MmuBase \in Nat \ {0} /\ TextEnd \in Nat /\ MmuBase < TextEnd
  /\ MmuMax \in Nat /\ TextEnd <= MmuMax /\ MmuMax < WordMod
  /\ MmuBase % PageSize = 0 /\ TextEnd % PageSize = 0
  /\ MmuMax % PageSize = 0 /\ WordMod % PageSize = 0
  /\ MmapMaxLength \in Nat /\ MmapTableSize \in Nat
  /\ NoPage \notin [0 .. PageSize - 1 -> ByteRange]

VARIABLES
  pages,     \* m_pages: the bytes of every page, or NoPage, as past the table
  table,     \* g_oMMAPTable: the regions of mmap
  io         \* auxiliary: the last request to the memory

memVars == <<pages, table, io>>

PAGE_COUNT_MAX == (MmuMax - MmuBase) \div PageSize

\* Page numbers of all addresses, those past the table too.
PageCount == (WordMod - MmuBase) \div PageSize
PageNumbers == 0 .. PageCount - 1
Zeroed == [k \in 0 .. PageSize - 1 |-> 0]

PageOf(addr) == (addr - MmuBase) \div PageSize
OffsetIn(addr) == addr % PageSize

\* The bytes of a word, lowest first, and back.
BytesOf(w, n) == [k \in 1 .. n |-> (w \div Power[k - 1]) % ByteValues]
ValueOf(bytes) ==
  LET sum[k \in 0 .. Len(bytes)] ==
        IF k = 0 THEN 0 ELSE sum[k - 1] + bytes[k] * Power[k - 1]
  IN sum[Len(bytes)]

Smaller(x, y) == IF x < y THEN x ELSE y

\* Mutant: a transfer is not cut at the end of a page.
SplitNever(addr, n) == IF n = 0 THEN {} ELSE {[at |-> addr, from |-> 0, len |-> n]}

\* How ReadMemory and WriteMemory cut n bytes at the ends of pages.
Split(addr, n) ==
  LET first == PageSize - OffsetIn(addr)      \* what is left of the first page
      From(j) == IF j = 1 THEN 0 ELSE first + (j - 2) * PageSize
      count == IF n = 0 THEN 0 ELSE 1 + ((n - Smaller(n, first) + PageSize - 1) \div PageSize) IN
  {[at |-> (addr + From(j)) % WordMod, from |-> From(j), len |-> Smaller(n, From(j + 1)) - From(j)] :
     j \in 1 .. count}

Present(addr) == addr >= MmuBase /\ pages[PageOf(addr)] # NoPage

\* The pieces before the first one without a page, and whether that is all.
Reached(addr, n) ==
  {piece \in Split(addr, n) :
     \A other \in Split(addr, n) : other.from <= piece.from => Present(other.at)}
Accessible(addr, n) == n > 0 /\ Reached(addr, n) = Split(addr, n)

\* The index of a page is tested with > PAGE_COUNT_MAX.  The entry behind the table is
\* the first member of the processor, a pointer that is null until its setup: what a
\* transfer does there afterwards is not modelled, and the model ends.
Stray(addr, n) ==
  \E piece \in Split(addr, n) :
    /\ PageOf(piece.at) = PAGE_COUNT_MAX
    /\ \A other \in Split(addr, n) : other.from < piece.from => Present(other.at)

Holds(piece, k) == k \in piece.from .. piece.from + piece.len - 1

\* ReadMemory: the bytes of a transfer that succeeds.
BytesAt(addr, n) ==
  [k \in 1 .. n |->
     LET piece == CHOOSE piece \in Split(addr, n) : Holds(piece, k - 1) IN
     pages[PageOf(piece.at)][OffsetIn(piece.at) + k - 1 - piece.from]]

WordAt(addr, n) == ValueOf(BytesAt(addr, n))

\* A page with the bytes of those pieces that lie in it.
Written(p, pieces, data) ==
  [x \in 0 .. PageSize - 1 |->
     LET Place(piece) == piece.from + x - OffsetIn(piece.at)
         hits == {piece \in pieces : PageOf(piece.at) = p /\ Holds(piece, Place(piece))} IN
     IF hits = {} THEN pages[p][x] ELSE data[Place(CHOOSE piece \in hits : TRUE) + 1]]

\* WriteMemory: the pieces reached are written, also when a later one fails, or strays.
WriteMemory(addr, bytes, strays) ==
  \E data \in {bytes}, pieces \in {Reached(addr, Len(bytes))} :
    /\ pages' = [p \in PageNumbers |-> IF pages[p] = NoPage THEN NoPage ELSE Written(p, pieces, data)]
    /\ io' = [op |-> IF Accessible(addr, Len(data)) THEN "write"
                     ELSE IF strays THEN "lost" ELSE "torn",
              addr |-> addr, data |-> data]
    /\ UNCHANGED table

\* Mutant: the start of an earlier region may be in the new one.
OverlapsPart(old, start, len) ==
  LET oldEnd == old.start + old.len IN
  \/ oldEnd > start /\ oldEnd <= start + len
  \/ old.start < start /\ oldEnd > start + len

\* The three tests of DoMMAP against an entry of the table.
Overlaps(old, start, len) ==
  LET oldEnd == old.start + old.len IN
  \/ old.start >= start /\ old.start < start + len
  \/ oldEnd > start /\ oldEnd <= start + len
  \/ old.start < start /\ oldEnd > start + len

\* What DoMMAP and AddMMAPRegion refuse before they take a page.
MmapRefused(start, len) ==
  \/ len > MmapMaxLength
  \/ Len(table) >= MmapTableSize
  \/ OffsetIn(start) # 0
  \/ start + len > MmuMax \/ start >= MmuMax
  \/ start < TextEnd
  \/ start + len <= TextEnd
  \/ \E j \in DOMAIN table : Overlaps(table[j], start, len)

\* AddMMAPRegion takes pages one by one, and gives up at one that is in use: those
\* before it stay.
PagesWanted(start, len) ==
  PageOf(start) .. PageOf(start) + ((len + PageSize - 1) \div PageSize) - 1

PagesTaken(start, len) ==
  {p \in PagesWanted(start, len) :
     \A q \in PagesWanted(start, len) : q <= p => pages[q] = NoPage}

MmapWorks(start, len) ==
  ~ MmapRefused(start, len) /\ PagesTaken(start, len) = PagesWanted(start, len)

DoMMAP(start, len) ==
  /\ pages' = IF MmapRefused(start, len) THEN pages
              ELSE [p \in PageNumbers |-> IF p \in PagesTaken(start, len) THEN Zeroed ELSE pages[p]]
  /\ IF MmapWorks(start, len)
       THEN /\ table' = Append(table, [start |-> start, len |-> len])
            /\ io' = [op |-> "map", addr |-> start, data |-> [k \in 1 .. len |-> 0]]
       ELSE UNCHANGED <<table, io>>

\* Setup: the pages of text and data, zeroed.
Setup ==
  /\ pages = [p \in PageNumbers |-> IF p < (TextEnd - MmuBase) \div PageSize THEN Zeroed ELSE NoPage]
  /\ table = <<>>
  /\ io = [op |-> "none", addr |-> 0, data |-> <<>>]

-----------------------------------------------------------------------------
(* Properties *)

\* The types of pages, table and request, and nothing is mapped past the table.
MemoryTypeOK ==
  /\ pages \in [PageNumbers -> {NoPage} \cup [0 .. PageSize - 1 -> 0 .. ByteValues - 1]]
  /\ \A p \in PageNumbers : p >= PAGE_COUNT_MAX => pages[p] = NoPage
  /\ \A j \in DOMAIN table : table[j].start \in MmuBase .. WordMod /\ table[j].len \in 0 .. MmapMaxLength
  /\ io.addr \in 0 .. WordMod

\* Pages, pieces and regions make a flat memory: transfers over the end of a page
\* are not torn, and mmap gives all of a region, zeroed and away from the others, or
\* nothing (mmu.cpp:118, syscall_handler.cpp:177).  Until the page behind the table is
\* used, which the test of the index lets through (mmu.cpp:131, 171).
Flat == INSTANCE FlatMemory WITH
  Top <- WordMod, Granularity <- PageSize,
  mem <- [x \in {y \in MmuBase .. WordMod - 1 : Present(y)} |-> pages[PageOf(x)][OffsetIn(x)]]
ImplementsFlatMemory == Flat!FlatSpec

=============================================================================
