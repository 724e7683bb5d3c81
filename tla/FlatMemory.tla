------------------------------ MODULE FlatMemory ------------------------------
(* What the memory of the emulator of src/reeses_revenge promises: bytes at     *)
(* addresses.  A request to the memory is seen in io; a write that meets an     *)
(* address without memory may have written the bytes before it.  Once a request *)
(* is lost, nothing more is promised.                                           *)
EXTENDS Naturals, Sequences

CONSTANTS
  Top,                \* addresses are 0 .. Top - 1
  Granularity         \* memory comes in blocks of this size

VARIABLES
  mem,    \* the bytes, by address
  io      \* the last request: [op, addr, data]

flatVars == <<mem, io>>

At(addr, k) == (addr + k) % Top

\* The first n bytes of the data of a request are put in place.
Overlaid(req, n) ==
  LET old == mem
      Holder(x) == {k \in 1 .. n : At(req.addr, k - 1) = x} IN
  [x \in DOMAIN old |->
     IF Holder(x) = {} THEN old[x] ELSE req.data[CHOOSE k \in Holder(x) : TRUE]]

\* There is memory for the first n bytes of a request.
Covered(req, n) == {At(req.addr, k) : k \in 0 .. n - 1} \subseteq DOMAIN mem

Read ==
  LET old == mem IN
  /\ io'.op = "read" /\ Covered(io', Len(io'.data))
  /\ \A k \in 1 .. Len(io'.data) : io'.data[k] = old[At(io'.addr, k - 1)]
  /\ UNCHANGED mem

Write ==
  /\ io'.op = "write" /\ Covered(io', Len(io'.data))
  /\ mem' = Overlaid(io', Len(io'.data))

\* The bytes below the first one that has no memory are written.
Torn ==
  /\ io'.op = "torn"
  /\ \E n \in 0 .. Len(io'.data) - 1 :
       /\ Covered(io', n) /\ ~ Covered(io', n + 1)
       /\ mem' = Overlaid(io', n)

\* A new region of zeros, in whole blocks, beside what there is.
Map ==
  LET old == mem
      last == io'.addr + ((Len(io'.data) + Granularity - 1) \div Granularity) * Granularity - 1
      fresh == io'.addr .. last IN
  /\ io'.op = "map"
  /\ fresh \cap DOMAIN old = {}
  /\ mem' = [x \in DOMAIN old \cup fresh |-> IF x \in fresh THEN 0 ELSE old[x]]

\* A request that leaves the memory and is not refused.
Lost == "lost" \in {io.op, io'.op}

FlatInit ==
  LET first == mem IN
  io.op = "none" /\ \A x \in DOMAIN first : first[x] = 0

FlatSpec == FlatInit /\ [][Read \/ Write \/ Torn \/ Map \/ Lost]_flatVars

=============================================================================
