------------------------------ MODULE Compressor ------------------------------
(***************************************************************************)
(* The compressor of the liberty server (src/liberty/server/compress.c)    *)
(* and the decompressor it sends along (payloads/64/payload-decompress.c). *)
(*                                                                         *)
(* Phase 1 packs runs of a byte, phase 2 takes out repeated strings into a *)
(* list, phase 3 replaces frequent pairs of bytes, and the decompressor    *)
(* undoes them from the last to the first.  The loops of phases 2 and 3    *)
(* are steps here, so that what is packed so far can be looked at.         *)
(* A byte has CharValues values here; that also bounds the length of a run *)
(* and of a string and the number of strings, as 256 does in the code.     *)
(***************************************************************************)
EXTENDS Naturals, FiniteSets, SequencesExt

CONSTANTS
  CharValues,     \* 256 in the code
  Files           \* the files, of three bytes at least, else phase 1 reads past them

Bytes == 0 .. CharValues - 1

ASSUME CompressorAssumption ==
  CharValues \in Nat /\ CharValues > 4 /\ \A x \in Files : x \in Seq(Bytes) /\ Len(x) >= 3

VARIABLES
  file, stage,
  key, text,      \* of phase 2: its escape byte, the data so far
  entries, at,    \* the strings taken out; length and place to search on from
  special, packed \* of phase 3

compressorVars == <<file, stage, key, text, entries, at, special, packed>>

\* 0xff, which marks an escape byte of phase 2 that is itself meant.
Marker == CharValues - 1

-----------------------------------------------------------------------------
(* Bytes                                                                   *)

\* The least frequent of some bytes, the smallest of them.
FindBestChar(x, allowed) ==
  LET n == [b \in allowed |-> Cardinality({i \in DOMAIN x : x[i] = b})] IN
  CHOOSE b \in allowed : \A d \in allowed : n[b] < n[d] \/ (n[b] = n[d] /\ b <= d)

Window(x, i, n) == SubSeq(x, i, Min({i + n - 1, Len(x)}))

\* A byte behind the end is none of Bytes.
CharAt(x, i) == IF i \in DOMAIN x THEN x[i] ELSE CharValues

\* The loops over a buffer: what is put out at i, and how far i moves.
Walk(x, from, out, took) ==
  LET Rest[i \in Nat] == IF i \in DOMAIN x THEN out[i] \o Rest[i + took[i]] ELSE <<>>
  IN Rest[from]

-----------------------------------------------------------------------------
(* Compress                                                                *)

\* As many bytes from i on are equal, of those that one count can stand for.
Run(x, i) ==
  Max({n \in 1 .. CharValues + 2 : i + n - 1 <= Len(x) /\ \A j \in i .. i + n - 1 : x[j] = x[i]})

Phase1(x) ==
  LET k == FindBestChar(x, Bytes)
      out == [i \in DOMAIN x |-> IF Run(x, i) >= 4 THEN <<k, Run(x, i) - 3, x[i]>>
                                 ELSE IF x[i] = k THEN <<k, 0>> ELSE <<x[i]>>]
  IN <<k>> \o Walk(x, 1, out, [i \in DOMAIN x |-> IF Run(x, i) >= 4 THEN Run(x, i) ELSE 1])

\* The escape byte is looked for where the copy stands, not where the original does.
Escaped(x, k) ==
  LET Copy[i \in 0 .. Len(x)] ==
        IF i = 0 THEN <<>>
        ELSE LET s == Append(Copy[i - 1], x[i]) IN IF s[i] = k THEN Append(s, Marker) ELSE s
  IN Copy[Len(x)]

StartPhase2 ==
  LET whole == <<0>> \o Phase1(file) IN
  /\ stage = "phase1"
  /\ stage' = "phase2"
  /\ key' = FindBestChar(whole, Bytes)
  /\ text' = Escaped(whole, key')
  /\ at' = <<Marker, 1>>
  /\ UNCHANGED <<file, entries, special, packed>>

\* The string of n bytes at p is found again behind itself.
Repeats(n, p) ==
  \E q \in p + n .. Len(text) - n + 1 : Window(text, q, n) = Window(text, p, n)

\* What the search may find from where it stands.  A full list ends the search for a
\* length, and the next length is tried at the first place only.
Found ==
  {f \in (3 .. at[1]) \X (1 .. Len(text)) :
     /\ f[1] < at[1] \/ f[2] >= at[2]
     /\ Len(entries) = CharValues => f[1] < at[1] /\ f[2] = 1
     /\ Repeats(f[1], f[2])}

\* The list before a string is added: the escape byte's own place is never used.
ListPlain(list) == list    \* Mutant: it is used.
ListFor(list) == IF Len(list) = key THEN Append(list, <<key, key>>) ELSE list

\* A text with a token for the string at f wherever it occurs from there on.
Shortened(x, f, code) ==
  LET begins == [i \in DOMAIN x |-> i >= f[2] /\ Window(x, i, f[1]) = Window(x, f[2], f[1])]
  IN Walk(x, 1, [i \in DOMAIN x |-> IF begins[i] THEN <<key, code>> ELSE <<x[i]>>],
          [i \in DOMAIN x |-> IF begins[i] THEN f[1] ELSE 1])

\* The longest string is taken out wherever it occurs; the last one that fits in the
\* list stays in the text.
ReplaceString ==
  /\ stage = "phase2"
  /\ Found # {}
  /\ Len(ListFor(entries)) < CharValues
  /\ at' = CHOOSE f \in Found : \A g \in Found : f[1] > g[1] \/ (f[1] = g[1] /\ f[2] <= g[2])
  /\ entries' = Append(ListFor(entries), Window(text, at'[2], at'[1]))
  /\ text' = IF Len(entries') = CharValues THEN text ELSE Shortened(text, at', Len(ListFor(entries)))
  /\ UNCHANGED <<file, stage, key, special, packed>>

\* One string too many is written behind the list: what follows is not defined.
Overrun ==
  /\ stage = "phase2"
  /\ Found # {}
  /\ Len(ListFor(entries)) >= CharValues
  /\ stage' = "undefined"
  /\ UNCHANGED <<file, key, text, entries, at, special, packed>>

\* The strings that were taken out, each behind its length.
ListOut ==
  Walk(entries, 1, [i \in DOMAIN entries |-> <<Len(entries[i])>> \o entries[i]], [i \in DOMAIN entries |-> 1])

\* What phase 2 gives: the escape byte, the strings, the text.
Phase2 == <<key>> \o ListOut \o text

\* Phase 3 needs a byte that does not occur.
StartPhase3 ==
  LET s == FindBestChar(Phase2, Bytes)
      spare == s \notin ToSet(Phase2) IN
  /\ stage = "phase2"
  /\ Found = {}
  /\ stage' = IF spare THEN "phase3" ELSE "failed"
  /\ special' = s
  /\ packed' = IF spare THEN <<s>> \o Phase2 ELSE <<>>
  /\ UNCHANGED <<file, key, text, entries, at>>

PairFrom(i) == <<packed[i], packed[i + 1]>>
Pairs == {PairFrom(i) : i \in 1 .. Len(packed) - 1}
Occurs(w) == Cardinality({i \in 1 .. Len(packed) - 1 : PairFrom(i) = w})

\* The most frequent pair, the smallest as a little-endian number.
BestPair ==
  LET n == [w \in Pairs |-> Occurs(w)]
      Number(w) == w[2] * CharValues + w[1] IN
  CHOOSE w \in Pairs : \A v \in Pairs : n[w] > n[v] \/ (n[w] = n[v] /\ Number(w) <= Number(v))

\* A pair is replaced unless the special byte is behind it, which would make the new
\* byte look like an escaped one.
PairAtAny(i, w) == i < Len(packed) - 1 /\ PairFrom(i) = w    \* Mutant: whatever is behind it.
PairAt(i, w) == i < Len(packed) - 1 /\ PairFrom(i) = w /\ packed[i + 2] # special

Shorter ==
  LET k == FindBestChar(packed, Bytes \ {special})
      w == BestPair
      replaced == [i \in DOMAIN packed |-> packed[i] # k /\ PairAt(i, w)]
      out == [i \in DOMAIN packed |-> IF packed[i] = k THEN <<k, special>>
                                      ELSE IF replaced[i] THEN <<k>> ELSE <<packed[i]>>]
  IN <<k>> \o w \o Walk(packed, 1, out, [i \in DOMAIN packed |-> IF replaced[i] THEN 2 ELSE 1])

Shrinks == Occurs(BestPair) >= 3 /\ Len(Shorter) < Len(packed)

ReplacePair ==
  /\ stage = "phase3"
  /\ Shrinks
  /\ packed' = Shorter
  /\ UNCHANGED <<file, stage, key, text, entries, at, special>>

EndPhase3 ==
  /\ stage = "phase3"
  /\ ~ Shrinks
  /\ stage' = "done"
  /\ packed' = <<special>> \o packed
  /\ UNCHANGED <<file, key, text, entries, at, special>>

-----------------------------------------------------------------------------
(* The decompressor                                                        *)

\* A loop over the whole buffer until it begins with a byte, for as many rounds as
\* the data can need; data that would be read for ever count as none.
Rounds(x, stop, most, Round(_)) ==
  LET After[n \in 0 .. most] ==
        IF n = 0 THEN x
        ELSE LET y == After[n - 1] IN IF y = <<>> \/ Head(y) = stop THEN y ELSE Round(y)
      last == After[most]
  IN IF last # <<>> /\ Head(last) = stop THEN last ELSE <<>>

\* The key stands for the pair behind it, unless the special byte escapes it.
PairsBack(y, s) ==
  LET kept == [i \in DOMAIN y |-> y[i] = y[1] /\ CharAt(y, i + 1) = s]
      out == [i \in DOMAIN y |-> IF y[i] = y[1] /\ ~ kept[i] THEN Window(y, 2, 2) ELSE <<y[i]>>]
  IN Walk(y, 4, out, [i \in DOMAIN y |-> IF kept[i] THEN 2 ELSE 1])

\* Layer 3 takes its result from the output buffer, into which nothing was written
\* when there was no pair to replace.  Every round it needs puts a byte back.
Layer3(x, most) ==
  LET s == Head(x)
      last == Rounds(Tail(x), s, most, LAMBDA y : PairsBack(y, s))
  IN IF Head(Tail(x)) = s \/ last = <<>> THEN <<>> ELSE Tail(last)

\* The strings behind the key, each after its length, and where they end.
ListOf(y) ==
  LET List[i \in Nat] ==
        IF CharAt(y, i) \in {0, CharValues} THEN [strings |-> <<>>, end |-> i]
        ELSE LET more == List[i + y[i] + 1] IN
             [strings |-> <<Window(y, i + 1, y[i])>> \o more.strings, end |-> more.end]
  IN List[2]

\* A string for each of its tokens, and the key for each that was escaped.
PutBack(z, k, code, w) ==
  LET token == [i \in DOMAIN z |-> z[i] = k /\ CharAt(z, i + 1) \in {Marker, code}]
      out == [i \in DOMAIN z |-> IF token[i] /\ z[i + 1] # Marker THEN w ELSE <<z[i]>>]
  IN Walk(z, 1, out, [i \in DOMAIN z |-> IF token[i] THEN 2 ELSE 1])

\* The strings are put back from the last of the list to the first.
StringsBack(y) ==
  LET list == ListOf(y)
      most == Len(list.strings)
      Back[n \in 0 .. most] ==
        IF n = 0 THEN SubSeq(y, list.end, Len(y))
        ELSE PutBack(Back[n - 1], y[1], most - n, list.strings[most - n + 1])
  IN Back[most]

Layer2(x) ==
  LET last == IF x = <<>> \/ Head(x) = 0 THEN <<>> ELSE Rounds(x, 0, Len(x), StringsBack)
  IN IF last = <<>> THEN <<>> ELSE Tail(last)

Layer1(x) ==
  LET plain == [i \in DOMAIN x |-> x[i] # x[1]]
      count == [i \in DOMAIN x |-> CharAt(x, i + 1)]
      out == [i \in DOMAIN x |-> IF plain[i] \/ count[i] = 0 THEN <<x[i]>>
                                 ELSE [j \in 1 .. count[i] + 3 |-> CharAt(x, i + 2)]]
      took == [i \in DOMAIN x |-> IF plain[i] THEN 1 ELSE IF count[i] = 0 THEN 2 ELSE 3]
  IN Walk(x, 2, out, took)

-----------------------------------------------------------------------------
(* The specification                                                       *)

CompressorReset ==
  /\ stage = "phase1"
  /\ key = 0 /\ text = <<>> /\ entries = <<>> /\ at = <<Marker, 1>>
  /\ special = 0 /\ packed = <<>>

CompressorInit == file \in Files /\ CompressorReset

CompressorNext ==
  \/ StartPhase2 \/ ReplaceString \/ Overrun
  \/ StartPhase3 \/ ReplacePair \/ EndPhase3

CompressorSpec == CompressorInit /\ [][CompressorNext]_compressorVars

-----------------------------------------------------------------------------
(* Properties                                                              *)

\* The byte phase 2 put in front is still there: no string that began with it was taken out.
NullIsFirst == text # <<>> /\ Head(text) = 0

\* What is packed so far unpacks to the file: in phase 2 when its escape byte does not
\* occur in the data and is not the byte that marks it there, later (where there is a
\* spare byte, which implies that) when some pair was replaced, and always when the
\* leading null is still in its place (compress.c:77-390, payload-decompress.c:52-206).
UnpacksToInput ==
  /\ stage = "phase2" /\ NullIsFirst /\ key \notin {Marker} \cup ToSet(<<0>> \o Phase1(file))
       => Layer1(Layer2(Phase2)) = file
  /\ stage = "phase3" /\ NullIsFirst /\ Head(packed) # special
       => Layer1(Layer2(Layer3(<<special>> \o packed, Len(Phase2)))) = file
  /\ stage = "done" /\ NullIsFirst /\ packed[2] # special
       => Layer1(Layer2(Layer3(packed, Len(Phase2)))) = file

\* "prepending a null byte to it to indicate done" (compress.c): the data of a finished
\* compression have it, so that the decompressor can tell them from a list of strings.
NullIndicatesDone == stage = "done" => NullIsFirst

===============================================================================
